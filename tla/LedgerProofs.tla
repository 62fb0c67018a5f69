---------------------------- MODULE LedgerProofs ----------------------------
(***************************************************************************)
(* Proofs about Ledger, for any number of workers, accounts, users and     *)
(* requests, any rates with their table of factors, and any bounds.        *)
(***************************************************************************)
EXTENDS Ledger, SequenceTheorems, TLAPS

-----------------------------------------------------------------------------
(* The interest calculation, for every table of factors.                   *)

\* Truncation towards zero yields an integer that is not further from zero than
\* a bound that is a whole multiple of the divisor.
LEMMA TowardsZeroBound ==
    ASSUME NEW n \in Int, NEW d \in Nat \ {0}, NEW b \in Nat, n >= -(b * d)
    PROVE  TowardsZero(n, d) \in Int /\ TowardsZero(n, d) >= -b
<1>1. CASE n >= 0
  BY <1>1 DEF TowardsZero
<1>2. CASE n < 0
  <2> DEFINE q == (-n) \div d
  <2>1. q \in Int /\ (-n) = d * q + ((-n) % d) /\ (-n) % d \in 0..(d - 1)
    BY <1>2
  <2>2. q <= b
    <3> SUFFICES ASSUME q >= b + 1 PROVE FALSE
      BY <2>1
    <3>1. d * q >= d * (b + 1)
      BY <2>1
    <3> QED BY <3>1, <2>1
  <2> QED BY <1>2, <2>1, <2>2 DEF TowardsZero
<1> QED BY <1>1, <1>2

\* Truncation of any integer is an integer.
LEMMA TowardsZeroInt ==
    ASSUME NEW n \in Int, NEW d \in Nat \ {0}
    PROVE  TowardsZero(n, d) \in Int
BY DEF TowardsZero

\* The factor that CalculateInterest looks up is a natural number.
LEMMA GrowthLookup ==
    ASSUME NEW r \in Rates, NEW from \in Int, NEW to \in Int,
           to - from \in 0..MaxTime
    PROVE  Growth[r][NumDays(from, to)] \in Nat
BY InterestAssumption DEF NumDays

\* Interest is a whole number of cents.
LEMMA InterestInt ==
    ASSUME NEW b \in Int, NEW r \in Rates, NEW from \in Int, NEW to \in Int,
           to - from \in 0..MaxTime
    PROVE  CalculateInterest(b, r, from, to) \in Int
<1> DEFINE g == Growth[r][NumDays(from, to)]
<1>1. g \in Nat /\ Scale \in Nat \ {0}
  BY GrowthLookup, InterestAssumption
<1> HIDE DEF g
<1>2. b * g - b * Scale \in Int
  BY <1>1
<1>3. TowardsZero(b * g - b * Scale, Scale) \in Int
  BY <1>1, <1>2, TowardsZeroInt
<1> QED BY <1>3 DEF CalculateInterest, g

\* Interest, negative interest too, never takes more than the balance.
LEMMA InterestCovered ==
    ASSUME NEW b \in Nat, NEW r \in Rates, NEW from \in Int, NEW to \in Int,
           to - from \in 0..MaxTime
    PROVE  b + CalculateInterest(b, r, from, to) >= 0
<1> DEFINE g == Growth[r][NumDays(from, to)]
<1>1. g \in Nat /\ Scale \in Nat \ {0}
  BY GrowthLookup, InterestAssumption
<1> HIDE DEF g
<1>2. b * g - b * Scale \in Int /\ b * g >= 0
  BY <1>1
<1>3. b * g - b * Scale >= -(b * Scale)
  BY <1>1, <1>2
<1>4. TowardsZero(b * g - b * Scale, Scale) \in Int
      /\ TowardsZero(b * g - b * Scale, Scale) >= -b
  BY <1>1, <1>2, <1>3, TowardsZeroBound
<1> QED BY <1>4 DEF CalculateInterest, g

\* No whole day, no interest; and none on an empty account.
LEMMA NoDayNoInterest ==
    ASSUME NEW b \in Int, NEW r \in Rates, NEW t \in Int, 0 <= t, t < Day
    PROVE  CalculateInterest(b, r, 0, t) = 0
<1>1. NumDays(0, t) = 0
  BY InterestAssumption DEF NumDays
<1>2. Growth[r][NumDays(0, t)] = Scale /\ Scale \in Nat \ {0}
  BY <1>1, InterestAssumption
<1>3. b * Scale - b * Scale = 0 /\ 0 \div Scale = 0
  BY <1>2
<1> QED BY <1>2, <1>3 DEF CalculateInterest, TowardsZero

\* A balance of nothing earns nothing, at any rate and over any time
\* (calculate_interest.rs multiplies the principal).
LEMMA NothingEarnsNothing ==
    ASSUME NEW r \in Rates, NEW from \in Int, NEW to \in Int,
           to - from \in 0..MaxTime
    PROVE  CalculateInterest(0, r, from, to) = 0
<1> DEFINE g == Growth[r][NumDays(from, to)]
<1>1. g \in Nat /\ Scale \in Nat \ {0}
  BY GrowthLookup, InterestAssumption
<1> HIDE DEF g
<1>2. 0 * g - 0 * Scale = 0 /\ 0 \div Scale = 0
  BY <1>1
<1> QED BY <1>2 DEF CalculateInterest, TowardsZero, g

\* What CalculateInterest returns is a gain for the time that passed.
LEMMA InterestIsGain ==
    ASSUME NEW b \in Int, NEW r \in Rates, NEW from \in Int, NEW to \in Int,
           to - from \in 0..MaxTime
    PROVE  CalculateInterest(b, r, from, to) \in Gains(b, to - from)
<1>1. CalculateInterest(b, r, from, to) = CalculateInterest(b, r, 0, to - from)
  <2>1. to - from = (to - from) - 0
    OBVIOUS
  <2> QED BY <2>1 DEF CalculateInterest, NumDays
<1>2. to - from \in 0..(to - from)
  OBVIOUS
<1> QED BY <1>1, <1>2 DEF Gains

\* More time allows every gain that less time allows.
LEMMA GainsGrow ==
    ASSUME NEW b \in Int, NEW s \in Int, NEW t \in Int, s <= t
    PROVE  Gains(b, s) \subseteq Gains(b, t)
<1>1. 0..s \subseteq 0..t
  OBVIOUS
<1> QED BY <1>1 DEF Gains

\* Gaining nothing is always allowed.
LEMMA NoGain ==
    ASSUME NEW b \in Int, NEW t \in Nat, Rates # {}
    PROVE  0 \in Gains(b, t)
<1>1. PICK r \in Rates : TRUE
  OBVIOUS
<1>2. CalculateInterest(b, r, 0, 0) = 0
  BY NoDayNoInterest, InterestAssumption
<1>3. 0 \in 0..t
  OBVIOUS
<1> QED BY <1>2, <1>3 DEF Gains
\* Truncation keeps the order, and the sign.
LEMMA TowardsZeroMonotone ==
    ASSUME NEW m \in Nat, NEW n \in Nat, m <= n, NEW d \in Nat \ {0}
    PROVE  TowardsZero(m, d) <= TowardsZero(n, d) /\ TowardsZero(m, d) >= 0
<1> DEFINE p == m \div d
           q == n \div d
<1>1. p \in Int /\ m = d * p + (m % d) /\ m % d \in 0..(d - 1)
  OBVIOUS
<1>2. q \in Int /\ n = d * q + (n % d) /\ n % d \in 0..(d - 1)
  OBVIOUS
<1>3. TowardsZero(m, d) = p /\ TowardsZero(n, d) = q
  BY DEF TowardsZero
<1> HIDE DEF p, q
<1>4. p <= q
  <2> SUFFICES ASSUME p >= q + 1 PROVE FALSE
    BY <1>1, <1>2
  <2>1. d * p >= d * (q + 1)
    BY <1>1, <1>2
  <2> QED BY <2>1, <1>1, <1>2
<1>5. p >= 0
  <2> SUFFICES ASSUME p <= -1 PROVE FALSE
    BY <1>1
  <2>1. d * p <= d * (-1)
    BY <1>1
  <2> QED BY <2>1, <1>1
<1> QED BY <1>3, <1>4, <1>5

\* When factors never shrink, interest does not either, and never takes anything.
LEMMA InterestGrows ==
    ASSUME FactorsGrow, NEW b \in Nat, NEW r \in Rates, NEW from \in Int, NEW s \in Int,
           NEW t \in Int, s - from \in 0..MaxTime, t - from \in 0..MaxTime, s <= t
    PROVE  /\ CalculateInterest(b, r, from, s) <= CalculateInterest(b, r, from, t)
           /\ CalculateInterest(b, r, from, s) >= 0
<1> DEFINE g == Growth[r][NumDays(from, s)]
           h == Growth[r][NumDays(from, t)]
<1>1. g \in Nat /\ h \in Nat /\ Scale \in Nat \ {0}
  BY GrowthLookup, InterestAssumption
<1>2. Scale <= g /\ g <= h
  <2>1. Growth[r][0] = Scale /\ 0 \div Day = 0 /\ 0 \in 0..MaxTime
    BY InterestAssumption
  <2>2. g <= h
    BY DEF FactorsGrow, NumDays
  <2>3. Growth[r][0 \div Day] <= g
    BY <2>1 DEF FactorsGrow, NumDays
  <2> QED BY <2>1, <2>2, <2>3
<1> HIDE DEF g, h
<1>3. b * Scale <= b * g /\ b * g <= b * h /\ b * g \in Nat /\ b * h \in Nat /\ b * Scale \in Nat
  BY <1>1, <1>2
<1>4. PICK m \in Nat : m = b * g - b * Scale
  BY <1>3
<1>5. PICK n \in Nat : n = b * h - b * Scale /\ m <= n
  BY <1>3, <1>4
<1>6. TowardsZero(m, Scale) <= TowardsZero(n, Scale) /\ TowardsZero(m, Scale) >= 0
  BY <1>1, <1>5, TowardsZeroMonotone
<1> QED BY <1>4, <1>5, <1>6 DEF CalculateInterest, g, h

\* Before a day has passed there is none.
LEMMA WithinTheDay ==
    ASSUME NEW b \in Int, NEW r \in Rates, NEW from \in Int, NEW to \in Int,
           0 <= to - from, to - from < Day
    PROVE  CalculateInterest(b, r, from, to) = 0
<1>1. CalculateInterest(b, r, from, to) = CalculateInterest(b, r, 0, to - from)
  BY DEF CalculateInterest, NumDays
<1> QED BY <1>1, NoDayNoInterest

-----------------------------------------------------------------------------
(* The last row of an account, and what a new row changes.                 *)

\* Rows are dated no later than now, and so is the reading of pay_interest.
Dated ==
    /\ \A a \in Accounts : \A i \in 1..Len(rows[a]) : rows[a][i].at <= now
    /\ \A w \in Workers : checkedAt[w] <= now

TypedAndDated == TypeOK /\ Dated

\* What a worker's position says of the call it serves.
PhaseOK ==
    \A w \in Workers :
        /\ pc[w] # "idle" => Valid(req[w])
        /\ pc[w] \in {"findAccount", "findLast", "insert", "publish"} =>
              req[w].kind # "changeInterest"
        /\ pc[w] = "publish" => rowIx[w] \in Nat \ {0}

Sound == TypedAndDated /\ PhaseOK

\* A rate that is stored is a rate.
LEMMA StoredRates == StorableRates \subseteq Rates /\ DefaultRate \in StorableRates
BY LedgerAssumption

\* An account with rows has a last one.
LEMMA LastRowTyped ==
    ASSUME TypedAndDated, NEW a \in Accounts, HasRows(a)
    PROVE  /\ Len(rows[a]) \in Nat \ {0}
           /\ LastRow(a) \in Row
           /\ LastRow(a).balance \in Int
           /\ LastRow(a).at \in 0..now
           /\ now - LastRow(a).at \in 0..MaxTime
<1>1. rows[a] \in Seq(Row) /\ now \in 0..MaxTime /\ MaxTime \in Nat
  BY InterestAssumption DEF TypedAndDated, TypeOK
<1>2. Len(rows[a]) \in Nat \ {0}
  BY <1>1, EmptySeq DEF HasRows
<1>3. rows[a][Len(rows[a])] \in Row
  BY <1>1, <1>2, ElementOfSeq
<1>4. rows[a][Len(rows[a])].at <= now
  BY <1>2 DEF TypedAndDated, Dated
<1> QED BY <1>1, <1>2, <1>3, <1>4 DEF LastRow, Row

\* The interest on the last row up to now, at any rate, is a whole number that
\* does not take more than a balance that is not negative.
LEMMA LastRowInterest ==
    ASSUME TypedAndDated, NEW a \in Accounts, HasRows(a), NEW r \in Rates
    PROVE  LET gain == CalculateInterest(LastRow(a).balance, r, LastRow(a).at, now)
           IN  /\ gain \in Int
               /\ gain \in Gains(LastRow(a).balance, now - LastRow(a).at)
               /\ LastRow(a).balance >= 0 => LastRow(a).balance + gain >= 0
<1>1. /\ LastRow(a).balance \in Int /\ LastRow(a).at \in Int /\ now \in Int
      /\ now - LastRow(a).at \in 0..MaxTime
  <2>1. now \in Int
    BY InterestAssumption DEF TypedAndDated, TypeOK
  <2> QED BY <2>1, LastRowTyped
<1> QED BY <1>1, InterestInt, InterestIsGain, InterestCovered

\* The balance get_balance would display is an integer (get_balance.rs).
LEMMA DisplayedInt ==
    ASSUME TypedAndDated, NEW a \in Accounts
    PROVE  Displayed(a) \in Int
<1>1. rate[a] \in Rates
  BY StoredRates DEF TypedAndDated, TypeOK
<1> QED BY <1>1, LastRowTyped, LastRowInterest DEF Displayed

NewRow(kind, m, b) == [kind |-> kind, amount |-> m, balance |-> b, at |-> now]

\* Account a has one more row than before, and nothing else changed.
Extended(a, row) ==
    /\ rows' \in [Accounts -> Seq(Row)]
    /\ \A c \in Accounts \ {a} : rows'[c] = rows[c]
    /\ Len(rows[a]) \in Nat
    /\ Len(rows'[a]) = Len(rows[a]) + 1
    /\ \A i \in 1..Len(rows[a]) : rows'[a][i] = rows[a][i]
    /\ rows'[a][Len(rows[a]) + 1] = row

\* InsertRow adds one row, dated now, at the end of one account.
LEMMA RowInserted ==
    ASSUME TypedAndDated, NEW a \in Accounts, NEW m \in Int, NEW b \in Int,
           NEW kind \in {"deposit", "withdrawal", "interest"},
           InsertRow(a, kind, m, b)
    PROVE  Extended(a, NewRow(kind, m, b))
<1> DEFINE row == NewRow(kind, m, b)
<1>1. row \in Row /\ rows[a] \in Seq(Row)
  BY DEF TypedAndDated, TypeOK, Row, NewRow
<1>2. rows' = [rows EXCEPT ![a] = Append(rows[a], row)]
  BY DEF InsertRow, NewRow
<1>3. rows'[a] = Append(rows[a], row) /\ \A c \in Accounts \ {a} : rows'[c] = rows[c]
  BY <1>2 DEF TypedAndDated, TypeOK
<1>4. Append(rows[a], row) \in Seq(Row)
  BY <1>1, AppendProperties
<1>5. rows' \in [Accounts -> Seq(Row)]
  BY <1>2, <1>4 DEF TypedAndDated, TypeOK
<1> HIDE DEF row
<1>6. /\ Len(rows'[a]) = Len(rows[a]) + 1
      /\ Len(rows[a]) \in Nat
      /\ \A i \in 1..Len(rows[a]) : rows'[a][i] = rows[a][i]
      /\ rows'[a][Len(rows[a]) + 1] = row
  BY <1>1, <1>3, AppendProperties
<1> QED BY <1>3, <1>5, <1>6 DEF row, Extended

\* The case where the transaction tables do not change and time does not pass.
LEMMA DatedKept ==
    ASSUME TypedAndDated, TypeOK', UNCHANGED <<rows, now>>,
           \A w \in Workers : checkedAt'[w] <= now
    PROVE  TypedAndDated'
BY DEF TypedAndDated, Dated

\* The case where a row is inserted.
LEMMA DatedInserted ==
    ASSUME TypedAndDated, TypeOK', NEW a \in Accounts, NEW m \in Int, NEW b \in Int,
           NEW kind \in {"deposit", "withdrawal", "interest"},
           InsertRow(a, kind, m, b), UNCHANGED <<now, checkedAt>>
    PROVE  TypedAndDated'
<1>0. Extended(a, NewRow(kind, m, b))
  BY RowInserted
<1>1. /\ \A c \in Accounts \ {a} : rows'[c] = rows[c]
      /\ Len(rows'[a]) = Len(rows[a]) + 1
      /\ Len(rows[a]) \in Nat
      /\ \A i \in 1..Len(rows[a]) : rows'[a][i] = rows[a][i]
      /\ rows'[a][Len(rows[a]) + 1].at = now
  BY <1>0 DEF Extended, NewRow
<1>2. \A c \in Accounts : \A i \in 1..Len(rows[c]) : rows[c][i].at <= now
  BY DEF TypedAndDated, Dated
<1>3. now <= now
  BY InterestAssumption DEF TypedAndDated, TypeOK
<1>4. ASSUME NEW c \in Accounts, NEW i \in 1..Len(rows'[c])
      PROVE  rows'[c][i].at <= now
  <2>1. CASE c # a
    BY <1>1, <1>2, <1>4, <2>1
  <2>2. CASE c = a
    <3>1. i \in 1..Len(rows[a]) \/ i = Len(rows[a]) + 1
      BY <1>1, <1>4, <2>2
    <3> QED BY <1>1, <1>2, <1>3, <2>2, <3>1
  <2> QED BY <2>1, <2>2
<1> QED BY <1>4 DEF TypedAndDated, Dated

\* The local part of the type invariant.
LEMMA FinishTyped ==
    ASSUME TypedAndDated, NEW w \in Workers, NEW result \in Answers, Finish(w, result)
    PROVE  /\ pc' \in [Workers -> Steps]
           /\ answer' \in [Workers -> Answers]
           /\ seenRate' \in [Workers -> Rates]
           /\ found' \in [Workers -> Int]
           /\ interest' \in [Workers -> Int]
           /\ checkedAt' \in [Workers -> 0..MaxTime]
           /\ \A v \in Workers : checkedAt'[v] <= now
<1>1. DefaultRate \in Rates
  BY StoredRates
<1>2. 0 \in 0..MaxTime /\ 0 <= now
  BY InterestAssumption DEF TypedAndDated, TypeOK
<1> QED BY <1>1, <1>2 DEF TypedAndDated, Dated, TypeOK, Finish, Goto, Steps

\* What withdraw and deposit do with the balance get_balance returned keeps the
\* worker's variables typed.
LEMMA DecideTyped ==
    ASSUME TypedAndDated, NEW w \in Workers, NEW b \in Int, NEW gain \in Int,
           Decide(w, b, gain)
    PROVE  /\ pc' \in [Workers -> Steps]
           /\ answer' \in [Workers -> Answers]
           /\ seenRate' \in [Workers -> Rates]
           /\ found' \in [Workers -> Int]
           /\ interest' \in [Workers -> Int]
           /\ checkedAt' \in [Workers -> 0..MaxTime]
           /\ \A v \in Workers : checkedAt'[v] <= now
<1>1. CASE Finish(w, "refused")
  BY <1>1, FinishTyped DEF Answers
<1>2. CASE /\ Remember(w, b, gain) /\ Goto(w, "insert")
           /\ UNCHANGED <<seenRate, answer, checkedAt>>
  BY <1>2 DEF TypedAndDated, Dated, TypeOK, Remember, Goto, Steps
<1> QED BY <1>1, <1>2 DEF Decide

\* What a worker holds is typed.
LEMMA LocalsTyped ==
    ASSUME TypedAndDated, NEW w \in Workers
    PROVE  found[w] \in Int /\ interest[w] \in Int /\ seenRate[w] \in Rates
BY DEF TypedAndDated, TypeOK

\* The request a worker serves names an account and a rate.
LEMMA RequestTyped ==
    ASSUME TypedAndDated, NEW w \in Workers
    PROVE  /\ req[w] \in Requests
           /\ req[w].kind \in Kinds /\ req[w].account \in Accounts
           /\ req[w].cents \in Int /\ req[w].rate \in Rates
BY LedgerAssumption DEF TypedAndDated, TypeOK

\* Every step of every request keeps the types, and the rows in the order of
\* the clock.
LEMMA TypedAndDatedStep ==
    ASSUME Sound, [Next]_vars
    PROVE  TypedAndDated'
<1> USE DEF ledgerVars, localVars, historyVars
<1>0. TypedAndDated /\ PhaseOK
  BY DEF Sound
<1> USE <1>0
<1>1. ASSUME NEW w \in Workers, NEW r \in Requests, Accept(w, r)
      PROVE  TypedAndDated'
  <2>1. r.account \in Accounts /\ rate[r.account] \in Rates /\ MaxRequests \in Nat
    BY LedgerAssumption DEF TypedAndDated, TypeOK
  <2>2. Displayed(r.account) \in Int
    BY <2>1, DisplayedInt
  <2>3. TypeOK'
    BY SMTT(30), <1>1, <2>1, <2>2 DEF Accept, TypedAndDated, TypeOK, Goto, Steps, Answers
  <2> QED BY <1>1, <2>3, DatedKept DEF Accept, TypedAndDated, Dated
<1>2. ASSUME NEW w \in Workers, NEW r \in Requests, Reject(w, r)
      PROVE  TypedAndDated'
  <2>1. r.account \in Accounts /\ MaxRequests \in Nat
    BY LedgerAssumption
  <2>2. Displayed(r.account) \in Int
    BY <2>1, DisplayedInt
  <2>3. TypeOK'
    BY SMTT(30), <1>2, <2>1, <2>2 DEF Reject, TypedAndDated, TypeOK, Answers
  <2> QED BY <1>2, <2>3, DatedKept DEF Reject, TypedAndDated, Dated
<1>3. ASSUME NEW w \in Workers, PayFindLast(w)
      PROVE  TypedAndDated'
  <2> DEFINE a == req[w].account
  <2>1. a \in Accounts /\ seenRate[w] \in Rates
    BY RequestTyped DEF TypedAndDated, TypeOK
  <2>2. HasRows(a) =>
          /\ LastRow(a).balance \in Int
          /\ CalculateInterest(LastRow(a).balance, seenRate[w], LastRow(a).at, now) \in Int
    BY <2>1, LastRowTyped, LastRowInterest
  <2>3. pc' \in [Workers -> Steps]
    BY <1>3 DEF PayFindLast, Goto, AfterPay, Steps, TypedAndDated, TypeOK
  <2>4. found' \in [Workers -> Int] /\ interest' \in [Workers -> Int]
    BY <1>3, <2>2 DEF PayFindLast, Remember, InterestDue, TypedAndDated, TypeOK
  <2>5. TypeOK' /\ \A v \in Workers : checkedAt'[v] <= now
    <3>1. UNCHANGED <<rows, rate, published, now, accepted, req, seenRate, rowIx,
                      answer, disturbed, shown>>
      BY <1>3 DEF PayFindLast
    <3>2. checkedAt' = [checkedAt EXCEPT ![w] = now]
      BY <1>3 DEF PayFindLast
    <3>3. now <= now
      BY InterestAssumption DEF TypedAndDated, TypeOK
    <3> QED BY <2>3, <2>4, <3>1, <3>2, <3>3 DEF TypedAndDated, Dated, TypeOK
  <2> QED BY <1>3, <2>5, DatedKept DEF PayFindLast
<1>4. ASSUME NEW w \in Workers, PayInsert(w)
      PROVE  TypedAndDated'
  <2>1. req[w].account \in Accounts /\ interest[w] \in Int /\ found[w] + interest[w] \in Int
    BY RequestTyped DEF TypedAndDated, TypeOK
  <2>2. InsertRow(req[w].account, "interest", interest[w], found[w] + interest[w])
    BY <1>4 DEF PayInsert
  <2>3. rows' \in [Accounts -> Seq(Row)]
    BY <2>1, <2>2, RowInserted DEF Extended
  <2>4. pc' \in [Workers -> Steps]
    BY <1>4 DEF PayInsert, Goto, AfterPay, Steps, TypedAndDated, TypeOK
  <2>5. TypeOK'
    <3>1. found' \in [Workers -> Int] /\ interest' \in [Workers -> Int]
      BY <1>4 DEF PayInsert, Remember, TypedAndDated, TypeOK
    <3>2. UNCHANGED <<rate, published, now, accepted, req, seenRate, rowIx, answer,
                      disturbed, checkedAt, shown>>
      BY <1>4 DEF PayInsert
    <3> QED BY <2>3, <2>4, <3>1, <3>2 DEF TypedAndDated, TypeOK
  <2> QED BY <1>4, <2>1, <2>2, <2>5, DatedInserted DEF PayInsert
<1>5. ASSUME NEW w \in Workers, FindAccount(w)
      PROVE  TypedAndDated'
  <2>1. rate[req[w].account] \in Rates
    BY RequestTyped, StoredRates DEF TypedAndDated, TypeOK
  <2>2. TypeOK'
    BY <1>5, <2>1 DEF FindAccount, Goto, Steps, TypedAndDated, TypeOK
  <2> QED BY <1>5, <2>2, DatedKept DEF FindAccount, TypedAndDated, Dated
<1>6. ASSUME NEW w \in Workers, NEW b \in Int, NEW gain \in Int, Decide(w, b, gain),
             disturbed' \in SUBSET Accounts,
             UNCHANGED <<ledgerVars, now, accepted, req, rowIx, shown>>
      PROVE  TypedAndDated'
  <2>1. TypeOK'
    BY <1>6, DecideTyped DEF TypedAndDated, TypeOK
  <2> QED BY <1>6, <2>1, DecideTyped, DatedKept
<1>7. ASSUME NEW w \in Workers, FindLast(w)
      PROVE  TypedAndDated'
  <2> DEFINE a == req[w].account
  <2>1. a \in Accounts /\ seenRate[w] \in Rates
    BY RequestTyped DEF TypedAndDated, TypeOK
  <2>2. HasRows(a) =>
          /\ LastRow(a).balance \in Int
          /\ CalculateInterest(LastRow(a).balance, seenRate[w], LastRow(a).at, now) \in Int
    BY <2>1, LastRowTyped, LastRowInterest
  <2>3. \E b, gain \in Int : Decide(w, b, gain)
    BY <1>7, <2>2 DEF FindLast
  <2> QED BY <1>6, <1>7, <2>3 DEF FindLast, TypedAndDated, TypeOK
<1>8. ASSUME NEW w \in Workers, FindLastFails(w)
      PROVE  TypedAndDated'
  <2>1. Decide(w, 0, 0) /\ disturbed' \in SUBSET Accounts
    BY <1>8, RequestTyped DEF FindLastFails, TypedAndDated, TypeOK
  <2> QED BY <1>6, <1>8, <2>1 DEF FindLastFails
<1>9. ASSUME NEW w \in Workers, Insert(w)
      PROVE  TypedAndDated'
  <2> DEFINE r == req[w]
             b == found[w] + interest[w] + Signed(r.kind, r.cents)
  <2>1. r.account \in Accounts /\ r.cents \in Int /\ b \in Int
    BY RequestTyped, LocalsTyped DEF Signed
  <2>2. r.kind \in {"deposit", "withdrawal"}
    BY <1>9, RequestTyped DEF Insert, PhaseOK, Kinds
  <2>3. InsertRow(r.account, r.kind, r.cents, b)
    BY <1>9 DEF Insert
  <2> HIDE DEF b
  <2>4. Extended(r.account, NewRow(r.kind, r.cents, b))
    BY <2>1, <2>2, <2>3, RowInserted
  <2>5. TypeOK'
    <3>1. UNCHANGED <<rate, published, now, accepted, req, seenRate, found, interest,
                      answer, disturbed, checkedAt, shown>>
      BY <1>9 DEF Insert
    <3>2. pc' \in [Workers -> Steps]
      BY <1>9 DEF Insert, Goto, Steps, TypedAndDated, TypeOK
    <3>3. rowIx' \in [Workers -> Nat]
      BY <1>9, <2>4 DEF Insert, Extended, TypedAndDated, TypeOK
    <3>4. rows' \in [Accounts -> Seq(Row)]
      BY <2>4 DEF Extended
    <3> QED BY <3>1, <3>2, <3>3, <3>4 DEF TypedAndDated, TypeOK
  <2> QED BY <1>9, <2>1, <2>2, <2>3, <2>5, DatedInserted DEF Insert
<1>10. ASSUME NEW w \in Workers, NEW result \in Answers, Finish(w, result),
              published' \subseteq Accounts \X (Nat \ {0}),
              rate' \in [Accounts -> StorableRates],
              UNCHANGED <<rows, now, accepted, req, rowIx, disturbed, shown>>
       PROVE  TypedAndDated'
  <2>1. TypeOK'
    BY <1>10, FinishTyped DEF TypedAndDated, TypeOK
  <2> QED BY <1>10, <2>1, FinishTyped, DatedKept
<1>11. ASSUME NEW w \in Workers, Publish(w)
       PROVE  TypedAndDated'
  <2>1. published' \subseteq Accounts \X (Nat \ {0})
    BY SMTT(30), <1>11, RequestTyped DEF Publish, PhaseOK, TypedAndDated, TypeOK
  <2>2. \E result \in Answers : Finish(w, result)
    BY <1>11 DEF Publish, Answers
  <2> QED BY <1>10, <1>11, <2>1, <2>2 DEF Publish, TypedAndDated, TypeOK
<1>12. ASSUME NEW w \in Workers, Update(w)
       PROVE  TypedAndDated'
  <2>1. rate' \in [Accounts -> StorableRates]
    BY <1>12, RequestTyped DEF Update, TypedAndDated, TypeOK
  <2> QED BY <1>10, <1>12, <2>1 DEF Update, TypedAndDated, TypeOK, Answers
<1>13. ASSUME NEW w \in Workers, Fail(w)
       PROVE  TypedAndDated'
  BY <1>10, <1>13 DEF Fail, TypedAndDated, TypeOK, Answers
<1>14. CASE Tick
  <2>1. TypeOK'
    BY <1>14, InterestAssumption DEF Tick, TypedAndDated, TypeOK
  <2>2. \A a \in Accounts : \A i \in 1..Len(rows[a]) : rows[a][i].at \in Int
    <3>1. ASSUME NEW a \in Accounts, NEW i \in 1..Len(rows[a])
          PROVE  rows[a][i].at \in Int
      <4>1. rows[a] \in Seq(Row)
        BY DEF TypedAndDated, TypeOK
      <4>2. rows[a][i] \in Row
        BY <4>1, <3>1, ElementOfSeq
      <4> QED BY <4>2, InterestAssumption DEF Row
    <3> QED BY <3>1
  <2>3. now' = now + 1 /\ now \in Int /\ UNCHANGED <<rows, checkedAt>>
    BY <1>14, InterestAssumption DEF Tick, TypedAndDated, TypeOK
  <2>4. Dated'
    BY <2>2, <2>3 DEF TypedAndDated, TypeOK, Dated
  <2> QED BY <2>1, <2>4 DEF TypedAndDated
<1>15. CASE UNCHANGED vars
  BY <1>15 DEF vars, TypedAndDated, TypeOK, Dated
<1> QED
  BY <1>1, <1>2, <1>3, <1>4, <1>5, <1>7, <1>8, <1>9, <1>11, <1>12, <1>13, <1>14,
     <1>15 DEF Next, Serve, Quiescent

\* A worker moves on to a step that fits its call.
LEMMA PhaseStep ==
    ASSUME Sound, [Next]_vars
    PROVE  PhaseOK'
<1> USE DEF ledgerVars, localVars, historyVars
<1>0. TypedAndDated /\ PhaseOK /\ TypeOK
  BY DEF Sound, TypedAndDated
<1> USE <1>0
<1>1. ASSUME NEW w \in Workers, NEW r \in Requests, Accept(w, r)
      PROVE  PhaseOK'
  BY <1>1 DEF Accept, PhaseOK, TypeOK, Goto, Valid
<1>2. ASSUME NEW w \in Workers, NEW r \in Requests, Reject(w, r)
      PROVE  PhaseOK'
  BY <1>2 DEF Reject, PhaseOK, TypeOK
<1>3. ASSUME NEW w \in Workers, PayFindLast(w)
      PROVE  PhaseOK'
  BY <1>3 DEF PayFindLast, PhaseOK, TypeOK, Goto, AfterPay
<1>4. ASSUME NEW w \in Workers, PayInsert(w)
      PROVE  PhaseOK'
  BY <1>4 DEF PayInsert, PhaseOK, TypeOK, Goto, AfterPay
<1>5. ASSUME NEW w \in Workers, FindAccount(w)
      PROVE  PhaseOK'
  BY <1>5 DEF FindAccount, PhaseOK, TypeOK, Goto
<1>6. ASSUME NEW w \in Workers, NEW b, NEW gain, Decide(w, b, gain), pc[w] = "findLast",
             UNCHANGED <<req, rowIx>>
      PROVE  PhaseOK'
  BY <1>6 DEF Decide, Finish, PhaseOK, TypeOK, Goto
<1>7. ASSUME NEW w \in Workers, FindLast(w) \/ FindLastFails(w)
      PROVE  PhaseOK'
  BY <1>6, <1>7 DEF FindLast, FindLastFails
<1>8. ASSUME NEW w \in Workers, Insert(w)
      PROVE  PhaseOK'
  <2>1. Len(rows[req[w].account]) \in Nat
    BY RequestTyped, LenProperties DEF TypeOK
  <2> QED BY SMTT(30), <1>8, <2>1 DEF Insert, PhaseOK, TypeOK, Goto
<1>9. ASSUME NEW w \in Workers, Publish(w) \/ Update(w) \/ Fail(w)
      PROVE  PhaseOK'
  BY <1>9 DEF Publish, Update, Fail, Finish, PhaseOK, TypeOK, Goto
<1>10. CASE Tick
  BY <1>10 DEF Tick, PhaseOK
<1>11. CASE UNCHANGED vars
  BY <1>11 DEF vars, PhaseOK
<1> QED
  BY <1>1, <1>2, <1>3, <1>4, <1>5, <1>7, <1>8, <1>9, <1>10, <1>11
  DEF Next, Serve, Quiescent

\* No request has run and no row exists at first, which is sound.
LEMMA SoundInit == Init => Sound
<1> SUFFICES ASSUME Init PROVE Sound
  OBVIOUS
<1>1. (CHOOSE r \in Requests : TRUE) \in Requests
  BY LedgerAssumption
<1>2. TypeOK
  BY <1>1, EmptySeq, LedgerAssumption, InterestAssumption
     DEF Init, TypeOK, Steps, Answers
<1>3. Dated /\ PhaseOK
  BY EmptySeq DEF Init, Dated, PhaseOK
<1> QED BY <1>2, <1>3 DEF Sound, TypedAndDated

\* Every reachable state of the ledger is sound.
LEMMA SoundInv == Spec => []Sound
<1>1. Sound /\ [Next]_vars => Sound'
  BY TypedAndDatedStep, PhaseStep DEF Sound
<1> QED BY <1>1, SoundInit, PTL DEF Spec

\* Every reachable state is well typed.
THEOREM TypeCorrect == Spec => []TypeOK
<1>1. Sound => TypeOK
  BY DEF Sound, TypedAndDated
<1> QED BY <1>1, SoundInv, PTL

-----------------------------------------------------------------------------
(* Balances are never negative.                                            *)

\* A row that is about to be inserted does not record a negative balance.
Funded ==
    \A w \in Workers :
        /\ pc[w] \in {"payInsert", "insert"} => found[w] + interest[w] >= 0
        /\ pc[w] = "insert" /\ req[w].kind = "withdrawal" =>
              found[w] + interest[w] - req[w].cents >= 0

NonNegativeInv == Sound /\ NonNegativeBalances /\ Funded

\* An account with rows, none of them negative, has a last one that is not.
LEMMA LastRowNonNegative ==
    ASSUME TypedAndDated, NonNegativeBalances, NEW a \in Accounts, HasRows(a)
    PROVE  LastRow(a).balance >= 0
<1>1. Len(rows[a]) \in 1..Len(rows[a])
  BY LastRowTyped
<1> QED BY <1>1 DEF NonNegativeBalances, LastRow

\* Inserting a row whose balance is not negative keeps the ledger free of
\* negative balances (InsertRow is the only writer of `transactions').
LEMMA NonNegativeInserted ==
    ASSUME NonNegativeBalances, NEW a \in Accounts, NEW row,
           Extended(a, row), row.balance >= 0
    PROVE  NonNegativeBalances'
<1> SUFFICES ASSUME NEW c \in Accounts, NEW i \in 1..Len(rows'[c])
             PROVE  rows'[c][i].balance >= 0
  BY DEF NonNegativeBalances
<1>1. CASE c # a
  BY <1>1 DEF Extended, NonNegativeBalances
<1>2. CASE c = a
  <2>1. i \in 1..Len(rows[a]) \/ i = Len(rows[a]) + 1
    BY <1>2 DEF Extended
  <2> QED BY <1>2, <2>1 DEF Extended, NonNegativeBalances
<1> QED BY <1>1, <1>2

\* Every insertion of a row is funded.
LEMMA NonNegativeStep ==
    ASSUME NonNegativeInv, [Next]_vars
    PROVE  NonNegativeBalances'
<1> USE DEF ledgerVars, localVars, historyVars
<1>0. TypedAndDated /\ PhaseOK /\ TypeOK /\ NonNegativeBalances /\ Funded
  BY DEF NonNegativeInv, Sound, TypedAndDated
<1>1. ASSUME NEW w \in Workers, PayInsert(w)
      PROVE  NonNegativeBalances'
  <2> DEFINE a == req[w].account
             row == NewRow("interest", interest[w], found[w] + interest[w])
  <2>1. a \in Accounts /\ interest[w] \in Int /\ found[w] + interest[w] \in Int
    BY <1>0, RequestTyped DEF TypeOK
  <2>2. found[w] + interest[w] >= 0
    BY <1>0, <1>1 DEF PayInsert, Funded
  <2>3. InsertRow(a, "interest", interest[w], found[w] + interest[w])
    BY <1>1 DEF PayInsert
  <2>4. Extended(a, row)
    BY <1>0, <2>1, <2>3, RowInserted
  <2>5. row.balance >= 0
    BY <2>2 DEF NewRow
  <2> QED BY <1>0, <2>1, <2>4, <2>5, NonNegativeInserted
<1>2. ASSUME NEW w \in Workers, Insert(w)
      PROVE  NonNegativeBalances'
  <2> DEFINE r == req[w]
             b == found[w] + interest[w] + Signed(r.kind, r.cents)
             row == NewRow(r.kind, r.cents, b)
  <2>1. r.account \in Accounts /\ r.cents \in Int /\ b \in Int
    BY <1>0, RequestTyped DEF TypeOK, Signed
  <2>2. r.kind \in {"deposit", "withdrawal"} /\ r.cents > 0
    BY <1>0, <1>2, RequestTyped DEF Insert, PhaseOK, Kinds, Valid
  <2>3. b >= 0
    <3>1. found[w] \in Int /\ interest[w] \in Int /\ pc[w] = "insert"
      BY <1>0, <1>2 DEF Insert, TypeOK
    <3> QED BY <1>0, <2>1, <2>2, <3>1 DEF Funded, Signed
  <2>4. InsertRow(r.account, r.kind, r.cents, b)
    BY <1>2 DEF Insert
  <2> HIDE DEF b
  <2>5. Extended(r.account, row)
    BY <1>0, <2>1, <2>2, <2>4, RowInserted
  <2>6. row.balance >= 0
    BY <2>3 DEF NewRow
  <2> QED BY <1>0, <2>1, <2>5, <2>6, NonNegativeInserted
<1>3. CASE UNCHANGED rows
  BY <1>0, <1>3 DEF NonNegativeBalances
<1>4. ASSUME NEW w \in Workers, Serve(w), ~PayInsert(w), ~Insert(w)
      PROVE  UNCHANGED rows
  BY <1>4 DEF Serve, PayFindLast, FindAccount, FindLast, FindLastFails, Publish,
              Update, Fail
<1>5. ASSUME NEW w \in Workers, NEW r \in Requests, Accept(w, r) \/ Reject(w, r)
      PROVE  UNCHANGED rows
  BY <1>5 DEF Accept, Reject
<1>6. CASE Tick \/ Quiescent \/ UNCHANGED vars
  BY <1>3, <1>6 DEF Tick, Quiescent, vars
<1> QED BY <1>1, <1>2, <1>3, <1>4, <1>5, <1>6 DEF Next

\* The balance a worker goes on with is funded: it is that of the last row with
\* its interest, and a withdrawal goes on only if it is covered.
LEMMA FundedStep ==
    ASSUME NonNegativeInv, [Next]_vars
    PROVE  Funded'
<1> USE DEF ledgerVars, localVars, historyVars
<1>0. /\ TypedAndDated /\ PhaseOK /\ TypeOK /\ NonNegativeBalances /\ Funded
      /\ \A w \in Workers : found[w] \in Int /\ interest[w] \in Int
  BY DEF NonNegativeInv, Sound, TypedAndDated, TypeOK
<1>1. ASSUME NEW w \in Workers, NEW r \in Requests, Accept(w, r) \/ Reject(w, r)
      PROVE  Funded'
  BY <1>0, <1>1 DEF Accept, Reject, Goto, Funded, TypeOK
<1>2. ASSUME NEW w \in Workers, PayFindLast(w)
      PROVE  Funded'
  <2> DEFINE a == req[w].account
             gain == CalculateInterest(LastRow(a).balance, seenRate[w], LastRow(a).at, now)
  <2>1. a \in Accounts /\ seenRate[w] \in Rates
    BY <1>0, RequestTyped DEF TypeOK
  <2>2. HasRows(a) => LastRow(a).balance + gain >= 0
    BY <1>0, <2>1, LastRowInterest, LastRowNonNegative
  <2>3. UNCHANGED req /\ \A v \in Workers \ {w} :
            pc'[v] = pc[v] /\ found'[v] = found[v] /\ interest'[v] = interest[v]
    BY <1>0, <1>2 DEF PayFindLast, Goto, Remember, TypeOK
  <2>4. \/ pc'[w] = "payInsert" /\ found'[w] = LastRow(a).balance /\ interest'[w] = gain
           /\ HasRows(a)
        \/ pc'[w] \in {"update", "findAccount"}
    BY <1>0, <1>2 DEF PayFindLast, Goto, Remember, AfterPay, InterestDue, TypeOK
  <2> HIDE DEF gain
  <2> QED BY <1>0, <2>2, <2>3, <2>4 DEF Funded
<1>3. ASSUME NEW w \in Workers, PayInsert(w)
      PROVE  Funded'
  BY <1>0, <1>3 DEF PayInsert, Goto, Remember, AfterPay, Funded, TypeOK
<1>4. ASSUME NEW w \in Workers, FindAccount(w)
      PROVE  Funded'
  BY <1>0, <1>4 DEF FindAccount, Goto, Funded, TypeOK
<1>5. ASSUME NEW w \in Workers, NEW b \in Int, NEW gain \in Int, Decide(w, b, gain),
             b + gain >= 0, UNCHANGED req
      PROVE  Funded'
  <2>0. req[w].cents \in Int
    BY <1>0, RequestTyped
  <2>1. \A v \in Workers \ {w} :
            pc'[v] = pc[v] /\ found'[v] = found[v] /\ interest'[v] = interest[v]
    BY <1>0, <1>5 DEF Decide, Finish, Goto, Remember, TypeOK
  <2>2. \/ pc'[w] = "idle"
        \/ /\ pc'[w] = "insert" /\ found'[w] = b /\ interest'[w] = gain
           /\ req[w].kind = "withdrawal" => b + gain - req[w].cents >= 0
    <3>1. CASE Finish(w, "refused")
      BY <1>0, <3>1 DEF Finish, Goto, TypeOK
    <3>2. CASE /\ req[w].kind = "withdrawal" => EnoughBalance(b + gain, req[w].cents)
               /\ Remember(w, b, gain) /\ Goto(w, "insert")
      BY <1>0, <2>0, <3>2 DEF Remember, Goto, EnoughBalance, TypeOK
    <3> QED BY <1>5, <3>1, <3>2 DEF Decide
  <2> QED BY <1>0, <1>5, <2>0, <2>1, <2>2 DEF Funded
<1>6. ASSUME NEW w \in Workers, FindLast(w)
      PROVE  Funded'
  <2> DEFINE a == req[w].account
             gain == CalculateInterest(LastRow(a).balance, seenRate[w], LastRow(a).at, now)
  <2>1. a \in Accounts /\ seenRate[w] \in Rates
    BY <1>0, RequestTyped DEF TypeOK
  <2>2. HasRows(a) => /\ LastRow(a).balance \in Int /\ gain \in Int
                      /\ LastRow(a).balance + gain >= 0
    BY <1>0, <2>1, LastRowTyped, LastRowInterest, LastRowNonNegative
  <2>3. CASE HasRows(a)
    BY <1>5, <1>6, <2>2, <2>3 DEF FindLast
  <2>4. CASE ~HasRows(a)
    BY <1>5, <1>6, <2>4 DEF FindLast
  <2> QED BY <2>3, <2>4
<1>7. ASSUME NEW w \in Workers, FindLastFails(w)
      PROVE  Funded'
  BY <1>5, <1>7 DEF FindLastFails
<1>8. ASSUME NEW w \in Workers, Insert(w)
      PROVE  Funded'
  BY <1>0, <1>8 DEF Insert, Goto, Funded, TypeOK
<1>9. ASSUME NEW w \in Workers, Publish(w) \/ Update(w) \/ Fail(w)
      PROVE  Funded'
  BY <1>0, <1>9 DEF Publish, Update, Fail, Finish, Goto, Funded, TypeOK
<1>10. CASE Tick \/ Quiescent \/ UNCHANGED vars
  BY <1>0, <1>10 DEF Tick, Quiescent, vars, Funded
<1> QED
  BY <1>1, <1>2, <1>3, <1>4, <1>6, <1>7, <1>8, <1>9, <1>10 DEF Next, Serve

\* No reachable state holds a negative balance, in a row or in a worker
\* (withdraw.rs, pay_interest.rs).
LEMMA NonNegativeInvariance == Spec => []NonNegativeInv
<1>1. Init => NonNegativeInv
  <2>1. Init => NonNegativeBalances /\ Funded
    BY EmptySeq DEF Init, NonNegativeBalances, Funded
  <2> QED BY <2>1, SoundInit DEF NonNegativeInv
<1>2. NonNegativeInv /\ [Next]_vars => NonNegativeInv'
  <2>1. NonNegativeInv /\ [Next]_vars => Sound'
    BY TypedAndDatedStep, PhaseStep DEF NonNegativeInv, Sound
  <2> QED BY <2>1, NonNegativeStep, FundedStep DEF NonNegativeInv
<1> QED BY <1>1, <1>2, PTL DEF Spec

\* No interleaving of requests, failing statement or rate of at least -100%
\* makes the ledger record a negative balance.
THEOREM BalancesNonNegative == Spec => []NonNegativeBalances
<1>1. NonNegativeInv => NonNegativeBalances
  BY DEF NonNegativeInv
<1> QED BY <1>1, NonNegativeInvariance, PTL

-----------------------------------------------------------------------------
(* Accounts whose requests never overlapped.                               *)

LastBalance(a) == IF HasRows(a) THEN LastRow(a).balance ELSE 0
LastCredit(a)  == IF HasRows(a) THEN LastRow(a).at ELSE 0

\* On an undisturbed account at most one request is in progress.
Alone ==
    \A v, w \in Workers :
        /\ v # w /\ pc[v] # "idle" /\ pc[w] # "idle"
        /\ req[v].account = req[w].account
        => req[w].account \in disturbed

\* Its worker still holds the balance of the last row, with interest for no more
\* time than has passed since.
Fresh ==
    \A w \in Workers :
        LET a == req[w].account
        IN  pc[w] \in {"payInsert", "insert"} /\ a \notin disturbed =>
                /\ found[w] = LastBalance(a)
                /\ interest[w] \in Gains(found[w], now - LastCredit(a))

SerialInv == NonNegativeInv /\ Alone /\ Fresh

\* Accepting a second request on an account disturbs it.
LEMMA AloneStep ==
    ASSUME Sound, Alone, [Next]_vars
    PROVE  Alone'
<1> USE DEF ledgerVars, localVars, historyVars
<1>0. TypedAndDated /\ TypeOK /\ Alone
  BY DEF Sound, TypedAndDated
<1>1. ASSUME NEW u \in Workers, NEW r \in Requests, Accept(u, r)
      PROVE  Alone'
  <2> SUFFICES ASSUME NEW v \in Workers, NEW w \in Workers, v # w,
                      pc'[v] # "idle", pc'[w] # "idle",
                      req'[v].account = req'[w].account
               PROVE  req'[w].account \in disturbed'
    BY DEF Alone
  <2>1. /\ req'[u] = r /\ disturbed \subseteq disturbed'
        /\ Busy(u, r.account) => r.account \in disturbed'
        /\ \A x \in Workers \ {u} : pc'[x] = pc[x] /\ req'[x] = req[x]
    BY <1>0, <1>1 DEF Accept, Goto, TypeOK
  <2>2. CASE v # u /\ w # u
    BY <1>0, <2>1, <2>2 DEF Alone
  <2>3. CASE v = u \/ w = u
    BY <2>1, <2>3 DEF Busy
  <2> QED BY <2>2, <2>3
<1>2. ASSUME NEW u \in Workers, NEW r \in Requests, Reject(u, r)
      PROVE  Alone'
  BY <1>0, <1>2 DEF Reject, Alone, TypeOK
<1>3. ASSUME NEW u \in Workers, Serve(u)
      PROVE  Alone'
  <2>1. pc[u] # "idle" /\ \A x \in Workers \ {u} : pc'[x] = pc[x]
    BY <1>0, <1>3
       DEF Serve, PayFindLast, PayInsert, FindAccount, FindLast, FindLastFails, Decide,
           Insert, Publish, Update, Fail, Finish, Goto, TypeOK
  <2>2. req' = req /\ disturbed \subseteq disturbed'
    BY <1>3
       DEF Serve, PayFindLast, PayInsert, FindAccount, FindLast, FindLastFails,
           Insert, Publish, Update, Fail
  <2> QED BY <1>0, <2>1, <2>2 DEF Alone
<1>4. CASE Tick \/ Quiescent \/ UNCHANGED vars
  BY <1>0, <1>4 DEF Tick, Quiescent, vars, Alone
<1> QED BY <1>1, <1>2, <1>3, <1>4 DEF Next

\* The step of one worker that neither inserts a row nor reads a balance leaves
\* what the workers hold as it was.
LEMMA FreshKept ==
    ASSUME Fresh, UNCHANGED <<rows, now>>, disturbed \subseteq disturbed',
           \A w \in Workers :
              pc'[w] \in {"payInsert", "insert"} /\ req'[w].account \notin disturbed' =>
                 \/ /\ pc[w] \in {"payInsert", "insert"} /\ req'[w] = req[w]
                    /\ found'[w] = found[w] /\ interest'[w] = interest[w]
                 \/ /\ found'[w] = LastBalance(req'[w].account)
                    /\ interest'[w] \in Gains(found'[w], now - LastCredit(req'[w].account))
    PROVE  Fresh'
BY DEF Fresh, LastBalance, LastCredit, HasRows, LastRow

\* A new row is the last, and no other worker was holding the old one.
LEMMA FreshInserted ==
    ASSUME Fresh, Alone, NEW w \in Workers, NEW row, Extended(req[w].account, row),
           pc[w] # "idle", pc'[w] \notin {"payInsert", "insert"},
           \A v \in Workers \ {w} : pc'[v] = pc[v],
           req[w].account \in Accounts, \A v \in Workers : req[v].account \in Accounts,
           \A v \in Workers \ {w} : found'[v] = found[v] /\ interest'[v] = interest[v],
           UNCHANGED <<now, req, disturbed>>
    PROVE  Fresh'
<1> SUFFICES ASSUME NEW v \in Workers, pc'[v] \in {"payInsert", "insert"},
                    req[v].account \notin disturbed
             PROVE  /\ found'[v] = LastBalance(req[v].account)'
                    /\ interest'[v] \in Gains(found'[v], now - LastCredit(req[v].account)')
  BY DEF Fresh
<1>1. v # w /\ pc[v] \in {"payInsert", "insert"}
  OBVIOUS
<1>2. req[v].account # req[w].account
  BY <1>1 DEF Alone
<1>3. rows'[req[v].account] = rows[req[v].account]
  BY <1>2 DEF Extended
<1>4. LastBalance(req[v].account)' = LastBalance(req[v].account)
      /\ LastCredit(req[v].account)' = LastCredit(req[v].account)
  BY <1>3 DEF LastBalance, LastCredit, HasRows, LastRow
<1> QED BY <1>1, <1>4 DEF Fresh

\* While no two requests on an account overlap, what a worker has read of the
\* account stays what the last row says.
LEMMA FreshStep ==
    ASSUME SerialInv, [Next]_vars
    PROVE  Fresh'
<1> USE DEF ledgerVars, localVars, historyVars
<1>0. /\ TypedAndDated /\ PhaseOK /\ TypeOK /\ Fresh /\ Alone
      /\ \A w \in Workers : req[w].account \in Accounts /\ seenRate[w] \in Rates
  BY RequestTyped DEF SerialInv, NonNegativeInv, Sound, TypedAndDated, TypeOK
<1>1. ASSUME NEW w \in Workers, NEW r \in Requests, Accept(w, r) \/ Reject(w, r)
      PROVE  Fresh'
  <2>1. /\ UNCHANGED <<rows, now, found, interest>> /\ disturbed \subseteq disturbed'
        /\ pc'[w] \notin {"payInsert", "insert"}
        /\ \A v \in Workers \ {w} : pc'[v] = pc[v] /\ req'[v] = req[v]
    BY <1>0, <1>1 DEF Accept, Reject, Goto, TypeOK
  <2> QED BY <1>0, <2>1, FreshKept
<1>2. ASSUME NEW w \in Workers, PayFindLast(w)
      PROVE  Fresh'
  <2> DEFINE a == req[w].account
             gain == CalculateInterest(LastRow(a).balance, seenRate[w], LastRow(a).at, now)
  <2>1. HasRows(a) => gain \in Gains(LastRow(a).balance, now - LastRow(a).at)
    BY <1>0, LastRowInterest
  <2>2. /\ UNCHANGED <<rows, now, req, disturbed>>
        /\ \A v \in Workers \ {w} :
              pc'[v] = pc[v] /\ found'[v] = found[v] /\ interest'[v] = interest[v]
    BY <1>0, <1>2 DEF PayFindLast, Goto, Remember, TypeOK
  <2>3. \/ /\ HasRows(a) /\ found'[w] = LastRow(a).balance /\ interest'[w] = gain
        \/ pc'[w] \in {"update", "findAccount"}
    BY <1>0, <1>2 DEF PayFindLast, Goto, Remember, AfterPay, InterestDue, TypeOK
  <2> HIDE DEF gain
  <2>4. pc'[w] \in {"payInsert", "insert"} =>
           /\ found'[w] = LastBalance(a)
           /\ interest'[w] \in Gains(found'[w], now - LastCredit(a))
    BY <2>1, <2>3 DEF LastBalance, LastCredit
  <2> QED BY <1>0, <2>2, <2>4, FreshKept
<1>3. ASSUME NEW w \in Workers, PayInsert(w)
      PROVE  Fresh'
  <2>1. interest[w] \in Int /\ found[w] + interest[w] \in Int
    BY <1>0 DEF TypeOK
  <2>2. Extended(req[w].account, NewRow("interest", interest[w], found[w] + interest[w]))
    BY <1>0, <1>3, <2>1, RowInserted DEF PayInsert
  <2>3. /\ pc[w] # "idle" /\ pc'[w] \notin {"payInsert", "insert"}
        /\ \A v \in Workers \ {w} :
              pc'[v] = pc[v] /\ found'[v] = found[v] /\ interest'[v] = interest[v]
        /\ UNCHANGED <<now, req, disturbed>>
    BY <1>0, <1>3 DEF PayInsert, Goto, Remember, AfterPay, TypeOK
  <2> QED BY <1>0, <2>2, <2>3, FreshInserted
<1>4. ASSUME NEW w \in Workers, FindAccount(w)
      PROVE  Fresh'
  <2>1. /\ UNCHANGED <<rows, now, found, interest, req, disturbed>>
        /\ pc'[w] \notin {"payInsert", "insert"}
        /\ \A v \in Workers \ {w} : pc'[v] = pc[v]
    BY <1>0, <1>4 DEF FindAccount, Goto, TypeOK
  <2> QED BY <1>0, <2>1, FreshKept
<1>5. ASSUME NEW w \in Workers, NEW b, NEW gain, Decide(w, b, gain),
             UNCHANGED <<rows, now, req>>, disturbed \subseteq disturbed',
             \/ req[w].account \in disturbed'
             \/ /\ b = LastBalance(req[w].account)
                /\ gain \in Gains(b, now - LastCredit(req[w].account))
      PROVE  Fresh'
  <2>1. \A v \in Workers \ {w} :
           pc'[v] = pc[v] /\ found'[v] = found[v] /\ interest'[v] = interest[v]
    BY <1>0, <1>5 DEF Decide, Finish, Goto, Remember, TypeOK
  <2>2. pc'[w] = "idle" \/ (found'[w] = b /\ interest'[w] = gain)
    BY <1>0, <1>5 DEF Decide, Finish, Goto, Remember, TypeOK
  <2>3. pc'[w] \in {"payInsert", "insert"} /\ req'[w].account \notin disturbed' =>
           /\ found'[w] = LastBalance(req'[w].account)
           /\ interest'[w] \in Gains(found'[w], now - LastCredit(req'[w].account))
    BY <1>5, <2>2
  <2> QED BY <1>0, <1>5, <2>1, <2>3, FreshKept
<1>6. ASSUME NEW w \in Workers, FindLast(w)
      PROVE  Fresh'
  <2> DEFINE a == req[w].account
             gain == CalculateInterest(LastRow(a).balance, seenRate[w], LastRow(a).at, now)
  <2>1. UNCHANGED <<rows, now, req, disturbed>>
    BY <1>6 DEF FindLast
  <2>2. CASE HasRows(a)
    <3>1. gain \in Gains(LastRow(a).balance, now - LastRow(a).at)
      BY <1>0, <2>2, LastRowInterest
    <3>2. Decide(w, LastRow(a).balance, gain)
      BY <1>6, <2>2 DEF FindLast
    <3> HIDE DEF gain
    <3> QED BY <1>5, <2>1, <2>2, <3>1, <3>2 DEF LastBalance, LastCredit
  <2>3. CASE ~HasRows(a)
    <3>1. now \in Nat
      BY <1>0, InterestAssumption DEF TypeOK
    <3>2. 0 \in Gains(0, now - 0)
      BY <1>0, <3>1, NoGain
    <3>3. Decide(w, 0, 0)
      BY <1>6, <2>3 DEF FindLast
    <3> QED BY <1>5, <2>1, <2>3, <3>2, <3>3 DEF LastBalance, LastCredit
  <2> QED BY <2>2, <2>3
<1>7. ASSUME NEW w \in Workers, FindLastFails(w)
      PROVE  Fresh'
  BY <1>5, <1>7 DEF FindLastFails
<1>8. ASSUME NEW w \in Workers, Insert(w)
      PROVE  Fresh'
  <2> DEFINE r == req[w]
             b == found[w] + interest[w] + Signed(r.kind, r.cents)
  <2>1. r.account \in Accounts /\ r.cents \in Int /\ b \in Int
    BY <1>0, RequestTyped DEF TypeOK, Signed
  <2>2. r.kind \in {"deposit", "withdrawal"}
    BY <1>0, <1>8, RequestTyped DEF Insert, PhaseOK, Kinds
  <2>3. InsertRow(r.account, r.kind, r.cents, b)
    BY <1>8 DEF Insert
  <2> HIDE DEF b
  <2>4. Extended(r.account, NewRow(r.kind, r.cents, b))
    BY <1>0, <2>1, <2>2, <2>3, RowInserted
  <2>5. /\ pc[w] # "idle" /\ pc'[w] \notin {"payInsert", "insert"}
        /\ \A v \in Workers \ {w} : pc'[v] = pc[v]
        /\ UNCHANGED <<now, req, disturbed, found, interest>>
    BY <1>0, <1>8 DEF Insert, Goto, TypeOK
  <2> QED BY <1>0, <2>4, <2>5, FreshInserted
<1>9. ASSUME NEW w \in Workers, Publish(w) \/ Update(w) \/ Fail(w)
      PROVE  Fresh'
  <2>1. UNCHANGED <<rows, now, req, disturbed>> /\ \E result \in Answers : Finish(w, result)
    BY <1>9 DEF Publish, Update, Fail, Answers
  <2>2. /\ pc'[w] \notin {"payInsert", "insert"}
        /\ \A v \in Workers \ {w} :
              pc'[v] = pc[v] /\ found'[v] = found[v] /\ interest'[v] = interest[v]
    BY <1>0, <2>1 DEF Finish, Goto, TypeOK
  <2> QED BY <1>0, <2>1, <2>2, FreshKept
<1>10. CASE Tick
  <2> SUFFICES ASSUME NEW w \in Workers, pc[w] \in {"payInsert", "insert"},
                      req[w].account \notin disturbed
               PROVE  /\ found[w] = LastBalance(req[w].account)'
                      /\ interest[w] \in Gains(found[w], now' - LastCredit(req[w].account)')
    BY <1>10 DEF Tick, Fresh
  <2> DEFINE a == req[w].account
  <2>1. LastBalance(a)' = LastBalance(a) /\ LastCredit(a)' = LastCredit(a)
    BY <1>10 DEF Tick, LastBalance, LastCredit, HasRows, LastRow
  <2>2. LastCredit(a) \in Int /\ now \in Int /\ now' = now + 1 /\ found[w] \in Int
    <3>1. now \in Int /\ now' = now + 1 /\ found[w] \in Int
      BY <1>0, <1>10, InterestAssumption DEF Tick, TypeOK
    <3>2. HasRows(a) => LastRow(a).at \in 0..now
      BY <1>0, LastRowTyped
    <3> QED BY <3>1, <3>2 DEF LastCredit
  <2>3. Gains(found[w], now - LastCredit(a)) \subseteq Gains(found[w], now' - LastCredit(a))
    BY <2>2, GainsGrow
  <2> QED BY <1>0, <2>1, <2>3 DEF Fresh
<1>11. CASE Quiescent \/ UNCHANGED vars
  BY <1>0, <1>11, FreshKept DEF Quiescent, vars
<1> QED
  BY <1>1, <1>2, <1>3, <1>4, <1>6, <1>7, <1>8, <1>9, <1>10, <1>11 DEF Next, Serve

\* In the behaviours without overlap at most one worker serves an account, and
\* what it has read is current.
LEMMA SerialInvariance == Spec => [](NonNegativeInv /\ Alone /\ Fresh)
<1>1. Init => Alone /\ Fresh
  BY DEF Init, Alone, Fresh
<1>2. NonNegativeInv /\ Alone /\ Fresh /\ [Next]_vars => (Alone /\ Fresh)'
  BY AloneStep, FreshStep DEF SerialInv, NonNegativeInv
<1> QED BY <1>1, <1>2, NonNegativeInvariance, PTL DEF Spec

-----------------------------------------------------------------------------
(* The refinement of SavingsAccount.                                       *)

\* The balances and times of SavingsAccount in terms of the ledger.
LastBalances == [a \in Accounts |-> LastBalance(a)]
LastCredits  == [a \in Accounts |-> LastCredit(a)]

\* The gains of the two modules are the same.
LEMMA PromiseGains ==
    ASSUME NEW b, NEW t
    PROVE  Promise!Gains(b, t) = Gains(b, t)
BY DEF Promise!Gains, Gains, Promise!CalculateInterest, CalculateInterest,
       Promise!NumDays, NumDays, Promise!TowardsZero, TowardsZero

\* An inserted row settles its account in SavingsAccount.
LEMMA InsertedSettles ==
    ASSUME NEW a \in Accounts, NEW row, Extended(a, row), row.at = now, UNCHANGED now
    PROVE  Promise!Settle(a, row.balance)
<1>1. rows'[a] # <<>> /\ rows'[a][Len(rows'[a])] = row
  <2>1. Len(rows'[a]) # 0 /\ rows'[a][Len(rows'[a])] = row
    BY DEF Extended
  <2> QED BY <2>1, EmptySeq
<1>2. LastBalance(a)' = row.balance /\ LastCredit(a)' = now
  BY <1>1 DEF LastBalance, LastCredit, HasRows, LastRow
<1>3. \A c \in Accounts \ {a} : LastBalance(c)' = LastBalance(c) /\ LastCredit(c)' = LastCredit(c)
  BY DEF Extended, LastBalance, LastCredit, HasRows, LastRow
<1>4. LastBalances' = [LastBalances EXCEPT ![a] = row.balance]
      /\ LastCredits' = [LastCredits EXCEPT ![a] = now]
  BY <1>2, <1>3 DEF LastBalances, LastCredits
<1> QED BY <1>4 DEF Promise!Settle, LastBalances, LastCredits, LastBalance, LastCredit

\* Every step of the ledger without overlap is a step of SavingsAccount or
\* leaves the accounts as they are.
LEMMA PromiseStep ==
    ASSUME NonNegativeInv, Alone, Fresh, [Next]_vars, disturbed = {}
    PROVE  [Promise!Next]_(Promise!accountVars)
<1> USE DEF ledgerVars, localVars, historyVars
<1>0. /\ TypedAndDated /\ PhaseOK /\ TypeOK /\ Funded
      /\ \A w \in Workers : req[w].account \in Accounts
      /\ \A w \in Workers : found[w] \in Int /\ interest[w] \in Int
  BY RequestTyped DEF NonNegativeInv, Sound, TypedAndDated, TypeOK
<1>1. ASSUME NEW w \in Workers, pc[w] \in {"payInsert", "insert"}
      PROVE  LET a == req[w].account
             IN  /\ LastBalances[a] = found[w]
                 /\ interest[w] \in Promise!Gains(LastBalances[a], now - LastCredits[a])
  BY <1>0, <1>1, PromiseGains DEF Fresh, LastBalances, LastCredits
<1>2. ASSUME NEW w \in Workers, PayInsert(w)
      PROVE  Promise!Next
  <2> DEFINE a == req[w].account
             row == NewRow("interest", interest[w], found[w] + interest[w])
  <2>1. interest[w] \in Int /\ found[w] + interest[w] \in Int
    BY <1>0
  <2>2. Extended(a, row)
    BY <1>0, <1>2, <2>1, RowInserted DEF PayInsert
  <2>3. row.balance = found[w] + interest[w] /\ row.at = now /\ now' = now
    BY <1>2 DEF NewRow, PayInsert
  <2>4. Promise!Settle(a, found[w] + interest[w])
    BY <1>0, <2>2, <2>3, InsertedSettles
  <2>5. Promise!Accrue(a, interest[w])
    BY <1>1, <1>2, <2>4 DEF Promise!Accrue, PayInsert, LastBalances, LastBalance
  <2> QED BY <1>0, <1>1, <1>2, <2>5
          DEF Promise!Next, PayInsert, LastBalances, LastBalance, LastCredits, LastCredit
<1>3. ASSUME NEW w \in Workers, Insert(w)
      PROVE  Promise!Next
  <2> DEFINE r == req[w]
             a == r.account
             b == found[w] + interest[w] + Signed(r.kind, r.cents)
             row == NewRow(r.kind, r.cents, b)
  <2>1. r.cents \in Int /\ b \in Int /\ r \in Requests
    BY <1>0, RequestTyped DEF Signed
  <2>2. r.kind \in {"deposit", "withdrawal"} /\ r.cents > 0
    BY <1>0, <1>3, RequestTyped DEF Insert, PhaseOK, Kinds, Valid
  <2>3. InsertRow(a, r.kind, r.cents, b) /\ pc[w] = "insert" /\ now' = now
    BY <1>3 DEF Insert
  <2>4. Promise!Settle(a, b)
    <3>1. Extended(a, row)
      BY <1>0, <2>1, <2>2, <2>3, RowInserted
    <3>2. row.balance = b /\ row.at = now
      BY DEF NewRow
    <3> QED BY <1>0, <2>3, <3>1, <3>2, InsertedSettles
  <2>5. CASE r.kind = "deposit"
    <3>1. b = LastBalances[a] + interest[w] + r.cents
      BY <1>0, <1>1, <2>1, <2>3, <2>5 DEF Signed
    <3>2. Promise!Deposit(a, interest[w], r.cents)
      BY <2>2, <2>4, <3>1 DEF Promise!Deposit, LastBalances, LastBalance
    <3> QED BY <1>0, <1>1, <2>1, <2>3, <3>2
            DEF Promise!Next, LastBalances, LastBalance, LastCredits, LastCredit
  <2>6. CASE r.kind = "withdrawal"
    <3>1. b = LastBalances[a] + interest[w] - r.cents
      BY <1>0, <1>1, <2>1, <2>3, <2>6 DEF Signed
    <3>2. r.cents <= LastBalances[a] + interest[w]
      BY <1>0, <1>1, <2>1, <2>3, <2>6 DEF Funded
    <3>3. Promise!Withdraw(a, interest[w], r.cents)
      BY <2>2, <2>4, <3>1, <3>2 DEF Promise!Withdraw, LastBalances, LastBalance
    <3> QED BY <1>0, <1>1, <2>1, <2>3, <3>3
            DEF Promise!Next, LastBalances, LastBalance, LastCredits, LastCredit
  <2> QED BY <2>2, <2>5, <2>6
<1>4. CASE UNCHANGED <<rows, now>>
  BY <1>4 DEF Promise!accountVars, HasRows, LastRow
<1>5. ASSUME NEW w \in Workers, Serve(w), ~PayInsert(w), ~Insert(w)
      PROVE  UNCHANGED <<rows, now>>
  BY <1>5 DEF Serve, PayFindLast, FindAccount, FindLast, FindLastFails, Publish,
              Update, Fail
<1>6. ASSUME NEW w \in Workers, NEW r \in Requests, Accept(w, r) \/ Reject(w, r)
      PROVE  UNCHANGED <<rows, now>>
  BY <1>6 DEF Accept, Reject
<1>7. CASE Tick
  BY <1>7 DEF Tick, Promise!Next, Promise!Pass, HasRows, LastRow
<1>8. CASE Quiescent \/ UNCHANGED vars
  BY <1>4, <1>8 DEF Quiescent, vars
<1> QED BY <1>2, <1>3, <1>4, <1>5, <1>6, <1>7, <1>8 DEF Next

\* As long as requests on one account do not overlap and no balance lookup fails,
\* the ledger implements SavingsAccount: the last row of an account is its
\* balance, moved only by deposits, covered withdrawals and interest for time
\* that has passed once.
THEOREM SerialLedgerKeepsPromise == SerialSpec => KeepsPromise
<1>1. Init => Promise!Init /\ disturbed = {}
  BY DEF Init, Promise!Init, HasRows
<1>2. disturbed = {} /\ [Next /\ disturbed' = {}]_vars
        => (disturbed = {})' /\ [Next]_vars
  BY DEF vars
<1>3. NonNegativeInv /\ Alone /\ Fresh /\ disturbed = {} /\ [Next]_vars
        => [Promise!Next]_(Promise!accountVars)
  BY PromiseStep
<1>4. SerialSpec => Spec /\ [](disturbed = {})
  BY <1>1, <1>2, PTL DEF SerialSpec, Spec
<1> QED
  BY <1>1, <1>2, <1>3, <1>4, SerialInvariance, PTL
  DEF SerialSpec, Spec, KeepsPromise, Promise!Spec

-----------------------------------------------------------------------------
(* One worker's step, and what it leaves alone.                            *)

\* What the workers other than w hold stays.
OthersStay(w) ==
    \A v \in Workers \ {w} :
        /\ pc'[v] = pc[v] /\ req'[v] = req[v] /\ rowIx'[v] = rowIx[v]
        /\ answer'[v] = answer[v] /\ seenRate'[v] = seenRate[v] /\ found'[v] = found[v]
        /\ interest'[v] = interest[v] /\ checkedAt'[v] = checkedAt[v]
        /\ shown'[v] = shown[v]

LEMMA FinishAlone ==
    ASSUME TypeOK, NEW w \in Workers, NEW result, Finish(w, result)
    PROVE  /\ pc'[w] = "idle" /\ answer'[w] = result
           /\ \A v \in Workers \ {w} :
                 /\ pc'[v] = pc[v] /\ answer'[v] = answer[v] /\ seenRate'[v] = seenRate[v]
                 /\ found'[v] = found[v] /\ interest'[v] = interest[v]
                 /\ checkedAt'[v] = checkedAt[v]
BY DEF Finish, Goto, TypeOK

LEMMA DecideAlone ==
    ASSUME TypeOK, NEW w \in Workers, NEW b, NEW gain, Decide(w, b, gain)
    PROVE  /\ \/ /\ pc'[w] = "idle" /\ answer'[w] = "refused" /\ req[w].kind = "withdrawal"
                 /\ ~EnoughBalance(b + gain, req[w].cents)
              \/ /\ pc'[w] = "insert" /\ found'[w] = b /\ interest'[w] = gain
                 /\ UNCHANGED <<seenRate, answer, checkedAt>>
           /\ \A v \in Workers \ {w} :
                 /\ pc'[v] = pc[v] /\ answer'[v] = answer[v] /\ seenRate'[v] = seenRate[v]
                 /\ found'[v] = found[v] /\ interest'[v] = interest[v]
                 /\ checkedAt'[v] = checkedAt[v]
<1>1. CASE Finish(w, "refused") /\ req[w].kind = "withdrawal"
           /\ ~EnoughBalance(b + gain, req[w].cents)
  BY <1>1, FinishAlone
<1>2. CASE /\ Remember(w, b, gain) /\ Goto(w, "insert")
           /\ UNCHANGED <<seenRate, answer, checkedAt>>
  BY <1>2 DEF Remember, Goto, TypeOK
<1> QED BY <1>1, <1>2 DEF Decide

\* A request in progress moves its own worker, and undisturbs no account.
LEMMA ServeAlone ==
    ASSUME TypeOK, NEW w \in Workers, Serve(w)
    PROVE  /\ OthersStay(w) /\ pc[w] # "idle"
           /\ UNCHANGED <<now, req, shown>> /\ disturbed \subseteq disturbed'
<1> USE DEF ledgerVars, localVars, historyVars
<1>1. /\ pc[w] # "idle" /\ UNCHANGED <<now, req, shown>> /\ disturbed \subseteq disturbed'
  BY DEF Serve, PayFindLast, PayInsert, FindAccount, FindLast, FindLastFails, Insert,
         Publish, Update, Fail
<1>2. CASE PayFindLast(w) \/ PayInsert(w)
  BY <1>1, <1>2 DEF PayFindLast, PayInsert, Remember, Goto, TypeOK, OthersStay
<1>3. CASE FindAccount(w) \/ Insert(w)
  BY <1>1, <1>3 DEF FindAccount, Insert, Goto, TypeOK, OthersStay
<1>4. CASE FindLast(w) \/ FindLastFails(w)
  <2>1. UNCHANGED rowIx /\ \E b, gain : Decide(w, b, gain)
    BY <1>4 DEF FindLast, FindLastFails
  <2> QED BY <1>1, <2>1, DecideAlone DEF OthersStay
<1>5. CASE Publish(w) \/ Update(w) \/ Fail(w)
  <2>1. UNCHANGED rowIx /\ \E result : Finish(w, result)
    BY <1>5 DEF Publish, Update, Fail
  <2> QED BY <1>1, <2>1, FinishAlone DEF OthersStay
<1> QED BY <1>1, <1>2, <1>3, <1>4, <1>5 DEF Serve

LEMMA ArriveAlone ==
    ASSUME TypeOK, NEW w \in Workers, NEW r \in Requests, Accept(w, r) \/ Reject(w, r)
    PROVE  /\ OthersStay(w) /\ pc[w] = "idle" /\ req'[w] = r /\ rowIx'[w] = 0
           /\ UNCHANGED <<rows, rate, published, now, found, interest, checkedAt>>
           /\ disturbed \subseteq disturbed'
           /\ \/ pc'[w] = "payFindLast" /\ answer'[w] = "none"
              \/ pc'[w] = "idle" /\ answer'[w] = "refused" /\ ~(Authorised(r) /\ Valid(r))
<1> USE DEF ledgerVars, localVars, historyVars
<1>1. CASE Accept(w, r)
  BY <1>1 DEF Accept, Goto, TypeOK, OthersStay
<1>2. CASE Reject(w, r)
  BY <1>2 DEF Reject, TypeOK, OthersStay
<1> QED BY <1>1, <1>2

\* The row pay_interest inserts, and the row of the call.
LEMMA InterestRow ==
    ASSUME Sound, NEW w \in Workers, PayInsert(w)
    PROVE  /\ Extended(req[w].account, NewRow("interest", interest[w], found[w] + interest[w]))
           /\ req[w].account \in Accounts
<1>1. TypedAndDated /\ req[w].account \in Accounts /\ interest[w] \in Int
      /\ found[w] + interest[w] \in Int
  BY RequestTyped, LocalsTyped DEF Sound
<1> QED BY <1>1, RowInserted DEF PayInsert

LEMMA CallRow ==
    ASSUME Sound, NEW w \in Workers, Insert(w)
    PROVE  LET r == req[w]
               b == found[w] + interest[w] + Signed(r.kind, r.cents)
           IN  /\ Extended(r.account, NewRow(r.kind, r.cents, b))
               /\ r.account \in Accounts /\ r.kind \in {"deposit", "withdrawal"}
               /\ r.cents \in Int /\ r.cents > 0
<1> DEFINE r == req[w]
           b == found[w] + interest[w] + Signed(r.kind, r.cents)
<1>0. TypedAndDated /\ PhaseOK
  BY DEF Sound
<1>1. r.account \in Accounts /\ r.cents \in Int /\ b \in Int
  BY <1>0, RequestTyped, LocalsTyped DEF Signed
<1>2. r.kind \in {"deposit", "withdrawal"} /\ r.cents > 0
  BY <1>0, RequestTyped DEF Insert, PhaseOK, Kinds, Valid
<1>3. InsertRow(r.account, r.kind, r.cents, b)
  BY DEF Insert
<1> HIDE DEF b
<1>4. Extended(r.account, NewRow(r.kind, r.cents, b))
  BY <1>0, <1>1, <1>2, <1>3, RowInserted
<1> QED BY <1>1, <1>2, <1>4 DEF b

\* Nothing else writes rows.
LEMMA OtherSteps ==
    ASSUME NEW w \in Workers, Serve(w), ~PayInsert(w), ~Insert(w)
    PROVE  UNCHANGED rows
BY DEF Serve, PayFindLast, FindAccount, FindLast, FindLastFails, Publish, Update, Fail,
       ledgerVars

\* A row stays where and what it is; a last row is replaced only by one of now.
LEMMA RowsStay ==
    ASSUME Sound, [Next]_vars, NEW a \in Accounts
    PROVE  /\ Len(rows[a]) \in Nat /\ Len(rows'[a]) \in Nat /\ Len(rows[a]) <= Len(rows'[a])
           /\ \A i \in 1..Len(rows[a]) : rows'[a][i] = rows[a][i]
           /\ \/ rows'[a] = rows[a]
              \/ now' = now /\ HasRows(a)' /\ LastRow(a)'.at = now
<1>0. TypedAndDated /\ TypeOK /\ Len(rows[a]) \in Nat
  BY LenProperties DEF Sound, TypedAndDated, TypeOK
<1>1. ASSUME NEW c \in Accounts, NEW row, Extended(c, row), row.at = now, UNCHANGED now
      PROVE  /\ Len(rows'[a]) \in Nat /\ Len(rows[a]) <= Len(rows'[a])
             /\ \A i \in 1..Len(rows[a]) : rows'[a][i] = rows[a][i]
             /\ \/ rows'[a] = rows[a]
                \/ now' = now /\ HasRows(a)' /\ LastRow(a)'.at = now
  <2>1. CASE a = c
    <3>1. Len(rows'[a]) = Len(rows[a]) + 1 /\ rows'[a][Len(rows'[a])] = row
      BY <1>1, <2>1 DEF Extended
    <3>2. rows'[a] # << >>
      BY <1>0, <3>1, EmptySeq
    <3> QED BY <1>0, <1>1, <2>1, <3>1, <3>2 DEF Extended, HasRows, LastRow
  <2>2. CASE a # c
    BY <1>0, <1>1, <2>2 DEF Extended
  <2> QED BY <2>1, <2>2
<1>2. ASSUME NEW w \in Workers, PayInsert(w)
      PROVE  \E c \in Accounts : \E row : Extended(c, row) /\ row.at = now /\ UNCHANGED now
  <2>1. PICK row : row = NewRow("interest", interest[w], found[w] + interest[w])
    OBVIOUS
  <2>2. row.at = now /\ UNCHANGED now
    BY <1>2, <2>1 DEF PayInsert, NewRow
  <2> QED BY <1>2, <2>1, <2>2, InterestRow
<1>3. ASSUME NEW w \in Workers, Insert(w)
      PROVE  \E c \in Accounts : \E row : Extended(c, row) /\ row.at = now /\ UNCHANGED now
  <2>1. PICK row : row = NewRow(req[w].kind, req[w].cents, found[w] + interest[w]
                                   + Signed(req[w].kind, req[w].cents))
    OBVIOUS
  <2>2. row.at = now /\ UNCHANGED now
    BY <1>3, <2>1 DEF Insert, NewRow
  <2> QED BY <1>3, <2>1, <2>2, CallRow
<1>4. CASE UNCHANGED rows
  BY <1>0, <1>4
<1>5. ASSUME NEW w \in Workers, NEW r \in Requests, Accept(w, r) \/ Reject(w, r)
      PROVE  UNCHANGED rows
  BY <1>5 DEF Accept, Reject, ledgerVars
<1>6. CASE Tick \/ Quiescent \/ UNCHANGED vars
  BY <1>4, <1>6 DEF Tick, Quiescent, vars, ledgerVars
<1> QED BY <1>0, <1>1, <1>2, <1>3, <1>4, <1>5, <1>6, OtherSteps DEF Next

-----------------------------------------------------------------------------
(* Answers match the ledger.                                               *)

\* Row rowIx[w] is the row of the call w serves.
CallInLedger(w) ==
    /\ rowIx[w] \in 1..Len(rows[req[w].account])
    /\ rows[req[w].account][rowIx[w]].kind = req[w].kind
    /\ rows[req[w].account][rowIx[w]].amount = req[w].cents

\* How the answer and the row of a call stand to its progress.
AnswerOK(w) ==
    /\ pc[w] # "idle" => answer[w] = "none"
    /\ pc[w] \notin {"idle", "publish"} => rowIx[w] = 0
    /\ pc[w] = "publish" => CallInLedger(w)
    /\ pc[w] = "update" => req[w].kind = "changeInterest"
    /\ answer[w] = "ok" /\ req[w].kind # "changeInterest" =>
          /\ CallInLedger(w)
          /\ req[w].account \in Mailed => <<req[w].account, rowIx[w]>> \in published
    /\ answer[w] = "refused" => rowIx[w] = 0

AnswersOK == \A w \in Workers : AnswerOK(w)

\* Mails are not taken back.
LEMMA PublishedStay ==
    ASSUME [Next]_vars
    PROVE  published \subseteq published'
BY DEF Next, Serve, Accept, Reject, PayFindLast, PayInsert, FindAccount, FindLast,
       FindLastFails, Insert, Publish, Update, Fail, Tick, Quiescent, ledgerVars, vars

LEMMA CallStays ==
    ASSUME Sound, [Next]_vars, NEW v \in Workers, CallInLedger(v),
           req'[v] = req[v], rowIx'[v] = rowIx[v]
    PROVE  CallInLedger(v)'
<1> DEFINE a == req[v].account
<1>1. a \in Accounts
  BY RequestTyped DEF Sound
<1>2. /\ Len(rows[a]) \in Nat /\ Len(rows'[a]) \in Nat /\ Len(rows[a]) <= Len(rows'[a])
      /\ rowIx[v] \in 1..Len(rows[a]) /\ rows'[a][rowIx[v]] = rows[a][rowIx[v]]
  BY <1>1, RowsStay DEF CallInLedger
<1>3. rowIx[v] \in 1..Len(rows'[a])
  BY <1>2
<1> QED BY <1>2, <1>3 DEF CallInLedger

\* A worker at rest is not concerned by what others do.
LEMMA AnswerStays ==
    ASSUME Sound, [Next]_vars, NEW v \in Workers, AnswerOK(v), pc'[v] = pc[v],
           req'[v] = req[v], rowIx'[v] = rowIx[v], answer'[v] = answer[v]
    PROVE  AnswerOK(v)'
<1>1. published \subseteq published' /\ (CallInLedger(v) => CallInLedger(v)')
  BY PublishedStay, CallStays
<1> QED BY <1>1 DEF AnswerOK

LEMMA AnswersStep ==
    ASSUME Sound, AnswersOK, [Next]_vars
    PROVE  AnswersOK'
<1> USE DEF ledgerVars, localVars, historyVars
<1>0. TypeOK /\ PhaseOK /\ TypedAndDated
  BY DEF Sound, TypedAndDated
<1>1. SUFFICES ASSUME NEW w \in Workers, Serve(w) \/ \E r \in Requests : Accept(w, r) \/ Reject(w, r)
               PROVE  AnswerOK(w)'
  <2>1. ASSUME Tick \/ Quiescent \/ UNCHANGED vars
        PROVE  \A v \in Workers : AnswerOK(v)'
    <3>1. UNCHANGED <<pc, req, rowIx, answer>>
      BY <2>1 DEF Tick, Quiescent, vars
    <3> QED BY <3>1, AnswerStays DEF AnswersOK
  <2>2. ASSUME NEW w \in Workers, Serve(w) \/ \E r \in Requests : Accept(w, r) \/ Reject(w, r)
        PROVE  \A v \in Workers \ {w} : AnswerOK(v)'
    <3>1. OthersStay(w)
      BY <1>0, <2>2, ServeAlone, ArriveAlone
    <3> QED BY <3>1, AnswerStays DEF AnswersOK, OthersStay
  <2> QED BY <2>1, <2>2 DEF AnswersOK, Next
<1>2. AnswerOK(w)
  BY DEF AnswersOK
<1>3. ASSUME NEW r \in Requests, Accept(w, r) \/ Reject(w, r)
      PROVE  AnswerOK(w)'
  BY <1>0, <1>3, ArriveAlone DEF AnswerOK
<1>4. ASSUME NEW result \in {"ok", "failed", "refused"}, Finish(w, result),
             pc[w] # "idle", UNCHANGED <<req, rowIx>>,
             result = "refused" => rowIx[w] = 0,
             result = "ok" /\ req[w].kind # "changeInterest" =>
                /\ CallInLedger(w)
                /\ req[w].account \in Mailed => <<req[w].account, rowIx[w]>> \in published'
      PROVE  AnswerOK(w)'
  <2>1. pc'[w] = "idle" /\ answer'[w] = result
    BY <1>0, <1>4, FinishAlone
  <2>2. CallInLedger(w) => CallInLedger(w)'
    BY <1>4, CallStays
  <2> QED BY <1>4, <2>1, <2>2 DEF AnswerOK
<1>5. ASSUME UNCHANGED <<req, rowIx, answer>>, pc'[w] \notin {"idle", "publish"},
             pc[w] \notin {"idle", "publish"},
             pc'[w] = "update" => req[w].kind = "changeInterest"
      PROVE  AnswerOK(w)'
  BY <1>2, <1>5 DEF AnswerOK
<1>6. CASE PayFindLast(w) \/ PayInsert(w)
  BY <1>0, <1>5, <1>6 DEF PayFindLast, PayInsert, Goto, AfterPay, TypeOK
<1>7. CASE FindAccount(w)
  BY <1>0, <1>5, <1>7 DEF FindAccount, Goto, TypeOK
<1>8. CASE FindLast(w) \/ FindLastFails(w)
  <2>1. /\ UNCHANGED <<req, rowIx>> /\ pc[w] = "findLast"
        /\ \E b, gain : Decide(w, b, gain)
    BY <1>8 DEF FindLast, FindLastFails
  <2>2. CASE Finish(w, "refused")
    BY <1>2, <1>4, <2>1, <2>2 DEF AnswerOK
  <2>3. CASE Goto(w, "insert") /\ UNCHANGED answer
    BY <1>0, <1>5, <2>1, <2>3 DEF Goto, TypeOK
  <2> QED BY <2>1, <2>2, <2>3 DEF Decide
<1>9. CASE Insert(w)
  <2> DEFINE r == req[w]
             b == found[w] + interest[w] + Signed(r.kind, r.cents)
             a == r.account
  <2>1. Extended(a, NewRow(r.kind, r.cents, b)) /\ a \in Accounts
    BY <1>9, CallRow
  <2>2. /\ rowIx'[w] = Len(rows[a]) + 1 /\ pc'[w] = "publish" /\ answer'[w] = "none"
        /\ UNCHANGED req
    BY <1>0, <1>2, <1>9 DEF Insert, Goto, TypeOK, AnswerOK
  <2>3. /\ Len(rows[a]) \in Nat /\ Len(rows'[a]) = Len(rows[a]) + 1
        /\ rows'[a][Len(rows[a]) + 1].kind = r.kind
        /\ rows'[a][Len(rows[a]) + 1].amount = r.cents
    BY <2>1 DEF Extended, NewRow
  <2>4. CallInLedger(w)'
    BY <2>2, <2>3 DEF CallInLedger
  <2> QED BY <2>2, <2>4 DEF AnswerOK
<1>10. CASE Publish(w)
  BY <1>2, <1>4, <1>10 DEF Publish, AnswerOK
<1>11. CASE Update(w)
  BY <1>2, <1>4, <1>11 DEF Update, AnswerOK
<1>12. CASE Fail(w)
  BY <1>4, <1>12 DEF Fail
<1> QED BY <1>1, <1>3, <1>6, <1>7, <1>8, <1>9, <1>10, <1>11, <1>12 DEF Serve

LEMMA AnswersInvariance == Spec => []AnswersOK
<1>1. Init => AnswersOK
  BY DEF Init, AnswersOK, AnswerOK
<1>2. Sound /\ AnswersOK /\ [Next]_vars => AnswersOK'
  BY AnswersStep
<1> QED BY <1>1, <1>2, SoundInv, PTL DEF Spec

\* A call answered with success is in the ledger, with its amount, and its mail is on
\* the way; a refused one has left no row: whatever else the workers do, and wherever
\* a statement fails (deposit.rs, withdraw.rs).
THEOREM LedgerMatchesAnswers == Spec => []AnswersMatchLedger
<1>1. AnswersOK => AnswersMatchLedger
  BY DEF AnswersOK, AnswerOK, CallInLedger, AnswersMatchLedger
<1> QED BY <1>1, AnswersInvariance, PTL

-----------------------------------------------------------------------------
(* A change of rate.                                                       *)

\* Who is about to update the rate has paid what was due when it looked.
RatePaid ==
    \A w \in Workers :
        pc[w] = "update" /\ HasRows(req[w].account) =>
            LastRow(req[w].account).at > checkedAt[w] - Day

LEMMA RatePaidStep ==
    ASSUME Sound, RatePaid, [Next]_vars
    PROVE  RatePaid'
<1> USE DEF ledgerVars, localVars, historyVars
<1>0. /\ TypeOK /\ TypedAndDated /\ Dated /\ now \in Nat /\ Day \in Nat \ {0}
      /\ \A v \in Workers : req[v].account \in Accounts /\ checkedAt[v] \in Nat
  <2>1. TypeOK /\ TypedAndDated /\ Dated
    BY DEF Sound, TypedAndDated
  <2>2. now \in 0..MaxTime /\ checkedAt \in [Workers -> 0..MaxTime]
    BY <2>1 DEF TypeOK
  <2>3. now \in Nat /\ Day \in Nat \ {0} /\ \A v \in Workers : checkedAt[v] \in Nat
    BY <2>2, InterestAssumption
  <2>4. \A v \in Workers : req[v].account \in Accounts
    BY <2>1, RequestTyped
  <2> QED BY <2>1, <2>3, <2>4
<1>1. ASSUME NEW w \in Workers, pc'[w] = "update", pc[w] = "update", req'[w] = req[w],
             checkedAt'[w] = checkedAt[w], HasRows(req[w].account)'
      PROVE  LastRow(req[w].account)'.at > checkedAt'[w] - Day
  <2>0. PICK a \in Accounts : a = req[w].account /\ a = req'[w].account
    BY <1>0, <1>1
  <2>1. \/ rows'[a] = rows[a]
        \/ LastRow(a)'.at = now
    BY RowsStay
  <2>2. checkedAt[w] <= now
    BY <1>0 DEF Dated
  <2>3. CASE rows'[a] = rows[a]
    BY <1>1, <2>0, <2>3 DEF RatePaid, HasRows, LastRow
  <2>4. CASE LastRow(a)'.at = now
    <3>1. LastRow(a)' = LastRow(req[w].account)'
      BY <2>0
    <3>2. now > checkedAt'[w] - Day
      BY <1>0, <1>1, <2>2
    <3> QED BY <2>4, <3>1, <3>2
  <2> QED BY <2>1, <2>3, <2>4
<1>2. ASSUME NEW w \in Workers, pc'[w] = "update", pc[w] # "update",
             HasRows(req[w].account)'
      PROVE  LastRow(req[w].account)'.at > checkedAt'[w] - Day
  <2>1. Serve(w)
    <3>1. ASSUME NEW v \in Workers, v # w, Serve(v)  PROVE FALSE
      BY <1>0, <1>2, <3>1, ServeAlone DEF OthersStay
    <3>2. ASSUME NEW v \in Workers, NEW r \in Requests, Accept(v, r) \/ Reject(v, r)
          PROVE  FALSE
      BY <1>0, <1>2, <3>2, ArriveAlone DEF OthersStay
    <3>3. ~(Tick \/ Quiescent \/ UNCHANGED vars)
      BY <1>2 DEF Tick, Quiescent, vars
    <3> QED BY <3>1, <3>2, <3>3 DEF Next
  <2>2. req' = req
    BY <1>0, <2>1, ServeAlone
  <2>0. PICK a \in Accounts : a = req[w].account /\ a = req'[w].account
    BY <1>0, <2>2
  <2>6. LastRow(a)' = LastRow(req[w].account)' /\ HasRows(a)'
    BY <1>2, <2>0
  <2>3. PayFindLast(w) \/ PayInsert(w)
    <3>1. ~FindAccount(w) /\ ~Insert(w)
      BY <1>0, <1>2 DEF FindAccount, Insert, Goto, TypeOK
    <3>2. ~FindLast(w) /\ ~FindLastFails(w)
      BY <1>0, <1>2, DecideAlone DEF FindLast, FindLastFails
    <3>3. ~Publish(w) /\ ~Update(w) /\ ~Fail(w)
      BY <1>0, <1>2, FinishAlone DEF Publish, Update, Fail
    <3> QED BY <2>1, <3>1, <3>2, <3>3 DEF Serve
  <2>4. CASE PayFindLast(w)
    <3>1. UNCHANGED rows /\ checkedAt'[w] = now /\ ~InterestDue(a)
      BY <1>0, <1>2, <2>0, <2>4 DEF PayFindLast, Goto, TypeOK
    <3>2. HasRows(a) /\ LastRow(a)' = LastRow(a)
      BY <2>6, <3>1 DEF HasRows, LastRow
    <3> QED BY <2>6, <3>1, <3>2 DEF InterestDue
  <2>5. CASE PayInsert(w)
    <3>1. Extended(a, NewRow("interest", interest[w], found[w] + interest[w]))
      BY <2>0, <2>5, InterestRow
    <3>2. rows'[a] # rows[a]
      BY <3>1 DEF Extended
    <3>3. LastRow(a)'.at = now
      BY <3>2, RowsStay
    <3>4. checkedAt'[w] = checkedAt[w] /\ checkedAt[w] <= now
      BY <1>0, <2>5 DEF PayInsert, Dated
    <3> QED BY <1>0, <2>6, <3>3, <3>4
  <2> QED BY <2>3, <2>4, <2>5
<1>3. ASSUME NEW w \in Workers, pc'[w] = "update", pc[w] = "update"
      PROVE  req'[w] = req[w] /\ checkedAt'[w] = checkedAt[w]
  <2>1. ASSUME NEW v \in Workers, v # w, Serve(v)
        PROVE  req'[w] = req[w] /\ checkedAt'[w] = checkedAt[w]
    BY <1>0, <2>1, ServeAlone DEF OthersStay
  <2>2. ~Serve(w)
    <3>1. ~Update(w) /\ ~Fail(w)
      BY <1>0, <1>3, FinishAlone DEF Update, Fail
    <3> QED BY <1>3, <3>1 DEF Serve, PayFindLast, PayInsert, FindAccount, FindLast,
                             FindLastFails, Insert, Publish
  <2>3. ASSUME NEW v \in Workers, NEW r \in Requests, Accept(v, r) \/ Reject(v, r)
        PROVE  req'[w] = req[w] /\ checkedAt'[w] = checkedAt[w]
    BY <1>0, <1>3, <2>3, ArriveAlone DEF OthersStay
  <2>4. CASE Tick \/ Quiescent \/ UNCHANGED vars
    BY <2>4 DEF Tick, Quiescent, vars
  <2> QED BY <2>1, <2>2, <2>3, <2>4 DEF Next
<1> QED BY <1>1, <1>2, <1>3 DEF RatePaid

\* A change of rate reprices no full day that had passed when pay_interest looked,
\* however many requests add rows between its look and the update
\* (change_interest.rs).
THEOREM RateChangesLookForward == Spec => []RateChangeNotRetroactive
<1>1. Init => RatePaid
  BY DEF Init, RatePaid
<1>2. Sound /\ RatePaid /\ [Next]_vars => RatePaid'
  BY RatePaidStep
<1>3. RatePaid => RateChangeNotRetroactive
  BY DEF RatePaid, RateChangeNotRetroactive
<1> QED BY <1>1, <1>2, <1>3, SoundInv, PTL DEF Spec

-----------------------------------------------------------------------------
(* The rows of an account whose requests never overlapped.                 *)

\* Who is about to insert an Interest row knows that a day has passed.
DueInv ==
    \A w \in Workers :
        pc[w] = "payInsert" /\ req[w].account \notin disturbed =>
            HasRows(req[w].account) /\ now - LastRow(req[w].account).at >= Day

\* A new row takes no account away from under a worker that is alone on it.
LEMMA OthersRowsStay ==
    ASSUME Sound, Alone, NEW w \in Workers, Serve(w), NEW v \in Workers \ {w},
           pc[v] # "idle", req[v].account \notin disturbed'
    PROVE  rows'[req[v].account] = rows[req[v].account]
<1> DEFINE a == req[v].account
<1>0. TypeOK /\ a \in Accounts /\ a \notin disturbed /\ a # req[w].account
  <2>1. TypeOK /\ a \in Accounts
    BY RequestTyped DEF Sound, TypedAndDated
  <2>2. pc[w] # "idle" /\ disturbed \subseteq disturbed'
    BY <2>1, ServeAlone
  <2> QED BY <2>1, <2>2 DEF Alone
<1>1. CASE PayInsert(w)
  <2>1. PICK row : Extended(req[w].account, row)
    BY <1>1, InterestRow
  <2> QED BY <1>0, <2>1 DEF Extended
<1>2. CASE Insert(w)
  <2>1. PICK row : Extended(req[w].account, row)
    BY <1>2, CallRow
  <2> QED BY <1>0, <2>1 DEF Extended
<1> QED BY <1>1, <1>2, OtherSteps

LEMMA DueStep ==
    ASSUME Sound, Alone, DueInv, [Next]_vars
    PROVE  DueInv'
<1> USE DEF ledgerVars, localVars, historyVars
<1>0. /\ TypeOK /\ now \in Int /\ Day \in Nat \ {0}
      /\ \A v \in Workers : req[v].account \in Accounts
      /\ \A a \in Accounts : HasRows(a) => LastRow(a).at \in Int
  <2>1. TypeOK /\ TypedAndDated
    BY DEF Sound, TypedAndDated
  <2>2. \A a \in Accounts : HasRows(a) => LastRow(a).at \in 0..now
    BY <2>1, LastRowTyped
  <2>3. now \in Int /\ Day \in Nat \ {0} /\ \A v \in Workers : req[v].account \in Accounts
    BY <2>1, RequestTyped, InterestAssumption DEF TypeOK
  <2> QED BY <2>1, <2>2, <2>3
<1>1. SUFFICES ASSUME NEW w \in Workers, pc'[w] = "payInsert",
                      NEW a \in Accounts, a = req'[w].account, a \notin disturbed'
               PROVE  HasRows(a)' /\ now' - LastRow(a)'.at >= Day
  <2>1. \A w \in Workers : pc'[w] = "payInsert" => req'[w].account \in Accounts
    <3>1. TypedAndDated'
      BY TypedAndDatedStep
    <3> QED BY <3>1, LedgerAssumption DEF TypedAndDated, TypeOK
  <2> QED BY <2>1 DEF DueInv, HasRows, LastRow
<1>2. ASSUME pc[w] = "payInsert", req'[w] = req[w], a \notin disturbed, rows'[a] = rows[a],
             now' = now \/ now' = now + 1
      PROVE  HasRows(a)' /\ now' - LastRow(a)'.at >= Day
  <2>1. HasRows(a) /\ now - LastRow(a).at >= Day
    BY <1>1, <1>2 DEF DueInv
  <2>2. HasRows(a)' /\ LastRow(a)' = LastRow(a)
    BY <1>2, <2>1 DEF HasRows, LastRow
  <2> QED BY <1>0, <1>2, <2>1, <2>2
<1>3. CASE Serve(w)
  <2>1. PayFindLast(w)
    <3>1. ~PayInsert(w)
      BY <1>0, <1>1 DEF PayInsert, Goto, AfterPay, TypeOK
    <3>2. ~FindAccount(w) /\ ~Insert(w)
      BY <1>0, <1>1 DEF FindAccount, Insert, Goto, TypeOK
    <3>3. ~FindLast(w) /\ ~FindLastFails(w)
      BY <1>0, <1>1, DecideAlone DEF FindLast, FindLastFails
    <3>4. ~Publish(w) /\ ~Update(w) /\ ~Fail(w)
      BY <1>0, <1>1, FinishAlone DEF Publish, Update, Fail
    <3> QED BY <1>3, <3>1, <3>2, <3>3, <3>4 DEF Serve
  <2>2. UNCHANGED <<rows, now, req>> /\ InterestDue(a)
    BY <1>0, <1>1, <2>1 DEF PayFindLast, Goto, AfterPay, TypeOK
  <2>3. HasRows(a) /\ HasRows(a)' /\ LastRow(a)' = LastRow(a)
    BY <2>2 DEF InterestDue, HasRows, LastRow
  <2> QED BY <1>0, <2>2, <2>3 DEF InterestDue
<1>4. ASSUME NEW v \in Workers \ {w}, Serve(v)
      PROVE  HasRows(a)' /\ now' - LastRow(a)'.at >= Day
  <2>1. pc[w] = "payInsert" /\ req'[w] = req[w] /\ a \notin disturbed /\ now' = now
    BY <1>0, <1>1, <1>4, ServeAlone DEF OthersStay
  <2>2. rows'[a] = rows[a]
    BY <1>1, <1>4, <2>1, OthersRowsStay
  <2> QED BY <1>2, <2>1, <2>2
<1>5. ASSUME NEW v \in Workers, NEW r \in Requests, Accept(v, r) \/ Reject(v, r)
      PROVE  HasRows(a)' /\ now' - LastRow(a)'.at >= Day
  <2>1. /\ UNCHANGED <<rows, now>> /\ a \notin disturbed
        /\ pc[w] = "payInsert" /\ req'[w] = req[w]
    BY <1>0, <1>1, <1>5, ArriveAlone DEF OthersStay
  <2> QED BY <1>2, <2>1
<1>6. CASE Tick \/ Quiescent \/ UNCHANGED vars
  BY <1>1, <1>2, <1>6 DEF Tick, Quiescent, vars
<1> QED BY <1>3, <1>4, <1>5, <1>6 DEF Next

\* What a row adds to the account it is inserted into.
RowFits(a, row) ==
    LET gain == IF row.kind = "interest" THEN row.amount
                ELSE row.balance - LastBalance(a) - Signed(row.kind, row.amount)
    IN  /\ gain \in Gains(LastBalance(a), now - LastCredit(a))
        /\ row.kind = "interest" =>
              /\ row.balance = LastBalance(a) + row.amount
              /\ HasRows(a) /\ now - LastCredit(a) >= Day

LEMMA NewRowFits ==
    ASSUME SerialInv, DueInv, [Next]_vars, NEW a \in Accounts \ disturbed',
           rows'[a] # rows[a]
    PROVE  \E row : Extended(a, row) /\ row.at = now /\ RowFits(a, row)
<1> USE DEF ledgerVars, localVars, historyVars
<1>0. Sound /\ TypeOK /\ Alone /\ Fresh
      /\ \A w \in Workers : found[w] \in Int /\ interest[w] \in Int
  BY DEF SerialInv, NonNegativeInv, Sound, TypedAndDated, TypeOK
<1>1. PICK w \in Workers : PayInsert(w) \/ Insert(w)
  <2>1. ~(Tick \/ Quiescent \/ UNCHANGED vars)
    BY DEF Tick, Quiescent, vars
  <2>2. ~\E w \in Workers, r \in Requests : Accept(w, r) \/ Reject(w, r)
    BY DEF Accept, Reject
  <2> QED BY <2>1, <2>2, OtherSteps DEF Next
<1>2. disturbed' = disturbed /\ pc[w] \in {"payInsert", "insert"}
  BY <1>1 DEF PayInsert, Insert
<1>3. ASSUME a = req[w].account
      PROVE  found[w] = LastBalance(a) /\ interest[w] \in Gains(LastBalance(a), now - LastCredit(a))
  BY <1>0, <1>2, <1>3 DEF Fresh
<1>4. CASE PayInsert(w)
  <2>1. PICK row : row = NewRow("interest", interest[w], found[w] + interest[w])
    OBVIOUS
  <2>2. Extended(req[w].account, row) /\ req[w].account \in Accounts
    BY <1>0, <1>4, <2>1, InterestRow
  <2>3. a = req[w].account
    BY <2>2 DEF Extended
  <2>4. HasRows(a) /\ now - LastCredit(a) >= Day
    BY <1>2, <1>4, <2>3 DEF DueInv, PayInsert, LastCredit
  <2>5. row.kind = "interest" /\ row.amount = interest[w] /\ row.at = now
        /\ row.balance = found[w] + interest[w]
    BY <2>1 DEF NewRow
  <2>6. RowFits(a, row)
    BY <1>3, <2>3, <2>4, <2>5 DEF RowFits
  <2> QED BY <2>2, <2>3, <2>5, <2>6
<1>5. CASE Insert(w)
  <2> DEFINE r == req[w]
  <2>0. PICK b : b = found[w] + interest[w] + Signed(r.kind, r.cents)
    OBVIOUS
  <2>1. PICK row : row = NewRow(r.kind, r.cents, b)
    OBVIOUS
  <2>2. /\ Extended(r.account, row) /\ r.account \in Accounts
        /\ r.kind \in {"deposit", "withdrawal"} /\ r.cents \in Int
    BY <1>0, <1>5, <2>0, <2>1, CallRow
  <2>3. a = r.account
    BY <2>2 DEF Extended
  <2>4. row.kind = r.kind /\ row.amount = r.cents /\ row.at = now /\ row.balance = b
    BY <2>1 DEF NewRow
  <2>5. Signed(r.kind, r.cents) \in Int
    BY <2>2 DEF Signed
  <2>6. b - LastBalance(a) - Signed(r.kind, r.cents) = interest[w]
    BY <1>0, <1>3, <2>0, <2>3, <2>5
  <2>7. RowFits(a, row)
    BY <1>3, <2>2, <2>3, <2>4, <2>6 DEF RowFits
  <2> QED BY <2>2, <2>3, <2>4, <2>7
<1> QED BY <1>1, <1>4, <1>5

\* The two properties of row i of account a.
Runs(a, i) ==
    LET row  == rows[a][i]
        gain == IF row.kind = "interest" THEN row.amount
                ELSE row.balance - BalanceBefore(a, i) - Signed(row.kind, row.amount)
    IN  /\ gain \in Gains(BalanceBefore(a, i), ElapsedBefore(a, i))
        /\ row.kind = "interest" => row.balance = BalanceBefore(a, i) + row.amount

PaidOnce(a, i) == rows[a][i].kind = "interest" => i > 1 /\ ElapsedBefore(a, i) >= Day

RowsOK == \A a \in Accounts \ disturbed : \A i \in 1..Len(rows[a]) : Runs(a, i) /\ PaidOnce(a, i)

\* A row that fits the account continues from the row before it.
LEMMA FittingRow ==
    ASSUME Sound, NEW a \in Accounts, NEW row, Extended(a, row), row.at = now, RowFits(a, row),
           NEW k \in Nat, k = Len(rows[a]) + 1
    PROVE  Runs(a, k)' /\ PaidOnce(a, k)'
<1>0. PICK n \in Nat : n = Len(rows[a]) /\ k = n + 1
  BY DEF Extended
<1>1. /\ rows'[a][k] = row /\ \A i \in 1..n : rows'[a][i] = rows[a][i]
      /\ HasRows(a) <=> n # 0
  BY <1>0, EmptySeq DEF Extended, HasRows, Sound, TypedAndDated, TypeOK
<1>2. CASE n # 0
  <2>1. n \in 1..n /\ k # 1 /\ k - 1 = n
    BY <1>0, <1>2
  <2>2. LastBalance(a) = rows[a][n].balance /\ LastCredit(a) = rows[a][n].at
    BY <1>0, <1>1, <1>2 DEF LastBalance, LastCredit, LastRow
  <2>3. BalanceBefore(a, k)' = LastBalance(a)
        /\ ElapsedBefore(a, k)' = now - LastCredit(a)
    BY <1>1, <2>1, <2>2 DEF BalanceBefore, ElapsedBefore
  <2>4. Runs(a, k)'
    BY <1>1, <2>3 DEF Runs, RowFits
  <2>5. PaidOnce(a, k)'
    BY <1>1, <2>1, <2>3, <1>0, <1>2 DEF PaidOnce, RowFits
  <2> QED BY <2>4, <2>5
<1>3. CASE n = 0
  <2>1. ~HasRows(a) /\ LastBalance(a) = 0 /\ LastCredit(a) = 0 /\ row.kind # "interest"
    BY <1>1, <1>3 DEF LastBalance, LastCredit, RowFits
  <2>2. BalanceBefore(a, k)' = 0 /\ ElapsedBefore(a, k)' = 0
    BY <1>0, <1>3 DEF BalanceBefore, ElapsedBefore
  <2>3. Gains(0, now - 0) \subseteq Gains(0, 0)
    <3>1. now \in 0..MaxTime /\ MaxTime \in Nat
      BY InterestAssumption DEF Sound, TypedAndDated, TypeOK
    <3>2. \A rr \in Rates, t \in 0..now : CalculateInterest(0, rr, 0, t) = 0
      BY <3>1, NothingEarnsNothing
    <3>3. Rates # {}
      BY StoredRates
    <3>4. 0 \in Gains(0, 0)
      BY <3>3, NoGain
    <3> QED BY <3>1, <3>2, <3>4 DEF Gains
  <2>4. Runs(a, k)'
    BY <1>1, <2>1, <2>2, <2>3 DEF Runs, RowFits
  <2>5. PaidOnce(a, k)'
    BY <1>1, <2>1 DEF PaidOnce
  <2> QED BY <2>4, <2>5
<1> QED BY <1>2, <1>3

LEMMA RowsOKStep ==
    ASSUME SerialInv, DueInv, RowsOK, [Next]_vars
    PROVE  RowsOK'
<1>0. Sound /\ TypeOK
  BY DEF SerialInv, NonNegativeInv, Sound, TypedAndDated
<1>1. SUFFICES ASSUME NEW a \in Accounts, a \notin disturbed', NEW i \in 1..Len(rows'[a])
               PROVE  Runs(a, i)' /\ PaidOnce(a, i)'
  BY DEF RowsOK
<1>2. disturbed \subseteq disturbed'
  <2>1. CASE Tick \/ Quiescent \/ UNCHANGED vars
    BY <2>1 DEF Tick, Quiescent, vars, historyVars
  <2> QED BY <1>0, <2>1, ServeAlone, ArriveAlone DEF Next
<1>3. PICK n \in Nat : n = Len(rows[a]) /\ \A j \in 1..n : rows'[a][j] = rows[a][j]
  BY <1>0, RowsStay
<1>4. CASE i \in 1..n
  <2>1. Runs(a, i) /\ PaidOnce(a, i)
    BY <1>1, <1>2, <1>3, <1>4 DEF RowsOK
  <2>2. rows'[a][i] = rows[a][i] /\ (i # 1 => rows'[a][i - 1] = rows[a][i - 1])
    BY <1>3, <1>4
  <2>3. BalanceBefore(a, i)' = BalanceBefore(a, i) /\ ElapsedBefore(a, i)' = ElapsedBefore(a, i)
    BY <2>2 DEF BalanceBefore, ElapsedBefore
  <2> QED BY <2>1, <2>2, <2>3 DEF Runs, PaidOnce
<1>5. CASE i \notin 1..n
  <2>1. rows'[a] # rows[a]
    BY <1>3, <1>5
  <2>2. PICK row : Extended(a, row) /\ row.at = now /\ RowFits(a, row)
    BY <1>1, <2>1, NewRowFits
  <2>3. i = Len(rows[a]) + 1 /\ i \in Nat
    BY <1>1, <1>3, <1>5, <2>2 DEF Extended
  <2> QED BY <1>0, <2>2, <2>3, FittingRow
<1> QED BY <1>4, <1>5

LEMMA RowsInvariance == Spec => [](SerialInv /\ DueInv /\ RowsOK)
<1>1. Init => DueInv /\ RowsOK
  BY EmptySeq DEF Init, DueInv, RowsOK
<1>2. SerialInv /\ DueInv /\ RowsOK /\ [Next]_vars => DueInv' /\ RowsOK'
  BY DueStep, RowsOKStep DEF SerialInv, NonNegativeInv
<1>3. NonNegativeInv /\ Alone /\ Fresh <=> SerialInv
  BY DEF SerialInv
<1> QED BY <1>1, <1>2, <1>3, SerialInvariance, PTL DEF Spec

\* On an account whose requests never overlapped each row continues from the row
\* before it, with interest for no more time than lies between them (deposit.rs,
\* withdraw.rs, pay_interest.rs).
THEOREM BalancesRun == Spec => []RunningBalance
<1>1. RowsOK => RunningBalance
  BY DEF RowsOK, Runs, RunningBalance
<1> QED BY <1>1, RowsInvariance, PTL

\* On such an account interest is paid on a balance that exists, at most once a day,
\* whatever mutations ask for it (pay_interest.rs).
THEOREM InterestPaidOncePerDay == Spec => []InterestOncePerDay
<1>1. RowsOK => InterestOncePerDay
  BY DEF RowsOK, PaidOnce, InterestOncePerDay
<1> QED BY <1>1, RowsInvariance, PTL

-----------------------------------------------------------------------------
(* The balance a user was shown.                                           *)

\* What the last row is worth now, at the rate worker w has read.
Worth(w, a) ==
    LastBalance(a) + (IF HasRows(a)
                    THEN CalculateInterest(LastRow(a).balance, seenRate[w], LastRow(a).at, now)
                    ELSE 0)

\* What was shown when the call of worker w on account a arrived is still there,
\* wherever the worker is.
ShownOK(w, a) ==
    /\ pc[w] = "payFindLast" => shown[w] <= Worth(w, a)
    /\ pc[w] \in {"payInsert", "insert"} => shown[w] <= found[w] + interest[w]
    /\ pc[w] \in {"findAccount", "findLast"} => shown[w] <= LastBalance(a)
    /\ pc[w] = "publish" =>
          rows[a][rowIx[w]].balance >= shown[w] + Signed(req[w].kind, req[w].cents)
    /\ answer[w] = "refused" /\ req[w].kind = "withdrawal"
         /\ Authorised(req[w]) /\ Valid(req[w]) => req[w].cents > shown[w]

AllShownOK ==
    \A w \in Workers : req[w].account \notin disturbed => ShownOK(w, req[w].account)

\* What is shown is in the ledger: at any later time its last row is worth no less,
\* and the interest alone is no loss.
LEMMA WorthGrows ==
    ASSUME FactorsGrow, TypedAndDated, NonNegativeBalances,
           NEW a \in Accounts, HasRows(a), NEW r \in Rates
    PROVE  LET b == LastRow(a).balance
               from == LastRow(a).at
           IN  /\ b = LastBalance(a) /\ b \in Nat
               /\ CalculateInterest(b, r, from, now) \in Nat
               /\ now + 1 <= MaxTime =>
                     /\ CalculateInterest(b, r, from, now + 1) \in Int
                     /\ CalculateInterest(b, r, from, now) <= CalculateInterest(b, r, from, now + 1)
               /\ from > now - Day => CalculateInterest(b, r, from, now) = 0
<1> DEFINE b == LastRow(a).balance
           from == LastRow(a).at
<1>1. b \in Nat /\ from \in 0..now /\ now \in 0..MaxTime /\ MaxTime \in Nat /\ Day \in Nat
  <2>1. b \in Int /\ from \in 0..now
    BY LastRowTyped
  <2>2. b >= 0
    BY LastRowNonNegative
  <2>3. now \in 0..MaxTime /\ MaxTime \in Nat /\ Day \in Nat
    BY InterestAssumption DEF TypedAndDated, TypeOK
  <2> QED BY <2>1, <2>2, <2>3
<1>2. b = LastBalance(a)
  BY DEF LastBalance
<1> HIDE DEF b, from
<1>3. from \in Int /\ now \in Int /\ now + 1 \in Int /\ now - from \in 0..MaxTime
      /\ b \in Int /\ now <= now + 1 /\ now <= now
      /\ (now + 1 <= MaxTime => (now + 1) - from \in 0..MaxTime)
  BY <1>1
<1>4. CalculateInterest(b, r, from, now) \in Nat
  BY <1>1, <1>3, InterestInt, InterestGrows
<1>5. ASSUME now + 1 <= MaxTime
      PROVE  /\ CalculateInterest(b, r, from, now + 1) \in Int
             /\ CalculateInterest(b, r, from, now) <= CalculateInterest(b, r, from, now + 1)
  <2>1. (now + 1) - from \in 0..MaxTime
    BY <1>3, <1>5
  <2> QED BY <1>1, <1>3, <2>1, InterestInt, InterestGrows
<1>6. ASSUME from > now - Day
      PROVE  CalculateInterest(b, r, from, now) = 0
  <2>1. 0 <= now - from /\ now - from < Day
    BY <1>1, <1>6
  <2> QED BY <1>3, <2>1, WithinTheDay
<1> QED BY <1>1, <1>2, <1>4, <1>5, <1>6 DEF b, from

\* Another worker's step, and the clock, take nothing from what was shown.
LEMMA ShownStays ==
    ASSUME FactorsGrow, SerialInv, AnswersOK, NEW v \in Workers,
           NEW a \in Accounts, a = req[v].account, ShownOK(v, a),
           pc'[v] = pc[v], req'[v] = req[v], rowIx'[v] = rowIx[v], answer'[v] = answer[v],
           seenRate'[v] = seenRate[v], found'[v] = found[v], interest'[v] = interest[v],
           shown'[v] = shown[v], pc[v] # "idle" => rows'[a] = rows[a],
           now' = now \/ (now' = now + 1 /\ now < MaxTime)
    PROVE  ShownOK(v, a)'
<1>0. TypedAndDated /\ TypeOK /\ NonNegativeBalances
      /\ seenRate[v] \in Rates /\ shown[v] \in Int /\ now \in Int /\ MaxTime \in Int
  <2>1. TypedAndDated /\ TypeOK /\ NonNegativeBalances
    BY DEF SerialInv, NonNegativeInv, Sound, TypedAndDated
  <2>2. now \in 0..MaxTime /\ MaxTime \in Nat
    BY <2>1, InterestAssumption DEF TypeOK
  <2>3. seenRate \in [Workers -> Rates] /\ shown \in [Workers -> Int]
    BY <2>1 DEF TypeOK
  <2> QED BY <2>1, <2>2, <2>3
<1>1. CASE pc[v] = "idle"
  BY <1>1 DEF ShownOK
<1>2. CASE pc[v] # "idle"
  <2>1. /\ LastBalance(a)' = LastBalance(a) /\ (HasRows(a)' <=> HasRows(a))
        /\ LastRow(a)' = LastRow(a)
    BY <1>2 DEF LastBalance, HasRows, LastRow
  <2>2. ASSUME pc[v] = "payFindLast"
        PROVE  shown[v] <= Worth(v, a)'
    <3>1. shown[v] <= Worth(v, a)
      BY <2>2 DEF ShownOK
    <3>2. CASE ~HasRows(a)
      BY <2>1, <3>1, <3>2 DEF Worth
    <3>3. CASE HasRows(a)
      <4> DEFINE c(t) == CalculateInterest(LastRow(a).balance, seenRate[v], LastRow(a).at, t)
      <4>1. /\ LastBalance(a) \in Int /\ c(now) \in Int
            /\ now + 1 <= MaxTime => c(now + 1) \in Int /\ c(now) <= c(now + 1)
        BY <1>0, <3>3, WorthGrows
      <4>2. Worth(v, a) = LastBalance(a) + c(now)
        BY <3>3 DEF Worth
      <4>3. Worth(v, a)' = LastBalance(a) + c(now')
        BY <2>1, <3>3 DEF Worth
      <4> HIDE DEF c
      <4>4. CASE now' = now
        BY <3>1, <4>2, <4>3, <4>4
      <4>5. CASE now' = now + 1 /\ now < MaxTime
        BY <1>0, <3>1, <4>1, <4>2, <4>3, <4>5
      <4> QED BY <4>4, <4>5
    <3> QED BY <3>2, <3>3
  <2> QED BY <1>2, <2>1, <2>2 DEF ShownOK
<1> QED BY <1>1, <1>2

\* The steps of the worker itself.
LEMMA ShownServed ==
    ASSUME FactorsGrow, SerialInv, AnswersOK, NEW w \in Workers, Serve(w), [Next]_vars,
           NEW a \in Accounts, a = req[w].account, ShownOK(w, a), a \notin disturbed'
    PROVE  ShownOK(w, a)'
<1> USE DEF ledgerVars, localVars, historyVars
<1>0. /\ Sound /\ TypedAndDated /\ TypeOK /\ NonNegativeBalances /\ AnswerOK(w) /\ PhaseOK
      /\ seenRate[w] \in Rates /\ shown[w] \in Int /\ found[w] \in Int /\ interest[w] \in Int
      /\ req[w].cents \in Int
  <2>1. Sound /\ TypedAndDated /\ TypeOK /\ NonNegativeBalances /\ AnswerOK(w) /\ PhaseOK
    BY DEF SerialInv, NonNegativeInv, Sound, TypedAndDated, AnswersOK
  <2> QED BY <2>1, RequestTyped DEF TypeOK
<1>1. /\ UNCHANGED <<now, req, shown>> /\ pc[w] # "idle" /\ answer[w] = "none"
  BY <1>0, ServeAlone DEF AnswerOK
<1>2. PICK gain \in Int : /\ gain = IF HasRows(a) THEN CalculateInterest(LastRow(a).balance, seenRate[w],
                                                                        LastRow(a).at, now)
                                    ELSE 0
                          /\ gain >= 0 /\ LastBalance(a) \in Int
                          /\ HasRows(a) /\ ~InterestDue(a) => gain = 0
  <2>1. CASE HasRows(a)
    <3>1. LastRow(a).at \in 0..now /\ now \in Int /\ Day \in Int
      BY <1>0, <2>1, LastRowTyped, InterestAssumption DEF TypeOK
    <3> QED BY <1>0, <2>1, <3>1, WorthGrows DEF InterestDue
  <2>2. CASE ~HasRows(a)
    BY <2>2 DEF LastBalance
  <2> QED BY <2>1, <2>2
<1>3. Worth(w, a) = LastBalance(a) + gain
  BY <1>2 DEF Worth
<1>4. ASSUME NEW result \in {"ok", "failed"}, Finish(w, result)
      PROVE  ShownOK(w, a)'
  <2>1. pc'[w] = "idle" /\ answer'[w] \in {"ok", "failed"}
    BY <1>0, <1>4, FinishAlone
  <2> QED BY <2>1 DEF ShownOK
<1>5. CASE PayFindLast(w)
  <2>1. UNCHANGED <<rows, answer, rowIx>> /\ shown[w] <= LastBalance(a) + gain
    BY <1>3, <1>5 DEF PayFindLast, ShownOK
  <2>2. CASE InterestDue(a)
    <3>1. pc'[w] = "payInsert" /\ found'[w] = LastBalance(a) /\ interest'[w] = gain
      BY <1>0, <1>2, <1>5, <2>2 DEF PayFindLast, Goto, Remember, InterestDue, LastBalance, TypeOK
    <3> QED BY <1>1, <2>1, <3>1 DEF ShownOK
  <2>3. CASE ~InterestDue(a)
    <3>1. gain = 0
      BY <1>2, <2>3
    <3>2. pc'[w] \in {"update", "findAccount"} /\ LastBalance(a)' = LastBalance(a)
      BY <1>0, <1>5, <2>1, <2>3 DEF PayFindLast, Goto, AfterPay, TypeOK, LastBalance, HasRows, LastRow
    <3> QED BY <1>1, <1>2, <2>1, <3>1, <3>2 DEF ShownOK
  <2> QED BY <2>2, <2>3
<1>6. CASE PayInsert(w)
  <2>1. PICK row : row = NewRow("interest", interest[w], found[w] + interest[w])
    OBVIOUS
  <2>2. Extended(a, row)
    BY <1>0, <1>6, <2>1, InterestRow
  <2>3. rows'[a] # << >> /\ rows'[a][Len(rows'[a])] = row
    <3>1. Len(rows'[a]) # 0 /\ rows'[a][Len(rows'[a])] = row
      BY <2>2 DEF Extended
    <3> QED BY <3>1, EmptySeq
  <2>4. LastBalance(a)' = found[w] + interest[w]
    BY <2>1, <2>3 DEF LastBalance, HasRows, LastRow, NewRow
  <2>5. /\ pc[w] = "payInsert" /\ pc'[w] \in {"update", "findAccount"} /\ UNCHANGED answer
    BY <1>0, <1>6 DEF PayInsert, Goto, AfterPay, TypeOK
  <2> QED BY <1>1, <2>4, <2>5 DEF ShownOK
<1>7. CASE FindAccount(w)
  <2>1. /\ UNCHANGED <<rows, answer>> /\ pc[w] = "findAccount" /\ pc'[w] = "findLast"
    BY <1>0, <1>7 DEF FindAccount, Goto, TypeOK
  <2>2. LastBalance(a)' = LastBalance(a)
    BY <2>1 DEF LastBalance, HasRows, LastRow
  <2> QED BY <1>1, <2>1, <2>2 DEF ShownOK
<1>8. CASE FindLast(w)
  <2>1. Decide(w, LastBalance(a), gain)
    BY <1>2, <1>8 DEF FindLast, LastBalance
  <2>2. shown[w] <= LastBalance(a)
    BY <1>8 DEF FindLast, ShownOK
  <2>3. CASE pc'[w] = "idle" /\ ~EnoughBalance(LastBalance(a) + gain, req[w].cents)
    BY <1>0, <1>1, <1>2, <2>2, <2>3 DEF EnoughBalance, ShownOK
  <2>4. CASE /\ pc'[w] = "insert" /\ found'[w] = LastBalance(a) /\ interest'[w] = gain
             /\ UNCHANGED answer
    BY <1>0, <1>1, <1>2, <2>2, <2>4 DEF ShownOK
  <2> QED BY <1>0, <2>1, <2>3, <2>4, DecideAlone
<1>9. CASE FindLastFails(w)
  BY <1>9 DEF FindLastFails
<1>10. CASE Insert(w)
  <2> DEFINE r == req[w]
  <2>0. PICK b : b = found[w] + interest[w] + Signed(r.kind, r.cents)
    OBVIOUS
  <2>1. PICK row : row = NewRow(r.kind, r.cents, b)
    OBVIOUS
  <2>2. Extended(a, row) /\ r.kind \in {"deposit", "withdrawal"}
    BY <1>0, <1>10, <2>0, <2>1, CallRow
  <2>3. rowIx'[w] = Len(rows[a]) + 1 /\ rows'[a][rowIx'[w]].balance = b
    BY <1>0, <1>10, <2>1, <2>2 DEF Insert, Extended, NewRow, TypeOK
  <2>4. /\ pc[w] = "insert" /\ pc'[w] = "publish" /\ UNCHANGED answer
    BY <1>0, <1>10 DEF Insert, Goto, TypeOK
  <2>5. Signed(r.kind, r.cents) \in Int /\ shown[w] <= found[w] + interest[w]
    BY <1>0, <2>4 DEF Signed, ShownOK
  <2>6. b >= shown[w] + Signed(r.kind, r.cents)
    BY <1>0, <2>0, <2>5
  <2> QED BY <1>1, <2>3, <2>4, <2>6 DEF ShownOK
<1>11. CASE Publish(w) \/ Update(w) \/ Fail(w)
  BY <1>4, <1>11 DEF Publish, Update, Fail
<1> QED BY <1>5, <1>6, <1>7, <1>8, <1>9, <1>10, <1>11 DEF Serve

LEMMA ShownStep ==
    ASSUME FactorsGrow, SerialInv, AnswersOK, AllShownOK, [Next]_vars
    PROVE  AllShownOK'
<1> USE DEF ledgerVars, localVars, historyVars
<1>0. /\ Sound /\ TypedAndDated /\ TypeOK /\ Alone /\ now \in Int
      /\ \A v \in Workers : req[v].account \in Accounts /\ req'[v].account \in Accounts
  <2>1. Sound /\ TypedAndDated /\ TypeOK /\ Alone
    BY DEF SerialInv, NonNegativeInv, Sound, TypedAndDated
  <2>2. TypedAndDated'
    BY <2>1, TypedAndDatedStep
  <2>3. \A v \in Workers : req'[v].account \in Accounts
    BY <2>2, LedgerAssumption DEF TypedAndDated, TypeOK
  <2>4. now \in Int
    BY <2>1, InterestAssumption DEF TypeOK
  <2> QED BY <2>1, <2>3, <2>4, RequestTyped
<1>1. SUFFICES ASSUME NEW v \in Workers, NEW a \in Accounts, a = req'[v].account,
                      a \notin disturbed'
               PROVE  ShownOK(v, a)'
  <2>1. ASSUME NEW v \in Workers, req'[v].account \notin disturbed'
        PROVE  ShownOK(v, req[v].account)'
    <3>1. PICK a \in Accounts : a = req'[v].account
      BY <1>0
    <3>2. ShownOK(v, a)'
      BY <1>1, <2>1, <3>1
    <3> QED BY <3>1, <3>2 DEF ShownOK, Worth, LastBalance, HasRows, LastRow
  <2> QED BY <2>1 DEF AllShownOK
<1>2. ASSUME NEW w \in Workers, Serve(w)
      PROVE  ShownOK(v, a)'
  <2>1. /\ OthersStay(w) /\ UNCHANGED <<now, req, shown>> /\ a = req[v].account
        /\ a \notin disturbed
    BY <1>0, <1>1, <1>2, ServeAlone
  <2>2. ShownOK(v, a)
    BY <2>1 DEF AllShownOK
  <2>3. CASE v = w
    BY <1>1, <1>2, <2>1, <2>2, <2>3, ShownServed
  <2>4. CASE v # w
    <3>1. pc[v] # "idle" => rows'[a] = rows[a]
      BY <1>0, <1>1, <1>2, <2>1, <2>4, OthersRowsStay
    <3> QED BY <2>1, <2>2, <2>4, <3>1, ShownStays DEF OthersStay
  <2> QED BY <2>3, <2>4
<1>3. ASSUME NEW w \in Workers, NEW r \in Requests, Accept(w, r) \/ Reject(w, r)
      PROVE  ShownOK(v, a)'
  <2>1. /\ OthersStay(w) /\ UNCHANGED <<rows, rate, now, found, interest>> /\ a \notin disturbed
    BY <1>0, <1>1, <1>3, ArriveAlone
  <2>2. CASE v # w
    <3>1. ShownOK(v, a) /\ a = req[v].account
      BY <1>1, <2>1, <2>2 DEF AllShownOK, OthersStay
    <3> QED BY <2>1, <2>2, <3>1, ShownStays DEF OthersStay
  <2>3. CASE v = w /\ Accept(w, r)
    <3>1. /\ pc'[v] = "payFindLast" /\ answer'[v] = "none" /\ a = r.account
          /\ seenRate'[v] = rate[a] /\ shown'[v] = Displayed(a)
      BY <1>0, <1>1, <2>3 DEF Accept, Goto, TypeOK
    <3>2. Worth(v, a)' = Displayed(a)
      BY <2>1, <3>1 DEF Worth, Displayed, LastBalance, HasRows, LastRow
    <3>3. Displayed(a) \in Int
      BY <1>0, DisplayedInt
    <3> QED BY <3>1, <3>2, <3>3 DEF ShownOK
  <2>4. CASE v = w /\ Reject(w, r)
    <3>1. /\ pc'[v] = "idle" /\ req'[v] = r /\ ~(Authorised(r) /\ Valid(r))
      BY <1>0, <2>4 DEF Reject, TypeOK
    <3> QED BY <3>1 DEF ShownOK
  <2> QED BY <1>3, <2>2, <2>3, <2>4
<1>4. CASE Tick \/ Quiescent \/ UNCHANGED vars
  <2>1. /\ UNCHANGED <<rows, pc, req, rowIx, answer, seenRate, found, interest, shown, disturbed>>
        /\ now' = now \/ (now' = now + 1 /\ now < MaxTime)
    BY <1>4 DEF Tick, Quiescent, vars
  <2>2. ShownOK(v, a) /\ a = req[v].account
    BY <1>1, <2>1 DEF AllShownOK
  <2> QED BY <2>1, <2>2, ShownStays
<1> QED BY <1>2, <1>3, <1>4 DEF Next

\* On an account whose requests never overlapped, and with rates whose factors never
\* shrink, the balance a user is shown is neither lost between pay_interest,
\* get_balance and the insert, nor refused to a withdrawal it covers (withdraw.rs,
\* deposit.rs).
THEOREM ShownBalancesHold ==
    ASSUME FactorsGrow
    PROVE  Spec => []ShownBalanceHolds
<1>1. Init => AllShownOK
  BY DEF Init, AllShownOK, ShownOK
<1>2. SerialInv /\ AnswersOK /\ AllShownOK /\ [Next]_vars => AllShownOK'
  BY ShownStep
<1>3. AllShownOK /\ AnswersOK => ShownBalanceHolds
  <2> SUFFICES ASSUME AllShownOK, AnswersOK  PROVE ShownBalanceHolds
    OBVIOUS
  <2>1. ShownBalanceKept
    BY DEF AllShownOK, ShownOK, ShownBalanceKept
  <2>2. ShownBalanceIsWithdrawable
    BY DEF AllShownOK, ShownOK, ShownBalanceIsWithdrawable
  <2> QED BY <2>1, <2>2 DEF ShownBalanceHolds
<1> QED BY <1>1, <1>2, <1>3, RowsInvariance, AnswersInvariance, PTL DEF Spec

=============================================================================
