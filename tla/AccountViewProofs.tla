-------------------------- MODULE AccountViewProofs --------------------------
(***************************************************************************)
(* Proofs about AccountView: what the query of an account shows, beside    *)
(* any number of other queries and of the workers of Ledger.               *)
(***************************************************************************)
EXTENDS AccountView, LedgerProofs, FiniteSetTheorems

-----------------------------------------------------------------------------
(* The ledger below the queries.                                           *)

\* The queries read the ledger and leave it alone.
LEMMA QueriesOnlyRead == ViewSpec => Spec
<1>1. ViewInit => Init
  BY DEF ViewInit
<1>2. [ViewNext]_allVars => [Next]_vars
  BY DEF ViewNext, LedgerStep, Resolve, Query, ViewAccount, ViewFails, BalanceAccount,
         BalanceLast, BalanceFails, Transactions, TransactionsFail, allVars
<1> QED BY <1>1, <1>2, PTL DEF ViewSpec, Spec

\* The rows not before `since' are some of the last ones; from 0, all of them
\* (Transaction::find_by_account_id).
LEMMA RowsSinceAreLast ==
    ASSUME TypedAndDated, NEW a \in Accounts, NEW since \in Nat
    PROVE  \E n \in Nat :
               /\ n <= Len(rows[a]) /\ (since = 0 => n = 0)
               /\ RowsSince(a, since) \in Seq(Row)
               /\ Len(RowsSince(a, since)) = Len(rows[a]) - n
               /\ \A i \in 1..(Len(rows[a]) - n) : RowsSince(a, since)[i] = rows[a][n + i]
<1> DEFINE before == {i \in 1..Len(rows[a]) : rows[a][i].at < since}
           n == Cardinality(before)
<1>1. rows[a] \in Seq(Row)
  BY DEF TypedAndDated, TypeOK
<1>2. PICK len \in Nat : len = Len(rows[a])
  BY <1>1, LenProperties
<1>3. \A i \in 1..len : rows[a][i] \in Row
  BY <1>1, <1>2, ElementOfSeq
<1>4. IsFiniteSet(1..len) /\ Cardinality(1..len) = len
  <2>1. 1 \in Int /\ len \in Int /\ (1 > len => len = 0) /\ len - 1 + 1 = len
    OBVIOUS
  <2>2. IsFiniteSet(1..len) /\ Cardinality(1..len) = IF 1 > len THEN 0 ELSE len - 1 + 1
    BY <2>1, FS_Interval
  <2> QED BY <2>1, <2>2
<1>5. before \in SUBSET (1..len)
  BY <1>2
<1>6. n \in Nat /\ n <= len
  BY <1>4, <1>5, FS_Subset, FS_CardinalityType
<1>7. since = 0 => n = 0
  <2>1. since = 0 => before = {}
    <3>1. \A i \in 1..len : rows[a][i].at >= 0
      BY <1>3, InterestAssumption DEF Row
    <3>2. \A i \in 1..len : rows[a][i].at \in Int
      BY <1>3, InterestAssumption DEF Row
    <3> QED BY <1>2, <3>1, <3>2
  <2> QED BY <2>1, FS_EmptySet
<1>8. RowsSince(a, since) = SubSeq(rows[a], n + 1, len)
  BY <1>2 DEF RowsSince
<1> HIDE DEF before, n
<1>9. /\ SubSeq(rows[a], n + 1, len) \in Seq(Row)
      /\ Len(SubSeq(rows[a], n + 1, len)) = IF n + 1 <= len THEN len - (n + 1) + 1 ELSE 0
      /\ \A i \in 1..(len - (n + 1) + 1) : SubSeq(rows[a], n + 1, len)[i] = rows[a][(n + 1) + i - 1]
  <2>1. n + 1 \in Int /\ len \in Int /\ \A i \in (n + 1)..len : rows[a][i] \in Row
    BY <1>3, <1>6
  <2> QED BY <2>1, SubSeqProperties
<1>10. Len(SubSeq(rows[a], n + 1, len)) = len - n
  BY <1>6, <1>9
<1>11. len - (n + 1) + 1 = len - n /\ \A i \in 1..(len - n) : (n + 1) + i - 1 = n + i
  BY <1>6
<1> QED BY <1>2, <1>6, <1>7, <1>8, <1>9, <1>10, <1>11

\* A line of interest is typed like a row.
LEMMA LatestInterestTyped ==
    ASSUME TypedAndDated, NEW a \in Accounts, HasRows(a), NEW r \in Rates
    PROVE  /\ LatestInterest(LastRow(a), r) \in Row
           /\ Accrued(LastRow(a), r) \in Int
<1>1. Accrued(LastRow(a), r) \in Int
  BY LastRowInterest DEF Accrued
<1>2. LastRow(a).balance \in Int /\ now \in 0..MaxTime
  BY LastRowTyped DEF TypedAndDated, TypeOK
<1> QED BY <1>1, <1>2 DEF LatestInterest, Row

\* What the transactions field lists: rows of the account, one after the other up
\* to the last, and the interest on that one (queries/account.rs).
LEMMA ListedLines ==
    ASSUME TypedAndDated, NEW a \in Accounts, NEW since \in Nat, NEW r \in Rates,
           RowsSince(a, since) # <<>>
    PROVE  LET listed == RowsSince(a, since)
               list == Append(listed, LatestInterest(listed[Len(listed)], r))
           IN  /\ HasRows(a)
               /\ list \in Seq(Row)
               /\ list[Len(list)] = LatestInterest(LastRow(a), r)
               /\ \E n \in Nat :
                     /\ n < Len(rows[a]) /\ Len(list) = Len(rows[a]) - n + 1
                     /\ \A i \in 1..(Len(rows[a]) - n) : list[i] = rows[a][n + i]
<1> DEFINE listed == RowsSince(a, since)
           line == LatestInterest(listed[Len(listed)], r)
<1>1. PICK n \in Nat :
          /\ n <= Len(rows[a])
          /\ listed \in Seq(Row) /\ Len(listed) = Len(rows[a]) - n
          /\ \A i \in 1..(Len(rows[a]) - n) : listed[i] = rows[a][n + i]
  BY RowsSinceAreLast
<1>2. PICK len \in Nat : len = Len(rows[a])
  <2>1. rows[a] \in Seq(Row)
    BY DEF TypedAndDated, TypeOK
  <2> QED BY <2>1, LenProperties
<1>3. Len(listed) \in Nat \ {0}
  BY <1>1, EmptySeq
<1> HIDE DEF listed
<1>4. n < len /\ len - n \in 1..(len - n) /\ n + (len - n) = len
  BY <1>1, <1>2, <1>3
<1>5. listed[Len(listed)] = rows[a][len]
  BY <1>1, <1>2, <1>4
<1>6. HasRows(a) /\ listed[Len(listed)] = LastRow(a)
  <2>1. rows[a] # <<>>
    <3>1. rows[a] = <<>> => len = 0
      BY <1>2, EmptySeq
    <3> QED BY <1>4, <3>1
  <2> QED BY <1>2, <1>5, <2>1 DEF HasRows, LastRow
<1>7. line \in Row /\ line = LatestInterest(LastRow(a), r)
  BY <1>6, LatestInterestTyped
<1> HIDE DEF line
<1>8. /\ Append(listed, line) \in Seq(Row)
      /\ Len(Append(listed, line)) = Len(listed) + 1
      /\ \A i \in 1..Len(listed) : Append(listed, line)[i] = listed[i]
      /\ Append(listed, line)[Len(listed) + 1] = line
  BY <1>1, <1>7, AppendProperties
<1>9. \E k \in Nat :
          /\ k < Len(rows[a]) /\ Len(Append(listed, line)) = Len(rows[a]) - k + 1
          /\ \A i \in 1..(Len(rows[a]) - k) : Append(listed, line)[i] = rows[a][k + i]
  BY <1>1, <1>2, <1>4, <1>8
<1>10. Append(listed, line)[Len(Append(listed, line))] = LatestInterest(LastRow(a), r)
  BY <1>7, <1>8
<1> QED BY <1>6, <1>8, <1>9, <1>10 DEF listed, line

-----------------------------------------------------------------------------
(* Types.                                                                  *)

\* A query asks for an account, from a time.
LEMMA AskTyped ==
    ASSUME ViewTypeOK, NEW v \in Viewers
    PROVE  asks[v].account \in Accounts /\ asks[v].since \in Nat
BY AccountViewAssumption DEF ViewTypeOK, Asks

\* What get_balance returns is a whole number of cents.
LEMMA BalanceOfInt ==
    ASSUME TypedAndDated, NEW a \in Accounts, NEW r \in Rates
    PROVE  BalanceOf(a, r) \in Int
<1>1. CASE HasRows(a)
  <2>1. LastRow(a).balance \in Int /\ Accrued(LastRow(a), r) \in Int
    BY <1>1, LastRowTyped, LatestInterestTyped
  <2> QED BY <1>1, <2>1 DEF BalanceOf
<1>2. CASE ~HasRows(a)
  BY <1>2 DEF BalanceOf
<1> QED BY <1>1, <1>2

\* A field of the query leaves everything typed.
LEMMA ResolveTyped ==
    ASSUME Sound, ViewTypeOK, NEW v \in Viewers, Resolve(v)
    PROVE  ViewTypeOK'
<1> DEFINE a == asks[v].account
<1>0. /\ TypedAndDated /\ a \in Accounts /\ asks[v].since \in Nat
      /\ rate[a] \in StorableRates /\ accountRate[v] \in Rates /\ balanceRate[v] \in Rates
      /\ Displayed(a) \in Int
  <2>1. TypedAndDated
    BY DEF Sound
  <2>2. a \in Accounts /\ asks[v].since \in Nat
    BY AskTyped
  <2>3. accountRate[v] \in StorableRates /\ balanceRate[v] \in StorableRates
    BY DEF ViewTypeOK
  <2> QED BY <2>1, <2>2, <2>3, StoredRates, DisplayedInt DEF TypedAndDated, TypeOK
<1>1. CASE Query(v)
  BY <1>0, <1>1 DEF Query, ViewTypeOK, Views
<1>2. CASE ViewAccount(v)
  BY <1>0, <1>2 DEF ViewAccount, ViewTypeOK, Views
<1>3. CASE ViewFails(v)
  BY <1>3 DEF ViewFails, ViewTypeOK, Views
<1>4. CASE BalanceAccount(v)
  BY <1>0, <1>4 DEF BalanceAccount, ViewTypeOK, Views
<1>5. CASE BalanceLast(v)
  <2>1. BalanceOf(a, balanceRate[v]) \in Int
    BY <1>0, BalanceOfInt
  <2> QED BY <1>5, <2>1 DEF BalanceLast, ViewTypeOK, Views
<1>6. CASE BalanceFails(v)
  BY <1>6 DEF BalanceFails, ViewTypeOK, Views
<1>7. CASE Transactions(v)
  <2> DEFINE listed == RowsSince(a, asks[v].since)
             list == IF listed = <<>> THEN <<>>
                     ELSE Append(listed, LatestInterest(listed[Len(listed)], accountRate[v]))
  <2>1. list \in Seq(Row)
    BY <1>0, ListedLines, EmptySeq
  <2>2. lines' = [lines EXCEPT ![v] = list] /\ view' = [view EXCEPT ![v] = "done"]
        /\ UNCHANGED <<asks, accountRate, balanceRate, balance, truths, quiet, steady>>
    BY <1>7 DEF Transactions
  <2> HIDE DEF list
  <2> QED BY <2>1, <2>2 DEF ViewTypeOK, Views
<1>8. CASE TransactionsFail(v)
  BY <1>8 DEF TransactionsFail, ViewTypeOK, Views
<1> QED BY <1>1, <1>2, <1>3, <1>4, <1>5, <1>6, <1>7, <1>8 DEF Resolve

\* What is displayed is a whole number of cents too.
DisplayedTyped == \A a \in Accounts : Displayed(a) \in Int

\* A step of the ledger leaves everything typed.
LEMMA LedgerStepTyped ==
    ASSUME DisplayedTyped', ViewTypeOK, LedgerStep
    PROVE  ViewTypeOK'
<1>1. \A v \in Viewers : Displayed(asks[v].account)' \in Int
  <2> SUFFICES ASSUME NEW v \in Viewers PROVE Displayed(asks[v].account)' \in Int
    OBVIOUS
  <2>1. PICK a \in Accounts : a = asks[v].account /\ a = asks'[v].account
    BY AskTyped DEF LedgerStep
  <2>2. Displayed(a)' \in Int
    BY DEF DisplayedTyped
  <2> QED BY <2>1, <2>2 DEF Displayed, HasRows, LastRow
<1> QED BY <1>1 DEF LedgerStep, ViewTypeOK

LEMMA ViewTyping == ViewSpec => [](Sound /\ ViewTypeOK)
<1>1. ViewInit => ViewTypeOK
  BY StoredRates, EmptySeq DEF ViewInit, ViewTypeOK, Views
<1>2. Sound => DisplayedTyped
  BY DisplayedInt DEF Sound, DisplayedTyped
<1>3. Sound /\ DisplayedTyped' /\ ViewTypeOK /\ [ViewNext]_allVars => ViewTypeOK'
  <2> SUFFICES ASSUME Sound, DisplayedTyped', ViewTypeOK, [ViewNext]_allVars PROVE ViewTypeOK'
    OBVIOUS
  <2>1. CASE UNCHANGED allVars
    BY <2>1 DEF allVars, viewVars, ViewTypeOK
  <2> QED BY <2>1, ResolveTyped, LedgerStepTyped DEF ViewNext
<1> QED BY <1>1, <1>2, <1>3, SoundInv, QueriesOnlyRead, PTL DEF ViewSpec

\* The queries' variables are typed: whatever mutations interleave, a balance is a
\* whole number of cents and a list is one of rows (queries/account.rs).
THEOREM ViewTypes == ViewSpec => []ViewTypeOK
BY ViewTyping, PTL

-----------------------------------------------------------------------------
(* The balance shown was true.                                             *)

\* What the account is worth is among the truths of a query in progress; and what
\* get_balance is about to compute is too, even with a rate that is no longer the
\* account's: a row inserted since earns nothing yet.
TruthsOK ==
    \A v \in Viewers :
        LET a == asks[v].account
        IN  /\ Reads(v) => Displayed(a) \in truths[v]
            /\ quiet[v] /\ view[v] = "balanceLast" => BalanceOf(a, balanceRate[v]) \in truths[v]

\* With the account's own rate, get_balance computes what is displayed.
LEMMA BalanceOfIsDisplayed ==
    ASSUME NEW a \in Accounts
    PROVE  BalanceOf(a, rate[a]) = Displayed(a)
BY DEF BalanceOf, Displayed, Accrued

\* In a tick of the clock, what a rate makes of the account is what it was or what
\* is displayed.
LEMMA BalanceOfStays ==
    ASSUME Sound, Sound', [Next]_vars, UNCHANGED now, NEW a \in Accounts, NEW r \in Rates
    PROVE  \/ BalanceOf(a, r)' = BalanceOf(a, r)
           \/ BalanceOf(a, r)' = Displayed(a)'
<1>1. CASE rows'[a] = rows[a]
  BY <1>1 DEF BalanceOf, HasRows, LastRow, Accrued
<1>2. CASE rows'[a] # rows[a]
  <2>1. HasRows(a)' /\ LastRow(a)'.at = now' /\ now' = now
    BY <1>2, RowsStay
  <2>2. LastRow(a)'.balance \in Int /\ now' \in Int /\ rate'[a] \in Rates
    <3>1. TypedAndDated'
      BY DEF Sound
    <3>2. rows'[a] \in Seq(Row) /\ rate'[a] \in StorableRates /\ now' \in 0..MaxTime
      BY <3>1 DEF TypedAndDated, TypeOK
    <3>3. rows'[a][Len(rows'[a])] \in Row
      BY <2>1, <3>2, EmptySeq, ElementOfSeq DEF HasRows
    <3> QED BY <3>2, <3>3, StoredRates, InterestAssumption DEF LastRow, Row
  <2>3. PICK b \in Int, n \in Int : b = LastRow(a)'.balance /\ n = now'
    BY <2>2
  <2>4. 0 <= n - n /\ n - n < Day
    BY InterestAssumption
  <2>5. \A s \in Rates : CalculateInterest(b, s, n, n) = 0
    BY <2>4, WithinTheDay
  <2>6. BalanceOf(a, r)' = b + CalculateInterest(b, r, n, n)
    BY <2>1, <2>3 DEF BalanceOf, Accrued
  <2>7. Displayed(a)' = b + CalculateInterest(b, rate'[a], n, n)
    BY <2>1, <2>3 DEF Displayed
  <2> QED BY <2>2, <2>5, <2>6, <2>7
<1> QED BY <1>1, <1>2

\* A field of a query.
LEMMA TruthsResolve ==
    ASSUME Sound, ViewTypeOK, TruthsOK, ShownWasTrue, NEW u \in Viewers, Resolve(u)
    PROVE  TruthsOK' /\ ShownWasTrue'
<1>1. UNCHANGED <<vars, asks>>
  BY DEF Resolve, Query, ViewAccount, ViewFails, BalanceAccount, BalanceLast, BalanceFails,
         Transactions, TransactionsFail
<1>2. SUFFICES ASSUME NEW v \in Viewers
               PROVE  LET a == asks[v].account
                      IN  /\ Reads(v)' => Displayed(a) \in truths'[v]
                          /\ quiet'[v] /\ view'[v] = "balanceLast" =>
                                BalanceOf(a, balanceRate'[v]) \in truths'[v]
                          /\ view'[v] \in {"transactions", "done"} /\ quiet'[v] =>
                                balance'[v] \in truths'[v]
  BY <1>1 DEF vars, TruthsOK, ShownWasTrue, Displayed, BalanceOf, Accrued, HasRows, LastRow
<1> DEFINE a == asks[v].account
<1>3. /\ a \in Accounts /\ rate[a] \in Rates /\ balanceRate[v] \in Rates
      /\ Reads(v) => Displayed(a) \in truths[v]
      /\ quiet[v] /\ view[v] = "balanceLast" => BalanceOf(a, balanceRate[v]) \in truths[v]
      /\ view[v] \in {"transactions", "done"} /\ quiet[v] => balance[v] \in truths[v]
  <2>1. rate[a] \in StorableRates /\ balanceRate[v] \in StorableRates
    BY AskTyped DEF ViewTypeOK, Sound, TypedAndDated, TypeOK
  <2> QED BY <2>1, StoredRates, AskTyped DEF TruthsOK, ShownWasTrue
<1> HIDE DEF a
<1>4. CASE v # u
  <2>1. /\ view'[v] = view[v] /\ quiet'[v] = quiet[v] /\ truths'[v] = truths[v]
        /\ balanceRate'[v] = balanceRate[v] /\ balance'[v] = balance[v]
    BY <1>4 DEF ViewTypeOK, Resolve, Query, ViewAccount, ViewFails, BalanceAccount,
                BalanceLast, BalanceFails, Transactions, TransactionsFail
  <2> QED BY <1>3, <2>1 DEF Reads, a
<1>5. CASE v = u
  <2>1. CASE Query(v)
    <3>1. truths'[v] = {Displayed(a)} /\ view'[v] \in {"account", "refused"}
      BY <2>1 DEF Query, ViewTypeOK, a
    <3> QED BY <3>1 DEF a
  <2>2. CASE ViewAccount(v) \/ ViewFails(v)
    <3>1. /\ view'[v] \in {"balanceAccount", "refused"} /\ truths'[v] = truths[v]
          /\ view[v] = "account"
      BY <2>2 DEF ViewAccount, ViewFails, ViewTypeOK
    <3> QED BY <1>3, <3>1 DEF Reads, a
  <2>3. CASE BalanceAccount(v)
    <3>1. /\ view'[v] = "balanceLast" /\ truths'[v] = truths[v] /\ view[v] = "balanceAccount"
          /\ balanceRate'[v] = rate[a]
      BY <2>3 DEF BalanceAccount, ViewTypeOK, a
    <3>2. BalanceOf(a, rate[a]) \in truths[v] /\ Displayed(a) \in truths[v]
      BY <1>3, <3>1, BalanceOfIsDisplayed DEF Reads
    <3> QED BY <1>3, <3>1, <3>2 DEF a
  <2>4. CASE BalanceLast(v)
    <3>1. /\ view'[v] = "transactions" /\ truths'[v] = truths[v] /\ view[v] = "balanceLast"
          /\ quiet'[v] = quiet[v] /\ balance'[v] = BalanceOf(a, balanceRate[v])
      BY <2>4 DEF BalanceLast, ViewTypeOK, a
    <3> QED BY <1>3, <3>1 DEF Reads, a
  <2>5. CASE BalanceFails(v)
    <3>1. /\ view'[v] = "transactions" /\ truths'[v] = truths[v] /\ ~quiet'[v]
          /\ view[v] \in {"balanceAccount", "balanceLast"}
      BY <2>5 DEF BalanceFails, ViewTypeOK
    <3> QED BY <1>3, <3>1 DEF Reads, a
  <2>6. CASE Transactions(v) \/ TransactionsFail(v)
    <3>1. /\ view'[v] = "done" /\ truths'[v] = truths[v] /\ quiet'[v] = quiet[v]
          /\ balance'[v] = balance[v] /\ view[v] = "transactions"
      BY <2>6 DEF Transactions, TransactionsFail, ViewTypeOK
    <3> QED BY <1>3, <3>1 DEF Reads
  <2> QED BY <1>5, <2>1, <2>2, <2>3, <2>4, <2>5, <2>6 DEF Resolve
<1> QED BY <1>4, <1>5 DEF a

\* A step of the ledger beside the queries in progress.
LEMMA TruthsLedger ==
    ASSUME Sound, Sound', ViewTypeOK, TruthsOK, ShownWasTrue, LedgerStep
    PROVE  TruthsOK' /\ ShownWasTrue'
<1>1. SUFFICES ASSUME NEW v \in Viewers
               PROVE  LET a == asks[v].account
                      IN  /\ Reads(v) => Displayed(a)' \in truths'[v]
                          /\ quiet'[v] /\ view[v] = "balanceLast" =>
                                BalanceOf(a, balanceRate[v])' \in truths'[v]
                          /\ view[v] \in {"transactions", "done"} /\ quiet'[v] =>
                                balance[v] \in truths'[v]
  <2>1. UNCHANGED <<view, asks, balanceRate, balance>>
    BY DEF LedgerStep
  <2> QED BY <2>1 DEF TruthsOK, ShownWasTrue, Reads, BalanceOf, Displayed, HasRows, LastRow,
                      Accrued
<1>0. PICK a \in Accounts : a = asks[v].account /\ a = asks'[v].account
  BY AskTyped DEF LedgerStep
<1>2. /\ balanceRate[v] \in Rates
      /\ quiet[v] /\ view[v] = "balanceLast" => BalanceOf(a, balanceRate[v]) \in truths[v]
      /\ view[v] \in {"transactions", "done"} /\ quiet[v] => balance[v] \in truths[v]
  <2>1. balanceRate[v] \in StorableRates
    BY DEF ViewTypeOK
  <2> QED BY <1>0, <2>1, StoredRates DEF TruthsOK, ShownWasTrue
<1>3. /\ Reads(v) => truths'[v] = truths[v] \cup {Displayed(a)'}
      /\ ~Reads(v) => truths'[v] = truths[v]
      /\ quiet'[v] => quiet[v] /\ (Reads(v) => now' = now)
  BY <1>0 DEF LedgerStep, Displayed, HasRows, LastRow
<1>4. Next
  BY DEF LedgerStep
<1>5. ASSUME quiet'[v], view[v] = "balanceLast"
      PROVE  BalanceOf(a, balanceRate[v])' \in truths'[v]
  <2>1. PICK r \in Rates : r = balanceRate[v] /\ r = balanceRate'[v]
    BY <1>2 DEF LedgerStep
  <2>2. now' = now /\ BalanceOf(a, r) \in truths[v] /\ truths'[v] = truths[v] \cup {Displayed(a)'}
    BY <1>2, <1>3, <1>5, <2>1 DEF Reads
  <2>3. BalanceOf(a, r)' = BalanceOf(a, r) \/ BalanceOf(a, r)' = Displayed(a)'
    BY <1>2, <1>4, <2>2, BalanceOfStays
  <2>4. BalanceOf(a, r)' \in truths'[v]
    BY <2>2, <2>3
  <2> QED BY <2>1, <2>4 DEF BalanceOf, Accrued
<1> QED BY <1>0, <1>2, <1>3, <1>5 DEF BalanceOf, Displayed, Accrued, HasRows, LastRow

\* Within a clock tick and without failed reads, the balance shown is one that the
\* account had since the query began, although get_balance takes the rate and the
\* last row from different statements (get_balance.rs) and other requests insert rows
\* and change the rate between them.
THEOREM ShownBalanceWasTrue == ViewSpec => []ShownWasTrue
<1>1. ViewInit => TruthsOK /\ ShownWasTrue
  BY DEF ViewInit, TruthsOK, ShownWasTrue, Reads
<1>2. Sound /\ Sound' /\ ViewTypeOK /\ TruthsOK /\ ShownWasTrue /\ [ViewNext]_allVars
        => TruthsOK' /\ ShownWasTrue'
  <2> SUFFICES ASSUME Sound, Sound', ViewTypeOK, TruthsOK, ShownWasTrue, [ViewNext]_allVars
               PROVE  TruthsOK' /\ ShownWasTrue'
    OBVIOUS
  <2>1. CASE UNCHANGED allVars
    BY <2>1 DEF allVars, vars, viewVars, TruthsOK, ShownWasTrue, Reads, Displayed, BalanceOf,
                HasRows, LastRow, Accrued
  <2> QED BY <2>1, TruthsResolve, TruthsLedger DEF ViewNext
<1> QED BY <1>1, <1>2, ViewTyping, PTL DEF ViewSpec

-----------------------------------------------------------------------------
(* The list ends with the balance.                                         *)

\* While nothing of the account changes, a query holds what the account has.
SteadyOK ==
    \A v \in Viewers :
        LET a == asks[v].account
        IN  steady[v] =>
                /\ view[v] \in {"balanceAccount", "balanceLast", "transactions"} =>
                      accountRate[v] = rate[a]
                /\ view[v] = "balanceLast" => balanceRate[v] = rate[a]
                /\ view[v] = "transactions" => balance[v] = Displayed(a)

\* The list of an account, with the account's own rate, ends with what is displayed.
LEMMA ListEnds ==
    ASSUME Sound, NEW a \in Accounts, NEW since \in Nat
    PROVE  LET listed == RowsSince(a, since)
               list == Append(listed, LatestInterest(listed[Len(listed)], rate[a]))
           IN  /\ listed # <<>> => /\ list # <<>>
                                   /\ list[Len(list)].balance = Displayed(a)
               /\ listed = <<>> /\ since = 0 => Displayed(a) = 0
<1> DEFINE listed == RowsSince(a, since)
           list == Append(listed, LatestInterest(listed[Len(listed)], rate[a]))
<1>0. TypedAndDated /\ rate[a] \in Rates
  BY StoredRates DEF Sound, TypedAndDated, TypeOK
<1>1. ASSUME listed # <<>>
      PROVE  list # <<>> /\ list[Len(list)].balance = Displayed(a)
  <2>1. /\ HasRows(a) /\ list[Len(list)] = LatestInterest(LastRow(a), rate[a])
        /\ list \in Seq(Row)
        /\ \E n \in Nat : n < Len(rows[a]) /\ Len(list) = Len(rows[a]) - n + 1
    BY <1>0, <1>1, ListedLines
  <2>2. list # <<>>
    <3>1. rows[a] \in Seq(Row)
      BY <1>0 DEF TypedAndDated, TypeOK
    <3>2. Len(rows[a]) \in Nat
      BY <3>1, LenProperties
    <3>3. Len(list) # 0
      BY <2>1, <3>2
    <3> QED BY <3>3, EmptySeq
  <2>3. LatestInterest(LastRow(a), rate[a]).balance =
           LastRow(a).balance + Accrued(LastRow(a), rate[a])
    BY DEF LatestInterest
  <2> QED BY <2>1, <2>2, <2>3 DEF Displayed, Accrued
<1>2. ASSUME listed = <<>>, since = 0
      PROVE  Displayed(a) = 0
  <2>1. Len(listed) = Len(rows[a]) /\ Len(rows[a]) \in Nat
    <3>1. rows[a] \in Seq(Row)
      BY <1>0 DEF TypedAndDated, TypeOK
    <3>2. Len(rows[a]) \in Nat
      BY <3>1, LenProperties
    <3>3. \E n \in Nat : (since = 0 => n = 0) /\ Len(listed) = Len(rows[a]) - n
      BY <1>0, RowsSinceAreLast
    <3> QED BY <1>2, <3>2, <3>3
  <2>2. Len(rows[a]) = 0
    BY <1>2, <2>1, EmptySeq
  <2>3. ~HasRows(a)
    BY <1>0, <2>2, EmptySeq DEF HasRows, TypedAndDated, TypeOK
  <2> QED BY <2>3 DEF Displayed
<1> QED BY <1>1, <1>2

\* A field of a query.
LEMMA SteadyResolve ==
    ASSUME Sound, ViewTypeOK, SteadyOK, LastLineIsBalance, NEW u \in Viewers, Resolve(u)
    PROVE  SteadyOK' /\ LastLineIsBalance'
<1>1. UNCHANGED <<vars, asks>>
  BY DEF Resolve, Query, ViewAccount, ViewFails, BalanceAccount, BalanceLast, BalanceFails,
         Transactions, TransactionsFail
<1>2. SUFFICES ASSUME NEW v \in Viewers, steady'[v]
               PROVE  LET a == asks[v].account
                      IN  /\ view'[v] \in {"balanceAccount", "balanceLast", "transactions"} =>
                                accountRate'[v] = rate[a]
                          /\ view'[v] = "balanceLast" => balanceRate'[v] = rate[a]
                          /\ view'[v] = "transactions" => balance'[v] = Displayed(a)
                          /\ view'[v] = "done" =>
                                \/ /\ lines'[v] # <<>>
                                   /\ lines'[v][Len(lines'[v])].balance = balance'[v]
                                \/ lines'[v] = <<>> /\ (asks[v].since = 0 => balance'[v] = 0)
  BY <1>1 DEF vars, SteadyOK, LastLineIsBalance, Displayed, HasRows, LastRow
<1> DEFINE a == asks[v].account
<1>3. /\ a \in Accounts /\ asks[v].since \in Nat
      /\ steady[v] => /\ view[v] \in {"balanceAccount", "balanceLast", "transactions"} =>
                            accountRate[v] = rate[a]
                      /\ view[v] = "balanceLast" => balanceRate[v] = rate[a]
                      /\ view[v] = "transactions" => balance[v] = Displayed(a)
                      /\ view[v] = "done" =>
                            \/ lines[v] # <<>> /\ lines[v][Len(lines[v])].balance = balance[v]
                            \/ lines[v] = <<>> /\ (asks[v].since = 0 => balance[v] = 0)
  BY AskTyped DEF SteadyOK, LastLineIsBalance
<1> HIDE DEF a
<1>4. CASE v # u
  <2>1. /\ view'[v] = view[v] /\ steady'[v] = steady[v] /\ accountRate'[v] = accountRate[v]
        /\ balanceRate'[v] = balanceRate[v] /\ balance'[v] = balance[v] /\ lines'[v] = lines[v]
    BY <1>4 DEF ViewTypeOK, Resolve, Query, ViewAccount, ViewFails, BalanceAccount,
                BalanceLast, BalanceFails, Transactions, TransactionsFail
  <2> QED BY <1>2, <1>3, <2>1 DEF a
<1>5. CASE v = u
  <2>1. CASE Query(v) \/ ViewFails(v)
    <3>1. view'[v] \in {"account", "refused"}
      BY <2>1 DEF Query, ViewFails, ViewTypeOK
    <3> QED BY <3>1
  <2>2. CASE ViewAccount(v)
    <3>1. view'[v] = "balanceAccount" /\ accountRate'[v] = rate[a]
      BY <2>2 DEF ViewAccount, ViewTypeOK, a
    <3> QED BY <3>1 DEF a
  <2>3. CASE BalanceAccount(v)
    <3>1. /\ view[v] = "balanceAccount" /\ view'[v] = "balanceLast" /\ balanceRate'[v] = rate[a]
          /\ steady'[v] = steady[v] /\ accountRate'[v] = accountRate[v]
      BY <2>3 DEF BalanceAccount, ViewTypeOK, a
    <3> QED BY <1>2, <1>3, <3>1 DEF a
  <2>4. CASE BalanceLast(v)
    <3>1. /\ view[v] = "balanceLast" /\ view'[v] = "transactions" /\ steady'[v] = steady[v]
          /\ accountRate'[v] = accountRate[v] /\ balance'[v] = BalanceOf(a, balanceRate[v])
      BY <2>4 DEF BalanceLast, ViewTypeOK, a
    <3> QED BY <1>2, <1>3, <3>1, BalanceOfIsDisplayed DEF a
  <2>5. CASE BalanceFails(v) \/ TransactionsFail(v)
    <3>1. ~steady'[v]
      BY <2>5 DEF BalanceFails, TransactionsFail, ViewTypeOK
    <3> QED BY <1>2, <3>1
  <2>6. CASE Transactions(v)
    <3> DEFINE listed == RowsSince(a, asks[v].since)
               list == Append(listed, LatestInterest(listed[Len(listed)], accountRate[v]))
    <3>1. /\ view[v] = "transactions" /\ view'[v] = "done" /\ steady'[v] = steady[v]
          /\ balance'[v] = balance[v]
          /\ lines'[v] = IF listed = <<>> THEN <<>> ELSE list
      BY <2>6 DEF Transactions, ViewTypeOK, a
    <3>2. accountRate[v] = rate[a] /\ balance[v] = Displayed(a)
      BY <1>2, <1>3, <3>1
    <3>3. /\ listed # <<>> => list # <<>> /\ list[Len(list)].balance = Displayed(a)
          /\ listed = <<>> /\ asks[v].since = 0 => Displayed(a) = 0
      BY <1>3, <3>2, ListEnds
    <3> HIDE DEF listed, list
    <3> QED BY <3>1, <3>2, <3>3
  <2> QED BY <1>5, <2>1, <2>2, <2>3, <2>4, <2>5, <2>6 DEF Resolve
<1> QED BY <1>4, <1>5 DEF a

\* A step of the ledger that changes nothing of the account.
LEMMA SteadyLedger ==
    ASSUME ViewTypeOK, SteadyOK, LastLineIsBalance, LedgerStep
    PROVE  SteadyOK' /\ LastLineIsBalance'
<1>1. UNCHANGED <<view, asks, accountRate, balanceRate, balance, lines>>
  BY DEF LedgerStep
<1>2. \A v \in Viewers : steady'[v] => steady[v]
  BY DEF LedgerStep
<1>3. LastLineIsBalance'
  BY <1>1, <1>2 DEF LastLineIsBalance
<1>4. ASSUME NEW v \in Viewers, steady'[v], Reads(v)
      PROVE  LET a == asks[v].account
             IN  rate'[a] = rate[a] /\ Displayed(a)' = Displayed(a)
  <2>1. PICK a \in Accounts : a = asks[v].account /\ a = asks'[v].account
    BY <1>1, AskTyped
  <2>2. now' = now /\ rows'[a] = rows[a] /\ rate'[a] = rate[a]
    BY <1>4, <2>1 DEF LedgerStep
  <2>3. Displayed(a)' = Displayed(a)
    BY <2>2 DEF Displayed, HasRows, LastRow
  <2> QED BY <2>1, <2>2, <2>3 DEF Displayed, HasRows, LastRow
<1>5. SteadyOK'
  <2> SUFFICES ASSUME NEW v \in Viewers, steady'[v], Reads(v)
               PROVE  LET a == asks[v].account
                      IN  /\ view[v] \in {"balanceAccount", "balanceLast", "transactions"} =>
                                accountRate[v] = rate'[a]
                          /\ view[v] = "balanceLast" => balanceRate[v] = rate'[a]
                          /\ view[v] = "transactions" => balance[v] = Displayed(a)'
    BY <1>1 DEF SteadyOK, Reads, Displayed, HasRows, LastRow
  <2> QED BY <1>2, <1>4 DEF SteadyOK
<1> QED BY <1>3, <1>5

\* The balance and the list of an account are computed apart; if nothing of the
\* account changed meanwhile, the list ends with the balance above it, and an empty
\* list goes with a balance of 0 (queries/account.rs).
THEOREM ListEndsWithBalance == ViewSpec => []LastLineIsBalance
<1>1. ViewInit => SteadyOK /\ LastLineIsBalance
  BY DEF ViewInit, SteadyOK, LastLineIsBalance
<1>2. Sound /\ ViewTypeOK /\ SteadyOK /\ LastLineIsBalance /\ [ViewNext]_allVars
        => SteadyOK' /\ LastLineIsBalance'
  <2> SUFFICES ASSUME Sound, ViewTypeOK, SteadyOK, LastLineIsBalance, [ViewNext]_allVars
               PROVE  SteadyOK' /\ LastLineIsBalance'
    OBVIOUS
  <2>1. CASE UNCHANGED allVars
    BY <2>1 DEF allVars, vars, viewVars, SteadyOK, LastLineIsBalance, Displayed, HasRows, LastRow
  <2> QED BY <2>1, SteadyResolve, SteadyLedger DEF ViewNext
<1> QED BY <1>1, <1>2, ViewTyping, PTL DEF ViewSpec

-----------------------------------------------------------------------------
(* The list adds up.                                                       *)

\* A line continues from the line before it.
Follows(line, last) ==
    /\ line.at >= last.at
    /\ line.kind = "interest" => line.balance = last.balance + line.amount
    /\ line.kind # "interest" => line.balance >= last.balance + Signed(line.kind, line.amount)

\* The rows of an account whose requests never overlapped do.
LEMMA RowsFollow ==
    ASSUME FactorsGrow, Sound, NonNegativeBalances, RowsOK, NEW a \in Accounts \ disturbed,
           NEW i \in 2..Len(rows[a])
    PROVE  Follows(rows[a][i], rows[a][i - 1])
<1> DEFINE row == rows[a][i]
           last == rows[a][i - 1]
           gain == IF row.kind = "interest" THEN row.amount
                   ELSE row.balance - last.balance - Signed(row.kind, row.amount)
<1>1. PICK len \in Nat : len = Len(rows[a]) /\ rows[a] \in Seq(Row)
  <2>1. rows[a] \in Seq(Row)
    BY DEF Sound, TypedAndDated, TypeOK
  <2> QED BY <2>1, LenProperties
<1>2. i \in 1..len /\ i - 1 \in 1..len /\ i # 1
  BY <1>1
<1>3. row \in Row /\ last \in Row
  BY <1>1, <1>2, ElementOfSeq
<1>4. /\ row.balance \in Int /\ row.amount \in Int /\ row.at \in 0..MaxTime
      /\ last.balance \in Int /\ last.at \in 0..MaxTime /\ MaxTime \in Nat
  BY <1>3, InterestAssumption DEF Row
<1>5. last.balance >= 0
  BY <1>1, <1>2 DEF NonNegativeBalances
<1>6. /\ gain \in Gains(last.balance, row.at - last.at)
      /\ row.kind = "interest" => row.balance = last.balance + row.amount
  <2>1. Runs(a, i)
    BY <1>1, <1>2 DEF RowsOK
  <2>2. BalanceBefore(a, i) = last.balance /\ ElapsedBefore(a, i) = row.at - last.at
    BY <1>2 DEF BalanceBefore, ElapsedBefore
  <2> QED BY <2>1, <2>2 DEF Runs
<1> HIDE DEF row, last
<1>7. PICK r \in Rates, t \in 0..(row.at - last.at) :
        gain = CalculateInterest(last.balance, r, 0, t)
  BY <1>6 DEF Gains
<1>8. t \in Int /\ 0 <= t /\ t <= row.at - last.at /\ t - 0 \in 0..MaxTime /\ last.balance \in Nat
  <2>1. PICK e \in Int : e = row.at - last.at /\ e <= MaxTime
    BY <1>4
  <2>2. t \in 0..e
    BY <1>7, <2>1
  <2> QED BY <1>4, <1>5, <2>1, <2>2
<1>9. gain >= 0
  BY <1>7, <1>8, InterestGrows
<1>10. row.kind # "interest" => row.balance >= last.balance + Signed(row.kind, row.amount)
  <2>1. Signed(row.kind, row.amount) \in Int
    BY <1>4 DEF Signed
  <2>2. CASE row.kind # "interest"
    <3>1. row.balance - last.balance - Signed(row.kind, row.amount) >= 0
      BY <1>9, <2>2
    <3>2. \A x, y, z \in Int : x - y - z >= 0 => x >= y + z
      OBVIOUS
    <3> QED BY <1>4, <2>1, <3>1, <3>2
  <2> QED BY <2>2
<1>11. row.at >= last.at
  BY <1>4, <1>8
<1> QED BY <1>6, <1>10, <1>11 DEF Follows, row, last

\* So does the line of interest that the query adds.
LEMMA LatestFollows ==
    ASSUME Sound, NEW a \in Accounts, HasRows(a), NEW r \in Rates
    PROVE  Follows(LatestInterest(LastRow(a), r), LastRow(a))
<1>0. TypedAndDated
  BY DEF Sound
<1>1. LastRow(a).at \in 0..now /\ now \in 0..MaxTime /\ MaxTime \in Nat
  BY <1>0, LastRowTyped, InterestAssumption DEF TypedAndDated, TypeOK
<1> QED BY <1>1 DEF Follows, LatestInterest

\* Together, so does every line of the list.
LEMMA ListFollows ==
    ASSUME FactorsGrow, Sound, NonNegativeBalances, RowsOK, NEW a \in Accounts \ disturbed,
           NEW since \in Nat, NEW r \in Rates, RowsSince(a, since) # <<>>
    PROVE  LET listed == RowsSince(a, since)
               list == Append(listed, LatestInterest(listed[Len(listed)], r))
           IN  \A i \in 2..Len(list) : Follows(list[i], list[i - 1])
<1> DEFINE listed == RowsSince(a, since)
           list == Append(listed, LatestInterest(listed[Len(listed)], r))
<1>0. TypedAndDated
  BY DEF Sound
<1>1. /\ HasRows(a) /\ list[Len(list)] = LatestInterest(LastRow(a), r)
      /\ \E n \in Nat :
            /\ n < Len(rows[a]) /\ Len(list) = Len(rows[a]) - n + 1
            /\ \A i \in 1..(Len(rows[a]) - n) : list[i] = rows[a][n + i]
  BY <1>0, ListedLines
<1> HIDE DEF list
<1>2. PICK len \in Nat : len = Len(rows[a])
  <2>1. rows[a] \in Seq(Row)
    BY <1>0 DEF TypedAndDated, TypeOK
  <2> QED BY <2>1, LenProperties
<1>3. PICK n \in Nat :
          /\ n < len /\ Len(list) = len - n + 1
          /\ \A i \in 1..(len - n) : list[i] = rows[a][n + i]
  BY <1>1, <1>2
<1>4. SUFFICES ASSUME NEW i \in 2..(len - n + 1) PROVE Follows(list[i], list[i - 1])
  BY <1>3 DEF list
<1>5. CASE i = len - n + 1
  <2>1. i - 1 \in 1..(len - n) /\ n + (i - 1) = len
    BY <1>3, <1>5
  <2>2. list[i - 1] = LastRow(a)
    BY <1>2, <1>3, <2>1 DEF LastRow
  <2>3. list[i] = LatestInterest(LastRow(a), r)
    BY <1>1, <1>3, <1>5
  <2> QED BY <1>1, <2>2, <2>3, LatestFollows
<1>6. CASE i # len - n + 1
  <2>1. i \in 1..(len - n) /\ i - 1 \in 1..(len - n)
    BY <1>3, <1>6
  <2>2. list[i] = rows[a][n + i] /\ list[i - 1] = rows[a][n + (i - 1)]
    BY <1>3, <2>1
  <2>3. n + i \in 2..len /\ n + (i - 1) = (n + i) - 1
    BY <1>3, <2>1
  <2>4. Follows(rows[a][n + i], rows[a][(n + i) - 1])
    BY <1>2, <2>3, RowsFollow
  <2> QED BY <2>2, <2>3, <2>4
<1> QED BY <1>5, <1>6

\* The property, with the name of the lemma's relation; nothing is listed before
\* the query is done.
FollowingLines ==
    \A v \in Viewers :
        /\ view[v] = "done" /\ asks[v].account \notin disturbed =>
              \A i \in 2..Len(lines[v]) : Follows(lines[v][i], lines[v][i - 1])
        /\ view[v] # "done" => lines[v] = <<>>

\* The ledger forgets no disturbance.
LEMMA DisturbedStays ==
    ASSUME Sound, [Next]_vars
    PROVE  disturbed \subseteq disturbed'
<1>1. CASE Tick \/ Quiescent \/ UNCHANGED vars
  BY <1>1 DEF Tick, Quiescent, vars, historyVars
<1> QED BY <1>1, ServeAlone, ArriveAlone DEF Next, Sound, TypedAndDated

\* What a query has listed stays, and what it lists follows.
LEMMA FollowingStep ==
    ASSUME FactorsGrow, Sound, NonNegativeBalances, RowsOK, ViewTypeOK, FollowingLines,
           [ViewNext]_allVars
    PROVE  FollowingLines'
<1>1. disturbed \subseteq disturbed' /\ UNCHANGED asks
  <2>1. [Next]_vars /\ UNCHANGED asks
    BY DEF ViewNext, LedgerStep, Resolve, Query, ViewAccount, ViewFails, BalanceAccount,
           BalanceLast, BalanceFails, Transactions, TransactionsFail, allVars, viewVars
  <2> QED BY <2>1, DisturbedStays
<1>0. ASSUME NEW v \in Viewers, view'[v] # "done"
      PROVE  lines'[v] = <<>>
  <2>1. view[v] # "done" /\ lines'[v] = lines[v]
    BY <1>0 DEF ViewNext, LedgerStep, Resolve, Query, ViewAccount, ViewFails, BalanceAccount,
                BalanceLast, BalanceFails, Transactions, TransactionsFail, allVars, viewVars,
                ViewTypeOK
  <2> QED BY <2>1 DEF FollowingLines
<1>2. SUFFICES ASSUME NEW v \in Viewers, view'[v] = "done", asks[v].account \notin disturbed'
               PROVE  \A i \in 2..Len(lines'[v]) : Follows(lines'[v][i], lines'[v][i - 1])
  BY <1>0, <1>1 DEF FollowingLines, Follows
<1>3. CASE view[v] = "done" /\ lines'[v] = lines[v]
  BY <1>1, <1>2, <1>3 DEF FollowingLines
<1>4. CASE Transactions(v)
  <2>1. PICK a \in Accounts \ disturbed, since \in Nat, r \in Rates :
            a = asks[v].account /\ since = asks[v].since /\ r = accountRate[v]
    BY <1>1, <1>2, AskTyped, StoredRates DEF ViewTypeOK
  <2> DEFINE listed == RowsSince(a, since)
             list == Append(listed, LatestInterest(listed[Len(listed)], r))
  <2>2. lines'[v] = IF listed = <<>> THEN <<>> ELSE list
    BY <1>4, <2>1 DEF Transactions, ViewTypeOK
  <2>3. listed # <<>> => \A i \in 2..Len(list) : Follows(list[i], list[i - 1])
    BY ListFollows
  <2> HIDE DEF listed, list
  <2>4. Len(<<>>) = 0
    BY EmptySeq
  <2> QED BY <2>2, <2>3, <2>4
<1>5. CASE TransactionsFail(v)
  <2>1. view[v] = "transactions" /\ lines'[v] = lines[v]
    BY <1>5 DEF TransactionsFail
  <2>2. lines'[v] = <<>> /\ Len(<<>>) = 0
    BY <2>1, EmptySeq DEF FollowingLines
  <2> QED BY <2>2
<1>6. CASE LedgerStep \/ UNCHANGED allVars
  BY <1>2, <1>3, <1>6 DEF LedgerStep, allVars, viewVars
<1>7. ASSUME NEW u \in Viewers, Resolve(u), ~(u = v /\ (Transactions(v) \/ TransactionsFail(v)))
      PROVE  view[v] = "done" /\ lines'[v] = lines[v]
  <2>1. CASE u = v
    BY <1>2, <1>7, <2>1 DEF Resolve, Query, ViewAccount, ViewFails, BalanceAccount, BalanceLast,
                            BalanceFails, ViewTypeOK
  <2>2. CASE u # v
    BY <1>2, <1>7, <2>2 DEF Resolve, Query, ViewAccount, ViewFails, BalanceAccount, BalanceLast,
                            BalanceFails, Transactions, TransactionsFail, ViewTypeOK
  <2> QED BY <2>1, <2>2
<1> QED BY <1>3, <1>4, <1>5, <1>6, <1>7 DEF ViewNext

\* With rates whose factors never shrink, the list of an account ends with its
\* balance if nothing of the account changed meanwhile; and if its requests never
\* overlapped, the list reads like a ledger to its last line, the one that is in no
\* table: in order of time, losing no money but what was withdrawn (queries/account.rs).
THEOREM ListsAgree ==
    ASSUME FactorsGrow
    PROVE  ViewSpec => []LinesAgree
<1>1. ViewInit => FollowingLines
  BY DEF ViewInit, FollowingLines
<1>2. Sound /\ NonNegativeBalances /\ RowsOK /\ ViewTypeOK /\ FollowingLines /\ [ViewNext]_allVars
        => FollowingLines'
  BY FollowingStep
<1>3. SerialInv => NonNegativeBalances
  BY DEF SerialInv, NonNegativeInv
<1>4. FollowingLines => LinesAddUp
  BY DEF FollowingLines, LinesAddUp, Follows
<1>5. LastLineIsBalance /\ LinesAddUp => LinesAgree
  BY DEF LinesAgree
<1> QED BY <1>1, <1>2, <1>3, <1>4, <1>5, ViewTyping, QueriesOnlyRead, RowsInvariance,
           ListEndsWithBalance, PTL DEF ViewSpec

=============================================================================
