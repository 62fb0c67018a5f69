------------------------------- MODULE Ledger -------------------------------
(***************************************************************************)
(* The money operations of the API server: the deposit, withdraw and       *)
(* changeAccountInterest mutations, and pay_interest and get_balance,      *)
(* which they call.                                                        *)
(*                                                                         *)
(* Requests are served by Rocket workers, each on a database connection of *)
(* its own.  No operation opens a database transaction, so every SELECT,   *)
(* INSERT and UPDATE commits by itself and a request is the sequence of    *)
(* steps pc[w] walks through, one per statement, interleaved with those of *)
(* the other workers.  Any `?' of the code may return early (Fail), and    *)
(* what was committed before it stays.                                     *)
(*                                                                         *)
(* A row's place in rows[a] is the order of commit, which is the order of  *)
(* created_at: the column defaults to the current time of a single clock.  *)
(*                                                                         *)
(* A definition that no action or property uses (LastRowAscending, ...) is *)
(* a faulty variant of the one that follows it, against which PROJECT.json *)
(* tests the properties.                                                   *)
(***************************************************************************)
EXTENDS Interest, Sequences

CONSTANTS
    Workers,        \* the request workers
    Accounts,       \* the accounts
    Users,          \* the users who may call
    Holder,         \* Holder[a]: the user who holds account a
    AdminsOf,       \* AdminsOf[a]: the admins of the client of a's holder
    Mailed,         \* accounts whose holder has an email address
    DefaultRate,    \* the yearly interest of a new account
    StorableRates,  \* rates the column DECIMAL(5,2) can store
    Requests,       \* the mutation calls that may arrive
    MaxRequests     \* bound on the number of requests

Kinds == {"deposit", "withdrawal", "changeInterest"}

ASSUME LedgerAssumption ==
    /\ DefaultRate \in StorableRates
    /\ StorableRates \subseteq Rates
    /\ Requests \subseteq [kind : Kinds, user : Users, account : Accounts,
                           cents : Int, rate : Rates]
    /\ Requests # {}
    /\ MaxRequests \in Nat

VARIABLES
    rows,       \* rows[a]: the table `transactions', in order of created_at
    rate,       \* rate[a]: accounts.yearly_interest
    now,        \* the clock
    accepted,   \* number of requests that have arrived
    published,  \* <<a, i>>: row i of a was announced on the mail topic
    pc,         \* pc[w]: the statement worker w runs next
    req,        \* req[w]: the call w serves, or served last
    seenRate,   \* seenRate[w]: the rate of its last Account::find
    found,      \* found[w]: the balance of the last row it found
    interest,   \* interest[w]: the interest it computed on found[w]
    rowIx,      \* rowIx[w]: the row it inserted for the call, or 0
    answer,     \* answer[w]: its answer to the call
    \* History variables, which no guard reads.
    disturbed,  \* accounts where two requests overlapped or a lookup failed
    checkedAt,  \* checkedAt[w]: when pay_interest read the clock
    shown       \* shown[w]: the balance displayed when the call arrived

ledgerVars  == <<rows, rate, published>>
localVars   == <<seenRate, found, interest>>
historyVars == <<disturbed, checkedAt, shown>>
vars == <<rows, rate, now, accepted, published, pc, req, seenRate, found,
          interest, rowIx, answer, disturbed, checkedAt, shown>>

-----------------------------------------------------------------------------

Row == [kind : {"deposit", "withdrawal", "interest"}, amount : Int,
        balance : Int, at : 0..MaxTime]

Steps == {"idle", "payFindLast", "payInsert", "findAccount", "findLast",
          "insert", "publish", "update"}

Answers == {"none", "ok", "refused", "failed"}

\* Transaction::find_last_by_account_id; its NotFound is HasRows being false.
HasRows(a) == rows[a] # <<>>
LastRowAscending(a) == rows[a][1]
LastRow(a)          == rows[a][Len(rows[a])]

\* can_access and can_admin; the tables they read do not change here.
CanAdmin(u, a)  == u \in AdminsOf[a]
CanAccess(u, a) == u = Holder[a] \/ CanAdmin(u, a)

Authorised(r) == IF r.kind = "changeInterest" THEN CanAdmin(r.user, r.account)
                                              ELSE CanAccess(r.user, r.account)
Valid(r) == r.kind # "changeInterest" => r.cents > 0

\* What get_balance computes when nothing fails and nothing interleaves.
Displayed(a) ==
    IF HasRows(a)
    THEN LastRow(a).balance
           + CalculateInterest(LastRow(a).balance, rate[a], LastRow(a).at, now)
    ELSE 0

\* Another worker has a request on account a in progress.
Busy(w, a) == \E v \in Workers \ {w} : pc[v] # "idle" /\ req[v].account = a

-----------------------------------------------------------------------------

Init ==
    /\ rows = [a \in Accounts |-> <<>>]
    /\ rate = [a \in Accounts |-> DefaultRate]
    /\ now = 0
    /\ accepted = 0
    /\ published = {}
    /\ pc = [w \in Workers |-> "idle"]
    /\ req = [w \in Workers |-> CHOOSE r \in Requests : TRUE]
    /\ seenRate = [w \in Workers |-> DefaultRate]
    /\ found = [w \in Workers |-> 0]
    /\ interest = [w \in Workers |-> 0]
    /\ rowIx = [w \in Workers |-> 0]
    /\ answer = [w \in Workers |-> "none"]
    /\ disturbed = {}
    /\ checkedAt = [w \in Workers |-> 0]
    /\ shown = [w \in Workers |-> 0]

Goto(w, step) == pc' = [pc EXCEPT ![w] = step]

\* The request ends: the worker keeps nothing but its answer.
Finish(w, result) ==
    /\ Goto(w, "idle")
    /\ answer' = [answer EXCEPT ![w] = result]
    /\ seenRate' = [seenRate EXCEPT ![w] = DefaultRate]
    /\ found' = [found EXCEPT ![w] = 0]
    /\ interest' = [interest EXCEPT ![w] = 0]
    /\ checkedAt' = [checkedAt EXCEPT ![w] = 0]

Remember(w, balance, gain) ==
    /\ found' = [found EXCEPT ![w] = balance]
    /\ interest' = [interest EXCEPT ![w] = gain]

InsertRow(a, kind, amount, balance) ==
    rows' = [rows EXCEPT ![a] = Append(@, [kind |-> kind, amount |-> amount,
                                           balance |-> balance, at |-> now])]

-----------------------------------------------------------------------------
\* A call arrives: the mutation authorises it, the action validates the amount
\* and pay_interest reads the account.  The tables read for the authorisation
\* never change here, so these reads are one step.
Accept(w, r) ==
    LET a == r.account
    IN  /\ pc[w] = "idle"
        /\ accepted < MaxRequests
        /\ Authorised(r) /\ Valid(r)
        /\ accepted' = accepted + 1
        /\ Goto(w, "payFindLast")
        /\ req' = [req EXCEPT ![w] = r]
        /\ answer' = [answer EXCEPT ![w] = "none"]
        /\ rowIx' = [rowIx EXCEPT ![w] = 0]
        /\ seenRate' = [seenRate EXCEPT ![w] = rate[a]]
        /\ disturbed' = IF Busy(w, a) THEN disturbed \cup {a} ELSE disturbed
        /\ shown' = [shown EXCEPT ![w] = Displayed(a)]
        /\ UNCHANGED <<ledgerVars, now, found, interest, checkedAt>>

\* "Unauthorised" or "Invalid amount": nothing is read or written.
Reject(w, r) ==
    /\ pc[w] = "idle"
    /\ accepted < MaxRequests
    /\ ~(Authorised(r) /\ Valid(r))
    /\ accepted' = accepted + 1
    /\ req' = [req EXCEPT ![w] = r]
    /\ answer' = [answer EXCEPT ![w] = "refused"]
    /\ rowIx' = [rowIx EXCEPT ![w] = 0]
    /\ shown' = [shown EXCEPT ![w] = Displayed(r.account)]
    /\ UNCHANGED <<ledgerVars, now, pc, seenRate, found, interest, disturbed,
                   checkedAt>>

\* The statement that follows pay_interest.
AfterPay(w) == IF req[w].kind = "changeInterest" THEN "update" ELSE "findAccount"

InterestDueAlways(a) == HasRows(a)
InterestDueLate(a) == HasRows(a) /\ ~(LastRow(a).at > now - 2 * Day)

\* pay_interest is due when the last row is at least a day old.
InterestDue(a) == HasRows(a) /\ ~(LastRow(a).at > now - Day)

\* pay_interest selects the last row, reads the clock and computes.
PayFindLast(w) ==
    LET a == req[w].account
    IN  /\ pc[w] = "payFindLast"
        /\ checkedAt' = [checkedAt EXCEPT ![w] = now]
        /\ \/ /\ InterestDue(a)
              /\ Remember(w, LastRow(a).balance,
                          CalculateInterest(LastRow(a).balance, seenRate[w],
                                            LastRow(a).at, now))
              /\ Goto(w, "payInsert")
           \/ /\ ~InterestDue(a)
              /\ Goto(w, AfterPay(w))
              /\ UNCHANGED <<found, interest>>
        /\ UNCHANGED <<ledgerVars, now, accepted, req, seenRate, rowIx, answer,
                       disturbed, shown>>

PayInsertUnadded(w) ==
    /\ pc[w] = "payInsert"
    /\ InsertRow(req[w].account, "interest", interest[w], found[w])
    /\ Remember(w, 0, 0)
    /\ Goto(w, AfterPay(w))
    /\ UNCHANGED <<rate, published, now, accepted, req, seenRate, rowIx, answer,
                   historyVars>>

\* pay_interest inserts the Interest row.
PayInsert(w) ==
    /\ pc[w] = "payInsert"
    /\ InsertRow(req[w].account, "interest", interest[w], found[w] + interest[w])
    /\ Remember(w, 0, 0)
    /\ Goto(w, AfterPay(w))
    /\ UNCHANGED <<rate, published, now, accepted, req, seenRate, rowIx, answer,
                   historyVars>>

\* get_balance reads the account again.
FindAccount(w) ==
    /\ pc[w] = "findAccount"
    /\ seenRate' = [seenRate EXCEPT ![w] = rate[req[w].account]]
    /\ Goto(w, "findLast")
    /\ UNCHANGED <<ledgerVars, now, accepted, req, found, interest, rowIx, answer,
                   historyVars>>

EnoughBalanceStrictly(current, cents) == current > cents
EnoughBalanceUnchecked(current, cents) == TRUE
EnoughBalance(current, cents) == current - cents >= 0

\* get_balance returns balance + gain; withdraw may find it too low.
Decide(w, balance, gain) ==
    LET r == req[w]
    IN  \/ /\ r.kind = "withdrawal" /\ ~EnoughBalance(balance + gain, r.cents)
           /\ Finish(w, "refused")
        \/ /\ r.kind = "withdrawal" => EnoughBalance(balance + gain, r.cents)
           /\ Remember(w, balance, gain)
           /\ Goto(w, "insert")
           /\ UNCHANGED <<seenRate, answer, checkedAt>>

\* get_balance selects the last row and reads the clock; no row is balance 0.
FindLast(w) ==
    LET a == req[w].account
    IN  /\ pc[w] = "findLast"
        /\ IF HasRows(a)
           THEN Decide(w, LastRow(a).balance,
                       CalculateInterest(LastRow(a).balance, seenRate[w],
                                         LastRow(a).at, now))
           ELSE Decide(w, 0, 0)
        /\ UNCHANGED <<ledgerVars, now, accepted, req, rowIx, disturbed, shown>>

\* get_balance takes every error of the SELECT for an account without rows.
FindLastFails(w) ==
    /\ pc[w] = "findLast"
    /\ Decide(w, 0, 0)
    /\ disturbed' = disturbed \cup {req[w].account}
    /\ UNCHANGED <<ledgerVars, now, accepted, req, rowIx, shown>>

Signed(kind, cents) == IF kind = "withdrawal" THEN -cents ELSE cents

\* deposit and withdraw insert their row.
Insert(w) ==
    LET r == req[w]
    IN  /\ pc[w] = "insert"
        /\ InsertRow(r.account, r.kind, r.cents,
                     found[w] + interest[w] + Signed(r.kind, r.cents))
        /\ rowIx' = [rowIx EXCEPT ![w] = Len(rows[r.account]) + 1]
        /\ Goto(w, "publish")
        /\ UNCHANGED <<rate, published, now, accepted, req, seenRate, found,
                       interest, answer, historyVars>>

PublishErrorSwallowed(w) ==
    /\ pc[w] = "publish"
    /\ Finish(w, "ok")
    /\ UNCHANGED <<ledgerVars, now, accepted, req, rowIx, disturbed, shown>>

\* The acknowledgement is published if the holder has an address.  A publish
\* may be reported as failed although the topic took the message; one that is
\* not even taken is Fail.
Publish(w) ==
    LET a == req[w].account
    IN  /\ pc[w] = "publish"
        /\ \/ /\ a \in Mailed
              /\ published' = published \cup {<<a, rowIx[w]>>}
              /\ \E result \in {"ok", "failed"} : Finish(w, result)
           \/ /\ a \notin Mailed
              /\ Finish(w, "ok")
              /\ UNCHANGED published
        /\ UNCHANGED <<rows, rate, now, accepted, req, rowIx, disturbed, shown>>

UpdateUnchecked(w) ==
    /\ pc[w] = "update"
    /\ rate' = [rate EXCEPT ![req[w].account] = req[w].rate]
    /\ Finish(w, "ok")
    /\ UNCHANGED <<rows, published, now, accepted, req, rowIx, disturbed, shown>>

\* change_interest updates the rate; a rate the column cannot hold is an error
\* of the statement, which is Fail.
Update(w) ==
    /\ pc[w] = "update"
    /\ req[w].rate \in StorableRates
    /\ rate' = [rate EXCEPT ![req[w].account] = req[w].rate]
    /\ Finish(w, "ok")
    /\ UNCHANGED <<rows, published, now, accepted, req, rowIx, disturbed, shown>>

\* A statement fails, or the process dies: the client is told of a failure, or
\* nothing at all, and what was committed stays.
Fail(w) ==
    /\ pc[w] # "idle"
    /\ Finish(w, "failed")
    /\ UNCHANGED <<ledgerVars, now, accepted, req, rowIx, disturbed, shown>>

Tick ==
    /\ now < MaxTime
    /\ now' = now + 1
    /\ UNCHANGED <<ledgerVars, accepted, pc, req, localVars, rowIx, answer,
                   historyVars>>

\* The bounds are used up and no request is in progress.
Quiescent ==
    /\ accepted = MaxRequests /\ now = MaxTime
    /\ \A w \in Workers : pc[w] = "idle"
    /\ UNCHANGED vars

Serve(w) ==
    \/ PayFindLast(w) \/ PayInsert(w) \/ FindAccount(w)
    \/ FindLast(w) \/ FindLastFails(w) \/ Insert(w) \/ Publish(w)
    \/ Update(w) \/ Fail(w)

Next ==
    \/ \E w \in Workers : Serve(w)
    \/ \E w \in Workers, r \in Requests : Accept(w, r) \/ Reject(w, r)
    \/ Tick
    \/ Quiescent

Spec == Init /\ [][Next]_vars

\* The behaviours in which the requests on an account never overlap and no
\* balance lookup fails.
SerialSpec == Init /\ [][Next /\ disturbed' = {}]_vars

-----------------------------------------------------------------------------
(***************************************************************************)
(* Properties.                                                             *)
(***************************************************************************)

\* Every variable has its type.
TypeOK ==
    /\ rows \in [Accounts -> Seq(Row)]
    /\ rate \in [Accounts -> StorableRates]
    /\ now \in 0..MaxTime
    /\ accepted \in 0..MaxRequests
    /\ published \subseteq Accounts \X (Nat \ {0})
    /\ pc \in [Workers -> Steps]
    /\ req \in [Workers -> Requests]
    /\ seenRate \in [Workers -> Rates]
    /\ found \in [Workers -> Int]
    /\ interest \in [Workers -> Int]
    /\ rowIx \in [Workers -> Nat]
    /\ answer \in [Workers -> Answers]
    /\ disturbed \subseteq Accounts
    /\ checkedAt \in [Workers -> 0..MaxTime]
    /\ shown \in [Workers -> Int]

\* No row ever records a negative balance, however the requests interleave and
\* fail: the balance a withdrawal checks is the one it subtracts from
\* (withdraw.rs), and interest never takes more than there is (pay_interest.rs).
NonNegativeBalances ==
    \A a \in Accounts : \A i \in 1..Len(rows[a]) : rows[a][i].balance >= 0

BalanceBefore(a, i) == IF i = 1 THEN 0 ELSE rows[a][i - 1].balance
ElapsedBefore(a, i) == IF i = 1 THEN 0 ELSE rows[a][i].at - rows[a][i - 1].at

\* On an account whose requests never overlapped, each row continues from the
\* row before it: the balance moves by the row's amount plus interest for no
\* more time than passed between the two, and an Interest row's amount is just
\* that interest.  (A deposit or withdrawal may carry interest of its own when a
\* day ends between pay_interest and get_balance.)
RunningBalance ==
    \A a \in Accounts \ disturbed : \A i \in 1..Len(rows[a]) :
        LET row  == rows[a][i]
            gain == IF row.kind = "interest" THEN row.amount
                    ELSE row.balance - BalanceBefore(a, i)
                           - Signed(row.kind, row.amount)
        IN  /\ gain \in Gains(BalanceBefore(a, i), ElapsedBefore(a, i))
            /\ row.kind = "interest" =>
                  row.balance = BalanceBefore(a, i) + row.amount

\* On such an account interest is paid on an existing balance and at most once a
\* day, whatever mutations ask for it.
InterestOncePerDay ==
    \A a \in Accounts \ disturbed : \A i \in 1..Len(rows[a]) :
        rows[a][i].kind = "interest" => i > 1 /\ ElapsedBefore(a, i) >= Day

\* On such an account, with rates that are not negative, a deposit or withdrawal
\* takes effect on no less than the balance that was displayed when the call
\* arrived: no day's interest is lost between pay_interest, get_balance and the
\* insert.
ShownBalanceKept ==
    \A w \in Workers :
        LET r == req[w]
        IN  pc[w] = "publish" /\ r.account \notin disturbed =>
                rows[r.account][rowIx[w]].balance
                    >= shown[w] + Signed(r.kind, r.cents)

\* On such an account, with rates that are not negative, a withdrawal of no more
\* than the displayed balance is never refused with "Not enough balance".
ShownBalanceIsWithdrawable ==
    \A w \in Workers :
        LET r == req[w]
        IN  /\ answer[w] = "refused" /\ r.kind = "withdrawal"
            /\ Authorised(r) /\ Valid(r)
            /\ r.account \notin disturbed
            => r.cents > shown[w]

\* Both: the balance a user is shown is neither lost nor refused.
ShownBalanceHolds == ShownBalanceKept /\ ShownBalanceIsWithdrawable

\* A change of rate never reprices a full day that had already passed when
\* pay_interest looked: at the update the last row is less than a day older than
\* that moment, even if other requests added rows meanwhile (change_interest.rs).
RateChangeNotRetroactive ==
    \A w \in Workers :
        pc[w] = "update" /\ HasRows(req[w].account) =>
            LastRow(req[w].account).at > checkedAt[w] - Day

\* A call answered with success has its row in the ledger, and the holder's mail
\* on its way; a call answered with a refusal has left no row of its own.
AnswersMatchLedger ==
    \A w \in Workers :
        LET r == req[w]
        IN  /\ answer[w] = "ok" /\ r.kind # "changeInterest" =>
                  /\ rowIx[w] \in 1..Len(rows[r.account])
                  /\ rows[r.account][rowIx[w]].kind = r.kind
                  /\ rows[r.account][rowIx[w]].amount = r.cents
                  /\ r.account \in Mailed => <<r.account, rowIx[w]>> \in published
            /\ answer[w] = "refused" => rowIx[w] = 0

\* withdraw.rs:34 promises "Do not allow withdrawing past the account balance":
\* what was withdrawn is covered by what was deposited.  (Stated for runs without
\* clock ticks, where no interest is due.)
Total(a, kind) ==
    LET sum[i \in 0..Len(rows[a])] ==
            IF i = 0 THEN 0
            ELSE sum[i - 1] + (IF rows[a][i].kind = kind THEN rows[a][i].amount ELSE 0)
    IN  sum[Len(rows[a])]

WithdrawalsCovered ==
    \A a \in Accounts : Total(a, "withdrawal") <= Total(a, "deposit")


\* The ledger keeps, for each account, what SavingsAccount promises: the last
\* row is the account's balance and the time it was last credited.
Promise == INSTANCE SavingsAccount WITH
    Amounts <- {r.cents : r \in Requests},
    balance <- [a \in Accounts |-> IF HasRows(a) THEN LastRow(a).balance ELSE 0],
    since   <- [a \in Accounts |-> IF HasRows(a) THEN LastRow(a).at ELSE 0],
    clock   <- now

\* Without overlapping requests every step of the ledger is a step of a savings
\* account or changes nothing of it.
KeepsPromise == Promise!Spec


=============================================================================
