----------------------------- MODULE AccountView -----------------------------
(***************************************************************************)
(* The query of an account (queries/account.rs) beside the mutations of    *)
(* Ledger: what an admin or the holder is shown of an account whose ledger *)
(* other requests change meanwhile.                                        *)
(*                                                                         *)
(* The query is as little a transaction as the mutations are.  Its fields  *)
(* are resolved one after the other, each with statements of its own: the  *)
(* account is found; balanceInCents finds it again and selects its last    *)
(* row (get_balance); transactions selects the rows and adds a line for    *)
(* the interest so far, with the rate of the account found at first.  An   *)
(* error of a field does not end the query: it is a balance of 0, or an    *)
(* empty list.                                                             *)
(*                                                                         *)
(* A definition that no action or property uses (BalanceOfRow, ...) is a   *)
(* faulty variant of the one that follows it.                              *)
(***************************************************************************)
EXTENDS Ledger, FiniteSets

LOCAL INSTANCE SequencesExt

CONSTANTS
    Viewers,     \* the queries, each made once
    Sinces       \* values of `since'; the client sends 0

ASSUME AccountViewAssumption == Sinces \subseteq Nat

VARIABLES
    view,        \* view[v]: the statement query v runs next
    asks,        \* asks[v]: the account and the `since' it asks for
    accountRate, \* accountRate[v]: the rate of the account it found
    balanceRate, \* balanceRate[v]: the rate of the account get_balance found
    balance,     \* balance[v]: balanceInCents
    lines,       \* lines[v]: transactions
    \* History variables, which no guard reads.
    truths,      \* truths[v]: the balances the account has had since v began
    quiet,       \* quiet[v]: no read of v failed, and no tick of the clock
    steady       \* steady[v]: quiet, and nothing of the account has changed

viewVars == <<view, asks, accountRate, balanceRate, balance, lines, truths, quiet, steady>>
allVars  == <<vars, viewVars>>

Views == {"new", "account", "balanceAccount", "balanceLast", "transactions", "done", "refused"}
Asks  == [user : Users, account : Accounts, since : Sinces]
Reads(v) == view[v] \notin {"new", "done", "refused"}

ViewInit ==
    /\ Init
    /\ view = [v \in Viewers |-> "new"]
    /\ asks \in [Viewers -> Asks]
    /\ accountRate = [v \in Viewers |-> DefaultRate]
    /\ balanceRate = [v \in Viewers |-> DefaultRate]
    /\ balance = [v \in Viewers |-> 0]
    /\ lines = [v \in Viewers |-> <<>>]
    /\ truths = [v \in Viewers |-> {}]
    /\ quiet = [v \in Viewers |-> TRUE]
    /\ steady = [v \in Viewers |-> TRUE]

-----------------------------------------------------------------------------

\* The field `account' of an admin or an investor, up to its authorisation.
Query(v) ==
    /\ view[v] = "new"
    /\ view' = [view EXCEPT ![v] = IF CanAccess(asks[v].user, asks[v].account)
                                   THEN "account" ELSE "refused"]
    /\ truths' = [truths EXCEPT ![v] = {Displayed(asks[v].account)}]
    /\ UNCHANGED <<vars, asks, accountRate, balanceRate, balance, lines, quiet, steady>>

\* Account::find, whose row the fields below it work on.
ViewAccount(v) ==
    /\ view[v] = "account"
    /\ accountRate' = [accountRate EXCEPT ![v] = rate[asks[v].account]]
    /\ view' = [view EXCEPT ![v] = "balanceAccount"]
    /\ UNCHANGED <<vars, asks, balanceRate, balance, lines, truths, quiet, steady>>

\* The error of this one is the error of the query.
ViewFails(v) ==
    /\ view[v] = "account"
    /\ view' = [view EXCEPT ![v] = "refused"]
    /\ UNCHANGED <<vars, asks, accountRate, balanceRate, balance, lines, truths, quiet, steady>>

\* get_balance, first statement.
BalanceAccount(v) ==
    /\ view[v] = "balanceAccount"
    /\ balanceRate' = [balanceRate EXCEPT ![v] = rate[asks[v].account]]
    /\ view' = [view EXCEPT ![v] = "balanceLast"]
    /\ UNCHANGED <<vars, asks, accountRate, balance, lines, truths, quiet, steady>>

Accrued(row, r) == CalculateInterest(row.balance, r, row.at, now)

BalanceOfRow(a, r) == IF HasRows(a) THEN LastRow(a).balance ELSE 0

BalanceOf(a, r) == IF HasRows(a) THEN LastRow(a).balance + Accrued(LastRow(a), r) ELSE 0

\* get_balance, second statement.
BalanceLast(v) ==
    /\ view[v] = "balanceLast"
    /\ balance' = [balance EXCEPT ![v] = BalanceOf(asks[v].account, balanceRate[v])]
    /\ view' = [view EXCEPT ![v] = "transactions"]
    /\ UNCHANGED <<vars, asks, accountRate, balanceRate, lines, truths, quiet, steady>>

\* A statement of get_balance fails: unwrap_or(0).
BalanceFails(v) ==
    /\ view[v] \in {"balanceAccount", "balanceLast"}
    /\ balance' = [balance EXCEPT ![v] = 0]
    /\ view' = [view EXCEPT ![v] = "transactions"]
    /\ quiet' = [quiet EXCEPT ![v] = FALSE] /\ steady' = [steady EXCEPT ![v] = FALSE]
    /\ UNCHANGED <<vars, asks, accountRate, balanceRate, lines, truths>>

LatestInterestNextDay(row, r) ==
    [kind |-> "interest", amount |-> Accrued(row, r),
     balance |-> row.balance + Accrued(row, r), at |-> now + Day]

LatestInterestUnadded(row, r) ==
    [kind |-> "interest", amount |-> Accrued(row, r), balance |-> row.balance, at |-> now]

\* The line that is in no table.
LatestInterest(row, r) ==
    [kind |-> "interest", amount |-> Accrued(row, r),
     balance |-> row.balance + Accrued(row, r), at |-> now]

RowsSinceDescending(a, since) ==
    LET Listed(row) == row.at >= since IN Reverse(SelectSeq(rows[a], Listed))

\* Transaction::find_by_account_id: the rows are in order of created_at, so that
\* those which are not before `since' are the last ones.
RowsSince(a, since) ==
    LET before == {i \in 1..Len(rows[a]) : rows[a][i].at < since}
    IN  SubSeq(rows[a], Cardinality(before) + 1, Len(rows[a]))

Transactions(v) ==
    LET listed == RowsSince(asks[v].account, asks[v].since)
    IN  /\ view[v] = "transactions"
        /\ lines' = [lines EXCEPT ![v] =
              IF listed = <<>> THEN <<>>
              ELSE Append(listed, LatestInterest(listed[Len(listed)], accountRate[v]))]
        /\ view' = [view EXCEPT ![v] = "done"]
        /\ UNCHANGED <<vars, asks, accountRate, balanceRate, balance, truths, quiet, steady>>

\* unwrap_or(vec![])
TransactionsFail(v) ==
    /\ view[v] = "transactions"
    /\ view' = [view EXCEPT ![v] = "done"]
    /\ steady' = [steady EXCEPT ![v] = FALSE]
    /\ UNCHANGED <<vars, asks, accountRate, balanceRate, balance, lines, truths, quiet>>

Resolve(v) ==
    \/ Query(v) \/ ViewAccount(v) \/ ViewFails(v) \/ BalanceAccount(v) \/ BalanceLast(v)
    \/ BalanceFails(v) \/ Transactions(v) \/ TransactionsFail(v)

\* A step of the ledger, of which the queries in progress see what they see.
LedgerStep ==
    /\ Next
    /\ UNCHANGED <<view, asks, accountRate, balanceRate, balance, lines>>
    /\ truths' = [v \in Viewers |-> IF Reads(v) THEN truths[v] \cup {Displayed(asks[v].account)'}
                                    ELSE truths[v]]
    /\ quiet' = [v \in Viewers |-> quiet[v] /\ (Reads(v) => now' = now)]
    /\ steady' = [v \in Viewers |-> steady[v] /\
                    (Reads(v) => /\ now' = now
                                 /\ rows'[asks[v].account] = rows[asks[v].account]
                                 /\ rate'[asks[v].account] = rate[asks[v].account])]

ViewNext == LedgerStep \/ \E v \in Viewers : Resolve(v)

ViewSpec == ViewInit /\ [][ViewNext]_allVars

-----------------------------------------------------------------------------
(***************************************************************************)
(* Properties.                                                             *)
(***************************************************************************)

\* Every variable of the queries has its type.
ViewTypeOK ==
    /\ view \in [Viewers -> Views]
    /\ asks \in [Viewers -> Asks]
    /\ accountRate \in [Viewers -> StorableRates] /\ balanceRate \in [Viewers -> StorableRates]
    /\ balance \in [Viewers -> Int]
    /\ lines \in [Viewers -> Seq(Row)]
    /\ truths \in [Viewers -> SUBSET Int]
    /\ quiet \in [Viewers -> BOOLEAN] /\ steady \in [Viewers -> BOOLEAN]

\* Within a clock tick and without failed reads, the balance shown is one that the
\* account has had since the query began, although the rate and the last row come
\* from different statements and others insert rows and change the rate between.
ShownWasTrue ==
    \A v \in Viewers :
        view[v] \in {"transactions", "done"} /\ quiet[v] => balance[v] \in truths[v]

\* The balance and the list of an account are computed apart; if nothing of the
\* account changed meanwhile, the list ends with the balance that is shown above it.
LastLineIsBalance ==
    \A v \in Viewers :
        view[v] = "done" /\ steady[v] =>
            \/ lines[v] # <<>> /\ lines[v][Len(lines[v])].balance = balance[v]
            \/ lines[v] = <<>> /\ (asks[v].since = 0 => balance[v] = 0)

\* With rates that are not negative, the list of an account whose requests never
\* overlapped reads like a ledger to its last line: the lines are in order of time,
\* and a line loses no money but what was withdrawn.
LinesAddUp ==
    \A v \in Viewers :
        view[v] = "done" /\ asks[v].account \notin disturbed =>
            \A i \in 2..Len(lines[v]) :
                LET line == lines[v][i]
                    last == lines[v][i - 1]
                IN  /\ line.at >= last.at
                    /\ line.kind = "interest" => line.balance = last.balance + line.amount
                    /\ line.kind # "interest" =>
                          line.balance >= last.balance + Signed(line.kind, line.amount)

\* Both: the list of an account agrees with its balance and with itself.
LinesAgree == LastLineIsBalance /\ LinesAddUp

=============================================================================
