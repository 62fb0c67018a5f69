--------------------------- MODULE SavingsAccount ---------------------------
(***************************************************************************)
(* What the ledger promises the holder of an account: a balance that only  *)
(* deposits, withdrawals and interest move, that covers every withdrawal,  *)
(* and that earns interest for each stretch of time at most once.          *)
(***************************************************************************)
EXTENDS Interest

CONSTANTS
    Accounts,   \* the accounts
    Amounts     \* the amounts that are deposited and withdrawn

VARIABLES
    balance,    \* balance[a]: the money of account a
    since,      \* since[a]: the time up to which it has earned its interest
    clock       \* the current time

accountVars == <<balance, since, clock>>

Init ==
    /\ balance = [a \in Accounts |-> 0]
    /\ since = [a \in Accounts |-> 0]
    /\ clock = 0

\* The balance becomes b; interest is earned afresh from now on.
Settle(a, b) ==
    /\ balance' = [balance EXCEPT ![a] = b]
    /\ since' = [since EXCEPT ![a] = clock]
    /\ UNCHANGED clock

Accrue(a, gain) == Settle(a, balance[a] + gain)

Deposit(a, gain, cents) ==
    /\ cents > 0
    /\ Settle(a, balance[a] + gain + cents)

Withdraw(a, gain, cents) ==
    /\ cents > 0
    /\ cents <= balance[a] + gain
    /\ Settle(a, balance[a] + gain - cents)

Pass ==
    /\ clock < MaxTime
    /\ clock' = clock + 1
    /\ UNCHANGED <<balance, since>>

Next ==
    \/ \E a \in Accounts : \E gain \in Gains(balance[a], clock - since[a]) :
          \/ Accrue(a, gain)
          \/ \E cents \in Amounts : Deposit(a, gain, cents) \/ Withdraw(a, gain, cents)
    \/ Pass

Spec == Init /\ [][Next]_accountVars

=============================================================================
