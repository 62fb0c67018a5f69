------------------------------ MODULE MCLedger ------------------------------
(* Small instances of Ledger for TLC. *)
EXTENDS Ledger, TLC

WorkerSymmetry == Permutations(Workers)

MCHolder   == [a \in Accounts |-> "kid"]
MCAdminsOf == [a \in Accounts |-> {"parent"}]

\* Stand-ins for the factors of a rate of 0, 50% of interest a day and a doubling
\* a day: large enough for a day's interest to show on amounts of a few cents.
MCScale  == 2
MCDays   == 0..(MaxTime \div Day)
MCGrowth == [r \in Rates |-> [d \in MCDays |->
                CASE r = 0    -> MCScale
                  [] r = 50   -> MCScale + d
                  [] r = 1000 -> MCScale * (1 + d)
                  [] r = -50  -> IF d = 0 THEN MCScale ELSE MCScale \div 2]]

ASSUME MCFactorsGrow == (\A r \in Rates : r >= 0) => FactorsGrow

Call(kind, user, a, cents, newRate) ==
    [kind |-> kind, user |-> user, account |-> a, cents |-> cents, rate |-> newRate]

Deposits(users, amounts) ==
    {Call("deposit", u, a, c, DefaultRate) : u \in users, a \in Accounts, c \in amounts}
Withdrawals(users, amounts) ==
    {Call("withdrawal", u, a, c, DefaultRate) : u \in users, a \in Accounts, c \in amounts}
RateChanges(users, newRates) ==
    {Call("changeInterest", u, a, 0, r) : u \in users, a \in Accounts, r \in newRates}

\* The holder or an admin moves money, a stranger may not; only the admin changes the
\* rate, also to one below zero, which the API accepts although the client does not.
ConcurrentRates == {-50, 50}
ConcurrentCalls == Deposits({"parent"}, {2}) \cup Withdrawals({"kid"}, {1, 3})
                     \cup Withdrawals({"stranger"}, {1}) \cup RateChanges({"parent"}, {-50})
\* Also calls that are not authorised, not valid, or whose rate cannot be stored;
\* the second account is there to be busy beside the first.
SerialCalls ==
    {c \in Deposits({"parent"}, {0, 2}) \cup Withdrawals({"kid"}, {3})
              \cup Withdrawals({"stranger"}, {3}) \cup RateChanges({"parent"}, {0, 1000})
              \cup RateChanges({"kid"}, {0}) :
        c.account = "b" => c.kind = "deposit" /\ c.cents = 2}
OverdrawCalls == Deposits({"parent"}, {1}) \cup Withdrawals({"kid"}, {1})
=============================================================================
