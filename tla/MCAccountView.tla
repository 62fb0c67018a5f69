---------------------------- MODULE MCAccountView ----------------------------
(* Instances of AccountView for TLC, with the ledger of MCLedger. *)
EXTENDS AccountView, MCLedger

ViewedCalls == Deposits({"parent"}, {2}) \cup Withdrawals({"kid"}, {3})
                 \cup RateChanges({"parent"}, {0})
=============================================================================
