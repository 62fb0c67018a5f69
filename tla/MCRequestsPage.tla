--------------------------- MODULE MCRequestsPage ---------------------------
(* Instances of RequestsPage for TLC: the browser of a parent. *)
EXTENDS RequestsPage, TLC

CONSTANTS mum, dad, child, acc, pm

MCUsers    == {mum, dad, child}
MCAdmins   == {mum, dad}
MCAccounts == {acc}
MCHolder   == acc :> child
MCAdminsOf == acc :> {mum, dad}
MCOwner    == pm :> mum

Ask(u, cents) == [op |-> "request", user |-> u, account |-> acc, cents |-> cents]
Resolve(u, i, outcome) == [op |-> "resolve", user |-> u, id |-> i, outcome |-> outcome]

\* The child asks, from a page of its own; dad may decide elsewhere.  With refusals:
\* an amount of nothing, a decision of the child's own, a list for the child.
MCAsks      == {Ask(child, 5)}
MCElsewhere ==
    {Ask(child, 5), Ask(child, 0), Resolve(dad, 1, "REJECTED"), Resolve(dad, 1, "PENDING"),
     Resolve(child, 1, "APPROVED"), [op |-> "list", user |-> child]}

Symmetry == Permutations(Calls)

=============================================================================
