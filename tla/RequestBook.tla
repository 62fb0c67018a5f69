---------------------------- MODULE RequestBook ----------------------------
(***************************************************************************)
(* What the two parties of a withdrawal request are promised, whatever the *)
(* server does inside: a request is filed once and pending, a decision     *)
(* sets its state, and the holder is told of a filing or a decision after  *)
(* it was made, at most once, and in its own words.                        *)
(***************************************************************************)
EXTENDS Integers, Sequences

CONSTANTS Accounts, Amounts

VARIABLES
    book,       \* the requests, in order of filing
    log,        \* the filings and decisions, in order
    told,       \* the entries of the log the holder was told of
    outbox      \* the mails to the holder, in order

vars == <<book, log, told, outbox>>

States == {"PENDING", "APPROVED", "REJECTED"}

Init == book = <<>> /\ log = <<>> /\ told = {} /\ outbox = <<>>

File(a, cents) ==
    /\ book' = Append(book, [id |-> Len(book) + 1, account |-> a,
                             cents |-> cents, state |-> "PENDING"])
    /\ log' = Append(log, [id |-> Len(book) + 1, kind |-> "ASKED"])
    /\ UNCHANGED <<told, outbox>>

Decide(i, outcome) ==
    /\ book' = [book EXCEPT ![i].state = outcome]
    /\ log' = Append(log, [id |-> i, kind |-> outcome])
    /\ UNCHANGED <<told, outbox>>

\* Decisions that put a request back to pending are not announced.
Tell(e) ==
    /\ e \notin told
    /\ log[e].kind # "PENDING"
    /\ told' = told \cup {e}
    /\ outbox' = Append(outbox, [id |-> log[e].id, kind |-> log[e].kind,
                                 cents |-> book[log[e].id].cents])
    /\ UNCHANGED <<book, log>>

Next ==
    \/ \E a \in Accounts, cents \in Amounts : cents > 0 /\ File(a, cents)
    \/ \E i \in 1..Len(book), outcome \in States : Decide(i, outcome)
    \/ \E e \in 1..Len(log) : Tell(e)

Spec == Init /\ [][Next]_vars

=============================================================================
