------------------------------- MODULE HomePage -------------------------------
(***************************************************************************)
(* The home page of an admin (Admin/Pages/Home.elm): the list of the       *)
(* investors of the family, with a button to archive or unarchive each,    *)
(* and the statements of the API server behind it.  Another admin of the   *)
(* family may archive and unarchive at the same time.                      *)
(*                                                                         *)
(* As in RequestsPage, an answer is applied to whatever home page is shown *)
(* when it arrives, and a connection may be lost on a call that the server *)
(* goes on to serve.                                                       *)
(*                                                                         *)
(* A definition that no action or property uses (SetBusyNot, ...) is a     *)
(* faulty variant of the one that follows it.                              *)
(***************************************************************************)
EXTENDS Integers, FiniteSets

CONSTANTS
    Investors,
    Calls,      \* the calls that may be made, numbered as they are sent
    None

HomePageAssumption == Calls \subseteq Nat /\ None \notin Investors

VARIABLES
    archived,   \* the investors whose archived_at is set
    shows,      \* the browser shows the home page
    data,       \* "NotAsked", "Failure" or "Success"
    flagged,    \* the listed investors shown as archived
    busy,       \* the listed investors with a spinner
    call,       \* call[c]: what call c asks
    pc,         \* pc[c]: "new", "authorise", "run", "done" or "heard"
    answer,     \* answer[c]
    got,        \* got[c]: the archived investors of a list
    \* History variables, which no guard reads.
    was,        \* was[i]: the values that archived_at of i has had, as flags
    meddled,    \* investors whom another admin has changed
    marred      \* opened before answers had come, or told of an error

serverVars == <<archived, call, pc, answer, got, was, meddled>>
pageVars   == <<shows, data, flagged, busy, marred>>
vars == <<serverVars, pageVars>>

NoCall == [op |-> "none", who |-> None, own |-> FALSE]
Call   == [op : {"list", "archive", "unarchive"}, who : Investors \cup {None}, own : BOOLEAN]

Init ==
    /\ archived \in SUBSET Investors
    /\ shows = FALSE /\ data = "NotAsked" /\ flagged = {} /\ busy = {}
    /\ call = [c \in Calls |-> NoCall]
    /\ pc = [c \in Calls |-> "new"]
    /\ answer = [c \in Calls |-> "none"]
    /\ got = [c \in Calls |-> {}]
    /\ was = [i \in Investors |-> {(i \in archived)}]
    /\ meddled = {} /\ marred = FALSE

InFlight == {c \in Calls : call[c].own /\ pc[c] \notin {"new", "heard"}}

-----------------------------------------------------------------------------
(* The server *)

Send(c, op, i, own) ==
    /\ pc[c] = "new" /\ \A d \in Calls : d < c => pc[d] # "new"
    /\ call' = [call EXCEPT ![c] = [op |-> op, who |-> i, own |-> own]]
    /\ pc' = [pc EXCEPT ![c] = IF op = "list" THEN "run" ELSE "authorise"]
    /\ UNCHANGED <<archived, answer, got, was, meddled>>

Finish(c, result) ==
    /\ pc' = [pc EXCEPT ![c] = "done"]
    /\ answer' = [answer EXCEPT ![c] = result]

\* can_archive finds the investor; the role and the family are right.
Authorise(c) ==
    /\ pc[c] = "authorise"
    /\ pc' = [pc EXCEPT ![c] = "run"]
    /\ UNCHANGED <<archived, call, answer, got, was, meddled, pageVars>>

\* Admin.investors: those of the family, archived or not.
List(c) ==
    /\ pc[c] = "run" /\ call[c].op = "list"
    /\ got' = [got EXCEPT ![c] = archived]
    /\ Finish(c, "ok")
    /\ UNCHANGED <<archived, call, was, meddled, pageVars>>

SetArchivedAlways(c) == archived \cup {call[c].who}
SetArchived(c) == IF call[c].op = "archive" THEN archived \cup {call[c].who}
                                            ELSE archived \ {call[c].who}

\* UPDATE users SET archived_at.
Update(c) ==
    /\ pc[c] = "run" /\ call[c].op # "list"
    /\ archived' = SetArchived(c)
    /\ was' = [i \in Investors |-> was[i] \cup {(i \in archived')}]
    /\ meddled' = IF call[c].own THEN meddled ELSE meddled \cup {call[c].who}
    /\ Finish(c, "ok")
    /\ UNCHANGED <<call, got, pageVars>>

Fail(c) ==
    /\ pc[c] \in {"authorise", "run"}
    /\ Finish(c, "failed")
    /\ UNCHANGED <<archived, call, got, was, meddled, pageVars>>

\* The other admin.
Elsewhere(c, op, i) == Send(c, op, i, FALSE) /\ UNCHANGED pageVars

Serve(c) == Authorise(c) \/ List(c) \/ Update(c) \/ Fail(c)

-----------------------------------------------------------------------------
(* The page *)

\* init: a blank page, and the list is asked for.
Open(c) ==
    /\ Send(c, "list", None, TRUE)
    /\ shows' = TRUE /\ data' = "NotAsked" /\ flagged' = {} /\ busy' = {}
    /\ marred' = (InFlight # {})

Leave ==
    /\ shows
    /\ shows' = FALSE /\ data' = "NotAsked" /\ flagged' = {} /\ busy' = {}
    /\ UNCHANGED <<marred, serverVars>>

SetBusyNot(i) == UNCHANGED busy
SetBusy(i) == busy' = busy \cup {i}

\* ArchiveInvestor and UnarchiveInvestor: an investor under a spinner has no button.
Press(c, i) ==
    /\ data = "Success" /\ i \notin busy
    /\ Send(c, IF i \in flagged THEN "unarchive" ELSE "archive", i, TRUE)
    /\ SetBusy(i)
    /\ UNCHANGED <<shows, data, flagged, marred>>

OnData(c, result) ==
    /\ data' = IF result = "ok" THEN "Success" ELSE "Failure"
    /\ flagged' = IF result = "ok" THEN got[c] ELSE {}
    /\ busy' = {}

Flag(i, op) == IF op = "archive" THEN flagged \cup {i} ELSE flagged \ {i}

OnResponseBusy(c, result) ==
    LET i == call[c].who
    IN  /\ busy' = IF result = "ok" THEN busy \ {i} ELSE busy
        /\ flagged' = IF data = "Success" /\ result = "ok" THEN Flag(i, call[c].op)
                      ELSE flagged
        /\ UNCHANGED data

OnResponseFlags(c, result) ==
    LET i == call[c].who
    IN  /\ busy' = busy \ {i}
        /\ flagged' = IF data = "Success" THEN Flag(i, call[c].op) ELSE flagged
        /\ UNCHANGED data

\* OnArchiveUserResponse and OnUnarchiveUserResponse.
OnResponse(c, result) ==
    LET i == call[c].who
    IN  /\ busy' = busy \ {i}
        /\ flagged' = IF data = "Success" /\ result = "ok" THEN Flag(i, call[c].op)
                      ELSE flagged
        /\ UNCHANGED data

Apply(c, result) ==
    /\ IF shows THEN \/ call[c].op = "list" /\ OnData(c, result)
                     \/ call[c].op # "list" /\ OnResponse(c, result)
                ELSE UNCHANGED <<data, flagged, busy>>
    /\ marred' = (marred \/ result # "ok")
    /\ pc' = [pc EXCEPT ![c] = "heard"]
    /\ UNCHANGED <<shows, call, answer, got, meddled>>

Hear(c) ==
    /\ c \in InFlight /\ pc[c] = "done"
    /\ Apply(c, answer[c])
    /\ UNCHANGED <<archived, was>>

\* The connection is lost, before or after the server has done its work.
Lose(c) ==
    /\ c \in InFlight
    /\ Apply(c, "failed")
    /\ \/ UNCHANGED archived
       \/ pc[c] \in {"authorise", "run"} /\ call[c].op # "list" /\ archived' = SetArchived(c)
    /\ was' = [i \in Investors |-> was[i] \cup {(i \in archived')}]

Quiescent ==
    /\ InFlight = {} /\ \A c \in Calls : pc[c] # "new"
    /\ UNCHANGED vars

Next ==
    \/ \E c \in Calls : Serve(c) \/ Open(c) \/ Hear(c) \/ Lose(c)
    \/ \E c \in Calls, i \in Investors :
          Press(c, i) \/ \E op \in {"archive", "unarchive"} : Elsewhere(c, op, i)
    \/ Leave
    \/ Quiescent

Spec == Init /\ [][Next]_vars

\* The server goes on with a call it has begun, and the browser's runtime delivers
\* an answer that is there.  Nothing is assumed of the admins.
FairSpec == Spec /\ \A c \in Calls : WF_vars(Serve(c)) /\ WF_vars(Hear(c))

-----------------------------------------------------------------------------
(***************************************************************************)
(* Properties.                                                             *)
(***************************************************************************)

\* Every variable has its type, and only a list that has come is marked.
TypeOK ==
    /\ archived \subseteq Investors /\ shows \in BOOLEAN
    /\ data \in {"NotAsked", "Failure", "Success"}
    /\ flagged \subseteq Investors /\ busy \subseteq Investors
    /\ call \in [Calls -> Call \cup {NoCall}]
    /\ pc \in [Calls -> {"new", "authorise", "run", "done", "heard"}]
    /\ answer \in [Calls -> {"none", "ok", "failed"}]
    /\ got \in [Calls -> SUBSET Investors]
    /\ was \in [Investors -> SUBSET BOOLEAN]
    /\ meddled \subseteq Investors /\ marred \in BOOLEAN
    /\ data # "Success" => flagged = {} /\ busy = {}

\* What the list says of an investor has been so in the database, whatever answers
\* were late or lost and whoever else was at work.
ShownFlagsHappened ==
    data = "Success" => \A i \in Investors : (i \in flagged) \in was[i]

\* Without errors and early navigation, once no answer is awaited, the list agrees
\* with the database on every investor whom no other admin has changed.
ListAgrees ==
    ~marred /\ InFlight = {} /\ data = "Success" =>
        \A i \in Investors \ meddled : i \in flagged <=> i \in archived

\* On such a page one change of an investor is under way at a time, so changes are
\* made in the order of the clicks.
OneChangeAtATime ==
    ~marred => \A c, d \in InFlight :
        call[c].who = call[d].who /\ call[c].who # None => c = d

\* No spinner turns for ever.
Spinning   == busy # {}
SpinnersGo == Spinning ~> ~Spinning

=============================================================================
