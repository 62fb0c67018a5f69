------------------------- MODULE WithdrawalRequests -------------------------
(***************************************************************************)
(* The withdrawal requests of the API server: requestWithdrawal, by which  *)
(* a holder (or an admin) asks, resolveTransactionRequest, by which an     *)
(* admin decides, and the query for the pending ones.                      *)
(*                                                                         *)
(* A call c walks through the statements pc[c]; every statement commits by *)
(* itself, calls interleave, and what was committed before an error stays. *)
(* The UPDATE of a resolution does not look at the state it replaces.      *)
(*                                                                         *)
(* A definition that no action or property uses (UpdatePendingOnly, ...)   *)
(* is a faulty variant of the one that follows it.                         *)
(***************************************************************************)
EXTENDS Integers, Sequences

CONSTANTS
    Calls,      \* the calls that may be made, each once
    Users,
    Admins,     \* the users with the role of an admin
    Accounts,
    Holder,     \* Holder[a]: the user who holds account a
    AdminsOf,   \* AdminsOf[a]: the admins of the client of a's holder
    Mailed,     \* accounts whose holder has an email address
    Amounts,    \* the cents a call may ask for
    MaxIds,     \* bound on the ids a resolution may name
    Inputs      \* what may be asked

States == {"PENDING", "APPROVED", "REJECTED"}

Asks        == [op : {"request"}, user : Users, account : Accounts, cents : Amounts]
Resolutions == [op : {"resolve"}, user : Users, id : 1..MaxIds, outcome : States]
Listings    == [op : {"list"}, user : Users]
NoCall      == [op |-> "none"]

ASSUME RequestsAssumption ==
    /\ Admins \subseteq Users
    /\ Holder \in [Accounts -> Users]
    /\ AdminsOf \in [Accounts -> SUBSET Admins]
    /\ Mailed \subseteq Accounts
    /\ Amounts \subseteq Int
    /\ MaxIds \in Nat
    /\ Inputs \subseteq Asks \cup Resolutions \cup Listings

VARIABLES
    requests,   \* the table `transaction_requests', in order of id
    mails,      \* the mails published on the topic, in order
    pc,         \* pc[c]: the statement call c runs next
    call,       \* call[c]: what was asked
    got,        \* got[c]: the rows its handler holds, and answers
    answer,     \* answer[c]
    \* History variables, which no guard reads.
    log,        \* the committed filings and decisions, in order
    entry,      \* entry[c]: c's entry in the log, or 0
    told,       \* the entries that were announced
    unclear     \* requests of which two decisions overlapped, or one was not mailed

historyVars == <<log, entry, told, unclear>>
serverVars == <<requests, mails, pc, call, got, answer, historyVars>>

Request == [id : Nat \ {0}, account : Accounts, cents : Nat \ {0}, state : States]

Steps == {"new", "insert", "find", "update", "notify", "select", "done"}

CanAdmin(u, a)  == u \in AdminsOf[a]
CanAccess(u, a) == u = Holder[a] \/ CanAdmin(u, a)

MayAsk(k) == CanAccess(k.user, k.account)
ValidUnchecked(k) == TRUE
Valid(k)  == k.cents > 0

-----------------------------------------------------------------------------

ServerInit ==
    /\ requests = <<>>
    /\ mails = <<>>
    /\ pc = [c \in Calls |-> "new"]
    /\ call = [c \in Calls |-> NoCall]
    /\ got = [c \in Calls |-> {}]
    /\ answer = [c \in Calls |-> "none"]
    /\ log = <<>>
    /\ entry = [c \in Calls |-> 0]
    /\ told = {}
    /\ unclear = {}

Goto(c, step) == pc' = [pc EXCEPT ![c] = step]

\* An answer other than success carries no row.
Finish(c, result) ==
    /\ Goto(c, "done")
    /\ answer' = [answer EXCEPT ![c] = result]
    /\ got' = IF result = "ok" THEN got ELSE [got EXCEPT ![c] = {}]

\* A filing or decision commits with the write of its row.
Enter(c, id, kind) ==
    /\ log' = Append(log, [id |-> id, kind |-> kind, by |-> call[c].user])
    /\ entry' = [entry EXCEPT ![c] = Len(log) + 1]

FirstStep(k) ==
    CASE k.op = "request" -> "insert"
      [] k.op = "resolve" -> "find"
      [] k.op = "list"    -> "select"

\* Refused without reading the requests: the account's users decide who may
\* ask, the amount must be positive, and the list is for admins.
Acceptable(k) ==
    CASE k.op = "request" -> MayAsk(k) /\ Valid(k)
      [] k.op = "resolve" -> TRUE
      [] k.op = "list"    -> k.user \in Admins

Arrive(c, k) ==
    /\ pc[c] = "new"
    /\ call' = [call EXCEPT ![c] = k]
    /\ IF Acceptable(k)
       THEN Goto(c, FirstStep(k)) /\ UNCHANGED <<got, answer>>
       ELSE Finish(c, "refused")
    /\ UNCHANGED <<requests, mails, historyVars>>

\* request_withdrawal stores a pending request.
Insert(c) ==
    LET r == [id |-> Len(requests) + 1, account |-> call[c].account,
              cents |-> call[c].cents, state |-> "PENDING"]
    IN  /\ pc[c] = "insert"
        /\ requests' = Append(requests, r)
        /\ got' = [got EXCEPT ![c] = {r}]
        /\ Enter(c, r.id, "ASKED")
        /\ Goto(c, "notify")
        /\ UNCHANGED <<mails, call, answer, told, unclear>>

\* The mutation of a resolution reads the request to authorise the caller.
MayResolveByAccess(u, r) == CanAccess(u, r.account)
MayResolve(u, r) == CanAdmin(u, r.account)

FindRequest(c) ==
    LET id == call[c].id
    IN  /\ pc[c] = "find"
        /\ \/ /\ id \in 1..Len(requests) /\ MayResolve(call[c].user, requests[id])
              /\ Goto(c, "update")
              /\ UNCHANGED <<got, answer>>
           \/ /\ ~(id \in 1..Len(requests) /\ MayResolve(call[c].user, requests[id]))
              /\ Finish(c, "refused")
        /\ UNCHANGED <<requests, mails, call, historyVars>>

\* Another resolution of request id is between its update and its mail.
Announcing(c, id) ==
    \E d \in Calls \ {c} : pc[d] = "notify" /\ call[d].op = "resolve" /\ call[d].id = id

UpdatePendingOnly(c) ==
    LET id == call[c].id
        r  == [requests[id] EXCEPT !.state = call[c].outcome]
    IN  /\ pc[c] = "update"
        /\ got' = [got EXCEPT ![c] = {r}]
        /\ \/ /\ requests[id].state = "PENDING"
              /\ requests' = [requests EXCEPT ![id] = r]
              /\ Enter(c, id, r.state)
           \/ /\ requests[id].state # "PENDING"
              /\ UNCHANGED <<requests, log, entry>>
        /\ Goto(c, "notify")
        /\ unclear' = IF Announcing(c, id) THEN unclear \cup {id} ELSE unclear
        /\ UNCHANGED <<mails, call, answer, told>>

\* UPDATE ... SET state = outcome WHERE id = ... RETURNING the row.
Update(c) ==
    LET id == call[c].id
        r  == [requests[id] EXCEPT !.state = call[c].outcome]
    IN  /\ pc[c] = "update"
        /\ requests' = [requests EXCEPT ![id] = r]
        /\ got' = [got EXCEPT ![c] = {r}]
        /\ Enter(c, id, r.state)
        /\ Goto(c, "notify")
        /\ unclear' = IF Announcing(c, id) THEN unclear \cup {id} ELSE unclear
        /\ UNCHANGED <<mails, call, answer, told>>

\* What the mail says: that a withdrawal is asked for, or the decision on the
\* row the update returned.
NoticeReread(c, r) == IF call[c].op = "request" THEN "ASKED" ELSE requests[r.id].state
Notice(c, r) == IF call[c].op = "request" THEN "ASKED" ELSE r.state

NotifySwallowed(c) ==
    /\ pc[c] = "notify"
    /\ Finish(c, "ok")
    /\ UNCHANGED <<requests, mails, call, historyVars>>

\* The mail, of a request too, is published for a holder with an address, unless the request is
\* pending again; the topic may take it although the publish reports an error.
Notify(c) ==
    /\ pc[c] = "notify"
    /\ \E r \in got[c] :
          \/ /\ r.account \in Mailed /\ Notice(c, r) # "PENDING"
             /\ mails' = Append(mails, [id |-> r.id, kind |-> Notice(c, r),
                                        cents |-> r.cents, to |-> Holder[r.account]])
             /\ told' = told \cup {entry[c]}
             /\ \E result \in {"ok", "failed"} : Finish(c, result)
          \/ /\ r.account \notin Mailed \/ Notice(c, r) = "PENDING"
             /\ Finish(c, "ok")
             /\ UNCHANGED <<mails, told>>
    /\ UNCHANGED <<requests, call, log, entry, unclear>>

\* The pending requests on the accounts of the admin's client.
Listed(u) ==
    {r \in {requests[i] : i \in 1..Len(requests)} :
        CanAdmin(u, r.account) /\ r.state = "PENDING"}

Select(c) ==
    /\ pc[c] = "select"
    /\ got' = [got EXCEPT ![c] = Listed(call[c].user)]
    /\ Goto(c, "done")
    /\ answer' = [answer EXCEPT ![c] = "ok"]
    /\ UNCHANGED <<requests, mails, call, historyVars>>

\* A statement or the publish fails, or the process dies.
Fail(c) ==
    /\ pc[c] \notin {"new", "done"}
    /\ Finish(c, "failed")
    /\ unclear' = IF pc[c] = "notify" THEN unclear \cup {r.id : r \in got[c]} ELSE unclear
    /\ UNCHANGED <<requests, mails, call, log, entry, told>>

Serve(c) ==
    \/ Insert(c) \/ FindRequest(c) \/ Update(c) \/ Notify(c) \/ Select(c)
    \/ Fail(c)

\* Every call was made and answered.
Quiescent ==
    /\ \A c \in Calls : pc[c] = "done"
    /\ UNCHANGED serverVars

Next ==
    \/ \E c \in Calls, k \in Inputs : Arrive(c, k)
    \/ \E c \in Calls : Serve(c)
    \/ Quiescent

Spec == ServerInit /\ [][Next]_serverVars

-----------------------------------------------------------------------------
(***************************************************************************)
(* Properties.                                                             *)
(***************************************************************************)

Entry == [id : Nat \ {0}, kind : States \cup {"ASKED"}, by : Users]
Mail  == [id : Nat \ {0}, kind : {"ASKED", "APPROVED", "REJECTED"},
          cents : Nat \ {0}, to : Users]

\* Every variable has its type; requests are of positive amounts.
TypeOK ==
    /\ requests \in Seq(Request)
    /\ mails \in Seq(Mail)
    /\ pc \in [Calls -> Steps]
    /\ call \in [Calls -> Asks \cup Resolutions \cup Listings \cup {NoCall}]
    /\ got \in [Calls -> SUBSET Request]
    /\ answer \in [Calls -> {"none", "ok", "refused", "failed"}]
    /\ log \in Seq(Entry)
    /\ entry \in [Calls -> Nat]
    /\ told \subseteq Nat \ {0}
    /\ unclear \subseteq Nat \ {0}

\* The holder is not left with a wrong idea: unless two decisions on a request
\* overlapped or a mail was not taken, the last decision that was mailed is the
\* one that is stored, as soon as no mail about it is on its way.  The request
\* may have been put back to pending, of which no mail tells.
\* (resolve_transaction_request.rs updates first and mails what was returned.)
LastMailTellsState ==
    \A i \in 1..Len(requests) :
        LET about == {j \in 1..Len(mails) : mails[j].id = i /\ mails[j].kind # "ASKED"}
        IN  /\ requests[i].account \in Mailed /\ i \notin unclear
            /\ requests[i].state # "PENDING"
            /\ ~ \E c \in Calls : pc[c] = "notify" /\ call[c].op = "resolve" /\ call[c].id = i
            => \E j \in about : /\ \A k \in about : k <= j
                                /\ mails[j].kind = requests[i].state

\* The state of a request is the last decision on it, and nobody but an admin of
\* the account took one, the holder neither.  (The mutation authorises on a row
\* read before the update.)
DecidedByAdmins ==
    \A i \in 1..Len(requests) :
        LET decisions == {e \in 1..Len(log) : log[e].id = i /\ log[e].kind # "ASKED"}
        IN  /\ \A e \in decisions : log[e].by \in AdminsOf[requests[i].account]
            /\ \A e \in decisions : (\A f \in decisions : f <= e)
                                        => log[e].kind = requests[i].state

\* An answer is about the caller's own filing or decision, also if another admin
\* has overturned it meanwhile: a success answers the row as that call wrote it,
\* and its mail is on its way; a refusal has left no trace.
AnswersMatchLog ==
    \A c \in Calls :
        /\ answer[c] = "ok" /\ call[c].op # "list" =>
              /\ entry[c] \in 1..Len(log)
              /\ \E r \in got[c] :
                    /\ r.id = log[entry[c]].id
                    /\ IF call[c].op = "resolve" THEN r.state = call[c].outcome
                                                 ELSE r.cents = call[c].cents
                    /\ r.account \in Mailed /\ log[entry[c]].kind # "PENDING" =>
                          entry[c] \in told
        /\ answer[c] = "refused" => entry[c] = 0

\* Both: what is decided was decided by an admin who was told so.
DecisionsAccounted == DecidedByAdmins /\ AnswersMatchLog

\* request_withdrawal.html asks its reader to "approve or reject this
\* transaction": whoever is mailed of a request may do so.
AskedMailsReachAdmins ==
    \A j \in 1..Len(mails) :
        mails[j].kind = "ASKED" => MayResolve(mails[j].to, requests[mails[j].id])

\* The server keeps what RequestBook promises, however calls overlap and fail.
Promise == INSTANCE RequestBook WITH
    book   <- requests,
    log    <- [e \in 1..Len(log) |-> [id |-> log[e].id, kind |-> log[e].kind]],
    outbox <- [j \in 1..Len(mails) |->
                  [id |-> mails[j].id, kind |-> mails[j].kind, cents |-> mails[j].cents]]

KeepsBook == Promise!Spec

=============================================================================
