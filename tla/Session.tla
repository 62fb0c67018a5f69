------------------------------- MODULE Session -------------------------------
(***************************************************************************)
(* The shell of the client (App.elm, Shared/Sessions.elm, sessions.ts):    *)
(* one tab of the browser, its route, the area that is shown (public,      *)
(* admin, investor or `not found'), the session and the token in the local *)
(* storage, which another tab may change.                                  *)
(*                                                                         *)
(* A session starts with the answer to a form of the public area and ends  *)
(* with Sign Out; either way the shell changes the model at once and       *)
(* navigates 100 ms later.  In between the old area is shown, and it works *)
(* with the session it was opened with.  An answer is passed on to the     *)
(* area and the page of the kind that asked, whoever they belong to now.   *)
(*                                                                         *)
(* Nav.pushUrl, Nav.replaceUrl and the OnUrlChange that follows them are   *)
(* one step.  A role has one private page here, its home; the pages are    *)
(* modelled in HomePage, RequestsPage and AccountPage.                     *)
(*                                                                         *)
(* A definition that no action or property uses (EndSessionInPlace, ...)   *)
(* is a faulty variant of the one that follows it.                         *)
(***************************************************************************)
EXTENDS Integers, FiniteSets, Sequences

CONSTANTS
    Users,
    RoleOf,        \* RoleOf[u]: "admin" or "investor"
    PublicPages,   \* the pages of the public area
    SessionPages,  \* those whose form answers with a token
    Calls,         \* the calls that may be in flight at a time
    MaxPending,    \* bound on the navigations that are put off
    None

SessionAssumption ==
    /\ RoleOf \in [Users -> {"admin", "investor"}]
    /\ SessionPages \subseteq PublicPages /\ "signIn" \in SessionPages
    /\ IsFiniteSet(Calls) /\ MaxPending \in Nat /\ None \notin Users

VARIABLES
    session,    \* model.authentication: a user or None
    stored,     \* whose token is in the local storage
    location,   \* the route
    area,       \* what is shown, and for which user it was opened
    data,       \* whose data the page shows
    form,       \* how the submission of the public page goes
    pending,    \* the navigations that sleep for 100 ms
    call,       \* call[c]: the page that asked and for which user
    pc,         \* pc[c]: "free", "sent" or "served"
    answer,     \* answer[c]
    \* History variables, which no guard reads.
    shared,     \* another tab has changed the stored token
    crossed     \* a session began while answers of another were awaited

pageVars == <<session, stored, location, area, data, form, pending>>
callVars == <<call, pc, answer>>
vars == <<pageVars, callVars, shared, crossed>>

Roles  == {"admin", "investor"}
Routes == [area : {"public"}, page : PublicPages] \cup [area : Roles, page : {"home"}]
            \cup {[area |-> "none", page |-> "none"]}
Home(u) == [area |-> RoleOf[u], page |-> "home"]
SignIn  == [area |-> "public", page |-> "signIn"]
NoCall  == [area |-> "none", page |-> "none", user |-> None]

\* initCurrentPage: the area for a session and a route.
AreaFor(s, r) ==
    IF (s = None /\ r.area = "public") \/ (s # None /\ r.area = RoleOf[s])
    THEN [area |-> r.area, page |-> r.page, user |-> s]
    ELSE [area |-> "notFound", page |-> "none", user |-> None]

\* Who is signed in has no sign-in page: the route is replaced.
Landing(s, r) == IF s # None /\ r = SignIn THEN Home(s) ELSE r

Private == area.area \in Roles

Init ==
    /\ session = None /\ stored = None /\ pending = <<>>
    /\ location = SignIn /\ area = AreaFor(None, SignIn)
    /\ data = None /\ form = "NotAsked"
    /\ call = [c \in Calls |-> NoCall]
    /\ pc = [c \in Calls |-> "free"]
    /\ answer = [c \in Calls |-> "none"]
    /\ shared = FALSE /\ crossed = FALSE

-----------------------------------------------------------------------------
(* Calls *)

Send(c, from) ==
    /\ call' = [call EXCEPT ![c] = [area |-> from.area, page |-> from.page, user |-> from.user]]
    /\ pc' = [pc EXCEPT ![c] = "sent"]

\* The server answers: with a token for the user (a form), with the user's data (a
\* private page), or with an error.
Serve(c) ==
    /\ pc[c] = "sent"
    /\ pc' = [pc EXCEPT ![c] = "served"]
    /\ answer' \in {[answer EXCEPT ![c] = result] : result \in {"ok", "failed"}}
    /\ UNCHANGED <<pageVars, call, shared, crossed>>

-----------------------------------------------------------------------------
(* Navigation *)

InitPageKeepsData(s, r) ==
    /\ location' = Landing(s, r)
    /\ area' = AreaFor(s, Landing(s, r))
    /\ form' = "NotAsked" /\ UNCHANGED data

InitPage(s, r) ==
    /\ location' = Landing(s, r)
    /\ area' = AreaFor(s, Landing(s, r))
    /\ data' = None /\ form' = "NotAsked"

\* A private page asks for its data as it opens; a run does not follow that query
\* if the calls in flight are at their bound.
Load ==
    \/ /\ area'.area \in Roles
       /\ \E c \in Calls : pc[c] = "free" /\ Send(c, area')
    \/ /\ area'.area \notin Roles \/ \A c \in Calls : pc[c] # "free"
       /\ UNCHANGED <<call, pc>>

\* OnUrlChange: a link, the back button.
Go(r) ==
    /\ InitPage(session, r) /\ Load
    /\ UNCHANGED <<session, stored, pending, answer, shared, crossed>>

\* navigateLater wakes up: ChangeRoute.
Wake ==
    /\ pending # <<>>
    /\ pending' = Tail(pending)
    /\ InitPage(session, Head(pending)) /\ Load
    /\ UNCHANGED <<session, stored, answer, shared, crossed>>

\* The document is loaded anew, at any address: app.ts reads the token.
Reload(r) ==
    /\ session' = stored
    /\ InitPage(stored, r)
    /\ pending' = <<>>
    /\ \/ /\ area'.area \in Roles
          /\ \E c \in Calls :
                /\ call' = [d \in Calls |-> IF d = c
                              THEN [area |-> area'.area, page |-> area'.page, user |-> stored]
                              ELSE NoCall]
                /\ pc' = [d \in Calls |-> IF d = c THEN "sent" ELSE "free"]
       \/ /\ area'.area \notin Roles
          /\ call' = [c \in Calls |-> NoCall] /\ pc' = [c \in Calls |-> "free"]
    /\ answer' = [c \in Calls |-> "none"]
    /\ UNCHANGED <<stored, shared>> /\ crossed' = FALSE

\* Another tab starts or ends a session of its own.
OtherTab ==
    /\ stored' \in (Users \cup {None}) \ {stored}
    /\ shared' = TRUE
    /\ UNCHANGED <<session, location, area, data, form, pending, callVars, crossed>>

-----------------------------------------------------------------------------
(* Sessions *)

\* The navigations that are put off, or may yet be by an answer, are within the bound.
Room == Len(pending) + Cardinality({c \in Calls : call[c].area = "public"}) < MaxPending

\* Submit: with the Enter key under the spinner too, and with other entries.
Submit(c, u) ==
    /\ area.area = "public" /\ pc[c] = "free"
    /\ Room
    /\ form' = "Loading"
    /\ Send(c, [area EXCEPT !.user = u])
    /\ UNCHANGED <<session, stored, location, area, data, pending, answer, shared, crossed>>

\* A click on a private page, which works with the user it was opened for.
Ask(c) ==
    /\ Private /\ pc[c] = "free"
    /\ Send(c, area)
    /\ UNCHANGED <<pageVars, answer, shared, crossed>>

StartSessionInPlace(u) == session' = u /\ stored' = u /\ UNCHANGED pending

StartSession(u) == session' = u /\ stored' = u /\ pending' = Append(pending, Home(u))

EndSessionKeepsToken ==
    session' = None /\ pending' = Append(pending, SignIn) /\ UNCHANGED stored

EndSessionInPlace == session' = None /\ stored' = None /\ UNCHANGED pending

EndSession == session' = None /\ stored' = None /\ pending' = Append(pending, SignIn)

\* Sign Out is on the private pages; it can be pressed again until they go.
SignOut ==
    /\ Private /\ Room
    /\ EndSession
    /\ UNCHANGED <<location, area, data, form, callVars, shared, crossed>>

ReachesAnyArea(c) == call[c].page = area.page \/ call[c].area = "public"

\* App.update and the update of the area pass an answer on to a page of its kind.
Reaches(c) == call[c].area = area.area /\ call[c].page = area.page

OnSubmitErrIgnored(c, result) ==
    /\ form' = IF result = "Err" THEN form ELSE "Success"
    /\ IF result = "ok" /\ call[c].page \in SessionPages
       THEN /\ StartSession(call[c].user)
            /\ crossed' = (crossed \/ \E d \in Calls : call[d].area \in Roles)
       ELSE UNCHANGED <<session, stored, pending, crossed>>
    /\ UNCHANGED data

\* OnSubmitResponse.
OnSubmit(c, result) ==
    /\ form' = IF result = "Err" THEN "Failure" ELSE "Success"
    /\ IF result = "ok" /\ call[c].page \in SessionPages
       THEN /\ StartSession(call[c].user)
            /\ crossed' = (crossed \/ \E d \in Calls : call[d].area \in Roles)
       ELSE UNCHANGED <<session, stored, pending, crossed>>
    /\ UNCHANGED data

\* OnData of a private page; an error takes the data away.
OnData(c, result) ==
    /\ data' = IF result = "ok" THEN call[c].user ELSE None
    /\ UNCHANGED <<form, session, stored, pending, crossed>>

Apply(c, result) ==
    /\ \/ Reaches(c) /\ call[c].area = "public" /\ OnSubmit(c, result)
       \/ Reaches(c) /\ call[c].area \in Roles /\ OnData(c, result)
       \/ ~Reaches(c) /\ UNCHANGED <<data, form, session, stored, pending, crossed>>
    /\ call' = [call EXCEPT ![c] = NoCall]
    /\ pc' = [pc EXCEPT ![c] = "free"]
    /\ answer' = [answer EXCEPT ![c] = "none"]
    /\ UNCHANGED <<location, area, shared>>

Hear(c) == pc[c] = "served" /\ Apply(c, IF answer[c] = "ok" THEN "ok" ELSE "errors")

\* The connection is lost, whatever the server did.
Lose(c) == pc[c] # "free" /\ Apply(c, "Err")

Next ==
    \/ \E r \in Routes : Go(r) \/ Reload(r)
    \/ \E c \in Calls : Serve(c) \/ Ask(c) \/ Hear(c) \/ Lose(c) \/ \E u \in Users : Submit(c, u)
    \/ Wake \/ SignOut \/ OtherTab

Spec == Init /\ [][Next]_vars

\* The runtime wakes the tasks, the server answers and answers are delivered.
\* Nothing is assumed of the user.
FairSpec == /\ Spec
            /\ WF_vars(Wake)
            /\ \A c \in Calls : WF_vars(Serve(c)) /\ WF_vars(Hear(c))

-----------------------------------------------------------------------------
(***************************************************************************)
(* Properties.                                                             *)
(***************************************************************************)

\* Every variable has its type; what is shown belongs to the area that shows it.
TypeOK ==
    /\ session \in Users \cup {None} /\ stored \in Users \cup {None}
    /\ location \in Routes
    /\ area \in [area : Roles \cup {"public", "notFound"},
                 page : PublicPages \cup {"home", "none"}, user : Users \cup {None}]
    /\ data \in Users \cup {None}
    /\ form \in {"NotAsked", "Loading", "Failure", "Success"}
    /\ pending \in Seq(Routes) /\ Len(pending) <= MaxPending
    /\ pc \in [Calls -> {"free", "sent", "served"}]
    /\ answer \in [Calls -> {"none", "ok", "failed"}]
    /\ shared \in BOOLEAN /\ crossed \in BOOLEAN
    /\ area.area # "public" => form = "NotAsked"
    /\ ~Private => data = None

\* A private area is never shown beside somebody else's session: it is that of the
\* session, or the session has just ended.
AreaIsSessions == Private => session \in {None, area.user}

\* Once no navigation is pending, the tab shows what the session and the route call
\* for: nothing private is left after Sign Out, and no public form after sign-in,
\* whatever the user, late answers and other navigations did within the 100 ms.
SettledAreaFits == pending = <<>> => area = AreaFor(session, location)

\* A page shows the data of the user it was opened for, unless a session was begun
\* in the tab while answers to another were awaited.
OwnDataOnly == ~crossed => data \in {None, area.user}

\* With a single tab, a reload goes on with the session, or with none if it ended.
StoredIsSession == ~shared => stored = session

\* A tab shows the area and the data of its session, and a reload goes on with it.
TabIsSessions ==
    /\ AreaIsSessions
    /\ SettledAreaFits
    /\ OwnDataOnly
    /\ StoredIsSession

\* After Sign Out the private area goes.
SignedOutLeaves == (Private /\ session = None) ~> (~Private \/ session # None)

\* No form spins for ever.
Spinning   == form = "Loading"
SpinnersGo == Spinning ~> ~Spinning

=============================================================================
