---------------------------- MODULE RequestsPage ----------------------------
(***************************************************************************)
(* The page on which an admin approves and rejects withdrawal requests     *)
(* (Admin/Pages/Requests.elm), for several browsers at work on one server  *)
(* (WithdrawalRequests).                                                   *)
(*                                                                         *)
(* A message of the page is an action.  The answer to a command reaches    *)
(* whatever requests page its browser shows when it arrives, also one      *)
(* opened after the command was sent, and nothing if it shows another      *)
(* page.  A browser may give up on a call (Lose) that the server goes on   *)
(* to serve.                                                               *)
(*                                                                         *)
(* A definition that no action or property uses (CommitUnmarked, ...) is a *)
(* faulty variant of the one that follows it.                              *)
(***************************************************************************)
EXTENDS WithdrawalRequests

CONSTANTS
    Pages,      \* the browsers
    Owner,      \* Owner[p]: the admin who is signed in
    NoPage      \* the asker of a call that came from elsewhere

ASSUME PageAssumption == Owner \in [Pages -> Admins] /\ NoPage \notin Pages

VARIABLES
    shows,      \* shows[p]: p shows the requests page
    data,       \* data[p]: "NotAsked", "Failure" or "Success"
    list,       \* list[p]: the rows of a successful answer
    confirm,    \* confirm[p]: the button that waits for its confirmation, or <<>>
    responses,  \* responses[p][id]: how the last resolution of id goes
    asker,      \* asker[c]: the page that made call c
    heard,      \* the calls whose askers have had an answer or an error
    \* History variable, which no guard reads.
    marred      \* pages that had an error, or were opened before their answers came

pageVars == <<shows, data, list, confirm, responses, asker, heard, marred>>
vars == <<serverVars, pageVars>>

Ids == 1..MaxIds
Nothing == [id \in Ids |-> "NotAsked"]
Outcomes == {"APPROVED", "REJECTED"}

InFlight(p) == {c \in Calls : asker[c] = p /\ c \notin heard}

Init ==
    /\ ServerInit
    /\ shows = [p \in Pages |-> FALSE]
    /\ data = [p \in Pages |-> "NotAsked"]
    /\ list = [p \in Pages |-> {}]
    /\ confirm = [p \in Pages |-> <<>>]
    /\ responses = [p \in Pages |-> Nothing]
    /\ asker = [c \in Calls |-> NoPage]
    /\ heard = {}
    /\ marred = {}

-----------------------------------------------------------------------------

Send(p, c, k) ==
    /\ Arrive(c, k)
    /\ asker' = [asker EXCEPT ![c] = p]

\* newModel, at init and when the page goes away.
Reset(p) ==
    /\ data' = [data EXCEPT ![p] = "NotAsked"]
    /\ list' = [list EXCEPT ![p] = {}]
    /\ confirm' = [confirm EXCEPT ![p] = <<>>]
    /\ responses' = [responses EXCEPT ![p] = Nothing]
    /\ marred' = IF InFlight(p) # {} THEN marred \cup {p} ELSE marred

\* The browser navigates to the page, or to it again: init asks for the list.
Open(p, c) ==
    /\ Send(p, c, [op |-> "list", user |-> Owner[p]])
    /\ Reset(p)
    /\ shows' = [shows EXCEPT ![p] = TRUE]
    /\ UNCHANGED heard

Leave(p) ==
    /\ shows[p]
    /\ Reset(p)
    /\ shows' = [shows EXCEPT ![p] = FALSE]
    /\ UNCHANGED <<serverVars, asker, heard>>

\* requestView: the buttons of a pending request of which no answer is awaited.
ButtonsOf(p, id) ==
    /\ data[p] = "Success" /\ responses[p][id] # "Loading"
    /\ \E r \in list[p] : r.id = id /\ r.state = "PENDING"

Click(p, outcome, id) ==
    /\ ButtonsOf(p, id) /\ confirm[p] # <<outcome, id>>
    /\ confirm' = [confirm EXCEPT ![p] = <<outcome, id>>]
    /\ UNCHANGED <<serverVars, shows, data, list, responses, asker, heard, marred>>

Cancel(p) ==
    /\ \E outcome \in Outcomes, id \in Ids :
          ButtonsOf(p, id) /\ confirm[p] = <<outcome, id>>
    /\ confirm' = [confirm EXCEPT ![p] = <<>>]
    /\ UNCHANGED <<serverVars, shows, data, list, responses, asker, heard, marred>>

CommitUnmarked(p, c, outcome, id) ==
    /\ ButtonsOf(p, id) /\ confirm[p] = <<outcome, id>>
    /\ Send(p, c, [op |-> "resolve", user |-> Owner[p], id |-> id, outcome |-> outcome])
    /\ UNCHANGED <<shows, data, list, confirm, responses, heard, marred>>

CommitOptimistic(p, c, outcome, id) ==
    /\ ButtonsOf(p, id) /\ confirm[p] = <<outcome, id>>
    /\ Send(p, c, [op |-> "resolve", user |-> Owner[p], id |-> id, outcome |-> outcome])
    /\ list' = [list EXCEPT ![p] = {IF r.id = id THEN [r EXCEPT !.state = outcome] ELSE r : r \in @}]
    /\ responses' = [responses EXCEPT ![p][id] = "Loading"]
    /\ UNCHANGED <<shows, data, confirm, heard, marred>>

\* Approve_Commit, Reject_Commit: the button stays engaged under the spinner.
Commit(p, c, outcome, id) ==
    /\ ButtonsOf(p, id) /\ confirm[p] = <<outcome, id>>
    /\ Send(p, c, [op |-> "resolve", user |-> Owner[p], id |-> id, outcome |-> outcome])
    /\ responses' = [responses EXCEPT ![p][id] = "Loading"]
    /\ UNCHANGED <<shows, data, list, confirm, heard, marred>>

PutAppended(rows, r) == rows \cup {r}

\* Dataset.putOne: replace the row with this id, or add one.
Put(rows, r) == {s \in rows : s.id # r.id} \cup {r}

OnData(p, c, result) ==
    /\ data' = [data EXCEPT ![p] = IF result = "Success" THEN "Success" ELSE "Failure"]
    /\ list' = [list EXCEPT ![p] = IF result = "Success" THEN got[c] ELSE {}]
    /\ UNCHANGED responses

OnResolveResponseDropped(p, c, result) ==
    /\ responses' = [responses EXCEPT ![p][call[c].id] = result]
    /\ UNCHANGED <<data, list>>

OnResolveResponseStuck(p, c, result) ==
    /\ responses' = [responses EXCEPT ![p][call[c].id] = IF result = "Failure" THEN @ ELSE result]
    /\ UNCHANGED <<data, list>>

\* A successful answer with a row replaces the row shown, if a list is shown.
OnResolveResponse(p, c, result) ==
    /\ responses' = [responses EXCEPT ![p][call[c].id] = result]
    /\ list' = [list EXCEPT ![p] =
                   IF result = "Success" /\ data[p] = "Success" /\ answer[c] = "ok"
                   THEN UNION {Put(@, r) : r \in got[c]} ELSE @]
    /\ UNCHANGED data

Apply(p, c, result) ==
    IF shows[p]
    THEN IF call[c].op = "list" THEN OnData(p, c, result)
                                ELSE OnResolveResponse(p, c, result)
    ELSE UNCHANGED <<data, list, responses>>

\* The answer arrives.  A refusal is a GraphQL error; a failure is one too, or
\* an answer without a row.
Results(c) == CASE answer[c] = "ok"      -> {"Success"}
                [] answer[c] = "refused" -> {"Failure"}
                [] answer[c] = "failed"  -> IF call[c].op = "list" THEN {"Failure"}
                                            ELSE {"Failure", "Success"}

Hear(p, c) ==
    /\ c \in InFlight(p) /\ pc[c] = "done"
    /\ \E result \in Results(c) : Apply(p, c, result)
    /\ heard' = heard \cup {c}
    /\ marred' = IF answer[c] = "ok" THEN marred ELSE marred \cup {p}
    /\ UNCHANGED <<serverVars, shows, confirm, asker>>

\* The connection is lost: an HTTP error, while the server may go on.
Lose(p, c) ==
    /\ c \in InFlight(p)
    /\ Apply(p, c, "Failure")
    /\ heard' = heard \cup {c}
    /\ marred' = marred \cup {p}
    /\ UNCHANGED <<serverVars, shows, confirm, asker>>

\* Calls from elsewhere: the holder asks, another client of the API decides.
Elsewhere(c, k) == Arrive(c, k) /\ UNCHANGED pageVars

ServeNext(c) == Serve(c) /\ UNCHANGED pageVars

PageQuiescent ==
    /\ \A c \in Calls : pc[c] = "done" /\ (asker[c] # NoPage => c \in heard)
    /\ UNCHANGED vars

PageStep(p, c) ==
    \/ Open(p, c) \/ Hear(p, c) \/ Lose(p, c)
    \/ \E outcome \in Outcomes, id \in Ids : Commit(p, c, outcome, id)

PageNext ==
    \/ \E c \in Calls, k \in Inputs : Elsewhere(c, k)
    \/ \E c \in Calls : ServeNext(c)
    \/ \E p \in Pages, c \in Calls : PageStep(p, c)
    \/ \E p \in Pages : Leave(p) \/ Cancel(p)
    \/ \E p \in Pages, outcome \in Outcomes, id \in Ids : Click(p, outcome, id)
    \/ PageQuiescent

PageSpec == Init /\ [][PageNext]_vars

\* The server goes on with a call it has begun, and the browser's runtime
\* delivers an answer that is there.  Nothing is assumed of the admins.
Fairness ==
    /\ \A c \in Calls : WF_vars(ServeNext(c))
    /\ \A p \in Pages, c \in Calls : WF_vars(Hear(p, c))

FairPageSpec == PageSpec /\ Fairness

-----------------------------------------------------------------------------
(***************************************************************************)
(* Properties.                                                             *)
(***************************************************************************)

\* Every variable of the server and of the pages has its type.
PageTypeOK ==
    /\ TypeOK
    /\ shows \in [Pages -> BOOLEAN]
    /\ data \in [Pages -> {"NotAsked", "Failure", "Success"}]
    /\ list \in [Pages -> SUBSET Request]
    /\ confirm \in [Pages -> {<<>>} \cup (Outcomes \X Ids)]
    /\ responses \in [Pages -> [Ids -> {"NotAsked", "Loading", "Failure", "Success"}]]
    /\ asker \in [Calls -> Pages \cup {NoPage}]
    /\ heard \subseteq Calls
    /\ marred \subseteq Pages
    /\ \A p \in Pages : \A r, s \in list[p] : r.id = s.id => r = s

\* A decision on display was committed, by the admin who looks at it: nothing is
\* shown before it happened, whatever answers are lost, late or of an earlier
\* visit (Requests.elm shows what the mutation answered).
ShownDecisionsHappened ==
    \A p \in Pages : \A r \in list[p] :
        r.state # "PENDING" =>
            \E e \in 1..Len(log) :
                log[e] = [id |-> r.id, kind |-> r.state, by |-> Owner[p]]

\* After entry e, request id was put back to pending: no page offers that, but the
\* mutation takes it.
PutBack(id, e) == \E f \in (e + 1)..Len(log) : log[f].id = id /\ log[f].kind = "PENDING"

\* Without errors and early navigation, and when no answer is awaited, the page
\* shows no buttons for a request that was decided on it, in whatever visit, unless
\* somebody put it back to pending since.
ShowsOwnDecisions ==
    \A p \in Pages \ marred : InFlight(p) = {} =>
        \A r \in list[p] : \A c \in Calls :
            asker[c] = p /\ call[c].op = "resolve" /\ call[c].id = r.id =>
                r.state # "PENDING" \/ PutBack(r.id, entry[c])

\* Without errors and early navigation a page sends a single resolution for a
\* request, however often its buttons are pressed, unless the first one was undone.
DecidesOnce ==
    \A p \in Pages \ marred : \A c, d \in Calls :
        /\ asker[c] = p /\ asker[d] = p
        /\ call[c].op = "resolve" /\ call[d].op = "resolve" /\ call[c].id = call[d].id
        => \/ c = d
           \/ \E b \in {c, d} : entry[b] # 0 /\ PutBack(call[b].id, entry[b])

\* All three: the page shows what was decided, and decides what was clicked once.
DecisionsShown == ShownDecisionsHappened /\ ShowsOwnDecisions /\ DecidesOnce

\* A spinner goes away: whoever waits for a resolution gets an answer or an error.
Spinning   == \E p \in Pages, id \in Ids : responses[p][id] = "Loading"
SpinnersGo == Spinning ~> ~Spinning

=============================================================================
