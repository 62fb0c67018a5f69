----------------------------- MODULE AccountPage -----------------------------
(***************************************************************************)
(* The page of one account in the browser of an admin                      *)
(* (Admin/Pages/Account.elm): the account with its balance and rate, the   *)
(* form of a deposit and the form of a withdrawal.                         *)
(*                                                                         *)
(* A message of the page is an action.  As in RequestsPage, an answer is   *)
(* applied to whatever account page is current when it arrives, and the    *)
(* browser may give up on a call that the server goes on to serve.  The    *)
(* server of this module serves a call in one step (its statements are in  *)
(* Ledger); what it knows of an account is the set of calls it committed.  *)
(* Nav.pushUrl and the OnUrlChange that follows it are one step.           *)
(*                                                                         *)
(* A definition that no action or property uses (SucceedFilled, ...) is a  *)
(* faulty variant of the one that follows it.                              *)
(***************************************************************************)
EXTENDS Integers, FiniteSets

CONSTANTS
    Accounts,
    MaxCalls,   \* bound on the calls
    MaxFills,   \* bound on how often a form is filled in
    None        \* no page, no account

VARIABLES
    route,      \* the route of the URL: an account and a sub-page, or None
    page,       \* the same of the page that is shown
    data,       \* the account shown on the top page
    editing,    \* the field for a new rate is open
    saving,     \* yearlyInterestResponse
    form,       \* what the form holds: the number of a fill, or 0
    response,   \* how the last submission of the form goes
    made,       \* the number of calls made
    fills,      \* the number of fills so far
    call,       \* call[c]: what call c asks
    pc,         \* pc[c]: "sent", "served" or "heard"
    answer,     \* answer[c]
    got,        \* got[c]: the account as call c found it
    committed,  \* the calls that changed an account, as the database has them
    \* History variables, which no guard reads.
    told,       \* the calls whose success was shown
    excused,    \* fills with an error, or submitted again under the spinner
                \* (an error counts for the fill on the screen as well)
    marred      \* the page was opened before all answers had come

pageVars   == <<route, page, data, editing, saving, form, response>>
serverVars == <<call, pc, answer, got, committed>>
vars == <<pageVars, serverVars, made, fills, told, excused, marred>>

CallNumbers == 1..MaxCalls
Forms  == {"deposit", "withdraw"}
Routes == [account : Accounts, sub : {"top"} \cup Forms]
Call   == [op : {"query", "rate"} \cup Forms, account : Accounts, fill : 0..MaxFills]

AccountPageAssumption ==
    MaxCalls \in Nat /\ MaxFills \in Nat /\ None \notin Accounts \cup Routes

RemoteData == {"NotAsked", "Loading", "Failure", "Success"}
NoData  == [status |-> "NotAsked", account |-> None, calls |-> {}]
NoCall  == [op |-> "none", account |-> None, fill |-> 0]
Failure == [NoData EXCEPT !.status = "Failure"]

InFlight == {c \in 1..made : pc[c] # "heard"}

Init ==
    /\ route = None /\ page = None /\ data = NoData
    /\ editing = FALSE /\ saving = "NotAsked"
    /\ form = 0 /\ response = "NotAsked"
    /\ made = 0 /\ fills = 0
    /\ call = [c \in CallNumbers |-> NoCall]
    /\ pc = [c \in CallNumbers |-> "new"]
    /\ answer = [c \in CallNumbers |-> "none"]
    /\ got = [c \in CallNumbers |-> NoData]
    /\ committed = {} /\ told = {} /\ excused = {} /\ marred = FALSE

-----------------------------------------------------------------------------
(* The server *)

Snapshot(a, calls) ==
    [status |-> "Success", account |-> a, calls |-> {d \in calls : call[d].account = a}]

\* A call that fails was refused, or committed before its mail was not published.
Execute(c) ==
    LET k == call[c]
    IN  /\ c \in 1..made /\ pc[c] = "sent"
        /\ \E result \in {"ok", "failed"}, commits \in BOOLEAN :
              /\ commits => k.op # "query"
              /\ result = "ok" /\ k.op # "query" => commits
              /\ committed' = IF commits THEN committed \cup {c} ELSE committed
              /\ answer' = [answer EXCEPT ![c] = result]
              /\ got' = [got EXCEPT ![c] = IF result = "ok" THEN Snapshot(k.account, committed')
                                           ELSE NoData]
        /\ pc' = [pc EXCEPT ![c] = "served"]
        /\ UNCHANGED <<pageVars, call, made, fills, told, excused, marred>>

-----------------------------------------------------------------------------
(* The page *)

\* Calls that are left, besides one for each submission whose success asks for
\* the account.
Spare(n) == made + n + Cardinality({c \in InFlight : call[c].op \in Forms}) <= MaxCalls

Send(k) ==
    /\ made' = made + 1
    /\ call' = [call EXCEPT ![made + 1] = k]

Ask(op, fill) == [op |-> op, account |-> page.account, fill |-> fill]

InitPageKeepsData(r) ==
    /\ route' = r /\ page' = r /\ UNCHANGED data
    /\ editing' = FALSE /\ saving' = "NotAsked" /\ form' = 0 /\ response' = "NotAsked"

\* newModel: a page that is opened is blank.
InitPage(r) ==
    /\ route' = r /\ page' = r /\ data' = NoData
    /\ editing' = FALSE /\ saving' = "NotAsked" /\ form' = 0 /\ response' = "NotAsked"

\* A link, the address bar or the back button, also to the same page; None is any
\* other page.
Go(r) ==
    /\ r # None \/ route # None
    /\ InitPage(r)
    /\ marred' = (InFlight # {})
    /\ IF r # None /\ r.sub = "top"
       THEN /\ Spare(1)
            /\ Send([op |-> "query", account |-> r.account, fill |-> 0])
            /\ pc' = [pc EXCEPT ![made + 1] = "sent"]
       ELSE UNCHANGED <<made, call, pc>>
    /\ UNCHANGED <<fills, answer, got, committed, told, excused>>

OnForm == page # None /\ page.sub \in Forms
OnTop  == page # None /\ page.sub = "top"

\* ChangeDepositAmount, ChangeWithdrawAmount: a valid amount.
Fill ==
    /\ OnForm /\ fills < MaxFills
    /\ fills' = fills + 1
    /\ form' = fills + 1
    /\ UNCHANGED <<route, page, data, editing, saving, response, serverVars, made, told,
                   excused, marred>>

\* SubmitDeposit, SubmitWithdraw: under the spinner too, with the Enter key.
Submit ==
    /\ OnForm /\ form # 0 /\ Spare(2)
    /\ response' = "Loading"
    /\ Send(Ask(page.sub, form))
    /\ pc' = [pc EXCEPT ![made + 1] = "sent"]
    /\ excused' = IF response = "Loading" THEN excused \cup {form} ELSE excused
    /\ UNCHANGED <<route, page, data, editing, saving, form, answer, got, committed, fills,
                   told, marred>>

\* EditInterestRate and CancelInterestRate.
EditRate ==
    /\ OnTop /\ data.status = "Success" /\ ~editing
    /\ editing' = TRUE
    /\ UNCHANGED <<route, page, data, saving, form, response, serverVars, made, fills, told,
                   excused, marred>>

CancelRate ==
    /\ OnTop /\ editing /\ saving # "Loading"
    /\ editing' = FALSE /\ saving' = "NotAsked"
    /\ UNCHANGED <<route, page, data, form, response, serverVars, made, fills, told, excused,
                   marred>>

\* SaveInterestRate: the buttons are not there under the spinner.
SaveRate ==
    /\ OnTop /\ editing /\ saving # "Loading" /\ Spare(1)
    /\ saving' = "Loading"
    /\ Send(Ask("rate", 0))
    /\ pc' = [pc EXCEPT ![made + 1] = "sent"]
    /\ UNCHANGED <<route, page, data, editing, form, response, answer, got, committed, fills,
                   told, excused, marred>>

-----------------------------------------------------------------------------
(* Answers: result is "ok", "errors" (an answer with success = false) or "Err" *)

OnAccountDataKeepsForm(c, result) ==
    /\ page' = [page EXCEPT !.sub = "top"]
    /\ data' = IF result = "ok" THEN got[c] ELSE Failure
    /\ UNCHANGED <<editing, saving, form, response>>

\* OnAccountData: whatever sub-page is current, the top page takes its place.
OnAccountData(c, result) ==
    /\ page' = [page EXCEPT !.sub = "top"]
    /\ data' = IF result = "ok" THEN got[c] ELSE Failure
    /\ editing' = FALSE /\ saving' = "NotAsked" /\ form' = 0 /\ response' = "NotAsked"

OnSaveRateKeepsData(c, result) ==
    /\ saving' = IF result = "Err" THEN "Failure" ELSE "Success"
    /\ editing' = (editing /\ result # "ok")
    /\ UNCHANGED <<page, data, form, response>>

OnSaveRateStuck(c, result) ==
    /\ saving' = IF result = "Err" THEN saving ELSE "Success"
    /\ data' = IF result = "ok" THEN got[c] ELSE data
    /\ editing' = (editing /\ result # "ok")
    /\ UNCHANGED <<page, form, response>>

\* OnSaveInterestRateResponse.
OnSaveRate(c, result) ==
    /\ saving' = IF result = "Err" THEN "Failure" ELSE "Success"
    /\ data' = IF result = "ok" THEN got[c] ELSE data
    /\ editing' = (editing /\ result # "ok")
    /\ UNCHANGED <<page, form, response>>

SucceedFilled(c) ==
    /\ response' = "Success"
    /\ UNCHANGED <<route, page, data, editing, saving, form, made, call, marred>>
    /\ pc' = [pc EXCEPT ![c] = "heard"]

\* A submission has succeeded: the form is cleared, and the account of the page is
\* shown and asked for.
Succeed(c) ==
    /\ InitPage([account |-> page.account, sub |-> "top"])
    /\ Send(Ask("query", 0))
    /\ pc' = [pc EXCEPT ![c] = "heard", ![made + 1] = "sent"]
    /\ marred' = (InFlight # {c})

\* Account.update passes an answer on only if the sub-page is the one it is for.
Reaches(c) ==
    \/ page # None /\ call[c].op = "query"
    \/ OnTop /\ call[c].op = "rate"
    \/ OnForm /\ call[c].op = page.sub

Hears(c, result) ==
    \/ /\ Reaches(c) /\ call[c].op \in Forms /\ result = "ok"
       /\ Succeed(c)
    \/ /\ \/ /\ Reaches(c) /\ call[c].op = "query" /\ OnAccountData(c, result)
          \/ /\ Reaches(c) /\ call[c].op = "rate" /\ OnSaveRate(c, result)
          \/ /\ Reaches(c) /\ call[c].op \in Forms /\ result # "ok"
             /\ response' = IF result = "Err" THEN "Failure" ELSE "Success"
             /\ UNCHANGED <<page, data, editing, saving, form>>
          \/ /\ ~Reaches(c)
             /\ UNCHANGED <<page, data, editing, saving, form, response>>
       /\ pc' = [pc EXCEPT ![c] = "heard"]
       /\ UNCHANGED <<route, made, call, marred>>

Note(c, result) ==
    /\ told' = IF Reaches(c) /\ result = "ok" /\ call[c].op # "query"
               THEN told \cup {c} ELSE told
    /\ excused' = IF Reaches(c) /\ result # "ok" /\ call[c].op \in Forms
                  THEN excused \cup ({call[c].fill, form} \ {0}) ELSE excused

Forget(c) ==
    /\ answer' = [answer EXCEPT ![c] = "none"]
    /\ got' = [got EXCEPT ![c] = NoData]

\* The answer arrives; a failure is a GraphQL error or an answer with errors.
Results(c) == CASE answer[c] = "ok" -> {"ok"}
                [] OTHER -> IF call[c].op = "query" THEN {"Err"} ELSE {"Err", "errors"}

Hear(c) ==
    /\ c \in 1..made /\ pc[c] = "served"
    /\ \E result \in Results(c) : Hears(c, result) /\ Note(c, result)
    /\ Forget(c)
    /\ UNCHANGED <<committed, fills>>

\* The connection is lost; the server may have served the call, or goes on to.
Lose(c) ==
    /\ c \in InFlight
    /\ \/ pc[c] = "served" /\ UNCHANGED committed
       \/ pc[c] = "sent" /\ call[c].op = "query" /\ UNCHANGED committed
       \/ pc[c] = "sent" /\ call[c].op # "query"
          /\ committed' \in {committed, committed \cup {c}}
    /\ Hears(c, "Err") /\ Note(c, "Err")
    /\ Forget(c)
    /\ UNCHANGED fills

\* The bounds are used up.
Quiescent ==
    /\ InFlight = {} /\ ~Spare(2)
    /\ UNCHANGED vars

Next ==
    \/ \E r \in Routes \cup {None} : Go(r)
    \/ Fill \/ Submit \/ EditRate \/ CancelRate \/ SaveRate
    \/ \E c \in CallNumbers : Execute(c) \/ Hear(c) \/ Lose(c)
    \/ Quiescent

Spec == Init /\ [][Next]_vars

\* The server serves what it was sent, and the browser's runtime delivers the
\* answer.  Nothing is assumed of the admin.
FairSpec == Spec /\ \A c \in CallNumbers : WF_vars(Execute(c)) /\ WF_vars(Hear(c))

-----------------------------------------------------------------------------
(***************************************************************************)
(* Properties.                                                             *)
(***************************************************************************)

\* Every variable has its type, and each sub-page only the model of its own.
TypeOK ==
    /\ route \in Routes \cup {None} /\ page \in Routes \cup {None}
    /\ data \in [status : RemoteData, account : Accounts \cup {None}, calls : SUBSET CallNumbers]
    /\ editing \in BOOLEAN /\ saving \in RemoteData
    /\ form \in 0..MaxFills /\ response \in RemoteData
    /\ made \in 0..MaxCalls /\ fills \in 0..MaxFills
    /\ call \in [CallNumbers -> Call \cup {NoCall}]
    /\ pc \in [CallNumbers -> {"new", "sent", "served", "heard"}]
    /\ answer \in [CallNumbers -> {"none", "ok", "failed"}]
    /\ got \in [CallNumbers -> [status : RemoteData, account : Accounts \cup {None},
                          calls : SUBSET CallNumbers]]
    /\ committed \subseteq CallNumbers /\ told \subseteq CallNumbers
    /\ excused \subseteq 1..MaxFills /\ marred \in BOOLEAN
    /\ ~OnTop => data = NoData /\ ~editing /\ saving = "NotAsked"
    /\ ~OnForm => form = 0 /\ response = "NotAsked"

\* On a page that was opened when no answer was awaited, the admin sees the
\* account and the form of the URL, and no other account's figures.
PageFollowsUrl ==
    ~marred =>
        /\ page = route
        /\ data.status = "Success" => page # None /\ data.account = page.account

\* On such a page, once the account is there and no answer is awaited, it has
\* every change of it whose success the admin was ever shown.
ShowsOwnChanges ==
    ~marred /\ InFlight = {} /\ OnTop /\ data.status = "Success" =>
        {c \in told : call[c].account = page.account} \subseteq data.calls

\* One filled-in form changes the account once, unless it was submitted again
\* under the spinner or the admin saw an error beside it: an HTTP error, or an answer
\* with errors, leaves the form filled in although the change may be committed.
OneChangePerFill ==
    \A c, d \in committed :
        c # d /\ call[c].fill = call[d].fill /\ call[c].fill # 0
            => call[c].fill \in excused

\* No spinner turns for ever.
Spinning   == "Loading" \in {response, saving}
SpinnersGo == Spinning ~> ~Spinning

=============================================================================
