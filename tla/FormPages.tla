------------------------------ MODULE FormPages ------------------------------
(***************************************************************************)
(* The pages of the client that are one form: the request of a withdrawal, *)
(* the creation of an investor, the invitation of an admin, the request of *)
(* a new password, and the confirmation of an address, which submits       *)
(* itself.  (The forms that start a session are in Session, those of an    *)
(* account in AccountPage.)                                                *)
(*                                                                         *)
(* They differ in what a success does: it clears the form or not, and goes *)
(* to another page or not.  An answer is applied to whatever page of its   *)
(* kind is shown when it arrives.  The server serves a call in one step;   *)
(* its statements are in WithdrawalRequests, Onboarding and Passwords.     *)
(*                                                                         *)
(* A definition that no action or property uses (OnResponseUnread, ...) is *)
(* a faulty variant of the one that follows it.                            *)
(***************************************************************************)
EXTENDS Integers, FiniteSets

CONSTANTS
    MaxCalls,   \* bound on the calls
    MaxFills,   \* bound on how often a form is filled in
    None        \* any other page

Leaving == {"requestWithdrawal", "createInvestor"}
Clearing == Leaving \cup {"inviteAdmin"}
Automatic == {"emailConfirmation"}
FormNames == Clearing \cup Automatic \cup {"requestPassword"}

FormPagesAssumption == MaxCalls \in Nat /\ MaxFills \in Nat /\ None \notin FormNames

\* The server refuses a second one of these for the same entries.
Unique == {"createInvestor"}

VARIABLES
    page,       \* the page that is shown
    form,       \* what its form holds: the number of a fill, or 0
    response,   \* how its last submission goes
    made,       \* the number of calls made
    fills,      \* the number of fills so far
    call,       \* call[c]: the page that made it and the fill it sent
    pc,         \* pc[c]: "new", "sent", "served" or "heard"
    answer,     \* answer[c]
    committed,  \* the calls that were carried out, as the database has them
    \* History variables, which no guard reads.
    gone,       \* the fills that an answer took off the screen
    hurried,    \* fills entered while an answer for the page was awaited
    excused     \* fills with an error, or submitted again under the spinner
                \* (an error counts for the fill on the screen as well)

pageVars == <<page, form, response>>
callVars == <<made, call, pc, answer, committed>>
histVars == <<gone, hurried, excused>>
vars == <<pageVars, callVars, fills, histVars>>

CallNumbers == 1..MaxCalls
NoCall == [page |-> None, fill |-> 0]

Init ==
    /\ page = None /\ form = 0 /\ response = "NotAsked"
    /\ made = 0 /\ fills = 0
    /\ call = [c \in CallNumbers |-> NoCall]
    /\ pc = [c \in CallNumbers |-> "new"]
    /\ answer = [c \in CallNumbers |-> "none"]
    /\ committed = {} /\ gone = {} /\ hurried = {} /\ excused = {}

InFlight == {c \in 1..made : pc[c] # "heard"}

-----------------------------------------------------------------------------
(* The server *)

Same(c, d) == call[c] = call[d]

CommitsTwice(c) == TRUE
Commits(c) == call[c].page \in Unique => \A d \in committed : ~Same(c, d)

\* A call that fails was refused, or carried out before its mail was not published.
Execute(c) ==
    /\ c \in 1..made /\ pc[c] = "sent"
    /\ \/ /\ Commits(c)
          /\ committed' = committed \cup {c}
          /\ answer' \in {[answer EXCEPT ![c] = result] : result \in {"ok", "failed"}}
       \/ /\ answer' = [answer EXCEPT ![c] = "failed"]
          /\ UNCHANGED committed
    /\ pc' = [pc EXCEPT ![c] = "served"]
    /\ UNCHANGED <<pageVars, made, call, fills, histVars>>

-----------------------------------------------------------------------------
(* The page *)

Send(p, fill) ==
    /\ made < MaxCalls
    /\ made' = made + 1
    /\ call' = [call EXCEPT ![made + 1] = [page |-> p, fill |-> fill]]
    /\ pc' = [pc EXCEPT ![made + 1] = "sent"]
    /\ UNCHANGED <<answer, committed>>

\* A link, the address bar or the back button, also to the same page.
Go(p) ==
    /\ page # None \/ p # None
    /\ page' = p /\ form' = 0
    /\ \/ p \in Automatic /\ response' = "Loading" /\ Send(p, 0)
       \/ p \notin Automatic /\ response' = "NotAsked" /\ UNCHANGED callVars
    /\ UNCHANGED <<fills, histVars>>

\* Valid entries; the fields are there under the spinner too.
Fill ==
    /\ page \in FormNames \ Automatic /\ fills < MaxFills
    /\ fills' = fills + 1 /\ form' = fills + 1
    /\ hurried' = IF \E c \in InFlight : call[c].page = page THEN hurried \cup {fills + 1}
                                                             ELSE hurried
    /\ UNCHANGED <<page, response, callVars, gone, excused>>

\* Submit: under the spinner too, with the Enter key.
Submit ==
    /\ form # 0
    /\ response' = "Loading"
    /\ Send(page, form)
    /\ excused' = IF response = "Loading" THEN excused \cup {form} ELSE excused
    /\ UNCHANGED <<page, form, fills, gone, hurried>>

OnSuccessKeepsForm(c) ==
    /\ response' = "Success"
    /\ page' = IF page \in Leaving THEN None ELSE page
    /\ UNCHANGED form

OnSuccess(c) ==
    /\ page' = IF page \in Leaving THEN None ELSE page
    /\ response' = IF page \in Leaving THEN "NotAsked" ELSE "Success"
    /\ form' = IF page \in Clearing THEN 0 ELSE form

OnResponseErrIgnored(c, result) ==
    \/ result = "ok" /\ OnSuccess(c)
    \/ result = "errors" /\ response' = "Success" /\ UNCHANGED <<page, form>>
    \/ result = "Err" /\ UNCHANGED pageVars

OnResponseUnread(c, result) ==
    \/ result \in {"ok", "errors"} /\ OnSuccess(c)
    \/ result = "Err" /\ response' = "Failure" /\ UNCHANGED <<page, form>>

\* OnResponse, OnSubmitResponse.
OnResponse(c, result) ==
    \/ result = "ok" /\ OnSuccess(c)
    \/ result = "errors" /\ response' = "Success" /\ UNCHANGED <<page, form>>
    \/ result = "Err" /\ response' = "Failure" /\ UNCHANGED <<page, form>>

Apply(c, result) ==
    /\ \/ page = call[c].page /\ OnResponse(c, result)
       \/ page # call[c].page /\ UNCHANGED pageVars
    /\ pc' = [pc EXCEPT ![c] = "heard"]
    /\ answer' = [answer EXCEPT ![c] = "none"]
    /\ gone' = IF form # 0 /\ form' = 0 THEN gone \cup {form} ELSE gone
    /\ excused' = IF page = call[c].page /\ result # "ok"
                  THEN excused \cup ({call[c].fill, form} \ {0}) ELSE excused
    /\ UNCHANGED <<made, call, fills, hurried>>

\* A failure is a GraphQL error or an answer with errors.
Hear(c) ==
    /\ c \in InFlight /\ pc[c] = "served"
    /\ \E result \in IF answer[c] = "ok" THEN {"ok"} ELSE {"errors", "Err"} : Apply(c, result)
    /\ UNCHANGED committed

\* The connection is lost; the server may have served the call, or goes on to.
Lose(c) ==
    /\ c \in InFlight
    /\ Apply(c, "Err")
    /\ \/ UNCHANGED committed
       \/ pc[c] = "sent" /\ Commits(c) /\ committed' = committed \cup {c}

Next ==
    \/ \E p \in FormNames \cup {None} : Go(p)
    \/ Fill \/ Submit
    \/ \E c \in CallNumbers : Execute(c) \/ Hear(c) \/ Lose(c)

Spec == Init /\ [][Next]_vars

\* The server serves what it was sent and the browser's runtime delivers the answer.
FairSpec == Spec /\ \A c \in CallNumbers : WF_vars(Execute(c)) /\ WF_vars(Hear(c))

-----------------------------------------------------------------------------
(***************************************************************************)
(* Properties.                                                             *)
(***************************************************************************)

\* Every variable has its type, and only a form that is shown is filled in.
TypeOK ==
    /\ page \in FormNames \cup {None} /\ form \in 0..MaxFills
    /\ response \in {"NotAsked", "Loading", "Failure", "Success"}
    /\ made \in 0..MaxCalls /\ fills \in 0..MaxFills
    /\ call \in [CallNumbers -> [page : FormNames \cup {None}, fill : 0..MaxFills]]
    /\ pc \in [CallNumbers -> {"new", "sent", "served", "heard"}]
    /\ answer \in [CallNumbers -> {"none", "ok", "failed"}]
    /\ committed \subseteq CallNumbers
    /\ gone \subseteq 1..MaxFills /\ hurried \subseteq 1..MaxFills
    /\ excused \subseteq 1..MaxFills
    /\ page \in Automatic \cup {None} => form = 0

\* What a success takes off the screen has been carried out: no entries are lost
\* unsubmitted, unless they were made while an earlier answer was still awaited.
ClearedWasDone ==
    \A n \in gone \ hurried : \E c \in committed : call[c].fill = n

\* A form that a success clears is carried out once, unless it was submitted again
\* under the spinner or the user saw an error beside it: an HTTP error, or an answer
\* with errors, leaves it filled in although it may have been carried out.
OncePerFill ==
    \A c, d \in committed :
        c # d /\ Same(c, d) /\ call[c].page \in Clearing => call[c].fill \in excused

\* However often it is submitted, an investor is created once: the server refuses
\* the name the second time.
OneInvestorPerFill ==
    \A c, d \in committed :
        Same(c, d) /\ call[c].page = "createInvestor" => c = d

\* No form spins for ever.
Spinning   == response = "Loading"
SpinnersGo == Spinning ~> ~Spinning

=============================================================================
