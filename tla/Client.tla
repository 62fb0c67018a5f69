------------------------------- MODULE Client -------------------------------
(***************************************************************************)
(* The parts of the client side by side: the requests page with the server *)
(* behind it (RequestsPage), the page of an account (Account), the home    *)
(* page of an admin (Home), the pages that are one form (Forms), the shell *)
(* of a tab (Tab) and the messages in its corner (Corner).                 *)
(*                                                                         *)
(* A behaviour is one of a single part: what a part knows of another is in *)
(* its own module (a link or the back button may take a page away at any   *)
(* time, Session says whose page is shown), and no other state is shared.  *)
(***************************************************************************)
EXTENDS RequestsPage

CONSTANTS
    Parts,          \* the parts to be considered
    PageAccounts, AccountCalls, AccountFills,
    Investors, HomeCalls,
    FormCalls, FormFills,
    TabUsers, RoleOf, PublicPages, SessionPages, TabCalls, MaxPending,
    DismissIn, MaxTime, MaxAdded,
    None

VARIABLES
    part,
    route, page, aData, editing, saving, form, response, aCall, aPc, aAnswer, aGot,
    committed, made, fills, aTold, excused, aMarred,
    archived, hCall, hPc, hAnswer, hGot, was, meddled, hShows, hData, flagged, busy, hMarred,
    fPage, fForm, fResponse, fMade, fCall, fPc, fAnswer, fCommitted, gone, hurried,
    fExcused, fFills,
    session, stored, location, area, sData, sForm, pending, sCall, sPc, sAnswer,
    shared, crossed,
    notifications, nextId, timers, now, added

Account == INSTANCE AccountPage WITH
    Accounts <- PageAccounts, MaxCalls <- AccountCalls, MaxFills <- AccountFills,
    data <- aData, call <- aCall, pc <- aPc, answer <- aAnswer, got <- aGot,
    told <- aTold, marred <- aMarred

Home == INSTANCE HomePage WITH
    Calls <- HomeCalls, shows <- hShows, data <- hData, call <- hCall, pc <- hPc,
    answer <- hAnswer, got <- hGot, marred <- hMarred

Forms == INSTANCE FormPages WITH
    MaxCalls <- FormCalls, MaxFills <- FormFills,
    page <- fPage, form <- fForm, response <- fResponse, made <- fMade, fills <- fFills,
    call <- fCall, pc <- fPc, answer <- fAnswer, committed <- fCommitted, excused <- fExcused

Tab == INSTANCE Session WITH
    Users <- TabUsers, Calls <- TabCalls,
    data <- sData, form <- sForm, call <- sCall, pc <- sPc, answer <- sAnswer

Corner == INSTANCE Notifications

ASSUME ClientAssumption ==
    /\ Account!AccountPageAssumption /\ Home!HomePageAssumption /\ Forms!FormPagesAssumption
    /\ Tab!SessionAssumption /\ Corner!NotificationsAssumption

accountVars ==
    <<route, page, aData, editing, saving, form, response, aCall, aPc, aAnswer, aGot,
      committed, made, fills, aTold, excused, aMarred>>
homeVars ==
    <<archived, hCall, hPc, hAnswer, hGot, was, meddled, hShows, hData, flagged, busy, hMarred>>
formVars ==
    <<fPage, fForm, fResponse, fMade, fCall, fPc, fAnswer, fCommitted, gone, hurried,
      fExcused, fFills>>
tabVars ==
    <<session, stored, location, area, sData, sForm, pending, sCall, sPc, sAnswer,
      shared, crossed>>
cornerVars == <<notifications, nextId, timers, now, added>>
clientVars == <<part, vars, accountVars, homeVars, formVars, tabVars, cornerVars>>

ClientInit ==
    /\ part \in Parts
    /\ Init /\ Account!Init /\ Home!Init /\ Forms!Init /\ Tab!Init /\ Corner!Init
    /\ part # "home" => archived = {}

\* A step of one part leaves the others alone.
OnlyRequests == UNCHANGED <<part, accountVars, homeVars, formVars, tabVars, cornerVars>>
OnlyAccount  == UNCHANGED <<part, vars, homeVars, formVars, tabVars, cornerVars>>
OnlyHome     == UNCHANGED <<part, vars, accountVars, formVars, tabVars, cornerVars>>
OnlyForms    == UNCHANGED <<part, vars, accountVars, homeVars, tabVars, cornerVars>>
OnlySession  == UNCHANGED <<part, vars, accountVars, homeVars, formVars, cornerVars>>
OnlyNotifications ==
    UNCHANGED <<part, vars, accountVars, homeVars, formVars, tabVars>>

ClientNext ==
    \/ part = "requests" /\ PageNext /\ OnlyRequests
    \/ part = "account" /\ Account!Next /\ OnlyAccount
    \/ part = "home" /\ Home!Next /\ OnlyHome
    \/ part = "forms" /\ Forms!Next /\ OnlyForms
    \/ part = "session" /\ Tab!Next /\ OnlySession
    \/ part = "notifications" /\ Corner!Next /\ OnlyNotifications

ClientSpec == ClientInit /\ [][ClientNext]_clientVars

\* The fairness of each part, as its module states it, with one condition for the
\* calls of a number: a behaviour has those of one part only.
NumberedCalls == Calls \cup 1..AccountCalls \cup HomeCalls \cup 1..FormCalls

ServeNumbered(c) ==
    \/ part = "requests" /\ c \in Calls /\ ServeNext(c) /\ OnlyRequests
    \/ part = "account" /\ Account!Execute(c) /\ OnlyAccount
    \/ part = "home" /\ Home!Serve(c) /\ OnlyHome
    \/ part = "forms" /\ Forms!Execute(c) /\ OnlyForms

HearNumbered(c) ==
    \/ part = "requests" /\ c \in Calls /\ (\E p \in Pages : Hear(p, c)) /\ OnlyRequests
    \/ part = "account" /\ Account!Hear(c) /\ OnlyAccount
    \/ part = "home" /\ Home!Hear(c) /\ OnlyHome
    \/ part = "forms" /\ Forms!Hear(c) /\ OnlyForms

ServeOfTab(c) == part = "session" /\ Tab!Serve(c) /\ OnlySession
HearOfTab(c)  == part = "session" /\ Tab!Hear(c) /\ OnlySession
WakeOfTab     == part = "session" /\ Tab!Wake /\ OnlySession
FireOfCorner  == part = "notifications" /\ Corner!Fire /\ OnlyNotifications
TickOfCorner  == part = "notifications" /\ Corner!Tick /\ OnlyNotifications

FairClientSpec ==
    /\ ClientSpec
    /\ \A c \in NumberedCalls :
          WF_clientVars(ServeNumbered(c)) /\ WF_clientVars(HearNumbered(c))
    /\ \A c \in TabCalls : WF_clientVars(ServeOfTab(c)) /\ WF_clientVars(HearOfTab(c))
    /\ WF_clientVars(WakeOfTab) /\ WF_clientVars(FireOfCorner) /\ WF_clientVars(TickOfCorner)

\* Every variable of every part has its type.
ClientTypeOK ==
    Account!TypeOK /\ Home!TypeOK /\ Forms!TypeOK /\ Tab!TypeOK /\ Corner!TypeOK

\* What the pages of an admin show is of the account and the investors that they
\* are about, and has what the admin was told of.
PagesShowTheirOwn ==
    /\ Account!PageFollowsUrl
    /\ Account!ShowsOwnChanges
    /\ Home!ShownFlagsHappened
    /\ Home!ListAgrees

\* What is filled in or clicked once is carried out once, whatever answers are late
\* or lost, and no entries are lost.
FormsActOnce ==
    /\ Account!OneChangePerFill
    /\ Home!OneChangeAtATime
    /\ Forms!OncePerFill
    /\ Forms!OneInvestorPerFill
    /\ Forms!ClearedWasDone

\* A tab shows the area and the data of its session, and a reload goes on with it.
TabIsSessions == Tab!TabIsSessions

\* A message has a number and a timer of its own, and stays for its time at most.
MessagesAreTimed == Corner!MessagesAreTimed

\* No spinner turns for ever, in any part.
AllSpinning == \/ part = "requests" /\ Spinning
               \/ Account!Spinning \/ Home!Spinning \/ Forms!Spinning \/ Tab!Spinning
AllSpinnersGo == AllSpinning ~> ~AllSpinning

\* Session: after Sign Out the private area goes.
SignedOutLeaves == Tab!SignedOutLeaves

\* Notifications: the screen becomes empty again and again.
ScreenClears == Corner!ScreenClears

=============================================================================
