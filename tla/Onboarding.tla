----------------------------- MODULE Onboarding -----------------------------
(***************************************************************************)
(* How families and their members come into the database: the mutations    *)
(* signUp, inviteAdmin, redeemInvitation, createUser, archiveUser,         *)
(* unarchiveUser and confirmEmail of the API server.                       *)
(*                                                                         *)
(* As in Ledger, requests are served by workers with a connection each and *)
(* without database transactions: pc[w] is the statement a request runs    *)
(* next, every statement commits by itself, and any `?' may return early   *)
(* (Fail) and leave what was committed.  Rows are never deleted: the id of *)
(* a row is its place in the table's sequence, and so are the tokens,      *)
(* which are fresh UUIDs: an invitation's token is its id, a confirmation  *)
(* token is the id of its user.                                            *)
(*                                                                         *)
(* A definition that no action or property uses (AfterInsertUserNoAccount, *)
(* ...) is a faulty variant of the one that follows it, against which      *)
(* PROJECT.json tests the properties.                                      *)
(***************************************************************************)
EXTENDS Naturals, Sequences, FiniteSets

CONSTANTS
    Workers,         \* the request workers
    Usernames,       \* what may be typed as a username
    ValidUsernames,  \* those of at least five allowed characters
    Emails,          \* valid email addresses (others are refused at once, like bad names)
    None,            \* no email, or no username
    Kinds,           \* the mutations that are called
    MaxCalls         \* bound on the number of calls

ASSUME OnboardingAssumption ==
    /\ ValidUsernames \subseteq Usernames
    /\ None \notin Emails \cup Usernames
    /\ Kinds \subseteq {"signUp", "invite", "redeem", "createUser", "archive",
                        "unarchive", "confirm"}
    /\ MaxCalls \in Nat

VARIABLES
    clients,      \* the number of rows of `clients', the families
    users,        \* the table `users'
    accounts,     \* the table `accounts': the ids of the holders
    invitations,  \* the table `invitations'
    mailed,       \* the tokens announced on the mail topic
    called,       \* the number of calls so far
    pc,           \* pc[w]: the statement worker w runs next
    call,         \* call[w]: the call w serves, or served last
    family,       \* family[w]: the client of the user it is to insert
    made,         \* made[w]: the id of the user or invitation it inserted, or 0
    answer,       \* answer[w]: its answer
    origin        \* history: origin[u], the call that made user u

tables == <<clients, users, accounts, invitations, mailed, origin>>
vars == <<clients, users, accounts, invitations, mailed, called, pc, call,
          family, made, answer, origin>>

-----------------------------------------------------------------------------

User == [client : Nat, role : {"Admin", "Investor"}, username : Usernames,
         email : Emails \cup {None}, hasToken : BOOLEAN, confirmed : BOOLEAN,
         archived : BOOLEAN]

Invitation == [inviter : Nat, email : Emails, role : {"Admin"}, used : BOOLEAN]

Call == [kind : {"none", "signUp", "invite", "redeem", "createUser", "archive",
                 "unarchive", "confirm"},
         me : Nat, username : Usernames \cup {None}, email : Emails \cup {None},
         token : Nat]

Token == [kind : {"confirm", "invite"}, id : Nat, to : Emails]

Steps == {"idle", "checkEmail", "insertClient", "insertUser", "insertAccount",
          "useInvitation", "mailConfirm", "insertInvitation", "mailInvite",
          "findInvitation"}

UserIds == 1..Len(users)
IsAdmin(u) == users[u].role = "Admin"
SameFamily(u, v) == users[u].client = users[v].client

\* The unique indexes on users; an email of NULL equals no other.
UsernameFree(name) == \A u \in UserIds : users[u].username # name
EmailFreeAlways(email) == TRUE
EmailFree(email) == email = None \/ \A u \in UserIds : users[u].email # email

HasAccount(u) == \E i \in 1..Len(accounts) : accounts[i] = u

-----------------------------------------------------------------------------

NoCall == [kind |-> "none", me |-> 0, username |-> None, email |-> None, token |-> 0]

Init ==
    /\ clients = 0
    /\ users = <<>>
    /\ accounts = <<>>
    /\ invitations = <<>>
    /\ mailed = {}
    /\ called = 0
    /\ pc = [w \in Workers |-> "idle"]
    /\ call = [w \in Workers |-> NoCall]
    /\ family = [w \in Workers |-> 0]
    /\ made = [w \in Workers |-> 0]
    /\ answer = [w \in Workers |-> "none"]
    /\ origin = <<>>

Goto(w, step) == pc' = [pc EXCEPT ![w] = step]

\* The request ends with an answer.
Finish(w, result) ==
    /\ Goto(w, "idle")
    /\ answer' = [answer EXCEPT ![w] = result]
    /\ family' = [family EXCEPT ![w] = 0]

\* A call arrives at an idle worker.
Arrive(w, c) ==
    /\ pc[w] = "idle"
    /\ called < MaxCalls
    /\ c.kind \in Kinds
    /\ called' = called + 1
    /\ call' = [call EXCEPT ![w] = c]
    /\ made' = [made EXCEPT ![w] = 0]

\* It goes on to its first statement as a request for family f, or is refused.
Begin(w, c, allowed, step, f) ==
    /\ Arrive(w, c)
    /\ IF allowed
       THEN /\ Goto(w, step)
            /\ family' = [family EXCEPT ![w] = f]
            /\ answer' = [answer EXCEPT ![w] = "none"]
       ELSE Finish(w, "refused")
    /\ UNCHANGED tables

-----------------------------------------------------------------------------
\* The mutations.  Those of the app read the row of the caller first; its role
\* and family never change.

\* sign_ups/create.rs validates the username and the email.
SignUp(w, name, email) ==
    Begin(w, [NoCall EXCEPT !.kind = "signUp", !.username = name, !.email = email],
          name \in ValidUsernames, "checkEmail", 0)

\* "Already taken".
CheckEmail(w) ==
    /\ pc[w] = "checkEmail"
    /\ IF EmailFree(call[w].email)
       THEN Goto(w, "insertClient") /\ UNCHANGED <<answer, family>>
       ELSE Finish(w, "refused")
    /\ UNCHANGED <<tables, called, call, made>>

InsertClient(w) ==
    /\ pc[w] = "insertClient"
    /\ clients' = clients + 1
    /\ family' = [family EXCEPT ![w] = clients + 1]
    /\ Goto(w, "insertUser")
    /\ UNCHANGED <<users, accounts, invitations, mailed, origin, called, call, made,
                   answer>>

\* Only an admin may invite; the invitation is for the role Admin.
InviteAdmin(w, me, email) ==
    Begin(w, [NoCall EXCEPT !.kind = "invite", !.me = me, !.email = email],
          IsAdmin(me), "insertInvitation", 0)

InsertInvitation(w) ==
    /\ pc[w] = "insertInvitation"
    /\ invitations' = Append(invitations,
                             [inviter |-> call[w].me, email |-> call[w].email,
                              role |-> "Admin", used |-> FALSE])
    /\ made' = [made EXCEPT ![w] = Len(invitations) + 1]
    /\ Goto(w, "mailInvite")
    /\ UNCHANGED <<clients, users, accounts, mailed, origin, called, call, family,
                   answer>>

\* Whoever redeems has the token from the mail.
RedeemInvitation(w, t, name) ==
    Begin(w, [NoCall EXCEPT !.kind = "redeem", !.token = t, !.username = name],
          TRUE, "findInvitation", 0)

\* Finds the invitation, used or not, and the inviter; the username is not
\* validated here.
FindInvitation(w) ==
    LET t == call[w].token
    IN  /\ pc[w] = "findInvitation"
        /\ IF t \in 1..Len(invitations)
           THEN /\ family' = [family EXCEPT ![w] = users[invitations[t].inviter].client]
                /\ Goto(w, "insertUser")
                /\ UNCHANGED answer
           ELSE Finish(w, "refused")
        /\ UNCHANGED <<tables, called, call, made>>

UseInvitation(w) ==
    /\ pc[w] = "useInvitation"
    /\ invitations' = [invitations EXCEPT ![call[w].token].used = TRUE]
    /\ \E result \in {"ok", "failed"} : Finish(w, result)
    /\ UNCHANGED <<clients, users, accounts, mailed, origin, called, call, made>>

\* Only an admin may create an investor, in the admin's own family.
CreateUser(w, me, name) ==
    Begin(w, [NoCall EXCEPT !.kind = "createUser", !.me = me, !.username = name],
          IsAdmin(me) /\ name \in ValidUsernames, "insertUser", users[me].client)

NewUserInLastClient(w) ==
    LET c == call[w]
    IN  [client    |-> clients,
         role      |-> IF c.kind = "signUp" THEN "Admin" ELSE "Investor",
         username  |-> c.username,
         email     |-> IF c.kind = "redeem" THEN invitations[c.token].email ELSE c.email,
         hasToken  |-> c.kind = "signUp",
         confirmed |-> c.kind = "redeem",
         archived  |-> FALSE]
\* The row of `users' that a sign-up, a redemption or createUser inserts.
NewUser(w) ==
    LET c == call[w]
    IN  [client    |-> family[w],
         role      |-> IF c.kind = "signUp" THEN "Admin" ELSE "Investor",
         username  |-> c.username,
         email     |-> IF c.kind = "redeem" THEN invitations[c.token].email ELSE c.email,
         hasToken  |-> c.kind = "signUp",
         confirmed |-> c.kind = "redeem",
         archived  |-> FALSE]

AfterInsertUserNoAccount(w) ==
    CASE call[w].kind = "signUp" -> "mailConfirm"
      [] call[w].kind = "redeem" -> "useInvitation"
      [] OTHER -> "insertAccount"
AfterInsertUserAlwaysAccount(w) == "insertAccount"
AfterInsertUserAlwaysMail(w) == "mailConfirm"

AfterInsertUser(w) ==
    IF call[w].kind = "signUp" THEN "mailConfirm" ELSE "insertAccount"

InsertUser(w) ==
    /\ pc[w] = "insertUser"
    /\ \/ /\ UsernameFree(NewUser(w).username) /\ EmailFree(NewUser(w).email)
          /\ users' = Append(users, NewUser(w))
          /\ origin' = Append(origin, call[w])
          /\ made' = [made EXCEPT ![w] = Len(users) + 1]
          /\ Goto(w, AfterInsertUser(w))
          /\ UNCHANGED <<answer, family>>
       \/ /\ ~(UsernameFree(NewUser(w).username) /\ EmailFree(NewUser(w).email))
          /\ Finish(w, "refused")
          /\ UNCHANGED <<users, origin, made>>
    /\ UNCHANGED <<clients, accounts, invitations, mailed, called, call>>

InsertAccount(w) ==
    /\ pc[w] = "insertAccount"
    /\ accounts' = Append(accounts, made[w])
    /\ IF call[w].kind = "redeem"
       THEN Goto(w, "useInvitation") /\ UNCHANGED <<answer, family>>
       ELSE Finish(w, "ok")
    /\ UNCHANGED <<clients, users, invitations, mailed, origin, called, call, made>>

AccountErrorDroppedAlways(w) == pc[w] = "insertAccount"

\* createUser drops the error of creating the account.
AccountErrorDropped(w) == pc[w] = "insertAccount" /\ call[w].kind = "createUser"

InsertAccountFails(w) ==
    /\ AccountErrorDropped(w)
    /\ Finish(w, "ok")
    /\ UNCHANGED <<tables, called, call, made>>

MailRolledBack(w) ==
    /\ pc[w] = "mailInvite"
    /\ mailed' = mailed \cup {[kind |-> "invite", id |-> made[w], to |-> call[w].email]}
    /\ \E result \in {"ok", "failed"} :
          /\ Finish(w, result)
          /\ invitations' = IF result = "failed" /\ made[w] = Len(invitations)
                            THEN SubSeq(invitations, 1, made[w] - 1) ELSE invitations
    /\ UNCHANGED <<clients, users, accounts, origin, called, call, made>>

\* The mail is published.  A publish may be reported as failed although the topic
\* took the message; one that is not even taken is Fail.
Mail(w) ==
    /\ pc[w] \in {"mailConfirm", "mailInvite"}
    /\ LET kind == IF pc[w] = "mailConfirm" THEN "confirm" ELSE "invite"
       IN  mailed' = mailed \cup {[kind |-> kind, id |-> made[w], to |-> call[w].email]}
    /\ \E result \in {"ok", "failed"} : Finish(w, result)
    /\ UNCHANGED <<clients, users, accounts, invitations, origin, called, call, made>>

\* archive.rs and unarchive.rs: one statement after the authorisation, which
\* looks at the role of the caller and at the two families.
SetArchived(w, me, u, archived) ==
    /\ Arrive(w, [NoCall EXCEPT !.kind = IF archived THEN "archive" ELSE "unarchive",
                                !.me = me, !.token = u])
    /\ IF IsAdmin(me) /\ u \in UserIds /\ SameFamily(me, u)
       THEN \/ /\ users' = [users EXCEPT ![u].archived = archived]
               /\ Finish(w, "ok")
            \/ Finish(w, "failed") /\ UNCHANGED users
       ELSE Finish(w, "refused") /\ UNCHANGED users
    /\ UNCHANGED <<clients, accounts, invitations, mailed, origin>>

ConfirmedEveryone(t) == [u \in UserIds |-> [users[u] EXCEPT !.confirmed = TRUE]]

\* The user whose row holds the token is confirmed, again if need be.
Confirmed(t) == [users EXCEPT ![t].confirmed = TRUE]

ConfirmEmail(w, t) ==
    /\ Arrive(w, [NoCall EXCEPT !.kind = "confirm", !.token = t])
    /\ IF t \in UserIds /\ users[t].hasToken
       THEN \/ users' = Confirmed(t) /\ Finish(w, "ok")
            \/ Finish(w, "failed") /\ UNCHANGED users
       ELSE Finish(w, "failed") /\ UNCHANGED users
    /\ UNCHANGED <<clients, accounts, invitations, mailed, origin>>

\* A statement fails, or the process dies: what was committed stays.
Fail(w) ==
    /\ pc[w] # "idle"
    /\ Finish(w, "failed")
    /\ UNCHANGED <<tables, called, call, made>>

\* The bound on calls is used up and no request is in progress.
Quiescent ==
    /\ called = MaxCalls
    /\ \A w \in Workers : pc[w] = "idle"
    /\ UNCHANGED vars

-----------------------------------------------------------------------------

Serve(w) ==
    \/ CheckEmail(w) \/ InsertClient(w) \/ InsertInvitation(w) \/ FindInvitation(w)
    \/ UseInvitation(w) \/ InsertUser(w) \/ InsertAccount(w) \/ InsertAccountFails(w)
    \/ Mail(w) \/ Fail(w)

\* A call carries a token that was mailed, or 0 for one that no row holds.
Tokens(kind) == {0} \cup {m.id : m \in {k \in mailed : k.kind = kind}}

Receive(w) ==
    \/ \E name \in Usernames, email \in Emails : SignUp(w, name, email)
    \/ \E name \in Usernames, t \in Tokens("invite") : RedeemInvitation(w, t, name)
    \/ \E t \in Tokens("confirm") : ConfirmEmail(w, t)
    \/ \E me \in UserIds :
          \/ \E email \in Emails : InviteAdmin(w, me, email)
          \/ \E name \in Usernames : CreateUser(w, me, name)
          \/ \E u \in {0} \cup UserIds, archived \in BOOLEAN : SetArchived(w, me, u, archived)

Next ==
    \/ \E w \in Workers : Receive(w) \/ Serve(w)
    \/ Quiescent

Spec == Init /\ [][Next]_vars

-----------------------------------------------------------------------------
(***************************************************************************)
(* Properties.                                                             *)
(***************************************************************************)

\* Every variable has its type.
TypeOK ==
    /\ clients \in Nat
    /\ users \in Seq(User)
    /\ accounts \in Seq(Nat \ {0})
    /\ invitations \in Seq(Invitation)
    /\ mailed \subseteq Token
    /\ called \in 0..MaxCalls
    /\ pc \in [Workers -> Steps]
    /\ call \in [Workers -> Call]
    /\ family \in [Workers -> Nat]
    /\ made \in [Workers -> Nat]
    /\ answer \in [Workers -> {"none", "ok", "refused", "failed"}]
    /\ origin \in Seq(Call)

\* A member of a family came through an admin of that family, and a founder was
\* its first member, whatever sign-ups, redemptions and createUser calls run at
\* the same time (the client of a new row is read or inserted some statements
\* before the row).
FamiliesNeverMix ==
    \A u \in UserIds :
        LET c == origin[u]
        IN  CASE c.kind = "signUp"     -> \A v \in 1..(u - 1) : ~SameFamily(u, v)
              [] c.kind = "redeem"     -> SameFamily(u, invitations[c.token].inviter)
              [] c.kind = "createUser" -> SameFamily(u, c.me)

\* A token that was mailed is in the database, for the address it was mailed to,
\* even if its request was answered with a failure: the link in the mail works.
MailedTokensExist ==
    \A m \in mailed :
        IF m.kind = "invite"
        THEN m.id \in 1..Len(invitations) /\ invitations[m.id].email = m.to
        ELSE m.id \in UserIds /\ users[m.id].email = m.to /\ users[m.id].hasToken

\* However often an invitation is redeemed, one user comes of it: redeem.rs never
\* looks at used_at, only the unique index on the email decides.
InvitationRedeemedOnce ==
    \A u, v \in UserIds :
        /\ origin[u].kind = "redeem" /\ origin[v].kind = "redeem"
        /\ origin[u].token = origin[v].token
        => u = v

\* An invitation is marked as used only when its user is there, in the inviter's
\* family and with an account (the order of the statements in redeem.rs).
UsedInvitationsComplete ==
    \A t \in 1..Len(invitations) :
        invitations[t].used =>
            \E u \in UserIds : /\ users[u].email = invitations[t].email
                               /\ SameFamily(u, invitations[t].inviter)
                               /\ HasAccount(u)

\* An email counts as confirmed only if something was mailed to it: the
\* confirmation link of a sign-up, or the invitation.
ConfirmedWereMailed ==
    \A u \in UserIds :
        users[u].confirmed => \E m \in mailed : m.to = users[u].email

\* Both: a mailed link stands for a row, and who confirmed an address was mailed.
MailedLinksHold == MailedTokensExist /\ ConfirmedWereMailed

\* Every account is an investor's, and nobody has two, also when statements fail
\* and calls are repeated.
OneAccountPerInvestor ==
    \A i \in 1..Len(accounts) :
        /\ accounts[i] \in UserIds /\ ~IsAdmin(accounts[i])
        /\ \A j \in 1..Len(accounts) : accounts[i] = accounts[j] => i = j

\* Both: whoever redeemed an invitation has an account, and no investor has two.
AccountsFit == UsedInvitationsComplete /\ OneAccountPerInvestor

\* What a successful answer stands for: a signed-up user's link was mailed, an
\* invitation was stored and mailed, a redeemed invitation is used and its user
\* has an account, a created user is there, an email is confirmed, and an archived
\* or unarchived user is of the family of the admin who called.  (createUser does
\* not promise the account; another call may have set the archived flag back.)
AnswersMatchRows ==
    \A w \in Workers : answer[w] = "ok" =>
        LET c == call[w]
        IN  CASE c.kind = "signUp" ->
                   [kind |-> "confirm", id |-> made[w], to |-> c.email] \in mailed
              [] c.kind = "invite" ->
                   [kind |-> "invite", id |-> made[w], to |-> c.email] \in mailed
              [] c.kind = "redeem" ->
                   HasAccount(made[w]) /\ invitations[c.token].used
              [] c.kind = "createUser" -> users[made[w]].username = c.username
              [] c.kind = "confirm" -> c.token \in UserIds /\ users[c.token].confirmed
              [] c.kind \in {"archive", "unarchive"} ->
                   /\ {c.me, c.token} \subseteq UserIds
                   /\ IsAdmin(c.me) /\ SameFamily(c.me, c.token)
              [] OTHER -> TRUE

\* The invitation form says "You can invite another parent to manage these accounts
\* with you" (client/src/Admin/Pages/InviteAdmin.elm:182): who redeems such an
\* invitation is an admin of the family.
InviteesManage ==
    \A u \in UserIds :
        origin[u].kind = "redeem" => users[u].role = invitations[origin[u].token].role

=============================================================================
