-------------------------- MODULE OnboardingProofs --------------------------
(***************************************************************************)
(* Proofs about Onboarding, for any number of workers and calls, any names *)
(* and addresses: the types and every safety property.                     *)
(*                                                                         *)
(* A row keeps what it was inserted with (Keeps), so that what a request   *)
(* has read stays true until it writes.  Two facts are not of that kind:   *)
(* the client a sign-up has inserted is its own until the user is there    *)
(* (FamilyFresh), and so is the user that has no account yet (NoAccountYet).*)
(***************************************************************************)
EXTENDS Onboarding, TLAPS

InvitationIds == 1..Len(invitations)

Mailed(kind, id) == \E m \in mailed : m.kind = kind /\ m.id = id

\* A row of `users' is the one its call asked for.
RowFits(u) ==
    LET c == origin[u]
    IN  /\ c.kind \in {"signUp", "redeem", "createUser"}
        /\ IsAdmin(u) <=> c.kind = "signUp"
        /\ users[u].hasToken <=> c.kind = "signUp"
        /\ users[u].username = c.username
        /\ users[u].client <= clients
        /\ c.kind = "redeem" =>
              /\ c.token \in InvitationIds
              /\ users[u].email = invitations[c.token].email
              /\ \E m \in mailed : m.to = users[u].email
        /\ c.kind # "redeem" => users[u].email = c.email
        /\ c.kind = "createUser" => c.me \in UserIds

RowsFit ==
    /\ Len(origin) = Len(users)
    /\ \A u \in UserIds : RowFits(u)
    /\ \A t \in InvitationIds : invitations[t].inviter \in UserIds
    /\ \A u, v \in UserIds :
          users[u].email = users[v].email /\ users[u].email # None => u = v

\* What a request carries.
CallFits(w) ==
    LET c == call[w]
    IN  /\ c.kind \in {"signUp", "redeem", "createUser"} => c.username \in Usernames
        /\ c.kind \in {"signUp", "invite"} => c.email \in Emails
        /\ c.kind \in {"invite", "createUser"} => c.me \in UserIds
        /\ c.kind = "redeem" => c.token = 0 \/ Mailed("invite", c.token)

\* The statements a mutation runs.
StepFits(w) ==
    LET kind == call[w].kind
    IN  /\ pc[w] \in {"checkEmail", "insertClient", "mailConfirm"} => kind = "signUp"
        /\ pc[w] \in {"insertInvitation", "mailInvite"} => kind = "invite"
        /\ pc[w] \in {"findInvitation", "useInvitation"} => kind = "redeem"
        /\ pc[w] = "insertAccount" => kind \in {"redeem", "createUser"}
        /\ pc[w] = "insertUser" => kind \in {"signUp", "redeem", "createUser"}
        /\ pc[w] # "idle" => answer[w] = "none"

\* The family a request has read, or inserted, for its user.
FamilyFits(w) ==
    LET c == call[w]
    IN  pc[w] = "insertUser" =>
            /\ family[w] <= clients
            /\ c.kind = "redeem" =>
                  /\ c.token \in InvitationIds
                  /\ Mailed("invite", c.token)
                  /\ family[w] = users[invitations[c.token].inviter].client
            /\ c.kind = "createUser" => family[w] = users[c.me].client

\* The row a request has inserted.
MadeFits(w) ==
    /\ \/ pc[w] \in {"insertAccount", "useInvitation", "mailConfirm"}
       \/ answer[w] = "ok" /\ call[w].kind \in {"redeem", "createUser"}
       => made[w] \in UserIds /\ origin[made[w]] = call[w]
    /\ pc[w] = "mailInvite" =>
          /\ made[w] \in InvitationIds
          /\ invitations[made[w]].email = call[w].email
    /\ pc[w] = "useInvitation" => HasAccount(made[w])

WorkersFit ==
    \A w \in Workers : CallFits(w) /\ StepFits(w) /\ FamilyFits(w) /\ MadeFits(w)

\* A sign-up that has inserted its client and not yet its user.
Founding(w) == pc[w] = "insertUser" /\ call[w].kind = "signUp"

\* Its client is its own.
FamilyFresh ==
    \A w \in Workers : Founding(w) =>
        /\ \A u \in UserIds : users[u].client # family[w]
        /\ \A v \in Workers : Founding(v) /\ family[v] = family[w] => v = w

\* A user whose account is to be inserted has none, and one request inserts it.
NoAccountYet ==
    \A w \in Workers : pc[w] = "insertAccount" =>
        /\ ~HasAccount(made[w])
        /\ \A v \in Workers : pc[v] = "insertAccount" /\ made[v] = made[w] => v = w

Safe ==
    /\ FamiliesNeverMix
    /\ MailedLinksHold
    /\ AccountsFit
    /\ AnswersMatchRows

Sound == TypeOK /\ RowsFit /\ WorkersFit /\ FamilyFresh /\ NoAccountYet /\ Safe

-----------------------------------------------------------------------------
(* Init *)

LEMMA InitSound ==
    ASSUME Init
    PROVE  Sound
<1> USE DEF Init
<1>1. TypeOK
  <2>1. NoCall \in Call
    BY OnboardingAssumption DEF NoCall, Call
  <2> QED BY <2>1, OnboardingAssumption DEF TypeOK, Steps
<1>2. RowsFit
  BY DEF RowsFit, UserIds, InvitationIds
<1>3. WorkersFit
  BY DEF WorkersFit, CallFits, StepFits, FamilyFits, MadeFits, NoCall
<1>4. FamilyFresh /\ NoAccountYet
  BY DEF FamilyFresh, Founding, NoAccountYet
<1>5. Safe
  BY DEF Safe, FamiliesNeverMix, MailedLinksHold, MailedTokensExist, ConfirmedWereMailed,
         AccountsFit, UsedInvitationsComplete, OneAccountPerInvestor, AnswersMatchRows, UserIds
<1> QED BY <1>1, <1>2, <1>3, <1>4, <1>5 DEF Sound

-----------------------------------------------------------------------------
(* Types *)

\* What the types say of a row, a call and a mail.
LEMMA Fields ==
    ASSUME TypeOK
    PROVE  /\ \A u \in UserIds :
                 /\ users[u] \in User
                 /\ users[u].client \in Nat
                 /\ users[u].role \in {"Admin", "Investor"}
                 /\ users[u].username \in Usernames
                 /\ users[u].email \in Emails \cup {None}
                 /\ users[u].hasToken \in BOOLEAN
                 /\ users[u].confirmed \in BOOLEAN
                 /\ users[u].archived \in BOOLEAN
           /\ \A t \in InvitationIds :
                 /\ invitations[t] \in Invitation
                 /\ invitations[t].inviter \in Nat
                 /\ invitations[t].email \in Emails
                 /\ invitations[t].used \in BOOLEAN
           /\ \A m \in mailed : m.id \in Nat /\ m.to \in Emails /\ m.kind \in {"confirm", "invite"}
           /\ \A w \in Workers :
                 /\ call[w] \in Call
                 /\ call[w].me \in Nat
                 /\ call[w].token \in Nat
                 /\ call[w].username \in Usernames \cup {None}
                 /\ call[w].email \in Emails \cup {None}
                 /\ family[w] \in Nat
                 /\ made[w] \in Nat
<1>1. /\ \A u \in UserIds : users[u] \in User
      /\ \A t \in InvitationIds : invitations[t] \in Invitation
      /\ \A m \in mailed : m \in Token
      /\ \A w \in Workers : call[w] \in Call /\ family[w] \in Nat /\ made[w] \in Nat
  BY DEF TypeOK, UserIds, InvitationIds
<1>2. ASSUME NEW x \in User
      PROVE  /\ x.client \in Nat /\ x.role \in {"Admin", "Investor"} /\ x.username \in Usernames
             /\ x.email \in Emails \cup {None} /\ x.hasToken \in BOOLEAN
             /\ x.confirmed \in BOOLEAN /\ x.archived \in BOOLEAN
  BY DEF User
<1>3. ASSUME NEW x \in Invitation
      PROVE  x.inviter \in Nat /\ x.email \in Emails /\ x.used \in BOOLEAN
  BY DEF Invitation
<1>4. ASSUME NEW x \in Token
      PROVE  x.id \in Nat /\ x.to \in Emails /\ x.kind \in {"confirm", "invite"}
  BY DEF Token
<1>5. ASSUME NEW x \in Call
      PROVE  /\ x.me \in Nat /\ x.token \in Nat
             /\ x.username \in Usernames \cup {None} /\ x.email \in Emails \cup {None}
  BY DEF Call
<1> QED BY <1>1, <1>2, <1>3, <1>4, <1>5

Answers == {"none", "ok", "refused", "failed"}

TablesTyped ==
    /\ clients \in Nat
    /\ users \in Seq(User)
    /\ accounts \in Seq(Nat \ {0})
    /\ invitations \in Seq(Invitation)
    /\ mailed \subseteq Token
    /\ origin \in Seq(Call)

LEMMA TablesTypes ==
    ASSUME TypeOK, UNCHANGED tables
    PROVE  TablesTyped'
BY DEF TypeOK, tables, TablesTyped

LEMMA GotoTypes ==
    ASSUME TypeOK, NEW w \in Workers, NEW step \in Steps, Goto(w, step)
    PROVE  pc' \in [Workers -> Steps]
BY DEF TypeOK, Goto

LEMMA FinishTypes ==
    ASSUME TypeOK, NEW w \in Workers, NEW result \in Answers, Finish(w, result)
    PROVE  /\ pc' \in [Workers -> Steps]
           /\ answer' \in [Workers -> Answers]
           /\ family' \in [Workers -> Nat]
<1>1. "idle" \in Steps
  BY DEF Steps
<1> QED BY <1>1, GotoTypes DEF TypeOK, Finish, Answers

LEMMA ArriveTypes ==
    ASSUME TypeOK, NEW w \in Workers, NEW c \in Call, Arrive(w, c)
    PROVE  /\ called' \in 0..MaxCalls
           /\ call' \in [Workers -> Call]
           /\ made' \in [Workers -> Nat]
BY OnboardingAssumption DEF TypeOK, Arrive

LEMMA TypesTogether ==
    TypeOK <=> /\ TablesTyped
               /\ called \in 0..MaxCalls
               /\ pc \in [Workers -> Steps]
               /\ call \in [Workers -> Call]
               /\ family \in [Workers -> Nat]
               /\ made \in [Workers -> Nat]
               /\ answer \in [Workers -> Answers]
BY DEF TypeOK, TablesTyped, Answers

LEMMA TypesAfter ==
    ASSUME TablesTyped', called' \in 0..MaxCalls, pc' \in [Workers -> Steps],
           call' \in [Workers -> Call], family' \in [Workers -> Nat],
           made' \in [Workers -> Nat], answer' \in [Workers -> Answers]
    PROVE  TypeOK'
BY DEF TypeOK, TablesTyped, Answers

\* A request for the first statement of a mutation keeps the types.
LEMMA BeginTypes ==
    ASSUME TypeOK, NEW w \in Workers, NEW c \in Call, NEW allowed \in BOOLEAN, NEW step \in Steps,
           NEW f \in Nat, Begin(w, c, allowed, step, f)
    PROVE  TypeOK'
<1>1. TablesTyped' /\ Arrive(w, c)
  BY TablesTypes DEF Begin
<1>2. CASE allowed
  <2>1. /\ pc' \in [Workers -> Steps]
        /\ answer' \in [Workers -> Answers]
        /\ family' \in [Workers -> Nat]
    BY <1>2, GotoTypes, TypesTogether DEF Begin, Answers
  <2> QED BY <1>1, <2>1, ArriveTypes, TypesTogether, TypesAfter
<1>3. CASE ~allowed
  <2>1. Finish(w, "refused") /\ "refused" \in Answers
    BY <1>3 DEF Begin, Answers
  <2> QED BY <1>1, <2>1, FinishTypes, ArriveTypes, TypesTogether, TypesAfter
<1> QED BY <1>2, <1>3

LEMMA RowsUpdated ==
    ASSUME TypeOK, NEW u \in UserIds
    PROVE  /\ \A b \in BOOLEAN : [users EXCEPT ![u].archived = b] \in Seq(User)
           /\ [users EXCEPT ![u].confirmed = TRUE] \in Seq(User)
<1>1. users \in Seq(User) /\ users[u] \in User /\ u \in 1..Len(users)
  BY Fields DEF TypeOK, UserIds
<1>2. ASSUME NEW x \in User
      PROVE  [users EXCEPT ![u] = x] \in Seq(User)
  BY <1>1, <1>2
<1>3. ASSUME NEW x \in User
      PROVE  /\ \A b \in BOOLEAN : [x EXCEPT !.archived = b] \in User
             /\ [x EXCEPT !.confirmed = TRUE] \in User
  BY <1>3 DEF User
<1> QED BY <1>1, <1>2, <1>3

LEMMA InvitationUpdated ==
    ASSUME TypeOK, NEW t \in InvitationIds
    PROVE  [invitations EXCEPT ![t].used = TRUE] \in Seq(Invitation)
<1>1. invitations \in Seq(Invitation) /\ invitations[t] \in Invitation /\ t \in 1..Len(invitations)
  BY Fields DEF TypeOK, InvitationIds
<1>2. ASSUME NEW x \in Invitation
      PROVE  [invitations EXCEPT ![t] = x] \in Seq(Invitation)
  BY <1>1, <1>2
<1>3. ASSUME NEW x \in Invitation
      PROVE  [x EXCEPT !.used = TRUE] \in Invitation
  BY <1>3 DEF Invitation
<1> QED BY <1>1, <1>2, <1>3

LEMMA ReceiveTypes ==
    ASSUME Sound, NEW w \in Workers, Receive(w)
    PROVE  TypeOK'
<1>0. TypeOK /\ \A u \in UserIds : u \in Nat /\ u # 0
  BY DEF Sound, UserIds
<1>00. \A kind : Tokens(kind) \subseteq Nat
  BY <1>0, Fields DEF Tokens
<1>1. ASSUME NEW name \in Usernames, NEW email \in Emails, SignUp(w, name, email)
      PROVE  TypeOK'
  <2>1. [NoCall EXCEPT !.kind = "signUp", !.username = name, !.email = email] \in Call
    BY DEF NoCall, Call
  <2>2. (name \in ValidUsernames) \in BOOLEAN /\ "checkEmail" \in Steps /\ 0 \in Nat
    BY DEF Steps
  <2> QED BY <1>0, <1>1, <2>1, <2>2, BeginTypes DEF SignUp
<1>2. ASSUME NEW name \in Usernames, NEW t \in Tokens("invite"), RedeemInvitation(w, t, name)
      PROVE  TypeOK'
  <2>1. t \in Nat
    BY <1>00
  <2>2. [NoCall EXCEPT !.kind = "redeem", !.token = t, !.username = name] \in Call
    BY <2>1 DEF NoCall, Call
  <2> QED BY <1>0, <1>2, <2>2, BeginTypes DEF RedeemInvitation, Steps
<1>3. ASSUME NEW t \in Tokens("confirm"), ConfirmEmail(w, t)
      PROVE  TypeOK'
  <2>1. t \in Nat
    BY <1>00
  <2>2. [NoCall EXCEPT !.kind = "confirm", !.token = t] \in Call
    BY <2>1 DEF NoCall, Call
  <2>3. t \in UserIds => Confirmed(t) \in Seq(User)
    BY <1>0, RowsUpdated DEF Confirmed
  <2>4. Arrive(w, [NoCall EXCEPT !.kind = "confirm", !.token = t])
    BY <1>3 DEF ConfirmEmail
  <2>5. \E result \in Answers : Finish(w, result)
    BY <1>3 DEF ConfirmEmail, Answers
  <2>6. TablesTyped'
    BY <1>0, <1>3, <2>3, TypesTogether DEF ConfirmEmail, TablesTyped
  <2> QED BY <1>0, <2>2, <2>4, <2>5, <2>6, ArriveTypes, FinishTypes, TypesTogether, TypesAfter
<1>4. ASSUME NEW me \in UserIds, NEW email \in Emails, InviteAdmin(w, me, email)
      PROVE  TypeOK'
  <2>1. [NoCall EXCEPT !.kind = "invite", !.me = me, !.email = email] \in Call
    BY <1>0 DEF NoCall, Call
  <2> QED BY <1>0, <1>4, <2>1, BeginTypes DEF InviteAdmin, IsAdmin, Steps
<1>5. ASSUME NEW me \in UserIds, NEW name \in Usernames, CreateUser(w, me, name)
      PROVE  TypeOK'
  <2>1. [NoCall EXCEPT !.kind = "createUser", !.me = me, !.username = name] \in Call
    BY <1>0 DEF NoCall, Call
  <2>2. users[me].client \in Nat
    BY <1>0, Fields
  <2> QED BY <1>0, <1>5, <2>1, <2>2, BeginTypes DEF CreateUser, IsAdmin, Steps
<1>6. ASSUME NEW me \in UserIds, NEW u \in {0} \cup UserIds, NEW archived \in BOOLEAN,
             SetArchived(w, me, u, archived)
      PROVE  TypeOK'
  <2> DEFINE c == [NoCall EXCEPT !.kind = IF archived THEN "archive" ELSE "unarchive",
                                 !.me = me, !.token = u]
  <2>1. c \in Call
    <3>1. me \in Nat /\ u \in Nat
      BY <1>0
    <3>2. PICK kind \in {"archive", "unarchive"} : kind = IF archived THEN "archive" ELSE "unarchive"
      OBVIOUS
    <3> QED BY <3>1, <3>2 DEF NoCall, Call
  <2>2. u \in UserIds => [users EXCEPT ![u].archived = archived] \in Seq(User)
    BY <1>0, RowsUpdated
  <2>4. Arrive(w, c)
    BY <1>6 DEF SetArchived
  <2>5. \E result \in Answers : Finish(w, result)
    BY <1>6 DEF SetArchived, Answers
  <2>6. TablesTyped'
    BY <1>0, <1>6, <2>2, TypesTogether DEF SetArchived, TablesTyped
  <2> HIDE DEF c
  <2> QED BY <1>0, <2>1, <2>4, <2>5, <2>6, ArriveTypes, FinishTypes, TypesTogether, TypesAfter
<1> QED BY <1>1, <1>2, <1>3, <1>4, <1>5, <1>6 DEF Receive

\* The row that is inserted is one of `users'.
LEMMA NewUserTypes ==
    ASSUME Sound, NEW w \in Workers, pc[w] = "insertUser"
    PROVE  NewUser(w) \in User
<1>1. /\ call[w] \in Call /\ family[w] \in Nat
      /\ call[w].kind \in {"signUp", "redeem", "createUser"}
      /\ call[w].username \in Usernames
  BY Fields DEF Sound, WorkersFit, StepFits, CallFits
<1>2. call[w].kind = "redeem" => invitations[call[w].token].email \in Emails
  BY Fields DEF Sound, WorkersFit, FamilyFits
<1> QED BY <1>1, <1>2 DEF NewUser, User, Call

LEMMA ServeTypes ==
    ASSUME Sound, NEW w \in Workers, Serve(w)
    PROVE  TypeOK'
<1>0. TypeOK
  BY DEF Sound
<1>01. Steps = {"idle", "checkEmail", "insertClient", "insertUser", "insertAccount", "useInvitation",
                "mailConfirm", "insertInvitation", "mailInvite", "findInvitation"}
  BY DEF Steps
<1>02. "refused" \in Answers /\ "failed" \in Answers /\ "ok" \in Answers
  BY DEF Answers
<1>1. CASE CheckEmail(w)
  <2>1. \/ Goto(w, "insertClient") /\ UNCHANGED <<answer, family>>
        \/ Finish(w, "refused")
    BY <1>1 DEF CheckEmail
  <2>2. UNCHANGED <<called, call, made>> /\ UNCHANGED tables
    BY <1>1 DEF CheckEmail
  <2> QED BY <1>0, <1>01, <1>02, <2>1, <2>2, GotoTypes, FinishTypes, TablesTypes, TypesTogether, TypesAfter
<1>2. CASE InsertClient(w)
  <2>1. Goto(w, "insertUser")
    BY <1>2 DEF InsertClient
  <2>2. TablesTyped' /\ family' \in [Workers -> Nat] /\ UNCHANGED <<called, call, made, answer>>
    BY <1>0, <1>2, TypesTogether DEF InsertClient, TablesTyped
  <2> QED BY <1>0, <1>01, <2>1, <2>2, GotoTypes, TypesTogether, TypesAfter
<1>3. CASE InsertInvitation(w)
  <2>0. call[w].me \in Nat /\ call[w].email \in Emails
    BY <1>0, <1>3, Fields DEF Sound, InsertInvitation, WorkersFit, StepFits, CallFits
  <2>1. [inviter |-> call[w].me, email |-> call[w].email, role |-> "Admin", used |-> FALSE] \in Invitation
    BY <2>0 DEF Invitation
  <2>2. Goto(w, "mailInvite")
    BY <1>3 DEF InsertInvitation
  <2>3. TablesTyped' /\ made' \in [Workers -> Nat] /\ UNCHANGED <<called, call, family, answer>>
    BY <1>0, <1>3, <2>1, TypesTogether DEF InsertInvitation, TablesTyped
  <2> QED BY <1>0, <1>01, <2>2, <2>3, GotoTypes, TypesTogether, TypesAfter
<1>4. CASE FindInvitation(w)
  <2>1. call[w].token \in InvitationIds => users[invitations[call[w].token].inviter].client \in Nat
    BY <1>0, Fields DEF Sound, RowsFit
  <2>2. \/ Goto(w, "insertUser") /\ UNCHANGED answer /\ family' \in [Workers -> Nat]
        \/ Finish(w, "refused")
    BY <1>0, <1>4, <2>1, TypesTogether DEF FindInvitation, InvitationIds
  <2>3. UNCHANGED <<called, call, made>> /\ UNCHANGED tables
    BY <1>4 DEF FindInvitation
  <2> QED BY <1>0, <1>01, <1>02, <2>2, <2>3, GotoTypes, FinishTypes, TablesTypes, TypesTogether, TypesAfter
<1>5. CASE UseInvitation(w)
  <2>1. call[w].token \in InvitationIds
    BY <1>0, <1>5 DEF Sound, UseInvitation, WorkersFit, StepFits, MadeFits, RowsFit, RowFits
  <2>2. [invitations EXCEPT ![call[w].token].used = TRUE] \in Seq(Invitation)
    BY <1>0, <2>1, InvitationUpdated
  <2>3. \E result \in Answers : Finish(w, result)
    BY <1>02, <1>5 DEF UseInvitation
  <2>4. TablesTyped' /\ UNCHANGED <<called, call, made>>
    BY <1>0, <1>5, <2>2, TypesTogether DEF UseInvitation, TablesTyped
  <2> QED BY <1>0, <2>3, <2>4, FinishTypes, TypesTogether, TypesAfter
<1>6. CASE InsertUser(w)
  <2>1. NewUser(w) \in User /\ call[w] \in Call
    BY <1>0, <1>6, Fields, NewUserTypes DEF InsertUser
  <2>2. AfterInsertUser(w) \in Steps
    BY <1>01 DEF AfterInsertUser
  <2>3. \/ Goto(w, AfterInsertUser(w)) /\ UNCHANGED <<answer, family>>
        \/ Finish(w, "refused")
    BY <1>6 DEF InsertUser
  <2>4. TablesTyped'
    <3>1. UNCHANGED <<clients, accounts, invitations, mailed>>
      BY <1>6 DEF InsertUser
    <3>2. \/ users' = Append(users, NewUser(w)) /\ origin' = Append(origin, call[w])
          \/ UNCHANGED <<users, origin>>
      BY <1>6 DEF InsertUser
    <3>3. users \in Seq(User) /\ origin \in Seq(Call)
      BY <1>0 DEF TypeOK
    <3>4. PICK row \in User : row = NewUser(w)
      BY <2>1
    <3>5. Append(users, row) \in Seq(User) /\ Append(origin, call[w]) \in Seq(Call)
      BY <2>1, <3>3
    <3>6. users' \in Seq(User) /\ origin' \in Seq(Call)
      BY <3>2, <3>3, <3>4, <3>5
    <3> QED BY <1>0, <3>1, <3>6, TypesTogether DEF TablesTyped
  <2>5. made' \in [Workers -> Nat] /\ UNCHANGED <<called, call>>
    <3>1. Len(users) + 1 \in Nat
      BY <1>0 DEF TypeOK
    <3> QED BY <1>0, <1>6, <3>1, TypesTogether DEF InsertUser
  <2> QED BY <1>0, <1>02, <2>2, <2>3, <2>4, <2>5, GotoTypes, FinishTypes, TypesTogether, TypesAfter
<1>7. CASE InsertAccount(w)
  <2>1. made[w] \in Nat \ {0}
    BY <1>0, <1>7 DEF Sound, InsertAccount, WorkersFit, MadeFits, UserIds
  <2>2. \/ Goto(w, "useInvitation") /\ UNCHANGED <<answer, family>>
        \/ Finish(w, "ok")
    BY <1>7 DEF InsertAccount
  <2>3. TablesTyped' /\ UNCHANGED <<called, call, made>>
    BY <1>0, <1>7, <2>1, TypesTogether DEF InsertAccount, TablesTyped
  <2> QED BY <1>0, <1>01, <1>02, <2>2, <2>3, GotoTypes, FinishTypes, TypesTogether, TypesAfter
<1>8. CASE InsertAccountFails(w)
  <2>1. Finish(w, "ok") /\ UNCHANGED tables /\ UNCHANGED <<called, call, made>>
    BY <1>8 DEF InsertAccountFails
  <2> QED BY <1>0, <1>02, <2>1, FinishTypes, TablesTypes, TypesTogether, TypesAfter
<1>9. CASE Mail(w)
  <2>1. call[w].email \in Emails /\ made[w] \in Nat
    BY <1>0, <1>9, Fields DEF Sound, Mail, WorkersFit, StepFits, CallFits
  <2>2. \E result \in Answers : Finish(w, result)
    BY <1>02, <1>9 DEF Mail
  <2>3. \A kind \in {"confirm", "invite"} : [kind |-> kind, id |-> made[w], to |-> call[w].email] \in Token
    BY <2>1 DEF Token
  <2>4. TablesTyped' /\ UNCHANGED <<called, call, made>>
    BY <1>0, <1>9, <2>3, TypesTogether DEF Mail, TablesTyped
  <2> QED BY <1>0, <2>2, <2>4, FinishTypes, TypesTogether, TypesAfter
<1>10. CASE Fail(w)
  <2>1. Finish(w, "failed") /\ UNCHANGED tables /\ UNCHANGED <<called, call, made>>
    BY <1>10 DEF Fail
  <2> QED BY <1>0, <1>02, <2>1, FinishTypes, TablesTypes, TypesTogether, TypesAfter
<1> QED BY <1>1, <1>2, <1>3, <1>4, <1>5, <1>6, <1>7, <1>8, <1>9, <1>10 DEF Serve

-----------------------------------------------------------------------------
(* What a step keeps *)

\* Rows stay, with all but their flags; an invitation that is used stays used.
Keeps ==
    /\ clients <= clients'
    /\ Len(users) <= Len(users')
    /\ \A u \in UserIds :
          /\ users'[u].client = users[u].client
          /\ users'[u].role = users[u].role
          /\ users'[u].username = users[u].username
          /\ users'[u].email = users[u].email
          /\ users'[u].hasToken = users[u].hasToken
          /\ users[u].confirmed => users'[u].confirmed
          /\ origin'[u] = origin[u]
    /\ Len(invitations) <= Len(invitations')
    /\ \A t \in InvitationIds :
          /\ invitations'[t].inviter = invitations[t].inviter
          /\ invitations'[t].email = invitations[t].email
          /\ invitations[t].used => invitations'[t].used
    /\ Len(accounts) <= Len(accounts')
    /\ \A i \in 1..Len(accounts) : accounts'[i] = accounts[i]
    /\ mailed \subseteq mailed'

\* The other workers do nothing.
Frame(w) ==
    \A v \in Workers \ {w} :
        /\ pc'[v] = pc[v]
        /\ call'[v] = call[v]
        /\ family'[v] = family[v]
        /\ made'[v] = made[v]
        /\ answer'[v] = answer[v]

LEMMA StillKeeps ==
    ASSUME TypeOK, UNCHANGED tables
    PROVE  Keeps
BY DEF TypeOK, tables, Keeps, UserIds, InvitationIds

\* A flag of a user is set.
LEMMA FlagKeeps ==
    ASSUME TypeOK, UNCHANGED <<clients, accounts, invitations, mailed, origin>>,
           NEW u \in UserIds, NEW b \in BOOLEAN,
           \/ users' = [users EXCEPT ![u].archived = b]
           \/ users' = [users EXCEPT ![u].confirmed = TRUE]
    PROVE  /\ Keeps
           /\ Len(users') = Len(users)
<1>1. PICK x \in User : x = users[u]
  BY Fields
<1>2. \A z : z = [x EXCEPT !.archived = b] \/ z = [x EXCEPT !.confirmed = TRUE] =>
         /\ z.client = x.client /\ z.role = x.role /\ z.username = x.username
         /\ z.email = x.email /\ z.hasToken = x.hasToken
         /\ x.confirmed => z.confirmed
  BY <1>1 DEF User
<1>3. PICK z : /\ z = [x EXCEPT !.archived = b] \/ z = [x EXCEPT !.confirmed = TRUE]
               /\ users' = [users EXCEPT ![u] = z]
  BY <1>1
<1>4. users \in Seq(User) /\ u \in 1..Len(users)
  BY DEF TypeOK, UserIds
<1>5. /\ Len(users') = Len(users)
      /\ users'[u] = z
      /\ \A v \in UserIds : v # u => users'[v] = users[v]
  BY <1>3, <1>4 DEF UserIds
<1>6. \A v \in UserIds :
          /\ users'[v].client = users[v].client
          /\ users'[v].role = users[v].role
          /\ users'[v].username = users[v].username
          /\ users'[v].email = users[v].email
          /\ users'[v].hasToken = users[v].hasToken
          /\ users[v].confirmed => users'[v].confirmed
  BY <1>1, <1>2, <1>3, <1>5
<1> QED BY <1>4, <1>5, <1>6 DEF TypeOK, Keeps, InvitationIds, UserIds

\* Confirming writes the one row.
LEMMA ConfirmedAt ==
    ASSUME NEW t, t \in 1..Len(users), users \in Seq(User)
    PROVE  Confirmed(t)[t] = [users[t] EXCEPT !.confirmed = TRUE]
<1>1. PICK z : z = [users[t] EXCEPT !.confirmed = TRUE]
  OBVIOUS
<1>2. Confirmed(t) = [users EXCEPT ![t] = z]
  BY <1>1 DEF Confirmed
<1>3. [users EXCEPT ![t] = z][t] = z
  OBVIOUS
<1>4. Confirmed(t)[t] = z
  BY Zenon, <1>2, <1>3
<1> QED BY Zenon, <1>1, <1>4

LEMMA BeginFrame ==
    ASSUME TypeOK, NEW w \in Workers, NEW c, NEW allowed \in BOOLEAN, NEW step, NEW f,
           Begin(w, c, allowed, step, f)
    PROVE  Frame(w)
BY DEF TypeOK, Begin, Arrive, Finish, Goto, Frame

LEMMA ReceiveKeeps ==
    ASSUME Sound, NEW w \in Workers, Receive(w)
    PROVE  Keeps /\ Frame(w) /\ Len(users') = Len(users)
<1>0. TypeOK
  BY DEF Sound
<1>1. ASSUME NEW c, NEW allowed \in BOOLEAN, NEW step, NEW f, Begin(w, c, allowed, step, f)
      PROVE  Keeps /\ Frame(w) /\ Len(users') = Len(users)
  BY <1>0, <1>1, BeginFrame, StillKeeps DEF Begin, tables
<1>2. ASSUME NEW name, NEW email, SignUp(w, name, email)
      PROVE  Keeps /\ Frame(w) /\ Len(users') = Len(users)
  <2>1. PICK b \in BOOLEAN : b <=> name \in ValidUsernames
    OBVIOUS
  <2>2. b = (name \in ValidUsernames)
    BY <2>1
  <2> QED BY <1>1, <1>2, <2>2 DEF SignUp
<1>3. ASSUME NEW name, NEW t, RedeemInvitation(w, t, name)
      PROVE  Keeps /\ Frame(w) /\ Len(users') = Len(users)
  BY <1>1, <1>3 DEF RedeemInvitation
<1>4. ASSUME NEW me \in UserIds, NEW email, InviteAdmin(w, me, email)
      PROVE  Keeps /\ Frame(w) /\ Len(users') = Len(users)
  BY <1>1, <1>4 DEF InviteAdmin, IsAdmin
<1>5. ASSUME NEW me \in UserIds, NEW name, CreateUser(w, me, name)
      PROVE  Keeps /\ Frame(w) /\ Len(users') = Len(users)
  BY <1>1, <1>5 DEF CreateUser, IsAdmin
<1>6. ASSUME NEW t, ConfirmEmail(w, t)
      PROVE  Keeps /\ Frame(w) /\ Len(users') = Len(users)
  <2>1. Frame(w)
    BY <1>0, <1>6 DEF TypeOK, ConfirmEmail, Arrive, Finish, Goto, Frame
  <2>2. CASE UNCHANGED users
    BY <1>0, <1>6, <2>1, <2>2, StillKeeps DEF ConfirmEmail, tables
  <2>3. CASE t \in UserIds /\ users' = Confirmed(t)
    BY <1>0, <1>6, <2>1, <2>3, FlagKeeps DEF ConfirmEmail, Confirmed
  <2> QED BY <1>6, <2>2, <2>3 DEF ConfirmEmail
<1>7. ASSUME NEW me, NEW u, NEW archived \in BOOLEAN, SetArchived(w, me, u, archived)
      PROVE  Keeps /\ Frame(w) /\ Len(users') = Len(users)
  <2>1. Frame(w)
    BY <1>0, <1>7 DEF TypeOK, SetArchived, Arrive, Finish, Goto, Frame
  <2>2. CASE UNCHANGED users
    BY <1>0, <1>7, <2>1, <2>2, StillKeeps DEF SetArchived, tables
  <2>3. CASE u \in UserIds /\ users' = [users EXCEPT ![u].archived = archived]
    BY <1>0, <1>7, <2>1, <2>3, FlagKeeps DEF SetArchived
  <2> QED BY <1>7, <2>2, <2>3 DEF SetArchived
<1> QED BY <1>2, <1>3, <1>4, <1>5, <1>6, <1>7 DEF Receive

LEMMA ServeFrame ==
    ASSUME TypeOK, NEW w \in Workers, Serve(w)
    PROVE  Frame(w)
<1> USE DEF TypeOK, Finish, Goto, Frame
<1>1. ASSUME CheckEmail(w) \/ InsertClient(w) \/ InsertInvitation(w) \/ FindInvitation(w)
      PROVE  Frame(w)
  BY <1>1 DEF CheckEmail, InsertClient, InsertInvitation, FindInvitation
<1>2. ASSUME UseInvitation(w) \/ InsertAccount(w) \/ InsertAccountFails(w) \/ Mail(w) \/ Fail(w)
      PROVE  Frame(w)
  BY <1>2 DEF UseInvitation, InsertAccount, InsertAccountFails, Mail, Fail
<1>3. ASSUME InsertUser(w)
      PROVE  Frame(w)
  BY <1>3 DEF InsertUser
<1> QED BY <1>1, <1>2, <1>3 DEF Serve

LEMMA ServeKeeps ==
    ASSUME Sound, NEW w \in Workers, Serve(w)
    PROVE  Keeps
<1>0. TypeOK /\ RowsFit
  BY DEF Sound
<1>1. CASE UNCHANGED tables
  BY <1>0, <1>1, StillKeeps
<1>2. CASE InsertClient(w) \/ Mail(w)
  <2>1. UNCHANGED <<users, accounts, invitations, origin>> /\ clients <= clients' /\ mailed \subseteq mailed'
    BY <1>0, <1>2 DEF TypeOK, InsertClient, Mail
  <2> QED BY <1>0, <2>1 DEF TypeOK, Keeps, UserIds, InvitationIds
<1>3. CASE InsertInvitation(w)
  <2>1. PICK row : invitations' = Append(invitations, row)
    BY <1>3 DEF InsertInvitation
  <2>2. invitations \in Seq(Invitation)
    BY <1>0 DEF TypeOK
  <2>3. Len(invitations') = Len(invitations) + 1 /\ \A t \in InvitationIds : invitations'[t] = invitations[t]
    BY <2>1, <2>2 DEF InvitationIds
  <2>4. UNCHANGED <<clients, users, accounts, mailed, origin>>
    BY <1>3 DEF InsertInvitation
  <2>5. Len(invitations) \in Nat /\ Len(users) \in Nat /\ Len(accounts) \in Nat /\ clients \in Nat
    BY <1>0 DEF TypeOK
  <2> QED BY <2>3, <2>4, <2>5 DEF Keeps, UserIds
<1>4. CASE UseInvitation(w)
  <2>1. PICK t \in InvitationIds : t = call[w].token
    BY <1>0, <1>4 DEF Sound, UseInvitation, WorkersFit, StepFits, MadeFits, RowsFit, RowFits
  <2>2. PICK x \in Invitation : x = invitations[t]
    BY <1>0, <2>1, Fields
  <2>3. PICK y : y = [x EXCEPT !.used = TRUE]
    OBVIOUS
  <2>4. y.inviter = x.inviter /\ y.email = x.email /\ y.used
    BY <2>2, <2>3 DEF Invitation
  <2>5. invitations' = [invitations EXCEPT ![t] = y]
    BY <1>4, <2>1, <2>2, <2>3 DEF UseInvitation
  <2>6. invitations \in Seq(Invitation) /\ t \in 1..Len(invitations)
    BY <1>0, <2>1 DEF TypeOK, InvitationIds
  <2>7. /\ Len(invitations') = Len(invitations)
        /\ invitations'[t] = y
        /\ \A k \in InvitationIds : k # t => invitations'[k] = invitations[k]
    BY <2>5, <2>6 DEF InvitationIds
  <2>8. \A k \in InvitationIds :
           /\ invitations'[k].inviter = invitations[k].inviter
           /\ invitations'[k].email = invitations[k].email
           /\ invitations[k].used => invitations'[k].used
    BY <2>2, <2>4, <2>7
  <2> QED BY <1>0, <1>4, <2>6, <2>7, <2>8 DEF TypeOK, UseInvitation, Keeps, UserIds
<1>5. CASE InsertAccount(w)
  <2>1. accounts \in Seq(Nat \ {0}) /\ accounts' = Append(accounts, made[w])
    BY <1>0, <1>5 DEF TypeOK, InsertAccount
  <2>2. Len(accounts') = Len(accounts) + 1 /\ \A i \in 1..Len(accounts) : accounts'[i] = accounts[i]
    BY <2>1
  <2> QED BY <1>0, <1>5, <2>1, <2>2 DEF TypeOK, InsertAccount, Keeps, UserIds, InvitationIds
<1>6. CASE users' = Append(users, NewUser(w)) /\ InsertUser(w)
  <2>1. PICK row : users' = Append(users, row)
    BY <1>6
  <2>2. users \in Seq(User) /\ origin \in Seq(Call) /\ Len(origin) = Len(users)
    BY <1>0 DEF TypeOK, RowsFit
  <2>3. Len(users') = Len(users) + 1 /\ \A u \in UserIds : users'[u] = users[u]
    BY <2>1, <2>2 DEF UserIds
  <2>4. origin' = Append(origin, call[w])
    <3>1. users' # users
      BY <2>2, <2>3
    <3> QED BY <1>6, <3>1 DEF InsertUser
  <2>5. \A u \in UserIds : origin'[u] = origin[u]
    BY <2>2, <2>4 DEF UserIds
  <2>6. UNCHANGED <<clients, accounts, invitations, mailed>>
    BY <1>6 DEF InsertUser
  <2>7. Len(invitations) \in Nat /\ Len(users) \in Nat /\ Len(accounts) \in Nat /\ clients \in Nat
    BY <1>0 DEF TypeOK
  <2> QED BY <2>3, <2>5, <2>6, <2>7 DEF Keeps, InvitationIds
<1>7. CASE InsertUser(w) /\ UNCHANGED <<users, origin>>
  BY <1>0, <1>7, StillKeeps DEF InsertUser, tables
<1>8. CASE CheckEmail(w) \/ FindInvitation(w) \/ InsertAccountFails(w) \/ Fail(w)
  BY <1>1, <1>8 DEF CheckEmail, FindInvitation, InsertAccountFails, Fail
<1> QED BY <1>2, <1>3, <1>4, <1>5, <1>6, <1>7, <1>8 DEF Serve, InsertUser

-----------------------------------------------------------------------------
(* The tables *)

\* A worker whose request does nothing finds what it had.
LEMMA OthersFit ==
    ASSUME Sound, TypeOK', Keeps, NEW w \in Workers, Frame(w), NEW v \in Workers, v # w
    PROVE  CallFits(v)' /\ StepFits(v)' /\ FamilyFits(v)' /\ MadeFits(v)'
<1>1. CallFits(v) /\ StepFits(v) /\ FamilyFits(v) /\ MadeFits(v)
  BY DEF Sound, WorkersFit
<1>2. /\ pc'[v] = pc[v] /\ call'[v] = call[v] /\ family'[v] = family[v]
      /\ made'[v] = made[v] /\ answer'[v] = answer[v]
  BY DEF Frame
<1>3. /\ Len(users) \in Nat /\ Len(invitations) \in Nat /\ Len(accounts) \in Nat /\ clients \in Nat
      /\ Len(users') \in Nat /\ Len(invitations') \in Nat /\ Len(accounts') \in Nat /\ clients' \in Nat
  <2>1. /\ users \in Seq(User) /\ invitations \in Seq(Invitation) /\ accounts \in Seq(Nat \ {0})
        /\ clients \in Nat
    BY DEF Sound, TypeOK
  <2>2. Len(users) \in Nat /\ Len(invitations) \in Nat /\ Len(accounts) \in Nat
    BY <2>1
  <2>3. /\ users' \in Seq(User) /\ invitations' \in Seq(Invitation) /\ accounts' \in Seq(Nat \ {0})
        /\ clients' \in Nat
    BY DEF TypeOK, User, Invitation
  <2>4. Len(users') \in Nat /\ Len(invitations') \in Nat /\ Len(accounts') \in Nat
    BY <2>3
  <2> QED BY <2>1, <2>2, <2>3, <2>4
<1>4. CallFits(v)'
  BY <1>1, <1>2, <1>3 DEF CallFits, Keeps, UserIds, Mailed
<1>5. StepFits(v)'
  BY <1>1, <1>2 DEF StepFits
<1>6. FamilyFits(v)'
  <2>1. SUFFICES ASSUME pc[v] = "insertUser"
                 PROVE  FamilyFits(v)'
    BY <1>2 DEF FamilyFits
  <2>2. family'[v] <= clients'
    BY <1>1, <1>2, <1>3, <2>1, Fields DEF FamilyFits, Keeps, Sound
  <2>3. ASSUME call[v].kind = "redeem", NEW t, t = call[v].token
        PROVE  /\ t \in InvitationIds' /\ Mailed("invite", t)'
               /\ family'[v] = users'[invitations'[t].inviter].client
    <3>1. t \in InvitationIds /\ Mailed("invite", t) /\ family[v] = users[invitations[t].inviter].client
      BY <1>1, <2>1, <2>3 DEF FamilyFits
    <3>2. invitations[t].inviter \in UserIds
      BY <3>1 DEF Sound, RowsFit
    <3>3. PICK i \in UserIds : i = invitations[t].inviter /\ i = invitations'[t].inviter
      BY <3>1, <3>2 DEF Keeps
    <3>4. users'[i].client = users[i].client
      BY DEF Keeps
    <3>5. t \in InvitationIds' /\ Mailed("invite", t)'
      BY <1>3, <3>1 DEF Keeps, InvitationIds, Mailed
    <3> QED BY <1>2, <3>1, <3>3, <3>4, <3>5
  <2>4. ASSUME call[v].kind = "createUser"
        PROVE  family'[v] = users'[call'[v].me].client
    BY <1>1, <1>2, <2>1, <2>4 DEF FamilyFits, CallFits, Keeps
  <2> QED BY <1>2, <2>2, <2>3, <2>4 DEF FamilyFits
<1>7. MadeFits(v)'
  <2>1. PICK u : u = made[v] /\ u = made'[v]
    BY <1>2
  <2>2. ASSUME u \in UserIds
        PROVE  u \in UserIds' /\ origin'[u] = origin[u]
    BY <1>3, <2>2 DEF Keeps, UserIds
  <2>3. ASSUME u \in InvitationIds
        PROVE  u \in InvitationIds' /\ invitations'[u].email = invitations[u].email
    BY <1>3, <2>3 DEF Keeps, InvitationIds
  <2>4. ASSUME HasAccount(u)
        PROVE  HasAccount(u)'
    BY <1>3, <2>4 DEF Keeps, HasAccount
  <2> QED BY <1>1, <1>2, <2>1, <2>2, <2>3, <2>4 DEF MadeFits
<1> QED BY <1>4, <1>5, <1>6, <1>7

\* A row fits for good.
LEMMA RowStays ==
    ASSUME Sound, TypeOK', Keeps, NEW u \in UserIds
    PROVE  RowFits(u)'
<1>1. RowFits(u)
  BY DEF Sound, RowsFit
<1>2. Len(users) \in Nat /\ Len(users') \in Nat /\ Len(invitations) \in Nat /\ Len(invitations') \in Nat
      /\ clients \in Nat /\ clients' \in Nat
  BY DEF Sound, TypeOK
<1>3. users[u].client \in Nat
  BY Fields DEF Sound
<1>4. users'[u].client <= clients'
  <2>1. users[u].client <= clients
    BY <1>1 DEF RowFits
  <2>2. users'[u].client = users[u].client /\ clients <= clients'
    BY DEF Keeps
  <2> QED BY <1>2, <1>3, <2>1, <2>2
<1>5. PICK c : c = origin[u] /\ c = origin'[u]
  BY DEF Keeps
<1>6. c.kind = "redeem" =>
         /\ c.token \in InvitationIds'
         /\ users'[u].email = invitations'[c.token].email
         /\ \E m \in mailed' : m.to = users'[u].email
  <2>1. SUFFICES ASSUME c.kind = "redeem"
                 PROVE  /\ c.token \in InvitationIds'
                        /\ users'[u].email = invitations'[c.token].email
                        /\ \E m \in mailed' : m.to = users'[u].email
    OBVIOUS
  <2>2. PICK t \in InvitationIds : t = c.token /\ users[u].email = invitations[t].email
    BY <1>1, <1>5, <2>1 DEF RowFits
  <2>3. \E m \in mailed : m.to = users[u].email
    BY <1>1, <1>5, <2>1 DEF RowFits
  <2> QED BY SMTT(30), <1>2, <2>2, <2>3 DEF Keeps, InvitationIds
<1>7. c.kind = "createUser" => c.me \in UserIds'
  BY <1>1, <1>2, <1>5 DEF RowFits, Keeps, UserIds
<1>8. /\ c.kind \in {"signUp", "redeem", "createUser"}
      /\ users'[u].role = "Admin" <=> c.kind = "signUp"
      /\ users'[u].hasToken <=> c.kind = "signUp"
      /\ users'[u].username = c.username
      /\ c.kind # "redeem" => users'[u].email = c.email
  BY <1>1, <1>5 DEF RowFits, Keeps, IsAdmin
<1> QED BY <1>4, <1>5, <1>6, <1>7, <1>8 DEF RowFits, IsAdmin

\* FamiliesNeverMix, case by case.
FamilyTrue(u) ==
    LET c == origin[u]
    IN  /\ c.kind = "signUp" => \A v \in 1..(u - 1) : ~SameFamily(u, v)
        /\ c.kind = "redeem" => SameFamily(u, invitations[c.token].inviter)
        /\ c.kind = "createUser" => SameFamily(u, c.me)

LEMMA FamilyByKind ==
    ASSUME Sound, NEW u \in UserIds
    PROVE  FamilyTrue(u)
BY DEF Sound, Safe, RowsFit, RowFits, FamiliesNeverMix, FamilyTrue

LEMMA FamilyByKindAfter ==
    ASSUME RowsFit', \A u \in UserIds' : FamilyTrue(u)'
    PROVE  FamiliesNeverMix'
BY DEF RowsFit, RowFits, FamiliesNeverMix, FamilyTrue

\* No user comes: the rows fit, and the families are what they were.
LEMMA RowsStay ==
    ASSUME Sound, TypeOK', Keeps, Len(users') = Len(users), Len(origin') = Len(origin),
           \A t \in InvitationIds' : t \in InvitationIds \/ invitations'[t].inviter \in UserIds
    PROVE  RowsFit' /\ FamiliesNeverMix'
<1>1. UserIds' = UserIds /\ UserIds \subseteq Nat
  BY DEF UserIds
<1>2. \A u \in UserIds : RowFits(u)'
  BY RowStays
<1>3. \A t \in InvitationIds' : invitations'[t].inviter \in UserIds
  BY DEF Sound, RowsFit, Keeps
<1>4. RowsFit'
  BY <1>1, <1>2, <1>3 DEF Sound, RowsFit, Keeps
<1>5. FamiliesNeverMix'
  <2>1. ASSUME NEW u \in UserIds
        PROVE  FamilyTrue(u)'
    <3>1. RowFits(u) /\ RowsFit /\ FamilyTrue(u)
      BY FamilyByKind DEF Sound, RowsFit
    <3>2. PICK c : c = origin[u] /\ c = origin'[u]
      BY DEF Keeps
    <3>3. \A v \in UserIds : users'[v].client = users[v].client
      BY DEF Keeps
    <3>4. \A v \in 1..(u - 1) : v \in UserIds
      BY DEF UserIds
    <3>5. ASSUME c.kind = "redeem"
          PROVE  users'[u].client = users'[invitations'[c.token].inviter].client
      <4>1. c.token \in InvitationIds /\ users[u].client = users[invitations[c.token].inviter].client
            /\ invitations[c.token].inviter \in UserIds
        BY <3>1, <3>2, <3>5 DEF FamilyTrue, SameFamily, RowFits, RowsFit
      <4> QED BY SMTT(30), <3>3, <4>1 DEF Keeps
    <3>6. ASSUME c.kind = "createUser"
          PROVE  users'[u].client = users'[c.me].client
      BY <3>1, <3>2, <3>3, <3>6 DEF FamilyTrue, SameFamily, RowFits
    <3>7. ASSUME c.kind = "signUp", NEW v \in 1..(u - 1)
          PROVE  users'[u].client # users'[v].client
      BY <3>1, <3>2, <3>3, <3>4, <3>7 DEF FamilyTrue, SameFamily
    <3> QED BY <3>2, <3>5, <3>6, <3>7 DEF FamilyTrue, SameFamily
  <2> QED BY <1>1, <1>4, <2>1, FamilyByKindAfter
<1> QED BY <1>4, <1>5

\* What was mailed is there, and what comes is there too.
LEMMA LinksStay ==
    ASSUME Sound, TypeOK', Keeps,
           \A m \in mailed' : m \notin mailed =>
               IF m.kind = "invite"
               THEN m.id \in InvitationIds' /\ invitations'[m.id].email = m.to
               ELSE m.id \in UserIds' /\ users'[m.id].email = m.to /\ users'[m.id].hasToken,
           \A u \in UserIds' : users'[u].confirmed =>
               (u \in UserIds /\ users[u].confirmed) \/ \E m \in mailed : m.to = users'[u].email
    PROVE  MailedLinksHold'
<1>1. Len(users) \in Nat /\ Len(users') \in Nat /\ Len(invitations) \in Nat /\ Len(invitations') \in Nat
  BY DEF Sound, TypeOK
<1>2. MailedTokensExist /\ ConfirmedWereMailed
  BY DEF Sound, Safe, MailedLinksHold
<1>3. MailedTokensExist'
  <2>1. ASSUME NEW m \in mailed, m.kind = "invite"
        PROVE  m.id \in InvitationIds' /\ invitations'[m.id].email = m.to
    <3>1. m.id \in InvitationIds /\ invitations[m.id].email = m.to
      BY <1>2, <2>1 DEF MailedTokensExist, InvitationIds
    <3> QED BY <1>1, <3>1 DEF Keeps, InvitationIds
  <2>2. ASSUME NEW m \in mailed, m.kind # "invite"
        PROVE  m.id \in UserIds' /\ users'[m.id].email = m.to /\ users'[m.id].hasToken
    <3>1. m.id \in UserIds /\ users[m.id].email = m.to /\ users[m.id].hasToken
      BY <1>2, <2>2 DEF MailedTokensExist
    <3> QED BY <1>1, <3>1 DEF Keeps, UserIds
  <2> QED BY <2>1, <2>2 DEF MailedTokensExist, InvitationIds
<1>4. ConfirmedWereMailed'
  <2>1. ASSUME NEW u \in UserIds, users[u].confirmed
        PROVE  \E m \in mailed' : m.to = users'[u].email
    <3>1. PICK m \in mailed : m.to = users[u].email
      BY <1>2, <2>1 DEF ConfirmedWereMailed
    <3> QED BY <3>1 DEF Keeps
  <2>2. mailed \subseteq mailed'
    BY DEF Keeps
  <2> QED BY <2>1, <2>2 DEF ConfirmedWereMailed
<1> QED BY <1>3, <1>4 DEF MailedLinksHold

\* Accounts and used invitations stay fit.
LEMMA AccountsStay ==
    ASSUME Sound, TypeOK', Keeps, RowsFit', UNCHANGED accounts,
           \A t \in InvitationIds' : invitations'[t].used =>
               \/ t \in InvitationIds /\ invitations[t].used
               \/ \E u \in UserIds : /\ users'[u].email = invitations'[t].email
                                     /\ users'[u].client = users'[invitations'[t].inviter].client
                                     /\ HasAccount(u)
    PROVE  AccountsFit'
<1>1. Len(users) \in Nat /\ Len(users') \in Nat /\ Len(invitations) \in Nat /\ Len(invitations') \in Nat
  BY DEF Sound, TypeOK
<1>2. UsedInvitationsComplete /\ OneAccountPerInvestor /\ RowsFit
  BY DEF Sound, Safe, AccountsFit
<1>3. \A u \in UserIds : u \in UserIds' /\ (HasAccount(u) => HasAccount(u)') /\ (IsAdmin(u)' <=> IsAdmin(u))
  BY <1>1 DEF Keeps, UserIds, HasAccount, IsAdmin
<1>4. UsedInvitationsComplete'
  <2>1. SUFFICES ASSUME NEW t \in InvitationIds', invitations'[t].used
                 PROVE  \E u \in UserIds' : /\ users'[u].email = invitations'[t].email
                                            /\ users'[u].client = users'[invitations'[t].inviter].client
                                            /\ HasAccount(u)'
    BY DEF UsedInvitationsComplete, InvitationIds, SameFamily
  <2>2. CASE t \in InvitationIds /\ invitations[t].used
    <3>1. PICK u \in UserIds : /\ users[u].email = invitations[t].email
                               /\ users[u].client = users[invitations[t].inviter].client
                               /\ HasAccount(u)
      BY <1>2, <2>2 DEF UsedInvitationsComplete, InvitationIds, SameFamily
    <3>2. invitations[t].inviter \in UserIds
      BY <1>2, <2>2 DEF RowsFit
    <3> QED BY <1>3, <2>2, <3>1, <3>2 DEF Keeps
  <2> QED BY <1>3, <2>1, <2>2
<1>5. OneAccountPerInvestor'
  BY <1>2, <1>3 DEF OneAccountPerInvestor
<1> QED BY <1>4, <1>5 DEF AccountsFit

-----------------------------------------------------------------------------
(* Answers, and the two facts that others could disturb *)

AnswerTrue(w) ==
    LET c == call[w]
    IN  CASE c.kind = "signUp" ->
               [kind |-> "confirm", id |-> made[w], to |-> c.email] \in mailed
          [] c.kind = "invite" ->
               [kind |-> "invite", id |-> made[w], to |-> c.email] \in mailed
          [] c.kind = "redeem" ->
               HasAccount(made[w]) /\ invitations[c.token].used
          [] c.kind = "createUser" -> users[made[w]].username = c.username
          [] c.kind = "confirm" -> c.token \in UserIds /\ users[c.token].confirmed
          [] c.kind \in {"archive", "unarchive"} ->
               /\ {c.me, c.token} \subseteq UserIds
               /\ IsAdmin(c.me) /\ SameFamily(c.me, c.token)
          [] OTHER -> TRUE

\* An admin of a user's family stays one.
LEMMA StaysAllowed ==
    ASSUME TypeOK, TypeOK', Keeps, NEW me \in UserIds, NEW u \in UserIds,
           IsAdmin(me), SameFamily(me, u)
    PROVE  /\ {me, u} \subseteq UserIds'
           /\ IsAdmin(me)' /\ SameFamily(me, u)'
<1>1. me \in UserIds' /\ u \in UserIds'
  BY DEF Keeps, UserIds, TypeOK
<1> QED BY <1>1 DEF Keeps, IsAdmin, SameFamily

LEMMA AnswersStay ==
    ASSUME Sound, TypeOK', Keeps, NEW w \in Workers, Frame(w),
           answer'[w] = "ok" => AnswerTrue(w)'
    PROVE  AnswersMatchRows'
<1>1. SUFFICES ASSUME NEW v \in Workers, v # w, answer[v] = "ok"
               PROVE  AnswerTrue(v)'
  BY DEF AnswersMatchRows, AnswerTrue, Frame
<1>2. AnswerTrue(v) /\ MadeFits(v) /\ TypeOK
  BY <1>1 DEF Sound, Safe, AnswersMatchRows, AnswerTrue, WorkersFit
<1>3. PICK c \in Call : c = call[v] /\ c = call'[v]
  BY <1>1, <1>2, Fields DEF Frame
<1>4. PICK u \in Nat : u = made[v] /\ u = made'[v]
  BY <1>1, <1>2, Fields DEF Frame
<1>5. CASE c.kind = "signUp"
  <2>1. [kind |-> "confirm", id |-> u, to |-> c.email] \in mailed
    BY <1>2, <1>3, <1>4, <1>5 DEF AnswerTrue
  <2>2. [kind |-> "confirm", id |-> u, to |-> c.email] \in mailed'
    BY <2>1 DEF Keeps
  <2> QED BY <1>3, <1>4, <1>5, <2>2 DEF AnswerTrue
<1>6. CASE c.kind = "invite"
  <2>1. [kind |-> "invite", id |-> u, to |-> c.email] \in mailed
    BY <1>2, <1>3, <1>4, <1>6 DEF AnswerTrue
  <2>2. [kind |-> "invite", id |-> u, to |-> c.email] \in mailed'
    BY <2>1 DEF Keeps
  <2> QED BY <1>3, <1>4, <1>6, <2>2 DEF AnswerTrue
<1>7. CASE c.kind = "redeem"
  <2>1. HasAccount(u) /\ invitations[c.token].used
    BY <1>2, <1>3, <1>4, <1>7 DEF AnswerTrue
  <2>2. c.token \in InvitationIds
    BY <1>1, <1>2, <1>3, <1>4, <1>7 DEF MadeFits, Sound, RowsFit, RowFits
  <2>3. HasAccount(u)' /\ invitations'[c.token].used
    <3>1. PICK i \in 1..Len(accounts) : accounts[i] = u
      BY <2>1 DEF HasAccount
    <3>2. Len(accounts) \in Nat /\ Len(accounts') \in Nat
      <4>1. Len(accounts) \in Nat
        BY <1>2 DEF TypeOK
      <4>2. Len(accounts') \in Nat
        BY DEF TypeOK
      <4> QED BY <4>1, <4>2
    <3>3. i \in 1..Len(accounts') /\ accounts'[i] = u
      BY <3>1, <3>2 DEF Keeps
    <3> QED BY <2>1, <2>2, <3>3 DEF Keeps, HasAccount
  <2> QED BY <1>3, <1>4, <1>7, <2>3 DEF AnswerTrue
<1>8. CASE c.kind = "createUser"
  <2>1. u \in UserIds /\ users[u].username = c.username
    BY <1>1, <1>2, <1>3, <1>4, <1>8 DEF AnswerTrue, MadeFits
  <2>2. users'[u].username = c.username
    BY <2>1 DEF Keeps
  <2> QED BY <1>3, <1>4, <1>8, <2>2 DEF AnswerTrue
<1>9. CASE c.kind = "confirm"
  <2>1. c.token \in UserIds /\ users[c.token].confirmed
    BY <1>2, <1>3, <1>9 DEF AnswerTrue
  <2>2. c.token \in UserIds' /\ users'[c.token].confirmed
    <3>1. UserIds \subseteq UserIds'
      BY <1>2 DEF Keeps, UserIds, TypeOK
    <3> QED BY <2>1, <3>1 DEF Keeps
  <2> QED BY <1>3, <1>9, <2>2 DEF AnswerTrue
<1>10. CASE c.kind \in {"archive", "unarchive"}
  <2>1. {c.me, c.token} \subseteq UserIds /\ IsAdmin(c.me) /\ SameFamily(c.me, c.token)
    BY <1>2, <1>3, <1>10 DEF AnswerTrue
  <2>2. /\ {c.me, c.token} \subseteq UserIds'
        /\ users'[c.me].role = "Admin" /\ users'[c.me].client = users'[c.token].client
    BY <1>2, <2>1, StaysAllowed DEF IsAdmin, SameFamily
  <2> QED BY <1>3, <1>10, <2>2 DEF AnswerTrue, IsAdmin, SameFamily
<1>11. CASE c.kind \notin {"signUp", "invite", "redeem", "createUser", "confirm",
                          "archive", "unarchive"}
  BY <1>3, <1>11 DEF AnswerTrue
<1> QED BY <1>5, <1>6, <1>7, <1>8, <1>9, <1>10, <1>11

\* No sign-up comes to the insertion of its user, and no user comes.
LEMMA FreshStay ==
    ASSUME Sound, Keeps, NEW w \in Workers, Frame(w), Len(users') = Len(users), ~Founding(w)'
    PROVE  FamilyFresh'
BY DEF Sound, FamilyFresh, Founding, Keeps, Frame, UserIds

\* No account comes, and no request comes to the insertion of one.
LEMMA NoAccountStay ==
    ASSUME Sound, NEW w \in Workers, Frame(w), UNCHANGED accounts, pc'[w] # "insertAccount"
    PROVE  NoAccountYet'
BY DEF Sound, NoAccountYet, HasAccount, Frame

LEMMA Conclude ==
    ASSUME Sound, TypeOK', Keeps, NEW w \in Workers, Frame(w), RowsFit', FamiliesNeverMix',
           CallFits(w)', StepFits(w)', FamilyFits(w)', MadeFits(w)',
           FamilyFresh', NoAccountYet', MailedLinksHold', AccountsFit',
           answer'[w] = "ok" => AnswerTrue(w)'
    PROVE  Sound'
<1>1. WorkersFit'
  BY OthersFit DEF WorkersFit
<1>2. AnswersMatchRows'
  BY AnswersStay
<1> QED BY <1>1, <1>2 DEF Sound, Safe

\* A step that writes nothing.
LEMMA StillSound ==
    ASSUME Sound, TypeOK', UNCHANGED tables, NEW w \in Workers, Frame(w),
           CallFits(w)', StepFits(w)', FamilyFits(w)', MadeFits(w)',
           ~Founding(w)', pc'[w] # "insertAccount",
           answer'[w] = "ok" => AnswerTrue(w)'
    PROVE  Sound'
<1>1. Keeps /\ Len(users') = Len(users) /\ Len(origin') = Len(origin) /\ InvitationIds' = InvitationIds
  BY StillKeeps DEF Sound, tables, InvitationIds
<1>2. RowsFit' /\ FamiliesNeverMix'
  BY <1>1, RowsStay
<1>3. MailedLinksHold'
  BY DEF Sound, Safe, MailedLinksHold, MailedTokensExist, ConfirmedWereMailed, tables, UserIds
<1>4. AccountsFit'
  BY DEF Sound, Safe, AccountsFit, UsedInvitationsComplete, OneAccountPerInvestor, tables,
         UserIds, HasAccount, SameFamily, IsAdmin
<1>5. FamilyFresh' /\ NoAccountYet'
  BY <1>1, FreshStay, NoAccountStay DEF tables
<1> QED BY <1>1, <1>2, <1>3, <1>4, <1>5, Conclude

-----------------------------------------------------------------------------
(* Each action keeps the invariant *)

\* A call arrives: w knows it, and has neither a user nor an invitation yet.
LEMMA ArriveSets ==
    ASSUME TypeOK, NEW w \in Workers, NEW c, Arrive(w, c)
    PROVE  call'[w] = c /\ made'[w] = 0
BY DEF TypeOK, Arrive

LEMMA FinishSets ==
    ASSUME TypeOK, NEW w \in Workers, NEW result, Finish(w, result)
    PROVE  pc'[w] = "idle" /\ answer'[w] = result /\ family'[w] = 0
BY DEF TypeOK, Finish, Goto

LEMMA GotoSets ==
    ASSUME TypeOK, NEW w \in Workers, NEW step, Goto(w, step)
    PROVE  pc'[w] = step
BY DEF TypeOK, Goto

LEMMA BeginSound ==
    ASSUME Sound, TypeOK', NEW w \in Workers, NEW c \in Call, NEW allowed \in BOOLEAN,
           NEW step, NEW f, Begin(w, c, allowed, step, f),
           c.kind \in {"signUp", "redeem", "createUser"} => c.username \in Usernames,
           c.kind \in {"signUp", "invite"} => c.email \in Emails,
           c.kind \in {"invite", "createUser"} => c.me \in UserIds,
           c.kind = "redeem" => c.token = 0 \/ Mailed("invite", c.token),
           \/ step = "checkEmail" /\ c.kind = "signUp"
           \/ step = "insertInvitation" /\ c.kind = "invite"
           \/ step = "findInvitation" /\ c.kind = "redeem"
           \/ step = "insertUser" /\ c.kind = "createUser" /\ f = users[c.me].client
    PROVE  Sound'
<1>0. TypeOK /\ UNCHANGED tables /\ Frame(w) /\ call'[w] = c
  BY BeginFrame, ArriveSets DEF Sound, Begin
<1>1. UserIds' = UserIds /\ (\A kind, id : Mailed(kind, id)' <=> Mailed(kind, id)) /\ UNCHANGED <<users, clients>>
  BY <1>0 DEF tables, UserIds, Mailed
<1>2. CallFits(w)'
  BY <1>0, <1>1 DEF CallFits
<1>3. CASE allowed
  <2>1. pc'[w] = step /\ family'[w] = f /\ answer'[w] = "none"
    BY <1>0, <1>3, GotoSets DEF Begin, TypeOK
  <2>2. StepFits(w)' /\ MadeFits(w)' /\ ~Founding(w)'
    BY <1>0, <2>1 DEF StepFits, MadeFits, Founding
  <2>3. FamilyFits(w)'
    <3>1. c.kind = "createUser" => users[c.me].client <= clients
      BY DEF Sound, RowsFit, RowFits
    <3> QED BY <1>0, <1>1, <2>1, <3>1 DEF FamilyFits
  <2> QED BY <1>0, <1>2, <2>1, <2>2, <2>3, StillSound
<1>4. CASE ~allowed
  <2>1. pc'[w] = "idle" /\ answer'[w] = "refused"
    BY <1>0, <1>4, FinishSets DEF Begin
  <2>2. StepFits(w)' /\ MadeFits(w)' /\ ~Founding(w)' /\ FamilyFits(w)'
    BY <2>1 DEF StepFits, MadeFits, Founding, FamilyFits
  <2> QED BY <1>0, <1>2, <2>1, <2>2, StillSound
<1> QED BY <1>3, <1>4

\* Archiving and confirming set a flag and end at once.
LEMMA FlagSound ==
    ASSUME Sound, TypeOK', Keeps, NEW w \in Workers, Frame(w), Len(users') = Len(users),
           UNCHANGED <<clients, accounts, invitations, mailed, origin>>,
           NEW c, call'[w] = c, c.kind \in {"archive", "unarchive", "confirm"},
           pc'[w] = "idle", answer'[w] = "ok" => AnswerTrue(w)',
           \A u \in UserIds : users'[u].confirmed =>
               users[u].confirmed \/ \E m \in mailed : m.to = users[u].email
    PROVE  Sound'
<1>1. InvitationIds' = InvitationIds /\ UserIds' = UserIds
  BY DEF InvitationIds, UserIds
<1>2. RowsFit' /\ FamiliesNeverMix'
  BY <1>1, RowsStay
<1>3. MailedLinksHold'
  <2>1. mailed' = mailed
    OBVIOUS
  <2>2. \A u \in UserIds' : users'[u].confirmed =>
           (u \in UserIds /\ users[u].confirmed) \/ \E m \in mailed : m.to = users'[u].email
    BY <1>1 DEF Keeps
  <2> QED BY <2>1, <2>2, LinksStay
<1>4. AccountsFit'
  BY <1>1, <1>2, AccountsStay
<1>5. CallFits(w)' /\ StepFits(w)' /\ FamilyFits(w)' /\ MadeFits(w)' /\ ~Founding(w)'
  BY DEF CallFits, StepFits, FamilyFits, MadeFits, Founding
<1>6. FamilyFresh' /\ NoAccountYet'
  BY <1>5, FreshStay, NoAccountStay
<1> QED BY <1>2, <1>3, <1>4, <1>5, <1>6, Conclude

LEMMA ReceiveSound ==
    ASSUME Sound, NEW w \in Workers, Receive(w)
    PROVE  Sound'
<1>0. TypeOK /\ TypeOK' /\ Keeps /\ Frame(w) /\ Len(users') = Len(users)
  BY ReceiveTypes, ReceiveKeeps DEF Sound
<1>00. UserIds \subseteq Nat \ {0}
  BY DEF UserIds
<1>1. ASSUME NEW name \in Usernames, NEW email \in Emails, SignUp(w, name, email)
      PROVE  Sound'
  <2>1. PICK c \in Call : /\ c = [NoCall EXCEPT !.kind = "signUp", !.username = name, !.email = email]
                          /\ c.kind = "signUp" /\ c.username = name /\ c.email = email
    <3>1. PICK c : c = [NoCall EXCEPT !.kind = "signUp", !.username = name, !.email = email]
      OBVIOUS
    <3>2. c = [kind |-> "signUp", me |-> 0, username |-> name, email |-> email, token |-> 0]
      BY <3>1 DEF NoCall
    <3>3. c \in Call
      BY <3>2 DEF Call
    <3> QED BY <3>1, <3>2, <3>3
  <2>2. Begin(w, c, name \in ValidUsernames, "checkEmail", 0)
    BY <1>1, <2>1 DEF SignUp
  <2>3. (name \in ValidUsernames) \in BOOLEAN
    OBVIOUS
  <2> QED BY <1>0, <2>1, <2>2, <2>3, BeginSound
<1>2. ASSUME NEW name \in Usernames, NEW t \in Tokens("invite"), RedeemInvitation(w, t, name)
      PROVE  Sound'
  <2>1. t \in Nat /\ (t = 0 \/ Mailed("invite", t))
    BY <1>0, Fields DEF Tokens, Mailed
  <2>2. PICK c \in Call : /\ c = [NoCall EXCEPT !.kind = "redeem", !.token = t, !.username = name]
                          /\ c.kind = "redeem" /\ c.username = name /\ c.token = t
    <3>1. PICK c : c = [NoCall EXCEPT !.kind = "redeem", !.token = t, !.username = name]
      OBVIOUS
    <3>2. c = [kind |-> "redeem", me |-> 0, username |-> name, email |-> None, token |-> t]
      BY <3>1 DEF NoCall
    <3> QED BY <2>1, <3>1, <3>2 DEF Call
  <2>3. Begin(w, c, TRUE, "findInvitation", 0)
    BY <1>2, <2>2 DEF RedeemInvitation
  <2> QED BY <1>0, <2>1, <2>2, <2>3, BeginSound
<1>3. ASSUME NEW me \in UserIds, NEW email \in Emails, InviteAdmin(w, me, email)
      PROVE  Sound'
  <2>1. PICK c \in Call : /\ c = [NoCall EXCEPT !.kind = "invite", !.me = me, !.email = email]
                          /\ c.kind = "invite" /\ c.me = me /\ c.email = email
    <3>1. PICK c : c = [NoCall EXCEPT !.kind = "invite", !.me = me, !.email = email]
      OBVIOUS
    <3>2. c = [kind |-> "invite", me |-> me, username |-> None, email |-> email, token |-> 0]
      BY <3>1 DEF NoCall
    <3>3. me \in Nat
      BY <1>00
    <3>4. c \in Call
      BY <3>2, <3>3 DEF Call
    <3> QED BY <3>1, <3>2, <3>4
  <2>2. Begin(w, c, IsAdmin(me), "insertInvitation", 0) /\ IsAdmin(me) \in BOOLEAN
    BY <1>3, <2>1 DEF InviteAdmin, IsAdmin
  <2> QED BY <1>0, <2>1, <2>2, BeginSound
<1>4. ASSUME NEW me \in UserIds, NEW name \in Usernames, CreateUser(w, me, name)
      PROVE  Sound'
  <2>1. PICK c \in Call : /\ c = [NoCall EXCEPT !.kind = "createUser", !.me = me, !.username = name]
                          /\ c.kind = "createUser" /\ c.me = me /\ c.username = name
    <3>1. PICK c : c = [NoCall EXCEPT !.kind = "createUser", !.me = me, !.username = name]
      OBVIOUS
    <3>2. c = [kind |-> "createUser", me |-> me, username |-> name, email |-> None, token |-> 0]
      BY <3>1 DEF NoCall
    <3>3. me \in Nat
      BY <1>00
    <3>4. c \in Call
      BY <3>2, <3>3 DEF Call
    <3> QED BY <3>1, <3>2, <3>4
  <2>2. /\ Begin(w, c, IsAdmin(me) /\ name \in ValidUsernames, "insertUser", users[me].client)
        /\ (IsAdmin(me) /\ name \in ValidUsernames) \in BOOLEAN
    BY <1>4, <2>1 DEF CreateUser, IsAdmin
  <2> QED BY <1>0, <2>1, <2>2, BeginSound
<1>5. ASSUME NEW t \in Tokens("confirm"), ConfirmEmail(w, t)
      PROVE  Sound'
  <2>1. PICK c : c = call'[w] /\ c.kind = "confirm" /\ c.token = t
    <3>1. PICK c : c = [NoCall EXCEPT !.kind = "confirm", !.token = t]
      OBVIOUS
    <3>2. c.kind = "confirm" /\ c.token = t
      BY <3>1 DEF NoCall
    <3> QED BY <1>0, <1>5, <3>1, <3>2, ArriveSets DEF ConfirmEmail
  <2>2. pc'[w] = "idle"
    BY <1>0, <1>5, FinishSets DEF ConfirmEmail
  <2>3. \A u \in UserIds : users'[u].confirmed =>
            users[u].confirmed \/ \E m \in mailed : m.to = users[u].email
    <3>1. CASE UNCHANGED users
      BY <3>1
    <3>2. CASE t \in UserIds /\ users' = Confirmed(t)
      <4>1. \A u \in UserIds : u # t => users'[u] = users[u]
        BY <1>0, <3>2 DEF Confirmed, TypeOK, UserIds
      <4>2. PICK m \in mailed : m.kind = "confirm" /\ m.id = t
        BY <1>00, <3>2 DEF Tokens
      <4>3. m.to = users[t].email
        BY <4>2 DEF Sound, Safe, MailedLinksHold, MailedTokensExist
      <4> QED BY <4>1, <4>2, <4>3
    <3> QED BY <1>5, <3>1, <3>2 DEF ConfirmEmail
  <2>4. answer'[w] = "ok" => AnswerTrue(w)'
    <3>1. ASSUME answer'[w] = "ok"
          PROVE  t \in UserIds /\ users' = Confirmed(t)
      BY <1>0, <1>5, <3>1, FinishSets DEF ConfirmEmail
    <3>2. ASSUME t \in UserIds, users' = Confirmed(t)
          PROVE  t \in UserIds' /\ users'[t].confirmed
      <4>1. users \in Seq(User) /\ t \in 1..Len(users)
        BY <1>0, <3>2 DEF TypeOK, UserIds
      <4>2. users[t] \in User
        BY <4>1
      <4>3. [users[t] EXCEPT !.confirmed = TRUE].confirmed
        BY <4>2 DEF User
      <4>4. users'[t] = [users[t] EXCEPT !.confirmed = TRUE]
        BY <3>2, <4>1, ConfirmedAt
      <4> QED BY <1>0, <4>1, <4>3, <4>4 DEF UserIds
    <3> QED BY <2>1, <3>1, <3>2 DEF AnswerTrue
  <2> QED BY <1>0, <1>5, <2>1, <2>2, <2>3, <2>4, FlagSound DEF ConfirmEmail
<1>6. ASSUME NEW me \in UserIds, NEW u \in {0} \cup UserIds, NEW archived \in BOOLEAN,
             SetArchived(w, me, u, archived)
      PROVE  Sound'
  <2>1. PICK c : c = call'[w] /\ c.kind \in {"archive", "unarchive"} /\ c.me = me /\ c.token = u
    <3>1. PICK c : c = [NoCall EXCEPT !.kind = IF archived THEN "archive" ELSE "unarchive",
                                      !.me = me, !.token = u]
      OBVIOUS
    <3>2. c.kind \in {"archive", "unarchive"} /\ c.me = me /\ c.token = u
      BY <3>1 DEF NoCall
    <3> QED BY <1>0, <1>6, <3>1, <3>2, ArriveSets DEF SetArchived
  <2>2. pc'[w] = "idle"
    BY <1>0, <1>6, FinishSets DEF SetArchived
  <2>3. \A v \in UserIds : users'[v].confirmed => users[v].confirmed
    <3>1. CASE UNCHANGED users
      BY <3>1
    <3>2. CASE u \in UserIds /\ users' = [users EXCEPT ![u].archived = archived]
      <4>1. PICK x \in User : x = users[u]
        BY <1>0, <3>2, Fields
      <4>2. PICK y : y = [x EXCEPT !.archived = archived]
        OBVIOUS
      <4>3. y.confirmed = x.confirmed
        BY <4>1, <4>2 DEF User
      <4>4. users' = [users EXCEPT ![u] = y]
        BY <3>2, <4>1, <4>2
      <4>5. \A v \in UserIds : users'[v] = IF v = u THEN y ELSE users[v]
        <5>1. users \in Seq(User) /\ u \in 1..Len(users)
          BY <1>0, <3>2 DEF TypeOK, UserIds
        <5> QED BY <4>4, <5>1 DEF UserIds
      <4> QED BY <4>1, <4>3, <4>5
    <3> QED BY <1>6, <3>1, <3>2 DEF SetArchived
  <2>4. answer'[w] = "ok" => AnswerTrue(w)'
    <3>1. ASSUME answer'[w] = "ok"
          PROVE  IsAdmin(me) /\ u \in UserIds /\ SameFamily(me, u)
      BY <1>0, <1>6, <3>1, FinishSets DEF SetArchived
    <3>2. ASSUME answer'[w] = "ok"
          PROVE  /\ {me, u} \subseteq UserIds'
                 /\ users'[me].role = "Admin" /\ users'[me].client = users'[u].client
      BY <1>0, <3>1, <3>2, StaysAllowed DEF IsAdmin, SameFamily
    <3> QED BY <2>1, <3>2 DEF AnswerTrue, IsAdmin, SameFamily
  <2> QED BY <1>0, <1>6, <2>1, <2>2, <2>3, <2>4, FlagSound DEF SetArchived
<1> QED BY <1>1, <1>2, <1>3, <1>4, <1>5, <1>6 DEF Receive

\* A request ends, without a word of success, and nothing is written.
LEMMA EndSound ==
    ASSUME Sound, TypeOK', NEW w \in Workers, Frame(w), UNCHANGED tables,
           UNCHANGED <<call, made>>, pc'[w] = "idle", answer'[w] # "ok"
    PROVE  Sound'
<1>1. CallFits(w)'
  BY DEF Sound, WorkersFit, CallFits, tables, UserIds, Mailed
<1>2. StepFits(w)' /\ FamilyFits(w)' /\ MadeFits(w)' /\ ~Founding(w)'
  BY DEF StepFits, FamilyFits, MadeFits, Founding
<1> QED BY <1>1, <1>2, StillSound

LEMMA ServeReads ==
    ASSUME Sound, TypeOK', Keeps, NEW w \in Workers, Frame(w),
           CheckEmail(w) \/ FindInvitation(w) \/ InsertAccountFails(w) \/ Fail(w)
    PROVE  Sound'
<1>0. TypeOK /\ RowsFit /\ UNCHANGED tables /\ UNCHANGED <<call, made>>
  BY DEF Sound, CheckEmail, FindInvitation, InsertAccountFails, Fail
<1>1. CallFits(w) /\ StepFits(w) /\ FamilyFits(w) /\ MadeFits(w)
  BY DEF Sound, WorkersFit
<1>2. CallFits(w)'
  BY <1>0, <1>1 DEF CallFits, tables, UserIds, Mailed
<1>3. CASE CheckEmail(w)
  <2>1. CASE Goto(w, "insertClient") /\ UNCHANGED answer
    <3>1. pc'[w] = "insertClient" /\ answer'[w] = "none"
      BY <1>0, <1>1, <1>3, <2>1, GotoSets DEF CheckEmail, StepFits
    <3>2. StepFits(w)' /\ FamilyFits(w)' /\ MadeFits(w)' /\ ~Founding(w)'
      BY <1>0, <1>1, <1>3, <3>1 DEF CheckEmail, StepFits, FamilyFits, MadeFits, Founding
    <3> QED BY <1>0, <1>2, <3>1, <3>2, StillSound
  <2>2. CASE Finish(w, "refused")
    BY <1>0, <2>2, FinishSets, EndSound
  <2> QED BY <1>3, <2>1, <2>2 DEF CheckEmail
<1>4. CASE FindInvitation(w)
  <2>1. CASE /\ call[w].token \in InvitationIds
             /\ family' = [family EXCEPT ![w] = users[invitations[call[w].token].inviter].client]
             /\ Goto(w, "insertUser") /\ UNCHANGED answer
    <3>1. PICK t \in InvitationIds : t = call[w].token
      BY <2>1
    <3>2. PICK f : f = users[invitations[t].inviter].client
      OBVIOUS
    <3>3. pc'[w] = "insertUser" /\ answer'[w] = "none" /\ family'[w] = f
      BY <1>0, <1>1, <1>4, <2>1, <3>1, <3>2, GotoSets DEF FindInvitation, StepFits, TypeOK
    <3>4. f <= clients
      BY <1>0, <3>2 DEF RowsFit, RowFits
    <3>5. call[w].kind = "redeem" /\ t # 0 /\ Mailed("invite", t)
      BY <1>1, <1>4, <3>1 DEF FindInvitation, StepFits, CallFits, InvitationIds
    <3>6. /\ t \in InvitationIds'
          /\ f = users'[invitations'[t].inviter].client
          /\ Mailed("invite", t)'
      BY <1>0, <3>2, <3>5 DEF tables, InvitationIds, Mailed
    <3>7. FamilyFits(w)'
      BY <1>0, <3>1, <3>3, <3>4, <3>5, <3>6 DEF FamilyFits, tables
    <3>8. StepFits(w)' /\ MadeFits(w)' /\ ~Founding(w)'
      BY <1>0, <3>3, <3>5 DEF StepFits, MadeFits, Founding
    <3> QED BY <1>0, <1>2, <3>3, <3>7, <3>8, StillSound
  <2>2. CASE Finish(w, "refused")
    BY <1>0, <2>2, FinishSets, EndSound
  <2> QED BY <1>4, <2>1, <2>2 DEF FindInvitation, InvitationIds
<1>5. CASE InsertAccountFails(w)
  <2>1. pc'[w] = "idle" /\ pc[w] = "insertAccount" /\ call[w].kind = "createUser"
    BY <1>0, <1>5, FinishSets DEF InsertAccountFails, AccountErrorDropped
  <2>2. made[w] \in UserIds /\ origin[made[w]] = call[w]
    BY <1>1, <2>1 DEF MadeFits
  <2>3. users[made[w]].username = call[w].username
    BY <1>0, <2>2 DEF RowsFit, RowFits
  <2>4. AnswerTrue(w)'
    BY <1>0, <2>1, <2>3 DEF AnswerTrue, tables
  <2>5. MadeFits(w)'
    BY <1>0, <2>1, <2>2 DEF MadeFits, tables, UserIds
  <2>6. StepFits(w)' /\ FamilyFits(w)' /\ ~Founding(w)'
    BY <2>1 DEF StepFits, FamilyFits, Founding
  <2> QED BY <1>0, <1>2, <2>1, <2>4, <2>5, <2>6, StillSound
<1>6. CASE Fail(w)
  BY <1>0, <1>6, FinishSets, EndSound DEF Fail
<1> QED BY <1>3, <1>4, <1>5, <1>6

LEMMA InsertClientSound ==
    ASSUME Sound, TypeOK', Keeps, NEW w \in Workers, Frame(w), InsertClient(w)
    PROVE  Sound'
<1>0. TypeOK /\ RowsFit /\ pc[w] = "insertClient"
  BY DEF Sound, InsertClient
<1>1. CallFits(w) /\ StepFits(w)
  BY DEF Sound, WorkersFit
<1>2. /\ clients \in Nat /\ clients' = clients + 1
      /\ pc'[w] = "insertUser" /\ family'[w] = clients + 1
      /\ UNCHANGED <<users, accounts, invitations, mailed, origin, call, made, answer>>
  BY <1>0, GotoSets DEF InsertClient, TypeOK
<1>3. UserIds' = UserIds /\ InvitationIds' = InvitationIds
  BY <1>2 DEF UserIds, InvitationIds
<1>4. call[w].kind = "signUp" /\ answer[w] = "none"
  BY <1>0, <1>1 DEF StepFits
<1>5. CallFits(w)' /\ StepFits(w)' /\ FamilyFits(w)' /\ MadeFits(w)'
  BY <1>1, <1>2, <1>3, <1>4 DEF CallFits, StepFits, FamilyFits, MadeFits, Mailed
<1>6. FamilyFresh'
  <2>1. \A u \in UserIds : users[u].client \in Nat /\ users[u].client <= clients
    BY <1>0, Fields DEF RowsFit, RowFits
  <2>2. \A u \in UserIds : users[u].client # family'[w]
    BY <1>2, <2>1
  <2>3. \A v \in Workers : Founding(v) => family[v] \in Nat /\ family[v] <= clients
    BY <1>0, Fields DEF Sound, WorkersFit, FamilyFits, Founding
  <2>4. \A v \in Workers \ {w} : (Founding(v)' <=> Founding(v)) /\ family'[v] = family[v]
    BY DEF Frame, Founding
  <2>5. \A v \in Workers \ {w} : Founding(v) => family[v] # family'[w]
    BY <1>2, <2>3
  <2> QED BY <1>2, <1>3, <2>2, <2>4, <2>5 DEF Sound, FamilyFresh
<1>7. NoAccountYet'
  BY <1>2, NoAccountStay
<1>8. RowsFit' /\ FamiliesNeverMix'
  BY <1>2, <1>3, RowsStay
<1>9. MailedLinksHold'
  BY <1>2, <1>3 DEF Sound, Safe, MailedLinksHold, MailedTokensExist, ConfirmedWereMailed
<1>10. AccountsFit'
  BY <1>2, <1>3, <1>8, AccountsStay
<1> QED BY <1>2, <1>4, <1>5, <1>6, <1>7, <1>8, <1>9, <1>10, Conclude

LEMMA InsertInvitationSound ==
    ASSUME Sound, TypeOK', Keeps, NEW w \in Workers, Frame(w), InsertInvitation(w)
    PROVE  Sound'
<1>0. TypeOK /\ RowsFit /\ pc[w] = "insertInvitation"
  BY DEF Sound, InsertInvitation
<1>1. CallFits(w) /\ StepFits(w)
  BY DEF Sound, WorkersFit
<1>2. call[w].kind = "invite" /\ answer[w] = "none" /\ call[w].me \in UserIds
  BY <1>0, <1>1 DEF StepFits, CallFits
<1>3. PICK row \in Invitation : /\ invitations' = Append(invitations, row)
                                /\ row.inviter = call[w].me /\ row.email = call[w].email /\ ~row.used
  <2>1. call[w].me \in Nat /\ call[w].email \in Emails
    BY <1>0, <1>1, <1>2, Fields DEF CallFits
  <2>2. PICK row : row = [inviter |-> call[w].me, email |-> call[w].email,
                          role |-> "Admin", used |-> FALSE]
    OBVIOUS
  <2>3. invitations' = Append(invitations, row)
    BY <2>2 DEF InsertInvitation
  <2>4. row \in Invitation
    BY <2>1, <2>2 DEF Invitation
  <2>5. row.inviter = call[w].me /\ row.email = call[w].email /\ ~row.used
    BY <2>2
  <2> QED BY <2>3, <2>4, <2>5
<1>4. PICK t : t = Len(invitations) + 1
  OBVIOUS
<1>5. /\ pc'[w] = "mailInvite" /\ made'[w] = t
      /\ UNCHANGED <<clients, users, accounts, mailed, origin, call, answer>>
  BY <1>0, <1>4, GotoSets DEF InsertInvitation, TypeOK
<1>6. /\ invitations \in Seq(Invitation) /\ Len(invitations') = t /\ invitations'[t] = row
      /\ \A k \in InvitationIds' : k \in InvitationIds \/ k = t
      /\ t \in InvitationIds'
  BY SMTT(30), <1>0, <1>3, <1>4 DEF TypeOK, InvitationIds
<1>7. UserIds' = UserIds
  BY <1>5 DEF UserIds
<1>8. CallFits(w)' /\ StepFits(w)' /\ FamilyFits(w)'
  BY <1>1, <1>2, <1>5, <1>7 DEF CallFits, StepFits, FamilyFits, Mailed
<1>9. MadeFits(w)'
  BY <1>2, <1>3, <1>5, <1>6 DEF MadeFits
<1>10. ~Founding(w)' /\ FamilyFresh' /\ NoAccountYet'
  BY <1>5, FreshStay, NoAccountStay DEF Founding
<1>11. RowsFit' /\ FamiliesNeverMix'
  BY <1>2, <1>3, <1>5, <1>6, RowsStay
<1>12. MailedLinksHold'
  <2>1. mailed' = mailed
    BY <1>5
  <2> QED BY <1>5, <1>7, <2>1, LinksStay
<1>13. AccountsFit'
  <2>1. \A k \in InvitationIds' : invitations'[k].used => k \in InvitationIds /\ invitations[k].used
    BY SMTT(30), <1>0, <1>3, <1>4, <1>6 DEF TypeOK, InvitationIds
  <2> QED BY <1>5, <1>11, <2>1, AccountsStay
<1> QED BY <1>2, <1>5, <1>8, <1>9, <1>10, <1>11, <1>12, <1>13, Conclude

LEMMA UseInvitationSound ==
    ASSUME Sound, TypeOK', Keeps, NEW w \in Workers, Frame(w), UseInvitation(w)
    PROVE  Sound'
<1>0. TypeOK /\ RowsFit /\ pc[w] = "useInvitation"
  BY DEF Sound, UseInvitation
<1>1. CallFits(w) /\ StepFits(w) /\ MadeFits(w)
  BY DEF Sound, WorkersFit
<1>2. call[w].kind = "redeem"
  BY <1>0, <1>1 DEF StepFits
<1>3. PICK u \in UserIds : u = made[w] /\ origin[u] = call[w] /\ HasAccount(u)
  BY <1>0, <1>1 DEF MadeFits
<1>4. PICK t \in InvitationIds : t = call[w].token /\ users[u].email = invitations[t].email
  BY <1>0, <1>2, <1>3 DEF RowsFit, RowFits
<1>5. users[u].client = users[invitations[t].inviter].client /\ invitations[t].inviter \in UserIds
  BY <1>0, <1>2, <1>3, <1>4 DEF Sound, Safe, FamiliesNeverMix, SameFamily, RowsFit
<1>6. /\ pc'[w] = "idle"
      /\ UNCHANGED <<clients, users, accounts, mailed, origin, call, made>>
  BY <1>0, FinishSets DEF UseInvitation
<1>7. /\ Len(invitations') = Len(invitations)
      /\ \A k \in InvitationIds : k # t => invitations'[k] = invitations[k]
      /\ invitations'[t].used
  <2>1. invitations' = [invitations EXCEPT ![t].used = TRUE] /\ invitations \in Seq(Invitation)
    BY <1>0, <1>4 DEF UseInvitation, TypeOK
  <2>2. PICK x \in Invitation : x = invitations[t]
    BY <1>0, Fields
  <2>3. PICK y : y = [x EXCEPT !.used = TRUE]
    OBVIOUS
  <2>4. y.used
    BY <2>2, <2>3 DEF Invitation
  <2>5. invitations' = [invitations EXCEPT ![t] = y]
    BY <2>1, <2>2, <2>3
  <2>6. t \in 1..Len(invitations)
    BY DEF InvitationIds
  <2> QED BY <2>1, <2>4, <2>5, <2>6 DEF InvitationIds
<1>8. UserIds' = UserIds /\ InvitationIds' = InvitationIds
  BY <1>6, <1>7 DEF UserIds, InvitationIds
<1>9. CallFits(w)' /\ StepFits(w)' /\ FamilyFits(w)'
  BY <1>1, <1>6, <1>8 DEF CallFits, StepFits, FamilyFits, Mailed
<1>10. MadeFits(w)'
  BY <1>3, <1>6, <1>8 DEF MadeFits
<1>11. ~Founding(w)' /\ FamilyFresh' /\ NoAccountYet'
  BY <1>6, FreshStay, NoAccountStay DEF Founding
<1>12. RowsFit' /\ FamiliesNeverMix'
  BY <1>6, <1>8, RowsStay
<1>13. MailedLinksHold'
  <2>1. mailed' = mailed
    BY <1>6
  <2> QED BY <1>6, <1>8, <2>1, LinksStay
<1>14. AccountsFit'
  <2>1. /\ users'[u].email = invitations'[t].email
        /\ users'[u].client = users'[invitations'[t].inviter].client
    <3>1. users'[u].email = users[u].email /\ users'[u].client = users[u].client
      BY DEF Keeps
    <3>2. /\ invitations'[t].email = invitations[t].email
          /\ invitations'[t].inviter = invitations[t].inviter
      BY DEF Keeps
    <3>3. users'[invitations[t].inviter].client = users[invitations[t].inviter].client
      BY <1>5 DEF Keeps
    <3> QED BY <1>4, <1>5, <3>1, <3>2, <3>3
  <2>2. \A k \in InvitationIds' : invitations'[k].used => k \in InvitationIds /\ (invitations[k].used \/ k = t)
    BY <1>7, <1>8
  <2> QED BY <1>3, <1>6, <1>12, <2>1, <2>2, AccountsStay
<1>15. AnswerTrue(w)'
  BY <1>2, <1>3, <1>4, <1>6, <1>7 DEF AnswerTrue, HasAccount
<1> QED BY <1>9, <1>10, <1>11, <1>12, <1>13, <1>14, <1>15, Conclude

LEMMA InsertAccountSound ==
    ASSUME Sound, TypeOK', Keeps, NEW w \in Workers, Frame(w), InsertAccount(w)
    PROVE  Sound'
<1>0. TypeOK /\ RowsFit /\ pc[w] = "insertAccount"
  BY DEF Sound, InsertAccount
<1>1. CallFits(w) /\ StepFits(w) /\ MadeFits(w)
  BY DEF Sound, WorkersFit
<1>2. call[w].kind \in {"redeem", "createUser"} /\ answer[w] = "none"
  BY <1>0, <1>1 DEF StepFits
<1>3. PICK u \in UserIds : u = made[w] /\ origin[u] = call[w] /\ ~HasAccount(u)
  BY <1>0, <1>1 DEF MadeFits, Sound, NoAccountYet
<1>4. /\ accounts \in Seq(Nat \ {0}) /\ accounts' = Append(accounts, u)
      /\ UNCHANGED <<clients, users, invitations, mailed, origin, call, made>>
  BY <1>0, <1>3 DEF InsertAccount, TypeOK
<1>5. /\ Len(accounts) \in Nat /\ Len(accounts') = Len(accounts) + 1 /\ accounts'[Len(accounts')] = u
      /\ \A i \in 1..Len(accounts) : accounts'[i] = accounts[i]
  BY <1>4
<1>6. \/ pc'[w] = "useInvitation" /\ call[w].kind = "redeem" /\ answer'[w] = answer[w]
      \/ pc'[w] = "idle" /\ call[w].kind = "createUser"
  BY <1>0, <1>2, GotoSets, FinishSets DEF InsertAccount
<1>7. UserIds' = UserIds /\ InvitationIds' = InvitationIds
  BY <1>4 DEF UserIds, InvitationIds
<1>8. \A v : HasAccount(v)' <=> HasAccount(v) \/ v = u
  BY <1>5 DEF HasAccount
<1>9. CallFits(w)' /\ StepFits(w)' /\ FamilyFits(w)'
  BY <1>1, <1>2, <1>4, <1>6, <1>7 DEF CallFits, StepFits, FamilyFits, Mailed
<1>10. MadeFits(w)'
  BY <1>3, <1>4, <1>6, <1>7, <1>8 DEF MadeFits
<1>11. ~Founding(w)' /\ FamilyFresh'
  BY <1>4, <1>6, FreshStay DEF Founding
<1>12. NoAccountYet'
  <2>1. SUFFICES ASSUME NEW v \in Workers, pc'[v] = "insertAccount"
                 PROVE  /\ ~HasAccount(made[v])'
                        /\ \A x \in Workers : pc'[x] = "insertAccount" /\ made'[x] = made'[v] => x = v
    BY DEF NoAccountYet
  <2>2. v # w /\ pc[v] = "insertAccount"
    BY <1>6, <2>1 DEF Frame
  <2>3. made[v] # u /\ ~HasAccount(made[v])
    BY <1>0, <1>3, <2>2 DEF Sound, NoAccountYet
  <2>4. \A x \in Workers : pc'[x] = "insertAccount" => pc[x] = "insertAccount"
    BY <1>6 DEF Frame
  <2>5. ~HasAccount(made[v])'
    BY <1>4, <1>5, <2>3 DEF HasAccount
  <2> QED BY <1>4, <2>2, <2>4, <2>5 DEF Sound, NoAccountYet
<1>13. RowsFit' /\ FamiliesNeverMix'
  BY <1>4, <1>7, RowsStay
<1>14. MailedLinksHold'
  BY <1>4, <1>7 DEF Sound, Safe, MailedLinksHold, MailedTokensExist, ConfirmedWereMailed
<1>15. AccountsFit'
  <2>1. UsedInvitationsComplete'
    BY <1>4, <1>7, <1>8 DEF Sound, Safe, AccountsFit, UsedInvitationsComplete, SameFamily
  <2>2. ~IsAdmin(u)
    BY <1>0, <1>2, <1>3 DEF RowsFit, RowFits
  <2>3. \A i \in 1..Len(accounts) :
           /\ accounts[i] \in UserIds /\ ~IsAdmin(accounts[i]) /\ accounts[i] # u
           /\ \A j \in 1..Len(accounts) : accounts[i] = accounts[j] => i = j
    BY <1>3 DEF Sound, Safe, AccountsFit, OneAccountPerInvestor, HasAccount
  <2>4. \A i \in 1..Len(accounts') : i \in 1..Len(accounts) \/ i = Len(accounts')
    BY <1>5
  <2>5. \A v \in UserIds : IsAdmin(v)' <=> IsAdmin(v)
    BY <1>4 DEF IsAdmin
  <2>6. \A i \in 1..Len(accounts') :
           /\ accounts'[i] \in UserIds /\ ~IsAdmin(accounts'[i])
           /\ \A j \in 1..Len(accounts') : accounts'[i] = accounts'[j] => i = j
    BY <1>5, <2>2, <2>3, <2>4
  <2>7. OneAccountPerInvestor'
    BY <1>4, <1>7, <2>6 DEF OneAccountPerInvestor, IsAdmin
  <2> QED BY <2>1, <2>7 DEF AccountsFit
<1>16. answer'[w] = "ok" => AnswerTrue(w)'
  <2>1. users[u].username = call[w].username
    BY <1>0, <1>3 DEF RowsFit, RowFits
  <2> QED BY <1>2, <1>3, <1>4, <1>6, <2>1 DEF AnswerTrue
<1> QED BY <1>9, <1>10, <1>11, <1>12, <1>13, <1>14, <1>15, <1>16, Conclude

LEMMA MailSound ==
    ASSUME Sound, TypeOK', Keeps, NEW w \in Workers, Frame(w), Mail(w)
    PROVE  Sound'
<1>0. TypeOK /\ RowsFit /\ pc[w] \in {"mailConfirm", "mailInvite"}
  BY DEF Sound, Mail
<1>1. CallFits(w) /\ StepFits(w) /\ MadeFits(w)
  BY DEF Sound, WorkersFit
<1>2. PICK kind \in {"confirm", "invite"} : kind = IF pc[w] = "mailConfirm" THEN "confirm" ELSE "invite"
  OBVIOUS
<1>3. PICK m \in Token : /\ m = [kind |-> kind, id |-> made[w], to |-> call[w].email]
                         /\ m.kind = kind /\ m.id = made[w] /\ m.to = call[w].email
  <2>1. made[w] \in Nat /\ call[w].email \in Emails
    BY <1>0, <1>1, Fields DEF StepFits, CallFits
  <2>2. PICK m : m = [kind |-> kind, id |-> made[w], to |-> call[w].email]
    OBVIOUS
  <2> QED BY <1>2, <2>1, <2>2 DEF Token
<1>4. /\ mailed' = mailed \cup {m} /\ pc'[w] = "idle"
      /\ UNCHANGED <<clients, users, accounts, invitations, origin, call, made>>
  BY <1>0, <1>2, <1>3, FinishSets DEF Mail
<1>5. UserIds' = UserIds /\ InvitationIds' = InvitationIds
  BY <1>4 DEF UserIds, InvitationIds
<1>6. \/ call[w].kind = "signUp" /\ kind = "confirm"
      \/ call[w].kind = "invite" /\ kind = "invite"
  BY <1>0, <1>1, <1>2 DEF StepFits
<1>7. CallFits(w)' /\ StepFits(w)' /\ FamilyFits(w)' /\ MadeFits(w)'
  BY <1>1, <1>4, <1>5, <1>6 DEF CallFits, StepFits, FamilyFits, MadeFits
<1>8. ~Founding(w)' /\ FamilyFresh' /\ NoAccountYet'
  BY <1>4, FreshStay, NoAccountStay DEF Founding
<1>9. RowsFit' /\ FamiliesNeverMix'
  BY <1>4, <1>5, RowsStay
<1>10. MailedLinksHold'
  <2>1. IF m.kind = "invite"
        THEN m.id \in InvitationIds' /\ invitations'[m.id].email = m.to
        ELSE m.id \in UserIds' /\ users'[m.id].email = m.to /\ users'[m.id].hasToken
    <3>1. CASE pc[w] = "mailConfirm"
      <4>1. made[w] \in UserIds /\ origin[made[w]] = call[w] /\ call[w].kind = "signUp"
        BY <1>1, <3>1 DEF MadeFits, StepFits
      <4>2. users[made[w]].email = call[w].email /\ users[made[w]].hasToken
        BY <1>0, <4>1 DEF RowsFit, RowFits
      <4> QED BY <1>2, <1>3, <1>4, <1>5, <3>1, <4>1, <4>2
    <3>2. CASE pc[w] = "mailInvite"
      BY <1>1, <1>2, <1>3, <1>4, <1>5, <3>2 DEF MadeFits
    <3> QED BY <1>0, <3>1, <3>2
  <2> QED BY <1>4, <1>5, <2>1, LinksStay
<1>11. AccountsFit'
  BY <1>4, <1>5, <1>9, AccountsStay
<1>12. AnswerTrue(w)'
  BY <1>3, <1>4, <1>6 DEF AnswerTrue
<1> QED BY <1>7, <1>8, <1>9, <1>10, <1>11, <1>12, Conclude

\* The user comes: a founder of a new family, or a member of the family that was read.
LEMMA UserComes ==
    ASSUME Sound, TypeOK', Keeps, NEW w \in Workers, Frame(w), pc[w] = "insertUser",
           UsernameFree(NewUser(w).username), EmailFree(NewUser(w).email),
           users' = Append(users, NewUser(w)), origin' = Append(origin, call[w]),
           UNCHANGED <<clients, accounts, invitations, mailed>>
    PROVE  RowsFit' /\ FamiliesNeverMix' /\ MailedLinksHold' /\ AccountsFit'
<1>0. TypeOK /\ RowsFit
  BY DEF Sound
<1>1. CallFits(w) /\ StepFits(w) /\ FamilyFits(w)
  BY DEF Sound, WorkersFit
<1>2. PICK row \in User : row = NewUser(w)
  BY NewUserTypes
<1>3. PICK c \in Call : c = call[w]
  BY <1>0, Fields
<1>4. PICK n \in Nat : n = Len(users) + 1 /\ n # 0
  BY <1>0 DEF TypeOK
<1>5. /\ users' = Append(users, row) /\ users \in Seq(User)
      /\ origin' = Append(origin, c) /\ origin \in Seq(Call) /\ Len(origin) = Len(users)
  BY <1>0, <1>2, <1>3 DEF TypeOK, RowsFit
<1>6. /\ Len(users') = n /\ Len(origin') = n /\ users'[n] = row /\ origin'[n] = c
      /\ UserIds' = UserIds \cup {n} /\ n \notin UserIds
      /\ \A u \in UserIds : users'[u] = users[u] /\ origin'[u] = origin[u] /\ u < n
  BY <1>4, <1>5 DEF UserIds
<1>7. InvitationIds' = InvitationIds
  BY DEF InvitationIds
<1>8. c.kind \in {"signUp", "redeem", "createUser"}
  BY <1>1, <1>3 DEF StepFits
<1>9. /\ row.client = family[w] /\ row.username = c.username
      /\ row.role = IF c.kind = "signUp" THEN "Admin" ELSE "Investor"
      /\ row.email = IF c.kind = "redeem" THEN invitations[c.token].email ELSE c.email
      /\ row.hasToken = (c.kind = "signUp")
      /\ row.confirmed = (c.kind = "redeem")
  BY <1>2, <1>3 DEF NewUser
<1>10. /\ family[w] <= clients
       /\ c.kind = "redeem" => /\ c.token \in InvitationIds
                               /\ Mailed("invite", c.token)
                               /\ family[w] = users[invitations[c.token].inviter].client
       /\ c.kind = "createUser" => c.me \in UserIds /\ family[w] = users[c.me].client
  BY <1>1, <1>3 DEF FamilyFits, CallFits
<1>11. c.kind = "redeem" => \E m \in mailed : m.to = row.email
  <2>1. SUFFICES ASSUME c.kind = "redeem"
                 PROVE  \E m \in mailed : m.to = row.email
    OBVIOUS
  <2>2. PICK m \in mailed : m.kind = "invite" /\ m.id = c.token
    BY <1>10, <2>1 DEF Mailed
  <2>3. m.to = invitations[c.token].email
    BY <2>2 DEF Sound, Safe, MailedLinksHold, MailedTokensExist
  <2> QED BY <1>9, <2>1, <2>3
<1>12. RowFits(n)'
  <2>1. row.role = "Admin" <=> c.kind = "signUp"
    BY <1>9
  <2>2. row.hasToken <=> c.kind = "signUp"
    BY <1>9
  <2>3. c.kind = "redeem" => row.email = invitations[c.token].email
    BY <1>9
  <2>4. c.kind # "redeem" => row.email = c.email
    BY <1>9
  <2> QED BY <1>6, <1>7, <1>8, <1>9, <1>10, <1>11, <2>1, <2>2, <2>3, <2>4 DEF RowFits, IsAdmin
<1>13. RowsFit'
  <2>1. \A u \in UserIds' : RowFits(u)'
    BY <1>6, <1>12, RowStays
  <2>2. \A t \in InvitationIds' : invitations'[t].inviter \in UserIds'
    BY <1>0, <1>6, <1>7 DEF RowsFit
  <2>3. row.email # None => \A u \in UserIds : users[u].email # row.email
    BY <1>2 DEF EmailFree
  <2>4. \A u, v \in UserIds' : users'[u].email = users'[v].email /\ users'[u].email # None => u = v
    <3>1. SUFFICES ASSUME NEW u \in UserIds', NEW v \in UserIds',
                          users'[u].email = users'[v].email, users'[u].email # None
                   PROVE  u = v
      OBVIOUS
    <3>2. UserIds' = UserIds \cup {n} /\ users'[n] = row
      BY <1>6
    <3>3. \A x \in UserIds : users'[x] = users[x]
      BY <1>6
    <3>4. CASE u \in UserIds /\ v \in UserIds
      BY <1>0, <3>1, <3>3, <3>4 DEF RowsFit
    <3>5. CASE u = n /\ v \in UserIds
      BY <2>3, <3>1, <3>2, <3>3, <3>5
    <3>6. CASE u \in UserIds /\ v = n
      BY <2>3, <3>1, <3>2, <3>3, <3>6
    <3> QED BY <3>1, <3>2, <3>4, <3>5, <3>6
  <2> QED BY <1>6, <2>1, <2>2, <2>4 DEF RowsFit
<1>14. FamiliesNeverMix'
  <2>1. ASSUME NEW u \in UserIds
        PROVE  FamilyTrue(u)'
    <3>1. FamilyTrue(u) /\ RowFits(u)
      BY <1>0, FamilyByKind DEF RowsFit
    <3>2. PICK o : o = origin[u] /\ o = origin'[u]
      BY <1>6
    <3>3. \A v \in 1..(u - 1) : v \in UserIds
      BY DEF UserIds
    <3>4. o.kind = "redeem" => o.token \in InvitationIds /\ invitations[o.token].inviter \in UserIds
      BY <1>0, <3>1, <3>2 DEF RowFits, RowsFit
    <3>5. o.kind = "createUser" => o.me \in UserIds
      BY <3>1, <3>2 DEF RowFits
    <3>6. users'[u].client = users[u].client
      BY <1>6
    <3>7. ASSUME o.kind = "signUp", NEW v \in 1..(u - 1)
          PROVE  users'[u].client # users'[v].client
      <4>1. users[u].client # users[v].client
        BY <3>1, <3>2, <3>7 DEF FamilyTrue, SameFamily
      <4>2. users'[v].client = users[v].client
        BY <1>6, <3>3
      <4> QED BY <3>6, <4>1, <4>2
    <3>8. ASSUME o.kind = "redeem"
          PROVE  users'[u].client = users'[invitations'[o.token].inviter].client
      <4>1. users[u].client = users[invitations[o.token].inviter].client
        BY <3>1, <3>2, <3>8 DEF FamilyTrue, SameFamily
      <4>2. users'[invitations[o.token].inviter].client = users[invitations[o.token].inviter].client
        BY <1>6, <3>4, <3>8
      <4> QED BY <3>6, <4>1, <4>2
    <3>9. ASSUME o.kind = "createUser"
          PROVE  users'[u].client = users'[o.me].client
      <4>1. users[u].client = users[o.me].client
        BY <3>1, <3>2, <3>9 DEF FamilyTrue, SameFamily
      <4>2. users'[o.me].client = users[o.me].client
        BY <1>6, <3>5, <3>9
      <4> QED BY <3>6, <4>1, <4>2
    <3> QED BY <3>2, <3>7, <3>8, <3>9 DEF FamilyTrue, SameFamily
  <2>2. FamilyTrue(n)'
    <3>1. ASSUME c.kind = "signUp", NEW v \in 1..(n - 1)
          PROVE  users'[n].client # users'[v].client
      <4>1. Founding(w)
        BY <1>3, <3>1 DEF Founding
      <4>2. \A u \in UserIds : users[u].client # family[w]
        BY <4>1 DEF Sound, FamilyFresh
      <4>3. v \in UserIds
        BY <1>4, <1>5 DEF UserIds
      <4> QED BY <1>6, <1>9, <4>2, <4>3
    <3>2. ASSUME c.kind = "redeem"
          PROVE  users'[n].client = users'[invitations[c.token].inviter].client
      <4>1. invitations[c.token].inviter \in UserIds
        BY <1>0, <1>10, <3>2 DEF RowsFit
      <4> QED BY <1>6, <1>9, <1>10, <3>2, <4>1
    <3>3. ASSUME c.kind = "createUser"
          PROVE  users'[n].client = users'[c.me].client
      BY <1>6, <1>9, <1>10, <3>3
    <3> QED BY <1>6, <3>1, <3>2, <3>3 DEF FamilyTrue, SameFamily
  <2> QED BY <1>6, <1>13, <2>1, <2>2, FamilyByKindAfter
<1>15. MailedLinksHold'
  <2>1. \A u \in UserIds' : users'[u].confirmed =>
            (u \in UserIds /\ users[u].confirmed) \/ \E m \in mailed : m.to = users'[u].email
    <3>1. ASSUME NEW u \in UserIds, users'[u].confirmed PROVE users[u].confirmed
      BY <1>6, <3>1
    <3>2. row.confirmed => \E m \in mailed : m.to = row.email
      BY <1>9, <1>11
    <3>3. \A u \in UserIds' : u \in UserIds \/ u = n
      BY <1>6
    <3>4. users'[n] = row
      BY <1>6
    <3> QED BY <3>1, <3>2, <3>3, <3>4
  <2> QED BY <2>1, LinksStay
<1>16. AccountsFit'
  BY <1>7, <1>13, AccountsStay
<1> QED BY <1>13, <1>14, <1>15, <1>16

LEMMA InsertUserSound ==
    ASSUME Sound, TypeOK', Keeps, NEW w \in Workers, Frame(w), InsertUser(w)
    PROVE  Sound'
<1>0. TypeOK /\ RowsFit /\ pc[w] = "insertUser"
  BY DEF Sound, InsertUser
<1>1. CallFits(w) /\ StepFits(w) /\ FamilyFits(w)
  BY DEF Sound, WorkersFit
<1>2. CASE /\ UsernameFree(NewUser(w).username) /\ EmailFree(NewUser(w).email)
           /\ users' = Append(users, NewUser(w))
           /\ origin' = Append(origin, call[w])
           /\ made' = [made EXCEPT ![w] = Len(users) + 1]
           /\ Goto(w, AfterInsertUser(w))
           /\ UNCHANGED <<answer, family>>
  <2>1. UNCHANGED <<clients, accounts, invitations, mailed, call>>
    BY DEF InsertUser
  <2>2. RowsFit' /\ FamiliesNeverMix' /\ MailedLinksHold' /\ AccountsFit'
    BY <1>0, <1>2, <2>1, UserComes
  <2>3. PICK n : n = Len(users) + 1
    OBVIOUS
  <2>4. PICK c : c = call[w]
    OBVIOUS
  <2>5. /\ made'[w] = n /\ origin'[n] = c /\ n \in UserIds' /\ n \notin UserIds
        /\ Len(users) \in Nat /\ users'[n] = NewUser(w)
        /\ \A u \in UserIds' : u \in UserIds \/ u = n
    <3>1. users \in Seq(User) /\ origin \in Seq(Call) /\ Len(origin) = Len(users) /\ made \in [Workers -> Nat]
      BY <1>0 DEF TypeOK, RowsFit
    <3>2. PICK row : row = NewUser(w) /\ users' = Append(users, row)
      BY <1>2
    <3> QED BY <1>2, <2>3, <2>4, <3>1, <3>2 DEF UserIds
  <2>6. pc'[w] = IF c.kind = "signUp" THEN "mailConfirm" ELSE "insertAccount"
    BY <1>0, <1>2, <2>4, GotoSets DEF AfterInsertUser
  <2>7. c.kind \in {"signUp", "redeem", "createUser"} /\ answer[w] = "none"
    BY <1>0, <1>1, <2>4 DEF StepFits
  <2>8. CallFits(w)'
    BY <1>0, <1>1, <2>1, <2>4, <2>7 DEF CallFits, Mailed, Keeps, UserIds, TypeOK
  <2>9. StepFits(w)' /\ FamilyFits(w)' /\ MadeFits(w)' /\ ~Founding(w)'
    BY <1>2, <2>1, <2>4, <2>5, <2>6, <2>7 DEF StepFits, FamilyFits, MadeFits, Founding
  <2>10. FamilyFresh'
    <3>1. SUFFICES ASSUME NEW v \in Workers, Founding(v)'
                   PROVE  /\ \A u \in UserIds' : users'[u].client # family'[v]
                          /\ \A x \in Workers : Founding(x)' /\ family'[x] = family'[v] => x = v
      BY DEF FamilyFresh
    <3>2. v # w /\ Founding(v) /\ family'[v] = family[v]
      BY <2>9, <3>1 DEF Founding, Frame
    <3>3. \A x \in Workers : Founding(x)' => x # w /\ Founding(x) /\ family'[x] = family[x]
      BY <2>9 DEF Founding, Frame
    <3>4. \A u \in UserIds : users[u].client # family[v]
      BY <3>2 DEF Sound, FamilyFresh
    <3>5. family[w] # family[v]
      <4>1. CASE c.kind = "signUp"
        BY <1>0, <2>4, <3>2, <4>1 DEF Sound, FamilyFresh, Founding
      <4>2. CASE c.kind = "redeem"
        BY <1>0, <1>1, <2>4, <3>4, <4>2 DEF FamilyFits, RowsFit
      <4>3. CASE c.kind = "createUser"
        BY <1>0, <1>1, <2>4, <3>4, <4>3 DEF FamilyFits, CallFits
      <4> QED BY <2>7, <4>1, <4>2, <4>3
    <3>6. users'[n].client = family[w]
      BY <2>5 DEF NewUser
    <3>7. \A u \in UserIds : users'[u].client = users[u].client
      BY DEF Keeps
    <3>8. \A x \in Workers : Founding(x) /\ family[x] = family[v] => x = v
      BY <3>2 DEF Sound, FamilyFresh
    <3> QED BY <2>5, <3>2, <3>3, <3>4, <3>5, <3>6, <3>7, <3>8
  <2>11. NoAccountYet'
    <3>1. \A i \in 1..Len(accounts) : accounts[i] # n
      BY <2>5 DEF Sound, Safe, AccountsFit, OneAccountPerInvestor
    <3>2. \A v \in Workers : v # w /\ pc'[v] = "insertAccount" =>
              pc[v] = "insertAccount" /\ made[v] \in UserIds /\ made'[v] = made[v]
      BY DEF Sound, WorkersFit, MadeFits, Frame
    <3>3. ~HasAccount(n)' /\ \A v \in Workers : v # w /\ pc'[v] = "insertAccount" => ~HasAccount(made[v])'
      BY <2>1, <3>1, <3>2 DEF HasAccount, Sound, NoAccountYet
    <3>4. \A v, x \in Workers : v # w /\ x # w /\ pc'[v] = "insertAccount" /\ pc'[x] = "insertAccount"
                                /\ made[v] = made[x] => v = x
      BY <3>2 DEF Sound, NoAccountYet
    <3>5. \A v \in Workers : v # w /\ pc'[v] = "insertAccount" => made'[v] # n
      BY <2>5, <3>2
    <3>6. ASSUME NEW v \in Workers, pc'[v] = "insertAccount"
          PROVE  ~ \E i \in 1..Len(accounts') : accounts'[i] = made'[v]
      BY <2>5, <3>2, <3>3, <3>6 DEF HasAccount
    <3> QED BY <2>5, <3>2, <3>4, <3>5, <3>6 DEF NoAccountYet, HasAccount
  <2> QED BY <1>2, <2>2, <2>7, <2>8, <2>9, <2>10, <2>11, Conclude
<1>3. CASE Finish(w, "refused") /\ UNCHANGED <<users, origin, made>>
  <2>1. UNCHANGED tables /\ UNCHANGED <<call, made>>
    BY <1>3 DEF InsertUser, tables
  <2> QED BY <1>0, <1>3, <2>1, FinishSets, EndSound
<1> QED BY <1>2, <1>3 DEF InsertUser

-----------------------------------------------------------------------------
(* The invariant and its theorems *)

LEMMA StutterSound ==
    ASSUME Sound, UNCHANGED vars
    PROVE  Sound'
<1> USE DEF vars
<1>1. TypeOK'
  BY DEF Sound, TypeOK
<1>2. RowsFit'
  BY DEF Sound, RowsFit, RowFits, UserIds, InvitationIds, IsAdmin
<1>3. WorkersFit'
  BY DEF Sound, WorkersFit, CallFits, StepFits, FamilyFits, MadeFits, UserIds, InvitationIds,
         HasAccount, Mailed
<1>4. FamilyFresh' /\ NoAccountYet'
  BY DEF Sound, FamilyFresh, NoAccountYet, Founding, UserIds, HasAccount
<1>5. FamiliesNeverMix'
  <2>1. Keeps /\ InvitationIds' = InvitationIds
    BY StillKeeps DEF Sound, tables, InvitationIds
  <2> QED BY <1>1, <2>1, RowsStay
<1>7. MailedLinksHold'
  BY DEF Sound, Safe, MailedLinksHold, MailedTokensExist, ConfirmedWereMailed, UserIds
<1>8. AccountsFit'
  BY DEF Sound, Safe, AccountsFit, UsedInvitationsComplete, OneAccountPerInvestor, UserIds,
         SameFamily, IsAdmin, HasAccount
<1>6. AnswersMatchRows'
  BY DEF Sound, Safe, AnswersMatchRows, HasAccount, UserIds, IsAdmin, SameFamily
<1> QED BY <1>1, <1>2, <1>3, <1>4, <1>5, <1>6, <1>7, <1>8 DEF Sound, Safe

LEMMA NextSound ==
    ASSUME Sound, [Next]_vars
    PROVE  Sound'
<1>1. ASSUME NEW w \in Workers, Receive(w)
      PROVE  Sound'
  BY <1>1, ReceiveSound
<1>2. ASSUME NEW w \in Workers, Serve(w)
      PROVE  Sound'
  <2>1. TypeOK' /\ Keeps /\ Frame(w)
    BY <1>2, ServeTypes, ServeKeeps, ServeFrame DEF Sound
  <2> QED BY <1>2, <2>1, ServeReads, InsertClientSound, InsertInvitationSound, UseInvitationSound,
             InsertUserSound, InsertAccountSound, MailSound DEF Serve
<1>3. CASE UNCHANGED vars
  BY <1>3, StutterSound
<1> QED BY <1>1, <1>2, <1>3 DEF Next, Quiescent

LEMMA Soundness == Spec => []Sound
<1>1. Init => Sound
  BY InitSound
<1>2. Sound /\ [Next]_vars => Sound'
  BY NextSound
<1> QED BY <1>1, <1>2, PTL DEF Spec

\* Every variable has its type, whatever calls come and however they interleave.
THEOREM OnboardingTypes == Spec => []TypeOK
<1>1. Sound => TypeOK
  BY DEF Sound
<1> QED BY <1>1, Soundness, PTL

\* A member of a family came through an admin of that family, and a founder was its
\* first member, although the client of a row is read or inserted statements before.
THEOREM FamiliesAreKept == Spec => []FamiliesNeverMix
<1>1. Sound => FamiliesNeverMix
  BY DEF Sound, Safe
<1> QED BY <1>1, Soundness, PTL

\* A mailed link stands for a row with that address, even if the request failed after
\* the mail, and only an address that something was mailed to is confirmed.
THEOREM LinksWork == Spec => []MailedLinksHold
<1>1. Sound => MailedLinksHold
  BY DEF Sound, Safe
<1> QED BY <1>1, Soundness, PTL

\* However often, and by how many workers at once, an invitation is redeemed, one user
\* comes of it: the users of a token would have one email, and emails are unique.
THEOREM OneUserPerInvitation == Spec => []InvitationRedeemedOnce
<1>1. Sound => InvitationRedeemedOnce
  <2>1. SUFFICES ASSUME Sound, NEW u \in UserIds, NEW v \in UserIds,
                        origin[u].kind = "redeem", origin[v].kind = "redeem",
                        origin[u].token = origin[v].token
                 PROVE  u = v
    BY DEF InvitationRedeemedOnce
  <2>2. PICK t \in InvitationIds : /\ users[u].email = invitations[t].email
                                   /\ users[v].email = invitations[t].email
    BY <2>1 DEF Sound, RowsFit, RowFits
  <2>3. invitations[t].email \in Emails /\ None \notin Emails
    BY <2>1, Fields, OnboardingAssumption DEF Sound
  <2> QED BY <2>1, <2>2, <2>3 DEF Sound, RowsFit
<1> QED BY <1>1, Soundness, PTL

\* A used invitation has its user, in the inviter's family and with an account, every
\* account is an investor's, and nobody has two, also when statements fail in between.
THEOREM AccountsAreRight == Spec => []AccountsFit
<1>1. Sound => AccountsFit
  BY DEF Sound, Safe
<1> QED BY <1>1, Soundness, PTL

\* What a request answers with success is in the tables, and stays there.
THEOREM AnswersAreRight == Spec => []AnswersMatchRows
<1>1. Sound => AnswersMatchRows
  BY DEF Sound, Safe
<1> QED BY <1>1, Soundness, PTL

=============================================================================
