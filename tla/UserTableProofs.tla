--------------------------- MODULE UserTableProofs ---------------------------
(***************************************************************************)
(* Proofs about the composition UserTable, whose theorems for Onboarding   *)
(* are those of OnboardingProofs, and about Passwords, for any users,      *)
(* names and number of calls: that of the links mailed to a user the       *)
(* newest counts, and that sign-ins and resets are answered by what was    *)
(* stored.                                                                 *)
(*                                                                         *)
(* A call writes its own token once and mails it afterwards, so that a     *)
(* token that was mailed is never written again (TokensFit): a link that   *)
(* is dead stays dead while the reset it is used for walks through its     *)
(* statements (CallsFit).                                                  *)
(***************************************************************************)
EXTENDS UserTable, OnboardingProofs

MailedTo(u, token) == \E j \in 1..Len(mails) : mails[j].to = u /\ mails[j].token = token

\* What a call knows at its statement.
StageFits(c) ==
    LET k == asked[c]
    IN  /\ stage[c] = "new" <=> k.op = "none"
        /\ stage[c] \in {"new", "find", "findToken"} => user[c] = None /\ ~(c \in wrote)
        /\ stage[c] = "find" => k.op \in {"signIn", "requestReset"}
        /\ stage[c] = "verify" => k.op = "signIn"
        /\ stage[c] \in {"storeToken", "mail"} => k.op = "requestReset"
        /\ stage[c] \in {"findToken", "encrypt", "storeHash"} => k.op = "reset"
        /\ stage[c] = "jwt" => k.op \in {"signIn", "reset"}
        /\ stage[c] \in {"verify", "storeToken", "mail", "encrypt", "storeHash", "jwt"} =>
              user[c] \in Users
        /\ stage[c] = "storeHash" => k.password \in Encryptable
        /\ stage[c] # "done" => reply[c] = "none"

\* What a sign-in has read.
SignInFits(c) ==
    asked[c].op = "signIn" /\ user[c] # None =>
        /\ stage[c] \in {"verify", "jwt"} => read[c] \in since[c]
        /\ stage[c] = "jwt" => read[c] = asked[c].password
        /\ reply[c] = "ok" => asked[c].password \in since[c]
        /\ reply[c] = "refused" => since[c] # {asked[c].password}

\* What a reset has found: a link that was mailed to its user, and was the newest.
ResetFits(c) ==
    /\ asked[c].op = "reset" => asked[c].token \in P!MailedTokens \cup {None}
    /\ expired[c] => /\ asked[c].op = "reset"
                     /\ \A u \in Users : resetToken[u] # asked[c].token
    /\ stage[c] \in {"encrypt", "storeHash"} \/ c \in wrote =>
          /\ asked[c].op = "reset"
          /\ ~expired[c]
          /\ MailedTo(user[c], asked[c].token)
    /\ c \in wrote => stage[c] \in {"jwt", "done"} /\ reply[c] # "refused"
    /\ asked[c].op = "reset" /\ (stage[c] = "jwt" \/ reply[c] = "ok") => c \in wrote

CallsFit == \A c \in Calls : StageFits(c) /\ SignInFits(c) /\ ResetFits(c)

\* A token is written before it is mailed, once, for the user of its call.
TokensFit ==
    /\ \A u \in Users : resetToken[u] # None =>
          stage[resetToken[u]] \in {"mail", "done"} /\ user[resetToken[u]] = u
    /\ \A j \in 1..Len(mails) :
          stage[mails[j].token] = "done" /\ user[mails[j].token] = mails[j].to

\* While a link is being mailed to a user, and no other, it is the one stored.
MailingFits ==
    \A c \in Calls : stage[c] = "mail" /\ user[c] \notin unclear =>
        /\ resetToken[user[c]] = c
        /\ \A d \in Calls : stage[d] = "mail" /\ user[d] = user[c] => d = c

PasswordsSound == P!TypeOK /\ CallsFit /\ TokensFit /\ MailingFits /\ P!NewestLinkWorks

-----------------------------------------------------------------------------
(* Calls *)

KnownCalls == P!SignIns \cup P!Requests \cup P!Resets

\* The fields of a call are those of its mutation.
LEMMA CallKinds ==
    ASSUME NEW k \in KnownCalls \cup {P!NoCall}
    PROVE  /\ k.op \in {"none", "signIn", "requestReset", "reset"}
           /\ k.op = "none" <=> k = P!NoCall
           /\ k.op = "signIn" => k.name \in Names /\ k.password \in Passwords
           /\ k.op = "requestReset" => k.name \in Names
           /\ k.op = "reset" => k.token \in Calls \cup {None} /\ k.password \in Passwords
BY DEF KnownCalls, P!SignIns, P!Requests, P!Resets, P!NoCall

\* The fields of a mail.
LEMMA MailFields ==
    ASSUME P!TypeOK, NEW j \in 1..Len(mails)
    PROVE  mails[j] \in P!Mail /\ mails[j].to \in Users /\ mails[j].token \in Calls
<1>1. mails[j] \in P!Mail
  BY DEF P!TypeOK
<1> QED BY <1>1 DEF P!Mail

LEMMA PasswordsInitSound ==
    ASSUME P!PasswordsAssumption, P!Init
    PROVE  PasswordsSound
<1> USE DEF P!Init, P!PasswordsAssumption
<1>0. P!NoCall.op = "none"
  BY DEF P!NoCall
<1>1. P!TypeOK
  BY DEF P!TypeOK
<1>2. CallsFit
  BY <1>0 DEF CallsFit, StageFits, SignInFits, ResetFits
<1>3. TokensFit /\ MailingFits
  BY DEF TokensFit, MailingFits
<1>4. P!NewestLinkWorks
  BY DEF P!NewestLinkWorks
<1> QED BY <1>1, <1>2, <1>3, <1>4 DEF PasswordsSound

-----------------------------------------------------------------------------
(* Types *)

Stages == {"new", "find", "verify", "storeToken", "mail", "findToken",
           "encrypt", "storeHash", "jwt", "done"}

LEMMA StepTypes ==
    ASSUME P!PasswordsAssumption, PasswordsSound, P!Next
    PROVE  P!TypeOK'
<1>0. P!TypeOK /\ CallsFit
  BY DEF PasswordsSound
<1>1. \A c \in Calls, s \in Stages : P!Goto(c, s) => stage' \in [Calls -> Stages]
  BY <1>0 DEF P!TypeOK, P!Goto, Stages
<1>2. \A c \in Calls, r \in {"none", "ok", "refused", "failed"} : P!Finish(c, r) =>
          /\ stage' \in [Calls -> Stages]
          /\ reply' \in [Calls -> {"none", "ok", "refused", "failed"}]
  <2>1. "done" \in Stages
    BY DEF Stages
  <2> QED BY <1>0, <1>1, <2>1 DEF P!TypeOK, P!Finish
<1>3. Stages = {"new", "find", "verify", "storeToken", "mail", "findToken",
                "encrypt", "storeHash", "jwt", "done"}
  BY DEF Stages
<1>4. ASSUME NEW c \in Calls, NEW k \in KnownCalls, P!Arrive(c, k)
      PROVE  P!TypeOK'
  <2>1. stage' \in [Calls -> Stages]
    BY <1>1, <1>3, <1>4 DEF P!Arrive
  <2>2. /\ asked' \in [Calls -> KnownCalls \cup {P!NoCall}]
        /\ expired' \in [Calls -> BOOLEAN]
    BY <1>0, <1>4 DEF P!TypeOK, P!Arrive, KnownCalls
  <2> QED BY <1>0, <1>4, <2>1, <2>2 DEF P!TypeOK, P!Arrive, Stages, KnownCalls
<1>5. ASSUME NEW c \in Calls, P!Find(c)
      PROVE  P!TypeOK'
  <2>1. Called[asked[c].name] \subseteq Users
    <3>1. asked[c] \in KnownCalls \cup {P!NoCall} /\ asked[c].op \in {"signIn", "requestReset"}
      BY <1>0, <1>5 DEF P!TypeOK, CallsFit, StageFits, P!Find, KnownCalls
    <3>2. asked[c].name \in Names
      BY <3>1, CallKinds
    <3> QED BY <3>2 DEF P!PasswordsAssumption
  <2>2. stage' \in [Calls -> Stages] /\ reply' \in [Calls -> {"none", "ok", "refused", "failed"}]
    <3>1. \/ \E s \in {"verify", "storeToken"} : P!Goto(c, s) /\ UNCHANGED reply
          \/ P!Finish(c, "refused")
      BY <1>5 DEF P!Find
    <3> QED BY <1>0, <1>1, <1>2, <1>3, <3>1 DEF P!TypeOK
  <2>3. user' \in [Calls -> Users \cup {None}]
    BY <1>0, <1>5, <2>1 DEF P!TypeOK, P!Find
  <2>4. read' \in [Calls -> Passwords \cup {None}] /\ since' \in [Calls -> SUBSET Passwords]
    <3>1. \A u \in Users : hash[u] \in Passwords
      BY <1>0 DEF P!TypeOK, P!PasswordsAssumption
    <3>2. \/ UNCHANGED <<read, since>>
          \/ \E u \in Users : /\ read' = [read EXCEPT ![c] = hash[u]]
                              /\ since' = [since EXCEPT ![c] = {hash[u]}]
      BY <1>5, <2>1 DEF P!Find
    <3> QED BY <1>0, <3>1, <3>2 DEF P!TypeOK
  <2>5. UNCHANGED <<hash, resetToken, mails, asked, expired, wrote, unclear>>
    BY <1>5 DEF P!Find
  <2> QED BY <1>0, <2>2, <2>3, <2>4, <2>5 DEF P!TypeOK, Stages
<1>6. ASSUME NEW c \in Calls, P!Verify(c) \/ P!Encrypt(c) \/ P!MakeJwt(c)
      PROVE  P!TypeOK'
  <2>1. \/ \E s \in {"jwt", "storeHash"} : P!Goto(c, s) /\ UNCHANGED reply
        \/ \E r \in {"refused", "ok"} : P!Finish(c, r)
    BY <1>6 DEF P!Verify, P!Encrypt, P!MakeJwt
  <2>2. stage' \in [Calls -> Stages] /\ reply' \in [Calls -> {"none", "ok", "refused", "failed"}]
    BY <1>0, <1>1, <1>2, <1>3, <2>1 DEF P!TypeOK
  <2>3. UNCHANGED <<hash, resetToken, mails, asked, user, read, P!historyVars>>
    BY <1>6 DEF P!Verify, P!Encrypt, P!MakeJwt
  <2> QED BY <1>0, <2>2, <2>3 DEF P!TypeOK, P!historyVars, Stages
<1>7. ASSUME NEW c \in Calls, P!StoreToken(c)
      PROVE  P!TypeOK'
  <2>1. user[c] \in Users
    BY <1>0, <1>7 DEF CallsFit, StageFits, P!StoreToken
  <2>2. stage' \in [Calls -> Stages]
    BY <1>1, <1>3, <1>7 DEF P!StoreToken
  <2> QED BY <1>0, <1>7, <2>1, <2>2 DEF P!TypeOK, P!StoreToken, Stages
<1>8. ASSUME NEW c \in Calls, P!SendLink(c)
      PROVE  P!TypeOK'
  <2>1. [to |-> user[c], token |-> c] \in P!Mail
    BY <1>0, <1>8 DEF CallsFit, StageFits, P!SendLink, P!Mail
  <2>2. mails' \in Seq(P!Mail)
    BY <1>0, <1>8, <2>1 DEF P!TypeOK, P!SendLink
  <2>3. stage' \in [Calls -> Stages] /\ reply' \in [Calls -> {"none", "ok", "refused", "failed"}]
    <3>1. \E r \in {"ok", "failed"} : P!Finish(c, r)
      BY <1>8 DEF P!SendLink
    <3> QED BY <1>2, <3>1
  <2>4. UNCHANGED <<hash, resetToken, asked, user, read, P!historyVars>>
    BY <1>8 DEF P!SendLink
  <2> QED BY <1>0, <2>2, <2>3, <2>4 DEF P!TypeOK, P!historyVars, Stages
<1>9. ASSUME NEW c \in Calls, P!FindToken(c)
      PROVE  P!TypeOK'
  <2>1. stage' \in [Calls -> Stages] /\ reply' \in [Calls -> {"none", "ok", "refused", "failed"}]
    <3>1. \/ P!Goto(c, "encrypt") /\ UNCHANGED reply
          \/ P!Finish(c, "refused")
      BY <1>9 DEF P!FindToken
    <3> QED BY <1>0, <1>1, <1>2, <1>3, <3>1 DEF P!TypeOK
  <2>2. user' \in [Calls -> Users \cup {None}]
    BY <1>0, <1>9 DEF P!TypeOK, P!FindToken, P!HolderOf
  <2>3. UNCHANGED <<hash, resetToken, mails, asked, read, P!historyVars>>
    BY <1>9 DEF P!FindToken
  <2> QED BY <1>0, <2>1, <2>2, <2>3 DEF P!TypeOK, P!historyVars, Stages
<1>10. ASSUME NEW c \in Calls, P!StoreHash(c)
       PROVE  P!TypeOK'
  <2>1. user[c] \in Users /\ asked[c].password \in Encryptable /\ asked[c].password \in Passwords
    BY <1>0, <1>10 DEF CallsFit, StageFits, P!StoreHash, P!PasswordsAssumption
  <2>2. stage' \in [Calls -> Stages]
    BY <1>1, <1>3, <1>10 DEF P!StoreHash
  <2>3. hash' \in [Users -> Encryptable]
    BY <1>0, <1>10, <2>1 DEF P!TypeOK, P!StoreHash
  <2>4. since' \in [Calls -> SUBSET Passwords]
    <3>1. PICK p \in Passwords : p = asked[c].password
      BY <2>1
    <3>2. PICK u : u = user[c]
      OBVIOUS
    <3>3. since' = [d \in Calls |-> IF stage[d] \in {"verify", "jwt"} /\ user[d] = u
                                    THEN since[d] \cup {p} ELSE since[d]]
      BY <1>10, <3>1, <3>2 DEF P!StoreHash
    <3>4. \A d \in Calls : since[d] \in SUBSET Passwords /\ since[d] \cup {p} \in SUBSET Passwords
      BY <1>0 DEF P!TypeOK
    <3> QED BY <3>3, <3>4
  <2>5. wrote' \subseteq Calls
    BY <1>0, <1>10 DEF P!TypeOK, P!StoreHash
  <2>6. UNCHANGED <<resetToken, mails, asked, user, read, reply, expired, unclear>>
    BY <1>10 DEF P!StoreHash
  <2> QED BY <1>0, <2>2, <2>3, <2>4, <2>5, <2>6 DEF P!TypeOK, Stages
<1>11. ASSUME NEW c \in Calls, P!Fail(c)
       PROVE  P!TypeOK'
  <2>1. stage' \in [Calls -> Stages] /\ reply' \in [Calls -> {"none", "ok", "refused", "failed"}]
    BY <1>2, <1>11 DEF P!Fail
  <2>2. unclear' \subseteq Users
    BY <1>0, <1>11 DEF P!TypeOK, P!Fail, CallsFit, StageFits
  <2>3. UNCHANGED <<hash, resetToken, mails, asked, user, read, since, expired, wrote>>
    BY <1>11 DEF P!Fail
  <2> QED BY <1>0, <2>1, <2>2, <2>3 DEF P!TypeOK, Stages
<1>12. CASE P!Quiescent
  BY <1>0, <1>12 DEF P!TypeOK, P!Quiescent, P!vars, P!historyVars
<1> QED BY <1>4, <1>5, <1>6, <1>7, <1>8, <1>9, <1>10, <1>11, <1>12 DEF P!Next, P!Serve, KnownCalls

-----------------------------------------------------------------------------
(* What a step keeps *)

\* Mails stay, and a token that is written is the writer's own.
PasswordsKeeps(c) ==
    /\ Len(mails) <= Len(mails')
    /\ \A j \in 1..Len(mails) : mails'[j] = mails[j]
    /\ \A u \in Users :
          \/ resetToken'[u] = resetToken[u]
          \/ resetToken'[u] = c /\ stage[c] = "storeToken"

\* The other calls do nothing, but the passwords of the users they sign in may change.
PasswordsFrame(c) ==
    \A d \in Calls \ {c} :
        /\ stage'[d] = stage[d]
        /\ asked'[d] = asked[d]
        /\ user'[d] = user[d]
        /\ read'[d] = read[d]
        /\ reply'[d] = reply[d]
        /\ expired'[d] = expired[d]
        /\ d \in wrote' <=> d \in wrote
        /\ since[d] \subseteq since'[d]
        /\ stage[d] \notin {"verify", "jwt"} => since'[d] = since[d]

LEMMA ArriveFrame ==
    ASSUME P!TypeOK, NEW c \in Calls, NEW k, P!Arrive(c, k)
    PROVE  PasswordsFrame(c) /\ PasswordsKeeps(c)
BY DEF P!TypeOK, P!Arrive, P!Goto, PasswordsFrame, PasswordsKeeps

LEMMA PasswordsServeFrame ==
    ASSUME P!TypeOK, NEW c \in Calls, P!Serve(c)
    PROVE  PasswordsFrame(c) /\ PasswordsKeeps(c)
<1> USE DEF P!TypeOK, P!Goto, P!Finish, P!historyVars
<1>1. CASE P!Find(c)
  BY <1>1 DEF P!Find, PasswordsFrame, PasswordsKeeps
<1>2. CASE P!Verify(c) \/ P!Encrypt(c) \/ P!MakeJwt(c) \/ P!FindToken(c)
  BY <1>2 DEF P!Verify, P!Encrypt, P!MakeJwt, P!FindToken, PasswordsFrame, PasswordsKeeps
<1>3. CASE P!StoreToken(c)
  BY <1>3 DEF P!StoreToken, PasswordsFrame, PasswordsKeeps
<1>4. CASE P!SendLink(c)
  <2>1. PICK m : mails' = Append(mails, m)
    BY <1>4 DEF P!SendLink
  <2>2. mails \in Seq(P!Mail)
    OBVIOUS
  <2>3. Len(mails) <= Len(mails') /\ \A j \in 1..Len(mails) : mails'[j] = mails[j]
    BY <2>1, <2>2
  <2> QED BY <1>4, <2>3 DEF P!SendLink, PasswordsFrame, PasswordsKeeps
<1>5. CASE P!StoreHash(c)
  BY <1>5 DEF P!StoreHash, PasswordsFrame, PasswordsKeeps
<1>6. CASE P!Fail(c)
  BY <1>6 DEF P!Fail, PasswordsFrame, PasswordsKeeps
<1> QED BY <1>1, <1>2, <1>3, <1>4, <1>5, <1>6 DEF P!Serve

\* A token that was mailed, or is none, is not written any more.
LEMMA MailedIsWritten ==
    ASSUME P!PasswordsAssumption, PasswordsSound, NEW c \in Calls, PasswordsKeeps(c),
           NEW token \in P!MailedTokens \cup {None}, NEW u \in Users, resetToken[u] # token
    PROVE  resetToken'[u] # token
<1>1. CASE token = None
  BY <1>1 DEF P!PasswordsAssumption, PasswordsKeeps
<1>2. CASE token \in P!MailedTokens
  <2>1. stage[token] = "done"
    BY <1>2 DEF PasswordsSound, TokensFit, P!MailedTokens
  <2> QED BY <2>1 DEF PasswordsKeeps
<1> QED BY <1>1, <1>2

LEMMA MailsStay ==
    ASSUME P!TypeOK, P!TypeOK', NEW c, PasswordsKeeps(c)
    PROVE  /\ P!MailedTokens \subseteq P!MailedTokens'
           /\ \A u, token : MailedTo(u, token) => MailedTo(u, token)'
<1>1. Len(mails) \in Nat
  BY DEF P!TypeOK
<1>2. Len(mails') \in Nat
  BY DEF P!TypeOK
<1> QED BY <1>1, <1>2 DEF PasswordsKeeps, P!MailedTokens, MailedTo

\* The other calls still fit.
LEMMA PasswordsOthersFit ==
    ASSUME P!PasswordsAssumption, PasswordsSound, P!TypeOK', NEW c \in Calls, PasswordsKeeps(c),
           PasswordsFrame(c),
           NEW d \in Calls, d # c
    PROVE  StageFits(d)' /\ SignInFits(d)' /\ ResetFits(d)'
<1>1. StageFits(d) /\ SignInFits(d) /\ ResetFits(d) /\ P!TypeOK
  BY DEF PasswordsSound, CallsFit
<1>2. /\ stage'[d] = stage[d] /\ asked'[d] = asked[d] /\ user'[d] = user[d] /\ read'[d] = read[d]
      /\ reply'[d] = reply[d] /\ expired'[d] = expired[d] /\ (d \in wrote' <=> d \in wrote)
      /\ since[d] \subseteq since'[d]
      /\ stage[d] \notin {"verify", "jwt"} => since'[d] = since[d]
  BY DEF PasswordsFrame
<1>3. StageFits(d)'
  BY <1>1, <1>2 DEF StageFits
<1>4. SignInFits(d)'
  <2>1. stage[d] \in {"verify", "jwt"} => reply[d] = "none"
    BY <1>1 DEF StageFits
  <2> QED BY <1>1, <1>2, <2>1 DEF SignInFits
<1>5. ResetFits(d)'
  <2>1. /\ P!MailedTokens \subseteq P!MailedTokens'
        /\ \A u, token : MailedTo(u, token) => MailedTo(u, token)'
    BY <1>1, MailsStay
  <2>2. expired[d] => \A u \in Users : resetToken'[u] # asked[d].token
    <3>1. SUFFICES ASSUME expired[d], NEW u \in Users
                   PROVE  resetToken'[u] # asked[d].token
      OBVIOUS
    <3>2. PICK token \in P!MailedTokens \cup {None} :
             token = asked[d].token /\ resetToken[u] # token
      BY <1>1, <3>1 DEF ResetFits
    <3> QED BY <3>2, MailedIsWritten
  <2> QED BY <1>1, <1>2, <2>1, <2>2 DEF ResetFits
<1> QED BY <1>3, <1>4, <1>5

\* The tokens still fit, if c wrote and mailed none.
LEMMA TokensStay ==
    ASSUME P!PasswordsAssumption, PasswordsSound, NEW c \in Calls, PasswordsFrame(c),
           UNCHANGED <<resetToken, mails>>,
           stage[c] \in {"mail", "done"} => stage'[c] \in {"mail", "done"} /\ user'[c] = user[c],
           stage[c] = "done" => stage'[c] = "done"
    PROVE  TokensFit'
<1>1. TokensFit /\ P!TypeOK
  BY DEF PasswordsSound
<1>2. \A u \in Users : resetToken[u] # None =>
          /\ resetToken[u] \in Calls
          /\ stage'[resetToken[u]] \in {"mail", "done"} /\ user'[resetToken[u]] = u
  BY <1>1 DEF TokensFit, PasswordsFrame, P!TypeOK
<1>3. \A j \in 1..Len(mails) :
          stage'[mails[j].token] = "done" /\ user'[mails[j].token] = mails[j].to
  BY <1>1, MailFields DEF TokensFit, PasswordsFrame
<1> QED BY <1>2, <1>3 DEF TokensFit

\* Nobody's mail comes or goes.
LEMMA MailingStays ==
    ASSUME PasswordsSound, NEW c \in Calls, PasswordsFrame(c), UNCHANGED <<resetToken, mails>>,
           unclear \subseteq unclear',
           stage[c] # "mail" \/ user[c] \in unclear', stage'[c] # "mail"
    PROVE  MailingFits' /\ P!NewestLinkWorks'
<1>1. \A d \in Calls : stage'[d] = "mail" => d # c /\ stage[d] = "mail" /\ user'[d] = user[d]
  BY DEF PasswordsFrame
<1>2. MailingFits'
  BY <1>1 DEF PasswordsSound, MailingFits
<1>3. \A d \in Calls : stage[d] = "mail" /\ user[d] \notin unclear' =>
           stage'[d] = "mail" /\ user'[d] = user[d]
  BY DEF PasswordsFrame
<1>4. P!NewestLinkWorks'
  BY <1>3 DEF PasswordsSound, P!NewestLinkWorks
<1> QED BY <1>2, <1>4

-----------------------------------------------------------------------------
(* Each action keeps the invariant *)

\* The call fits, the others are as they were, and so are tokens and mails.
LEMMA PasswordsConclude ==
    ASSUME P!PasswordsAssumption, PasswordsSound, P!TypeOK', NEW c \in Calls, PasswordsKeeps(c),
           PasswordsFrame(c),
           StageFits(c)', SignInFits(c)', ResetFits(c)',
           TokensFit', MailingFits', P!NewestLinkWorks'
    PROVE  PasswordsSound'
BY PasswordsOthersFit DEF PasswordsSound, CallsFit

LEMMA PasswordsGotoSets ==
    ASSUME P!TypeOK, NEW c \in Calls, NEW step, P!Goto(c, step)
    PROVE  stage'[c] = step
BY DEF P!TypeOK, P!Goto

LEMMA PasswordsFinishSets ==
    ASSUME P!TypeOK, NEW c \in Calls, NEW result, P!Finish(c, result)
    PROVE  stage'[c] = "done" /\ reply'[c] = result
BY DEF P!TypeOK, P!Finish, P!Goto

LEMMA ArriveSound ==
    ASSUME P!PasswordsAssumption, PasswordsSound, P!TypeOK', NEW c \in Calls,
           NEW k \in KnownCalls, P!Arrive(c, k)
    PROVE  PasswordsSound'
<1>0. P!TypeOK /\ PasswordsFrame(c) /\ PasswordsKeeps(c) /\ StageFits(c) /\ stage[c] = "new"
        /\ ResetFits(c)
  BY ArriveFrame DEF PasswordsSound, CallsFit, P!Arrive
<1>1. /\ asked'[c] = k /\ stage'[c] = IF k.op = "reset" THEN "findToken" ELSE "find"
      /\ expired'[c] = (k.op = "reset" /\ \A u \in Users : resetToken[u] # k.token)
      /\ k.op = "reset" => k.token \in P!MailedTokens \cup {None}
      /\ UNCHANGED <<hash, resetToken, mails, user, read, reply, since, wrote, unclear>>
  BY <1>0, PasswordsGotoSets DEF P!Arrive, P!TypeOK
<1>2. k.op \in {"signIn", "requestReset", "reset"}
  BY DEF KnownCalls, P!SignIns, P!Requests, P!Resets
<1>3. user[c] = None /\ c \notin wrote /\ reply[c] = "none"
  BY <1>0 DEF StageFits
<1>4. StageFits(c)'
  BY <1>1, <1>2, <1>3 DEF StageFits
<1>5. SignInFits(c)'
  BY <1>1, <1>3 DEF SignInFits
<1>6. ResetFits(c)'
  <2>1. expired'[c] => k.op = "reset" /\ \A u \in Users : resetToken[u] # k.token
    BY <1>1
  <2> QED BY <1>1, <1>2, <1>3, <2>1 DEF ResetFits, P!MailedTokens
<1>7. TokensFit' /\ MailingFits' /\ P!NewestLinkWorks'
  BY <1>0, <1>1, TokensStay, MailingStays
<1> QED BY <1>0, <1>4, <1>5, <1>6, <1>7, PasswordsConclude

LEMMA FindSound ==
    ASSUME P!PasswordsAssumption, PasswordsSound, P!TypeOK', NEW c \in Calls, P!Find(c),
           PasswordsFrame(c), PasswordsKeeps(c)
    PROVE  PasswordsSound'
<1>0. P!TypeOK /\ StageFits(c) /\ stage[c] = "find" /\ ResetFits(c)
  BY DEF PasswordsSound, CallsFit, P!Find
<1>1. /\ UNCHANGED <<hash, resetToken, mails, asked, expired, wrote, unclear>>
      /\ user[c] = None /\ c \notin wrote /\ reply[c] = "none" /\ ~expired[c]
      /\ asked[c].op \in {"signIn", "requestReset"}
  BY <1>0 DEF P!Find, StageFits, ResetFits
<1>2. Called[asked[c].name] \subseteq Users
  <2>1. asked[c] \in KnownCalls \cup {P!NoCall}
    BY <1>0 DEF P!TypeOK, KnownCalls
  <2>2. asked[c].name \in Names
    BY <1>1, <2>1, CallKinds
  <2> QED BY <2>2 DEF P!PasswordsAssumption
<1>3. \/ \E u \in Users :
            /\ user'[c] = u
            /\ \/ /\ asked[c].op = "signIn" /\ stage'[c] = "verify" /\ reply'[c] = "none"
                  /\ read'[c] \in since'[c]
               \/ asked[c].op = "requestReset" /\ stage'[c] = "storeToken" /\ reply'[c] = "none"
               \/ asked[c].op = "requestReset" /\ stage'[c] = "done"
      \/ user'[c] = None /\ stage'[c] = "done"
  <2>1. ASSUME NEW u \in Called[asked[c].name], user' = [user EXCEPT ![c] = u],
               asked[c].op = "signIn", read' = [read EXCEPT ![c] = hash[u]],
               since' = [since EXCEPT ![c] = {hash[u]}], P!Goto(c, "verify"), UNCHANGED reply
        PROVE  /\ u \in Users /\ user'[c] = u /\ stage'[c] = "verify" /\ reply'[c] = "none"
               /\ read'[c] \in since'[c]
    BY <1>0, <1>1, <1>2, <2>1, PasswordsGotoSets DEF P!TypeOK
  <2>2. ASSUME NEW u \in Called[asked[c].name], user' = [user EXCEPT ![c] = u],
               P!Goto(c, "storeToken"), UNCHANGED reply
        PROVE  u \in Users /\ user'[c] = u /\ stage'[c] = "storeToken" /\ reply'[c] = "none"
    BY <1>0, <1>1, <1>2, <2>2, PasswordsGotoSets DEF P!TypeOK
  <2>3. ASSUME NEW u \in Called[asked[c].name], user' = [user EXCEPT ![c] = u],
               P!Finish(c, "refused")
        PROVE  u \in Users /\ user'[c] = u /\ stage'[c] = "done"
    BY <1>0, <1>1, <1>2, <2>3, PasswordsFinishSets DEF P!TypeOK
  <2>4. ASSUME P!Finish(c, "refused"), UNCHANGED user
        PROVE  user'[c] = None /\ stage'[c] = "done"
    BY <1>0, <1>1, <2>4, PasswordsFinishSets
  <2> QED BY <2>1, <2>2, <2>3, <2>4 DEF P!Find
<1>4. StageFits(c)'
  BY <1>1, <1>3 DEF StageFits
<1>5. SignInFits(c)'
  BY <1>1, <1>3 DEF SignInFits
<1>6. ResetFits(c)'
  BY <1>1, <1>3 DEF ResetFits
<1>7. TokensFit'
  BY <1>0, <1>1, TokensStay
<1>8. MailingFits' /\ P!NewestLinkWorks'
  <2>1. stage'[c] # "mail"
    BY <1>3
  <2> QED BY <1>0, <1>1, <2>1, MailingStays
<1> QED BY <1>4, <1>5, <1>6, <1>7, <1>8, PasswordsConclude

LEMMA VerifySound ==
    ASSUME P!PasswordsAssumption, PasswordsSound, P!TypeOK', NEW c \in Calls, P!Verify(c),
           PasswordsFrame(c), PasswordsKeeps(c)
    PROVE  PasswordsSound'
<1>0. P!TypeOK /\ StageFits(c) /\ stage[c] = "verify" /\ SignInFits(c) /\ ResetFits(c)
  BY DEF PasswordsSound, CallsFit, P!Verify
<1>1. /\ UNCHANGED <<hash, resetToken, mails, asked, user, read, since, expired, wrote, unclear>>
      /\ asked[c].op = "signIn" /\ user[c] \in Users /\ user[c] # None /\ reply[c] = "none"
      /\ read[c] \in since[c]
  BY <1>0 DEF P!Verify, P!historyVars, StageFits, SignInFits, P!PasswordsAssumption
<1>2. \/ stage'[c] = "jwt" /\ reply'[c] = "none" /\ read[c] = asked[c].password
      \/ stage'[c] = "done" /\ reply'[c] = "refused" /\ read[c] # asked[c].password
  BY <1>0, <1>1, PasswordsGotoSets, PasswordsFinishSets DEF P!Verify, P!Matches
<1>3. StageFits(c)'
  BY <1>0, <1>1, <1>2 DEF StageFits
<1>4. SignInFits(c)'
  BY <1>1, <1>2 DEF SignInFits
<1>5. ResetFits(c)'
  BY <1>0, <1>1, <1>2 DEF ResetFits
<1>6. TokensFit' /\ MailingFits' /\ P!NewestLinkWorks'
  BY <1>0, <1>1, <1>2, TokensStay, MailingStays
<1> QED BY <1>3, <1>4, <1>5, <1>6, PasswordsConclude

LEMMA FindTokenSound ==
    ASSUME P!PasswordsAssumption, PasswordsSound, P!TypeOK', NEW c \in Calls, P!FindToken(c),
           PasswordsFrame(c), PasswordsKeeps(c)
    PROVE  PasswordsSound'
<1>0. P!TypeOK /\ StageFits(c) /\ stage[c] = "findToken" /\ ResetFits(c)
  BY DEF PasswordsSound, CallsFit, P!FindToken
<1>1. /\ UNCHANGED <<hash, resetToken, mails, asked, read, since, expired, wrote, unclear>>
      /\ asked[c].op = "reset" /\ user[c] = None /\ c \notin wrote /\ reply[c] = "none"
      /\ asked[c].token \in P!MailedTokens \cup {None}
  BY <1>0 DEF P!FindToken, P!historyVars, StageFits, ResetFits
<1>2. PICK token : token = asked[c].token
  OBVIOUS
<1>3. \/ \E u \in Users : /\ user'[c] = u /\ token # None /\ resetToken[u] = token
                          /\ stage'[c] = "encrypt" /\ reply'[c] = "none"
      \/ user'[c] = None /\ stage'[c] = "done" /\ reply'[c] = "refused"
  <2>1. ASSUME NEW u \in P!HolderOf(token), user' = [user EXCEPT ![c] = u],
               P!Goto(c, "encrypt"), UNCHANGED reply
        PROVE  /\ u \in Users /\ user'[c] = u /\ token # None /\ resetToken[u] = token
               /\ stage'[c] = "encrypt" /\ reply'[c] = "none"
    BY <1>0, <1>1, <2>1, PasswordsGotoSets DEF P!TypeOK, P!HolderOf
  <2>2. ASSUME P!Finish(c, "refused"), UNCHANGED user
        PROVE  user'[c] = None /\ stage'[c] = "done" /\ reply'[c] = "refused"
    BY <1>0, <1>1, <2>2, PasswordsFinishSets
  <2> QED BY <1>2, <2>1, <2>2 DEF P!FindToken
<1>4. StageFits(c)'
  BY <1>1, <1>3 DEF StageFits
<1>5. SignInFits(c)'
  BY <1>1 DEF SignInFits
<1>6. ASSUME NEW u \in Users, token # None, resetToken[u] = token
      PROVE  ~expired[c] /\ MailedTo(u, token)
  <2>1. ~expired[c]
    BY <1>0, <1>2, <1>6 DEF ResetFits
  <2>2. PICK j \in 1..Len(mails) : mails[j].token = token
    BY <1>1, <1>2, <1>6 DEF P!MailedTokens
  <2>3. user[token] = mails[j].to /\ user[token] = u
    BY <1>6, <2>2 DEF PasswordsSound, TokensFit
  <2> QED BY <2>1, <2>2, <2>3 DEF MailedTo
<1>7. ResetFits(c)'
  BY <1>0, <1>1, <1>2, <1>3, <1>6 DEF ResetFits, P!MailedTokens, MailedTo
<1>8. TokensFit' /\ MailingFits' /\ P!NewestLinkWorks'
  BY <1>0, <1>1, <1>3, TokensStay, MailingStays
<1> QED BY <1>4, <1>5, <1>7, <1>8, PasswordsConclude

LEMMA EncryptSound ==
    ASSUME P!PasswordsAssumption, PasswordsSound, P!TypeOK', NEW c \in Calls, P!Encrypt(c),
           PasswordsFrame(c), PasswordsKeeps(c)
    PROVE  PasswordsSound'
<1>0. P!TypeOK /\ StageFits(c) /\ stage[c] = "encrypt" /\ ResetFits(c)
  BY DEF PasswordsSound, CallsFit, P!Encrypt
<1>1. /\ UNCHANGED <<hash, resetToken, mails, asked, user, read, since, expired, wrote, unclear>>
      /\ asked[c].op = "reset" /\ user[c] \in Users /\ reply[c] = "none" /\ c \notin wrote
  BY <1>0 DEF P!Encrypt, P!historyVars, StageFits, ResetFits
<1>2. \/ stage'[c] = "storeHash" /\ reply'[c] = "none" /\ asked[c].password \in Encryptable
      \/ stage'[c] = "done" /\ reply'[c] = "refused"
  BY <1>0, <1>1, PasswordsGotoSets, PasswordsFinishSets DEF P!Encrypt
<1>3. StageFits(c)'
  BY <1>0, <1>1, <1>2 DEF StageFits
<1>4. SignInFits(c)'
  BY <1>1 DEF SignInFits
<1>5. ResetFits(c)'
  BY <1>0, <1>1, <1>2 DEF ResetFits, P!MailedTokens, MailedTo
<1>6. TokensFit' /\ MailingFits' /\ P!NewestLinkWorks'
  BY <1>0, <1>1, <1>2, TokensStay, MailingStays
<1> QED BY <1>3, <1>4, <1>5, <1>6, PasswordsConclude

LEMMA StoreHashSound ==
    ASSUME P!PasswordsAssumption, PasswordsSound, P!TypeOK', NEW c \in Calls, P!StoreHash(c),
           PasswordsFrame(c), PasswordsKeeps(c)
    PROVE  PasswordsSound'
<1>0. P!TypeOK /\ StageFits(c) /\ stage[c] = "storeHash" /\ ResetFits(c)
  BY DEF PasswordsSound, CallsFit, P!StoreHash
<1>1. /\ UNCHANGED <<resetToken, mails, asked, user, read, reply, expired, unclear>>
      /\ wrote' = wrote \cup {c} /\ stage'[c] = "jwt"
      /\ asked[c].op = "reset" /\ user[c] \in Users /\ reply[c] = "none"
  BY <1>0, PasswordsGotoSets DEF P!StoreHash, StageFits
<1>2. StageFits(c)'
  BY <1>0, <1>1 DEF StageFits
<1>3. SignInFits(c)'
  BY <1>1 DEF SignInFits
<1>4. ResetFits(c)'
  BY <1>0, <1>1 DEF ResetFits, P!MailedTokens, MailedTo
<1>5. TokensFit' /\ MailingFits' /\ P!NewestLinkWorks'
  BY <1>0, <1>1, TokensStay, MailingStays
<1> QED BY <1>2, <1>3, <1>4, <1>5, PasswordsConclude

LEMMA MakeJwtSound ==
    ASSUME P!PasswordsAssumption, PasswordsSound, P!TypeOK', NEW c \in Calls, P!MakeJwt(c),
           PasswordsFrame(c), PasswordsKeeps(c)
    PROVE  PasswordsSound'
<1>0. P!TypeOK /\ StageFits(c) /\ stage[c] = "jwt" /\ SignInFits(c) /\ ResetFits(c)
  BY DEF PasswordsSound, CallsFit, P!MakeJwt
<1>1. /\ UNCHANGED <<hash, resetToken, mails, asked, user, read, since, expired, wrote, unclear>>
      /\ stage'[c] = "done" /\ reply'[c] = "ok"
  BY <1>0, PasswordsFinishSets DEF P!MakeJwt, P!historyVars
<1>2. StageFits(c)'
  BY <1>0, <1>1 DEF StageFits
<1>3. SignInFits(c)'
  BY <1>0, <1>1 DEF SignInFits
<1>4. ResetFits(c)'
  BY <1>0, <1>1 DEF ResetFits, P!MailedTokens, MailedTo
<1>5. TokensFit' /\ MailingFits' /\ P!NewestLinkWorks'
  BY <1>0, <1>1, TokensStay, MailingStays
<1> QED BY <1>2, <1>3, <1>4, <1>5, PasswordsConclude

LEMMA FailSound ==
    ASSUME P!PasswordsAssumption, PasswordsSound, P!TypeOK', NEW c \in Calls, P!Fail(c),
           PasswordsFrame(c), PasswordsKeeps(c)
    PROVE  PasswordsSound'
<1>0. P!TypeOK /\ StageFits(c) /\ stage[c] \notin {"new", "done"} /\ SignInFits(c) /\ ResetFits(c)
  BY DEF PasswordsSound, CallsFit, P!Fail
<1>1. /\ UNCHANGED <<hash, resetToken, mails, asked, user, read, since, expired, wrote>>
      /\ stage'[c] = "done" /\ reply'[c] = "failed"
      /\ unclear' = IF stage[c] = "mail" THEN unclear \cup {user[c]} ELSE unclear
  BY <1>0, PasswordsFinishSets DEF P!Fail
<1>2. StageFits(c)'
  BY <1>0, <1>1 DEF StageFits
<1>3. SignInFits(c)'
  BY <1>0, <1>1 DEF SignInFits
<1>4. ResetFits(c)'
  BY <1>0, <1>1 DEF ResetFits, StageFits, P!MailedTokens, MailedTo
<1>5. TokensFit' /\ MailingFits' /\ P!NewestLinkWorks'
  BY <1>0, <1>1, TokensStay, MailingStays
<1> QED BY <1>2, <1>3, <1>4, <1>5, PasswordsConclude

\* The token of the call is written; if no other mail is under way, it will be the newest.
LEMMA StoreTokenSound ==
    ASSUME P!PasswordsAssumption, PasswordsSound, P!TypeOK', NEW c \in Calls, P!StoreToken(c),
           PasswordsFrame(c), PasswordsKeeps(c)
    PROVE  PasswordsSound'
<1>0. P!TypeOK /\ StageFits(c) /\ stage[c] = "storeToken" /\ ResetFits(c)
  BY DEF PasswordsSound, CallsFit, P!StoreToken
<1>1. PICK u \in Users : u = user[c]
  BY <1>0 DEF StageFits
<1>2. /\ UNCHANGED <<hash, mails, asked, user, read, reply, since, expired, wrote>>
      /\ resetToken' = [resetToken EXCEPT ![u] = c]
      /\ stage' = [stage EXCEPT ![c] = "mail"]
      /\ unclear' = IF P!Mailing(c, u) THEN unclear \cup {u} ELSE unclear
  BY <1>1 DEF P!StoreToken, P!Goto
<1>3. /\ stage'[c] = "mail" /\ asked[c].op = "requestReset" /\ reply[c] = "none"
      /\ resetToken'[u] = c /\ \A v \in Users : v # u => resetToken'[v] = resetToken[v]
      /\ \A d \in Calls : d # c => stage'[d] = stage[d]
  BY <1>0, <1>1, <1>2 DEF P!TypeOK, StageFits
<1>4. StageFits(c)'
  BY <1>0, <1>2, <1>3 DEF StageFits
<1>5. SignInFits(c)'
  BY <1>2, <1>3 DEF SignInFits
<1>6. ResetFits(c)'
  BY <1>0, <1>2, <1>3 DEF ResetFits
<1>7. TokensFit'
  <2>1. \A v \in Users : resetToken'[v] # None =>
            stage'[resetToken'[v]] \in {"mail", "done"} /\ user'[resetToken'[v]] = v
    <3>1. ASSUME NEW v \in Users, v # u, resetToken[v] # None
          PROVE  stage'[resetToken[v]] \in {"mail", "done"} /\ user[resetToken[v]] = v
      BY SMTT(30), <1>0, <1>3, <3>1 DEF PasswordsSound, TokensFit, P!TypeOK
    <3> QED BY <1>1, <1>2, <1>3, <3>1
  <2>2. \A j \in 1..Len(mails) :
           stage'[mails[j].token] = "done" /\ user[mails[j].token] = mails[j].to
    BY <1>0, <1>3, MailFields DEF PasswordsSound, TokensFit
  <2> QED BY <1>2, <2>1, <2>2 DEF TokensFit
<1>8. MailingFits'
  <2>1. SUFFICES ASSUME NEW d \in Calls, stage'[d] = "mail", user[d] \notin unclear'
                 PROVE  /\ resetToken'[user[d]] = d
                        /\ \A e \in Calls : stage'[e] = "mail" /\ user[e] = user[d] => e = d
    BY <1>2 DEF MailingFits
  <2>2. CASE user[d] = u
    <3>1. u \notin unclear' /\ ~P!Mailing(c, u)
      BY <1>2, <2>1, <2>2
    <3>2. \A e \in Calls : e # c /\ user[e] = u => stage[e] # "mail"
      BY <3>1 DEF P!Mailing
    <3> QED BY <1>3, <2>1, <2>2, <3>2
  <2>3. CASE user[d] # u
    <3>1. d # c /\ stage[d] = "mail" /\ user[d] \notin unclear /\ user[d] \in Users
      BY <1>0, <1>1, <1>2, <1>3, <2>1, <2>3 DEF PasswordsSound, CallsFit, StageFits
    <3>2. /\ resetToken[user[d]] = d
          /\ \A e \in Calls : stage[e] = "mail" /\ user[e] = user[d] => e = d
      BY <3>1 DEF PasswordsSound, MailingFits
    <3> QED BY <1>1, <1>3, <2>3, <3>1, <3>2
  <2> QED BY <2>2, <2>3
<1>9. P!NewestLinkWorks'
  <2>1. SUFFICES ASSUME NEW j \in 1..Len(mails), NEW v, v = mails[j].to, v \notin unclear',
                        \A k \in 1..Len(mails) : mails[k].to = v => k <= j,
                        ~ \E d \in Calls : stage'[d] = "mail" /\ user[d] = v
                 PROVE  resetToken'[v] = mails[j].token
    BY <1>2 DEF P!NewestLinkWorks
  <2>2. v \in Users /\ v # u
    BY <1>0, <1>1, <1>3, <2>1, MailFields
  <2>3. v \notin unclear /\ ~ \E d \in Calls : stage[d] = "mail" /\ user[d] = v
    BY <1>0, <1>2, <1>3, <2>1
  <2>4. resetToken[v] = mails[j].token
    BY <2>1, <2>3 DEF PasswordsSound, P!NewestLinkWorks
  <2> QED BY <1>3, <2>2, <2>4
<1> QED BY <1>4, <1>5, <1>6, <1>7, <1>8, <1>9, PasswordsConclude

\* The link leaves; if the user is clear, its token is the one that is stored.
LEMMA SendLinkSound ==
    ASSUME P!PasswordsAssumption, PasswordsSound, P!TypeOK', NEW c \in Calls, P!SendLink(c),
           PasswordsFrame(c), PasswordsKeeps(c)
    PROVE  PasswordsSound'
<1>0. P!TypeOK /\ StageFits(c) /\ stage[c] = "mail" /\ ResetFits(c)
  BY DEF PasswordsSound, CallsFit, P!SendLink
<1>1. PICK u \in Users : u = user[c]
  BY <1>0 DEF StageFits
<1>2. PICK m \in P!Mail : m = [to |-> u, token |-> c] /\ m.to = u /\ m.token = c
  <2>1. PICK m : m = [to |-> u, token |-> c]
    OBVIOUS
  <2>2. u \in Users /\ c \in Calls
    OBVIOUS
  <2>3. m.to = u /\ m.token = c
    BY <2>1
  <2>4. m \in P!Mail
    BY <2>1, <2>2 DEF P!Mail
  <2> QED BY <2>1, <2>3, <2>4
<1>3. /\ UNCHANGED <<hash, resetToken, asked, user, read, since, expired, wrote, unclear>>
      /\ mails' = Append(mails, m)
      /\ stage'[c] = "done" /\ reply'[c] \in {"ok", "failed"}
  BY <1>0, <1>1, <1>2, PasswordsFinishSets DEF P!SendLink, P!historyVars
<1>4. PICK n \in Nat : n = Len(mails) + 1
  BY <1>0 DEF P!TypeOK
<1>5. /\ Len(mails') = n /\ mails'[n] = m
      /\ \A j \in 1..Len(mails) : mails'[j] = mails[j] /\ j < n
      /\ \A j \in 1..Len(mails') : j \in 1..Len(mails) \/ j = n
  <2>1. mails \in Seq(P!Mail)
    BY <1>0 DEF P!TypeOK
  <2> QED BY <1>3, <1>4, <2>1
<1>6. asked[c].op = "requestReset" /\ \A d \in Calls : d # c => stage'[d] = stage[d]
  BY <1>0 DEF StageFits, PasswordsFrame
<1>7. StageFits(c)'
  BY <1>0, <1>3 DEF StageFits
<1>8. SignInFits(c)'
  BY <1>3, <1>6 DEF SignInFits
<1>9. ResetFits(c)'
  BY <1>0, <1>3, <1>6 DEF ResetFits
<1>10. TokensFit'
  <2>1. \A v \in Users : resetToken[v] # None =>
            stage'[resetToken[v]] \in {"mail", "done"} /\ user[resetToken[v]] = v
    BY <1>0, <1>3, <1>6 DEF PasswordsSound, TokensFit, P!TypeOK
  <2>2. \A j \in 1..Len(mails) :
           stage'[mails[j].token] = "done" /\ user[mails[j].token] = mails[j].to
    BY <1>0, <1>3, <1>6, MailFields DEF PasswordsSound, TokensFit
  <2>3. \A j \in 1..Len(mails') :
           stage'[mails'[j].token] = "done" /\ user[mails'[j].token] = mails'[j].to
    BY <1>1, <1>2, <1>3, <1>5, <2>2
  <2> QED BY <1>3, <2>1, <2>3 DEF TokensFit
<1>11. MailingFits'
  <2>1. \A d \in Calls : stage'[d] = "mail" => d # c /\ stage[d] = "mail"
    BY <1>3, <1>6
  <2> QED BY <1>3, <2>1 DEF PasswordsSound, MailingFits
<1>12. P!NewestLinkWorks'
  <2>1. SUFFICES ASSUME NEW j \in 1..Len(mails'), NEW v, v = mails'[j].to, v \notin unclear,
                        \A k \in 1..Len(mails') : mails'[k].to = v => k <= j,
                        ~ \E d \in Calls : stage'[d] = "mail" /\ user[d] = v
                 PROVE  resetToken[v] = mails'[j].token
    BY <1>3 DEF P!NewestLinkWorks
  <2>2. CASE v = u
    <3>1. n \in 1..Len(mails') /\ mails'[n].to = u
      BY <1>2, <1>4, <1>5, <1>0 DEF P!TypeOK
    <3>2. j = n
      BY <1>5, <2>1, <2>2, <3>1
    <3>3. resetToken[u] = c
      BY <1>0, <1>1, <2>1, <2>2 DEF PasswordsSound, MailingFits
    <3> QED BY <1>2, <1>5, <2>2, <3>2, <3>3
  <2>3. CASE v # u
    <3>1. j \in 1..Len(mails) /\ mails'[j] = mails[j]
      BY <1>2, <1>5, <2>1, <2>3
    <3>2. \A k \in 1..Len(mails) : mails[k].to = v => k <= j
      BY <1>0, <1>5, <2>1 DEF P!TypeOK
    <3>3. ~ \E d \in Calls : stage[d] = "mail" /\ user[d] = v
      BY <1>1, <1>6, <2>1, <2>3
    <3> QED BY <2>1, <3>1, <3>2, <3>3 DEF PasswordsSound, P!NewestLinkWorks
  <2> QED BY <2>2, <2>3
<1> QED BY <1>7, <1>8, <1>9, <1>10, <1>11, <1>12, PasswordsConclude

-----------------------------------------------------------------------------
(* The invariant and its theorems *)

LEMMA PasswordsStutterSound ==
    ASSUME PasswordsSound, UNCHANGED P!vars
    PROVE  PasswordsSound'
<1> USE DEF P!vars, P!historyVars
<1>1. P!TypeOK'
  BY DEF PasswordsSound, P!TypeOK
<1>2. CallsFit'
  BY DEF PasswordsSound, CallsFit, StageFits, SignInFits, ResetFits, P!MailedTokens, MailedTo
<1>3. TokensFit' /\ MailingFits' /\ P!NewestLinkWorks'
  BY DEF PasswordsSound, TokensFit, MailingFits, P!NewestLinkWorks
<1> QED BY <1>1, <1>2, <1>3 DEF PasswordsSound

LEMMA PasswordsNextSound ==
    ASSUME P!PasswordsAssumption, PasswordsSound, [P!Next]_(P!vars)
    PROVE  PasswordsSound'
<1>1. ASSUME NEW c \in Calls, NEW k \in KnownCalls, P!Arrive(c, k)
      PROVE  PasswordsSound'
  <2>1. P!TypeOK'
    BY <1>1, StepTypes DEF P!Next, KnownCalls
  <2> QED BY <1>1, <2>1, ArriveSound
<1>2. ASSUME NEW c \in Calls, P!Serve(c)
      PROVE  PasswordsSound'
  <2>1. P!TypeOK' /\ PasswordsFrame(c) /\ PasswordsKeeps(c)
    BY <1>2, StepTypes, PasswordsServeFrame DEF P!Next, PasswordsSound
  <2> QED BY <1>2, <2>1, FindSound, VerifySound, StoreTokenSound, SendLinkSound, FindTokenSound,
             EncryptSound, StoreHashSound, MakeJwtSound, FailSound DEF P!Serve
<1>3. CASE UNCHANGED P!vars
  BY <1>3, PasswordsStutterSound
<1> QED BY <1>1, <1>2, <1>3 DEF P!Next, P!Quiescent, KnownCalls

LEMMA PasswordsSoundness ==
    ASSUME P!PasswordsAssumption
    PROVE  P!Spec => []PasswordsSound
<1>1. P!Init => PasswordsSound
  BY PasswordsInitSound
<1>2. PasswordsSound /\ [P!Next]_(P!vars) => PasswordsSound'
  BY PasswordsNextSound
<1> QED BY <1>1, <1>2, PTL DEF P!Spec

\* A behaviour of the composition is one of both modules: the one that is not
\* meant stutters.
LEMMA UsersRunOnboarding == UsersSpec => Spec
<1>1. UsersInit => Init
  BY DEF UsersInit
<1>2. [UsersNext]_<<part, vars, passwordVars>> => [Next]_vars
  BY DEF UsersNext
<1> QED BY <1>1, <1>2, PTL DEF UsersSpec, Spec

LEMMA UsersRunPasswords == UsersSpec => P!Spec
<1>1. UsersInit => P!Init
  BY DEF UsersInit
<1>2. [UsersNext]_<<part, vars, passwordVars>> => [P!Next]_(P!vars)
  BY DEF UsersNext, passwordVars, P!vars, P!historyVars
<1> QED BY <1>1, <1>2, PTL DEF UsersSpec, P!Spec

\* Every variable of Passwords has its type; every stored password can be verified.
THEOREM PasswordTypes == P!Spec => []P!TypeOK
<1>1. PasswordsSound => P!TypeOK
  BY DEF PasswordsSound
<1> QED BY <1>1, PasswordsSoundness, UsersAssumption, PTL

\* Every variable of either module about the users has its type, whatever calls come
\* and however they interleave.
THEOREM UserTypes == UsersSpec => []UsersTypeOK
<1>1. TypeOK /\ P!TypeOK => UsersTypeOK
  BY DEF UsersTypeOK
<1> QED BY <1>1, OnboardingTypes, PasswordTypes, UsersRunOnboarding, UsersRunPasswords, PTL

\* Unless two requests of a user overlapped or a mail was not taken, the newest link works,
\* and a link that was dead when it came, or was mailed to another, resets no password
\* (request_reset.rs, reset.rs).
THEOREM NewestLinkAlwaysCounts == UsersSpec => []NewestLinkCounts
<1>1. PasswordsSound => P!OldLinksAreDead
  <2>1. SUFFICES ASSUME PasswordsSound, NEW c \in wrote
                 PROVE  /\ ~expired[c]
                        /\ \E j \in 1..Len(mails) :
                              mails[j] = [to |-> user[c], token |-> asked[c].token]
    BY DEF P!OldLinksAreDead
  <2>2. c \in Calls /\ P!TypeOK
    BY <2>1 DEF PasswordsSound, P!TypeOK
  <2>3. ~expired[c] /\ MailedTo(user[c], asked[c].token)
    BY <2>1, <2>2 DEF PasswordsSound, CallsFit, ResetFits
  <2>4. PICK j \in 1..Len(mails) : mails[j].to = user[c] /\ mails[j].token = asked[c].token
    BY <2>3 DEF MailedTo
  <2>5. mails[j] \in P!Mail
    BY <2>2, MailFields
  <2>6. mails[j] = [to |-> user[c], token |-> asked[c].token]
    BY <2>4, <2>5 DEF P!Mail
  <2> QED BY <2>3, <2>6
<1>2. PasswordsSound => NewestLinkCounts
  BY <1>1 DEF PasswordsSound, NewestLinkCounts, P!NewestLinkCounts
<1> QED BY <1>2, PasswordsSoundness, UsersRunPasswords, UsersAssumption, PTL

\* A sign-in is accepted, or refused, for a password that was, or was not, the user's while it
\* was served; a reset that succeeded has written the password, a refused one has not.
THEOREM PasswordsAnswerRight == UsersSpec => []PasswordAnswersAreRight
<1>1. PasswordsSound => P!SignInsWereRight
  BY DEF PasswordsSound, CallsFit, SignInFits, P!SignInsWereRight
<1>2. PasswordsSound => P!ResetAnswersAreRight
  BY DEF PasswordsSound, CallsFit, ResetFits, P!ResetAnswersAreRight
<1>3. PasswordsSound => PasswordAnswersAreRight
  BY <1>1, <1>2 DEF PasswordAnswersAreRight, P!PasswordAnswersAreRight
<1> QED BY <1>3, PasswordsSoundness, UsersRunPasswords, UsersAssumption, PTL

=============================================================================
