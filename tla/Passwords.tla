------------------------------ MODULE Passwords ------------------------------
(***************************************************************************)
(* Sign-in and password reset of the API server: the public mutations      *)
(* signIn, requestPasswordReset and resetPassword.                         *)
(*                                                                         *)
(* A call c walks through its statements pc[c], interleaved with others.   *)
(* The token that a reset request makes is fresh, and is represented by    *)
(* the call that made it.  A password stands for its hash: verify compares *)
(* the two, encrypt refuses the passwords that are not Encryptable.        *)
(*                                                                         *)
(* A definition that no action or property uses (StoreTokenOnce, ...) is a *)
(* faulty variant of the one that follows it.                              *)
(***************************************************************************)
EXTENDS Integers, Sequences

CONSTANTS
    Calls,          \* the calls that may be made, each once
    Users,
    Names,          \* the names that may be given: a username or an email
    Called,         \* Called[n]: the users whose username or email is n
    Emailed,        \* the users with an email address
    Passwords,
    Encryptable,    \* those of a length that libreauth accepts
    FirstPassword,  \* FirstPassword[u]
    None            \* no user, no token

PasswordsAssumption ==
    /\ Called \in [Names -> SUBSET Users]
    /\ Emailed \subseteq Users
    /\ Encryptable \subseteq Passwords
    /\ FirstPassword \in [Users -> Encryptable]
    /\ None \notin Users \cup Calls

VARIABLES
    hash,       \* users.password_hash
    resetToken, \* users.password_reset_token, or None
    mails,      \* the mails with reset links, in order
    pc,         \* pc[c]: the statement call c runs next
    call,       \* call[c]: what was asked
    user,       \* user[c]: the user its handler has found
    read,       \* read[c]: the hash it has read
    answer,     \* answer[c]
    \* History variables, which no guard reads.
    since,      \* since[c]: what the user's password was while c was served
    expired,    \* expired[c]: c came with a link that was not the newest
    wrote,      \* the calls that have written a hash
    unclear     \* users of whom two reset requests overlapped, or one was not mailed

historyVars == <<since, expired, wrote, unclear>>
vars == <<hash, resetToken, mails, pc, call, user, read, answer, historyVars>>

SignIns  == [op : {"signIn"}, name : Names, password : Passwords]
Requests == [op : {"requestReset"}, name : Names]
Resets   == [op : {"reset"}, token : Calls \cup {None}, password : Passwords]
NoCall   == [op |-> "none"]

Mail == [to : Users, token : Calls]

-----------------------------------------------------------------------------

Init ==
    /\ hash = FirstPassword
    /\ resetToken = [u \in Users |-> None]
    /\ mails = <<>>
    /\ pc = [c \in Calls |-> "new"]
    /\ call = [c \in Calls |-> NoCall]
    /\ user = [c \in Calls |-> None]
    /\ read = [c \in Calls |-> None]
    /\ answer = [c \in Calls |-> "none"]
    /\ since = [c \in Calls |-> {}]
    /\ expired = [c \in Calls |-> FALSE]
    /\ wrote = {}
    /\ unclear = {}

Goto(c, step) == pc' = [pc EXCEPT ![c] = step]

Finish(c, result) ==
    /\ Goto(c, "done")
    /\ answer' = [answer EXCEPT ![c] = result]

MailedTokens == {mails[j].token : j \in 1..Len(mails)}

\* A call arrives; a reset comes with a token of some mail, or one of nobody's.
Arrive(c, k) ==
    /\ pc[c] = "new"
    /\ k.op = "reset" => k.token \in MailedTokens \cup {None}
    /\ call' = [call EXCEPT ![c] = k]
    /\ Goto(c, IF k.op = "reset" THEN "findToken" ELSE "find")
    /\ expired' = [expired EXCEPT ![c] =
                      k.op = "reset" /\ \A u \in Users : resetToken[u] # k.token]
    /\ UNCHANGED <<hash, resetToken, mails, user, read, answer, since, wrote, unclear>>

\* find_by_username_or_email takes the first match.  Sign-in says of every error
\* that the name or password is not valid; so is the model's answer.
Find(c) ==
    /\ pc[c] = "find"
    /\ \/ \E u \in Called[call[c].name] :
             /\ user' = [user EXCEPT ![c] = u]
             /\ \/ /\ call[c].op = "signIn"
                   /\ read' = [read EXCEPT ![c] = hash[u]]
                   /\ since' = [since EXCEPT ![c] = {hash[u]}]
                   /\ Goto(c, "verify")
                   /\ UNCHANGED answer
                \/ /\ call[c].op = "requestReset" /\ u \in Emailed
                   /\ Goto(c, "storeToken")
                   /\ UNCHANGED <<read, since, answer>>
                \/ /\ call[c].op = "requestReset" /\ u \notin Emailed
                   /\ Finish(c, "refused")
                   /\ UNCHANGED <<read, since>>
       \/ /\ Called[call[c].name] = {}
          /\ Finish(c, "refused")
          /\ UNCHANGED <<user, read, since>>
    /\ UNCHANGED <<hash, resetToken, mails, call, expired, wrote, unclear>>

MatchesAny(c) == TRUE
Matches(c) == read[c] = call[c].password

\* passwords::verify on the hash that was read.
Verify(c) ==
    /\ pc[c] = "verify"
    /\ IF Matches(c) THEN Goto(c, "jwt") /\ UNCHANGED answer
                     ELSE Finish(c, "refused")
    /\ UNCHANGED <<hash, resetToken, mails, call, user, read, historyVars>>

\* Another request for user u is between its update and its mail.
Mailing(c, u) == \E d \in Calls \ {c} : pc[d] = "mail" /\ user[d] = u

StoreTokenOnce(c) ==
    /\ pc[c] = "storeToken"
    /\ resetToken' = [resetToken EXCEPT ![user[c]] = IF @ = None THEN c ELSE @]
    /\ Goto(c, "mail")
    /\ unclear' = IF Mailing(c, user[c]) THEN unclear \cup {user[c]} ELSE unclear
    /\ UNCHANGED <<hash, mails, call, user, read, answer, since, expired, wrote>>

\* UPDATE users SET password_reset_token: a link mailed before is dead.
StoreToken(c) ==
    /\ pc[c] = "storeToken"
    /\ resetToken' = [resetToken EXCEPT ![user[c]] = c]
    /\ Goto(c, "mail")
    /\ unclear' = IF Mailing(c, user[c]) THEN unclear \cup {user[c]} ELSE unclear
    /\ UNCHANGED <<hash, mails, call, user, read, answer, since, expired, wrote>>

\* The topic may take the mail although the publish reports an error.
SendLink(c) ==
    /\ pc[c] = "mail"
    /\ mails' = Append(mails, [to |-> user[c], token |-> c])
    /\ \E result \in {"ok", "failed"} : Finish(c, result)
    /\ UNCHANGED <<hash, resetToken, call, user, read, historyVars>>

HolderOfAny(token) ==
    {u \in Users : \E j \in 1..Len(mails) : mails[j] = [to |-> u, token |-> token]}
\* find_by_password_reset_token; NULL equals nothing.
HolderOf(token) == {u \in Users : token # None /\ resetToken[u] = token}

FindToken(c) ==
    /\ pc[c] = "findToken"
    /\ \/ \E u \in HolderOf(call[c].token) :
             user' = [user EXCEPT ![c] = u] /\ Goto(c, "encrypt") /\ UNCHANGED answer
       \/ /\ HolderOf(call[c].token) = {}
          /\ Finish(c, "refused")
          /\ UNCHANGED user
    /\ UNCHANGED <<hash, resetToken, mails, call, read, historyVars>>

\* passwords::encrypt; the error of a password it cannot hash ends the call.
Encrypt(c) ==
    /\ pc[c] = "encrypt"
    /\ IF call[c].password \in Encryptable
       THEN Goto(c, "storeHash") /\ UNCHANGED answer
       ELSE Finish(c, "refused")
    /\ UNCHANGED <<hash, resetToken, mails, call, user, read, historyVars>>

StoreHashUnseen(c) ==
    /\ pc[c] = "storeHash"
    /\ Goto(c, "jwt")
    /\ UNCHANGED <<hash, resetToken, mails, call, user, read, answer, historyVars>>

\* UPDATE users SET password_hash; the token stays.
StoreHash(c) ==
    LET u == user[c]
    IN  /\ pc[c] = "storeHash"
        /\ hash' = [hash EXCEPT ![u] = call[c].password]
        /\ since' = [d \in Calls |-> IF pc[d] \in {"verify", "jwt"} /\ user[d] = u
                                     THEN since[d] \cup {call[c].password} ELSE since[d]]
        /\ wrote' = wrote \cup {c}
        /\ Goto(c, "jwt")
        /\ UNCHANGED <<resetToken, mails, call, user, read, answer, expired, unclear>>

\* make_jwt: the answer signs the user in.
MakeJwt(c) ==
    /\ pc[c] = "jwt"
    /\ Finish(c, "ok")
    /\ UNCHANGED <<hash, resetToken, mails, call, user, read, historyVars>>

\* A statement, the configuration or the publish fails, or the process dies.
Fail(c) ==
    /\ pc[c] \notin {"new", "done"}
    /\ Finish(c, "failed")
    /\ unclear' = IF pc[c] = "mail" THEN unclear \cup {user[c]} ELSE unclear
    /\ UNCHANGED <<hash, resetToken, mails, call, user, read, since, expired, wrote>>

Quiescent ==
    /\ \A c \in Calls : pc[c] = "done"
    /\ UNCHANGED vars

Serve(c) ==
    \/ Find(c) \/ Verify(c) \/ StoreToken(c) \/ SendLink(c)
    \/ FindToken(c) \/ Encrypt(c) \/ StoreHash(c) \/ MakeJwt(c) \/ Fail(c)

Next ==
    \/ \E c \in Calls, k \in SignIns \cup Requests \cup Resets : Arrive(c, k)
    \/ \E c \in Calls : Serve(c)
    \/ Quiescent

Spec == Init /\ [][Next]_vars

-----------------------------------------------------------------------------
(***************************************************************************)
(* Properties.                                                             *)
(***************************************************************************)

\* Every variable has its type; every stored password can be verified.
TypeOK ==
    /\ hash \in [Users -> Encryptable]
    /\ resetToken \in [Users -> Calls \cup {None}]
    /\ mails \in Seq(Mail)
    /\ pc \in [Calls -> {"new", "find", "verify", "storeToken", "mail", "findToken",
                         "encrypt", "storeHash", "jwt", "done"}]
    /\ call \in [Calls -> SignIns \cup Requests \cup Resets \cup {NoCall}]
    /\ user \in [Calls -> Users \cup {None}]
    /\ read \in [Calls -> Passwords \cup {None}]
    /\ answer \in [Calls -> {"none", "ok", "refused", "failed"}]
    /\ since \in [Calls -> SUBSET Passwords]
    /\ expired \in [Calls -> BOOLEAN]
    /\ wrote \subseteq Calls
    /\ unclear \subseteq Users

\* Whoever asks for a link and waits for the mail can use it: unless two requests
\* of the user overlapped or a mail was not taken, the newest link is the one
\* that is stored.  (request_reset.rs stores the token first and then mails it.)
NewestLinkWorks ==
    \A j \in 1..Len(mails) :
        LET u == mails[j].to
        IN  /\ u \notin unclear
            /\ \A k \in 1..Len(mails) : mails[k].to = u => k <= j
            /\ ~ \E c \in Calls : pc[c] = "mail" /\ user[c] = u
            => resetToken[u] = mails[j].token

\* A link that was not the newest when it was used resets nothing, and no link
\* resets the password of another user than the one it was mailed to.
OldLinksAreDead ==
    \A c \in wrote :
        /\ ~expired[c]
        /\ \E j \in 1..Len(mails) :
              mails[j] = [to |-> user[c], token |-> call[c].token]

\* Both: of the links mailed to a user the newest one counts.
NewestLinkCounts == NewestLinkWorks /\ OldLinksAreDead

\* A sign-in that succeeded gave a password that was the user's at some moment
\* while it was served; one that was refused gave a password that, at some such
\* moment, was not.
SignInsWereRight ==
    \A c \in Calls :
        call[c].op = "signIn" /\ user[c] # None =>
            /\ answer[c] = "ok" => call[c].password \in since[c]
            /\ answer[c] = "refused" => since[c] # {call[c].password}

\* A reset answered with success has written the password, a refused one has not.
\* (A failure may have: make_jwt comes after the update.)
ResetAnswersAreRight ==
    \A c \in Calls :
        call[c].op = "reset" =>
            /\ answer[c] = "ok" => c \in wrote
            /\ answer[c] = "refused" => c \notin wrote

\* Both: sign-ins and resets are answered by what was stored.
PasswordAnswersAreRight == SignInsWereRight /\ ResetAnswersAreRight

=============================================================================
