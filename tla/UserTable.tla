------------------------------ MODULE UserTable ------------------------------
(***************************************************************************)
(* The two modules about the table `users': Onboarding, which inserts and  *)
(* archives its rows, and Passwords, which signs their users in.  The two  *)
(* work on different columns, so a behaviour is one of either.             *)
(***************************************************************************)
EXTENDS Onboarding

CONSTANTS Calls, Users, Names, Called, Emailed, Passwords, Encryptable, FirstPassword

VARIABLES
    part,       \* "onboarding" or "passwords", for good
    hash, resetToken, mails, stage, asked, user, read, reply,
    since, expired, wrote, unclear

passwordVars == <<hash, resetToken, mails, stage, asked, user, read, reply,
                  since, expired, wrote, unclear>>

P == INSTANCE Passwords WITH pc <- stage, call <- asked, answer <- reply

ASSUME UsersAssumption == P!PasswordsAssumption

UsersInit == part \in {"onboarding", "passwords"} /\ Init /\ P!Init

UsersNext ==
    \/ part = "onboarding" /\ Next /\ UNCHANGED <<part, passwordVars>>
    \/ part = "passwords" /\ P!Next /\ UNCHANGED <<part, vars>>

UsersSpec == UsersInit /\ [][UsersNext]_<<part, vars, passwordVars>>

\* Every variable of either module has its type.
UsersTypeOK == TypeOK /\ P!TypeOK

\* Passwords: of the links mailed to a user the newest one counts.
NewestLinkCounts == P!NewestLinkCounts

\* Passwords: sign-ins and resets are answered by what was stored.
PasswordAnswersAreRight == P!PasswordAnswersAreRight

=============================================================================
