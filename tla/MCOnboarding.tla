---------------------------- MODULE MCOnboarding ----------------------------
(* Small instances of Onboarding for TLC. *)
EXTENDS Onboarding, TLC

WorkerSymmetry == Permutations(Workers)
NameSymmetry == WorkerSymmetry \cup Permutations(ValidUsernames) \cup Permutations(Emails)

Inviting  == {"signUp", "invite", "redeem", "confirm"}
Investing == {"signUp", "createUser", "archive", "unarchive", "confirm"}
AllKinds == Inviting \cup Investing
Redeeming == {"signUp", "invite", "redeem"}
=============================================================================
