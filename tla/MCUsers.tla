------------------------------- MODULE MCUsers -------------------------------
(* Instances for TLC of UserTable, with two users, one of them without an address. *)
EXTENDS UserTable, MCOnboarding

CONSTANTS ann, bob, nAnn, nBob, nobody, p1, p2, tooShort

MCUserSet       == {ann, bob}
MCEmailed       == {ann}
MCNames         == {nAnn, nBob, nobody}
MCCalled        == nAnn :> {ann} @@ nBob :> {bob} @@ nobody :> {}
MCPasswords     == {p1, p2, tooShort}
MCEncryptable   == {p1, p2}
MCFirstPassword == ann :> p1 @@ bob :> p1

UserSymmetry == NameSymmetry \cup Permutations(Calls)
=============================================================================
