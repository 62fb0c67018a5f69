------------------------------- MODULE MCMail -------------------------------
(* Instances of Mail for TLC. *)
EXTENDS Mail, TLC

CONSTANTS d, e, bad

Message(kind, cents, balance, readable) ==
    [kind |-> kind, cents |-> cents, balance |-> balance, readable |-> readable]

\* A withdrawal of an amount that is not a whole dollar, after which the account
\* is overdrawn, the deposit that follows it, and a message that the lambda cannot
\* read.
MCContent == d :> Message("AcknowledgeWithdrawal", 199, -150, TRUE)
            @@ e :> Message("AcknowledgeDeposit", 350, 200, TRUE)
            @@ bad :> Message("Invite", 0, 0, FALSE)

=============================================================================
