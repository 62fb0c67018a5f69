-------------------------------- MODULE Mail --------------------------------
(***************************************************************************)
(* The way of a mail: the API publishes a message on the topic             *)
(* (emails/send.rs), the topic invokes the mail lambda (api/mail), which   *)
(* reads and renders the message and asks SES to send it.                  *)
(*                                                                         *)
(* The topic and the platform are external: a message may be delivered     *)
(* again although it was handled (Redeliver), an invocation may be killed  *)
(* at any moment, and one that fails is repeated MaxRetries times and then *)
(* given up.  The handler waits 20 seconds for SES; SES may take the mail  *)
(* before or after that, or never answer.                                  *)
(*                                                                         *)
(* A definition that no action or property uses (TimeoutResends, ...) is a *)
(* faulty variant of the one that follows it.                              *)
(***************************************************************************)
EXTENDS Integers, Sequences, FiniteSets

CONSTANTS
    Messages,       \* the messages the API may publish
    Content,        \* Content[m]: what is in the message
    Invocations,    \* the invocations of the lambda, numbered as they begin
    MaxRetries,     \* how often the platform repeats a failed invocation
    MaxRedeliveries,\* bound on the deliveries of what was handled already
    MaxDeliveries,  \* bound on those and on the publishes together
    None

Kinds == {"AcknowledgeDeposit", "AcknowledgeWithdrawal", "ApproveTransactionRequest",
          "ConfirmEmail", "Invite", "RequestWithdrawal", "RejectTransactionRequest",
          "ResetPassword", "Test"}

ASSUME MailAssumption ==
    /\ Invocations \subseteq Nat
    /\ Content \in [Messages -> [kind : Kinds, cents : Int, balance : Int,
                                 readable : BOOLEAN]]
    /\ MaxRetries \in Nat /\ MaxRedeliveries \in Nat /\ MaxDeliveries \in Nat
    /\ None \notin Messages

VARIABLES
    reported,   \* reported[m]: what the API was told of its publish
    queued,     \* queued[m]: invocations the platform still owes the message
    retries,    \* retries[m]: how many of them repeated a failed one
    again,      \* number of deliveries of what was handled already
    pc,         \* pc[i]: what invocation i does next
    msg,        \* msg[i]: the message it handles
    html,       \* html[i]: what it rendered
    ses,        \* ses[i]: how SES stands to its request
    left        \* the mails that left SES, in order

vars == <<reported, queued, retries, again, pc, msg, html, ses, left>>

-----------------------------------------------------------------------------

\* What a mail is about.
Subjects == Kinds \cup {"deposit", "withdrawal", "decision", "request"}

Subject(kind) ==
    CASE kind = "AcknowledgeDeposit"         -> "deposit"
      [] kind = "AcknowledgeWithdrawal"      -> "withdrawal"
      [] kind = "ApproveTransactionRequest"  -> "decision"
      [] kind = "RejectTransactionRequest"   -> "decision"
      [] kind = "RequestWithdrawal"          -> "request"
      [] OTHER                               -> kind

\* What the template is about.
Template(kind) ==
    CASE kind \in {"AcknowledgeDeposit", "AcknowledgeWithdrawal"}             -> "deposit"
      [] kind \in {"ApproveTransactionRequest", "RejectTransactionRequest"}   -> "decision"
      [] kind = "RequestWithdrawal"                                           -> "request"
      [] OTHER                                                                -> kind

DollarsRounded(cents) == (cents + 50) \div 100
\* i64 division: it rounds towards zero, the balance of an overdrawn account too.
Dollars(cents) == IF cents >= 0 THEN cents \div 100 ELSE -((-cents) \div 100)

Rendered == [about : Subjects \cup {""}, figures : Seq(Int)]
NoHtml == [about |-> "", figures |-> <<>>]

\* generate_intermediate: the figures a template prints, in whole dollars.
Render(c) ==
    [about   |-> Template(c.kind),
     figures |-> CASE c.kind \in {"AcknowledgeDeposit", "AcknowledgeWithdrawal"} ->
                        <<Dollars(c.cents), Dollars(c.balance)>>
                   [] c.kind = "RequestWithdrawal" -> <<Dollars(c.cents)>>
                   [] OTHER -> <<>>]

-----------------------------------------------------------------------------

Init ==
    /\ reported = [m \in Messages |-> "none"]
    /\ queued = [m \in Messages |-> 0]
    /\ retries = [m \in Messages |-> 0]
    /\ again = 0
    /\ pc = [i \in Invocations |-> "free"]
    /\ msg = [i \in Invocations |-> None]
    /\ html = [i \in Invocations |-> NoHtml]
    /\ ses = [i \in Invocations |-> "none"]
    /\ left = <<>>

Published == {m \in Messages : reported[m] # "none"}
MoreDeliveries == Cardinality(Published) + again < MaxDeliveries

\* send.rs: the topic takes the message, whatever the API is told, or it does
\* not and the API is told of an error.
Publish(m) ==
    /\ reported[m] = "none" /\ MoreDeliveries
    /\ \/ /\ queued' = [queued EXCEPT ![m] = 1]
          /\ \E result \in {"ok", "error"} : reported' = [reported EXCEPT ![m] = result]
       \/ /\ reported' = [reported EXCEPT ![m] = "error"]
          /\ UNCHANGED queued
    /\ UNCHANGED <<retries, again, pc, msg, html, ses, left>>

Invoke(i, m) ==
    /\ pc[i] = "free" /\ \A j \in Invocations : j < i => pc[j] # "free"
    /\ queued[m] > 0
    /\ queued' = [queued EXCEPT ![m] = @ - 1]
    /\ msg' = [msg EXCEPT ![i] = m]
    /\ pc' = [pc EXCEPT ![i] = "getEmail"]
    /\ UNCHANGED <<reported, retries, again, html, ses, left>>

Redeliver(m) ==
    /\ again < MaxRedeliveries /\ MoreDeliveries
    /\ \E i \in Invocations : msg[i] = m
    /\ again' = again + 1
    /\ queued' = [queued EXCEPT ![m] = @ + 1]
    /\ UNCHANGED <<reported, retries, pc, msg, html, ses, left>>

-----------------------------------------------------------------------------

Goto(i, step) == pc' = [pc EXCEPT ![i] = step]

\* The handler returns an error, or the platform ends it: the platform repeats
\* the invocation while it has retries left.
Failed(i) ==
    /\ Goto(i, "failed")
    /\ IF retries[msg[i]] < MaxRetries
       THEN /\ retries' = [retries EXCEPT ![msg[i]] = @ + 1]
            /\ queued' = [queued EXCEPT ![msg[i]] = @ + 1]
       ELSE UNCHANGED <<retries, queued>>

GetEmailUnrendered(i) ==
    /\ pc[i] = "getEmail"
    /\ Goto(i, "send")
    /\ UNCHANGED <<reported, queued, retries, again, msg, html, ses, left>>

\* get_email: the message of the first record, or an error.
GetEmail(i) ==
    /\ pc[i] = "getEmail"
    /\ IF Content[msg[i]].readable
       THEN Goto(i, "render") /\ UNCHANGED <<retries, queued>>
       ELSE Failed(i)
    /\ UNCHANGED <<reported, again, msg, html, ses, left>>

Generate(i) ==
    /\ pc[i] = "render"
    /\ html' = [html EXCEPT ![i] = Render(Content[msg[i]])]
    /\ Goto(i, "send")
    /\ UNCHANGED <<reported, queued, retries, again, msg, ses, left>>

\* send_email reads its addresses from the environment, which may lack them,
\* and sends the request.
SendEmail(i) ==
    /\ pc[i] = "send"
    /\ \/ /\ ses' = [ses EXCEPT ![i] = "asked"]
          /\ Goto(i, "wait")
          /\ UNCHANGED <<retries, queued>>
       \/ Failed(i) /\ UNCHANGED ses
    /\ UNCHANGED <<reported, again, msg, html, left>>

\* SES takes the request, and the mail leaves, also after the handler gave up.
SesTakes(i) ==
    /\ ses[i] = "asked"
    /\ ses' = [ses EXCEPT ![i] = "took"]
    /\ left' = Append(left, [by |-> i, subject |-> Subject(Content[msg[i]].kind),
                             html |-> html[i]])
    /\ UNCHANGED <<reported, queued, retries, again, pc, msg, html>>

SesRefuses(i) ==
    /\ ses[i] = "asked"
    /\ ses' = [ses EXCEPT ![i] = "refused"]
    /\ UNCHANGED <<reported, queued, retries, again, pc, msg, html, left>>

AnsweredAny(i) ==
    /\ pc[i] = "wait" /\ ses[i] \in {"took", "refused"}
    /\ Goto(i, "success")
    /\ UNCHANGED <<reported, queued, retries, again, msg, html, ses, left>>

\* The answer of SES comes in time.
Answered(i) ==
    /\ pc[i] = "wait"
    /\ \/ /\ ses[i] = "took"
          /\ Goto(i, "success")
          /\ UNCHANGED <<retries, queued>>
       \/ ses[i] = "refused" /\ Failed(i)
    /\ UNCHANGED <<reported, again, msg, html, ses, left>>

TimeoutNever(i) == FALSE /\ UNCHANGED vars

TimeoutResends(i) ==
    /\ pc[i] = "wait"
    /\ Goto(i, "send")
    /\ UNCHANGED <<reported, queued, retries, again, msg, html, ses, left>>

\* with_timeout: 20 seconds without an answer are an error.
Timeout(i) ==
    /\ pc[i] = "wait"
    /\ Failed(i)
    /\ UNCHANGED <<reported, again, msg, html, ses, left>>

\* The platform ends the invocation, or the process dies.
Killed(i) ==
    /\ pc[i] \in {"getEmail", "render", "send", "wait"}
    /\ Failed(i)
    /\ UNCHANGED <<reported, again, msg, html, ses, left>>

Handle(i) == GetEmail(i) \/ Generate(i) \/ SendEmail(i) \/ Answered(i) \/ Timeout(i)

\* Nothing is due any more, or the bound on deliveries is used up.
Quiescent ==
    /\ Published = Messages \/ ~MoreDeliveries
    /\ \A i \in Invocations : pc[i] \in {"success", "failed", "free"}
    /\ UNCHANGED vars

Next ==
    \/ \E m \in Messages : Publish(m) \/ Redeliver(m)
    \/ \E i \in Invocations, m \in Messages : Invoke(i, m)
    \/ \E i \in Invocations : Handle(i) \/ SesTakes(i) \/ SesRefuses(i) \/ Killed(i)
    \/ Quiescent

Spec == Init /\ [][Next]_vars

\* The platform invokes what is due, and a handler that runs goes on: it does
\* not depend on SES, which may never answer.
Fairness ==
    /\ \A m \in Messages : WF_vars(\E i \in Invocations : Invoke(i, m))
    /\ \A i \in Invocations : WF_vars(Handle(i))

FairSpec == Spec /\ Fairness

-----------------------------------------------------------------------------
(***************************************************************************)
(* Properties.                                                             *)
(***************************************************************************)

MailsOf(m) == {j \in 1..Len(left) : msg[left[j].by] = m}
FailuresOf(m) == {i \in Invocations : msg[i] = m /\ pc[i] = "failed"}
Attempted(m) == {i \in Invocations : msg[i] = m}

\* Every variable has its type, and what is sent was rendered before.
TypeOK ==
    /\ \A i \in Invocations : ses[i] # "none" => html[i] # NoHtml
    /\ reported \in [Messages -> {"none", "ok", "error"}]
    /\ queued \in [Messages -> Nat]
    /\ retries \in [Messages -> 0..MaxRetries]
    /\ again \in 0..MaxRedeliveries
    /\ pc \in [Invocations -> {"free", "getEmail", "render", "send", "wait",
                               "success", "failed"}]
    /\ msg \in [Invocations -> Messages \cup {None}]
    /\ html \in [Invocations -> Rendered]
    /\ ses \in [Invocations -> {"none", "asked", "took", "refused"}]
    /\ left \in Seq([by : Invocations, subject : Subjects,
                     html : Rendered])

\* An invocation that answered success has sent the mail: no error of SES is
\* taken for success, so that nobody stops repeating too early.
SuccessMeansSent ==
    \A i \in Invocations :
        pc[i] = "success" => \E j \in 1..Len(left) : left[j].by = i

\* The whole dollars of an amount: no dollar that is not there, of money or of debt.
WholeDollars(dollars, cents) ==
    IF cents >= 0 THEN dollars * 100 <= cents /\ cents < dollars * 100 + 100
    ELSE dollars * 100 - 100 < cents /\ cents <= dollars * 100

\* A mail prints the figures of its own message, however deliveries overtake
\* each other: the first is the amount, the second the balance after it, and
\* neither names a dollar that is not there.
FiguresAreTheMessages ==
    \A j \in 1..Len(left) :
        LET c == Content[msg[left[j].by]]
            f == left[j].html.figures
        IN  /\ Len(f) >= 1 => WholeDollars(f[1], c.cents)
            /\ Len(f) = 2  => WholeDollars(f[2], c.balance)

\* Nobody gets a mail twice unless an invocation failed or the topic delivered
\* the message again: the handler itself sends at most once.
CopiesExplained ==
    \A m \in Messages : Cardinality(MailsOf(m)) <= 1 + Cardinality(FailuresOf(m)) + again

\* All three: no mail is missing, false or sent twice without a cause.
MailsAccounted == SuccessMeansSent /\ FiguresAreTheMessages /\ CopiesExplained

\* A message the API was told is published is sent in the end, or every attempt
\* the platform makes has failed: none hangs waiting for an answer of SES.
PublishedIsSent ==
    \A m \in Messages :
        reported[m] = "ok" ~>
            \/ MailsOf(m) # {}
            \/ retries[m] = MaxRetries /\ queued[m] = 0 /\ FailuresOf(m) = Attempted(m)

=============================================================================
