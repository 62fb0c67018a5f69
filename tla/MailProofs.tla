------------------------------ MODULE MailProofs ------------------------------
(***************************************************************************)
(* Proofs about Mail, for any messages, any number of invocations, retries *)
(* and redeliveries: the types, and that every mail is accounted for.      *)
(*                                                                         *)
(* The argument counts twice.  A message was given to no more invocations  *)
(* than one, and the retries and redeliveries it had, and each retry       *)
(* answers for a failed invocation (BalanceOK).  An invocation asked SES   *)
(* at most once (StageOK), so that the mails of a message are no more than *)
(* its invocations (LeftOK).                                               *)
(***************************************************************************)
EXTENDS Mail, FiniteSetTheorems, TLAPS

\* What the position of an invocation says of it.
StageOK(i) ==
    /\ pc[i] = "free" <=> msg[i] = None
    /\ pc[i] \in {"free", "getEmail", "render", "send"} => ses[i] = "none"
    /\ pc[i] = "wait" => ses[i] # "none"
    /\ pc[i] = "success" => ses[i] = "took"
    /\ pc[i] = "send" \/ ses[i] # "none" => html[i] = Render(Content[msg[i]])

StagesOK == \A i \in Invocations : StageOK(i)

\* The mails that left are those SES took, one of each invocation.
LeftOK ==
    /\ \A j \in 1..Len(left) :
          ses[left[j].by] = "took" /\ left[j].html = html[left[j].by]
    /\ \A j, k \in 1..Len(left) : left[j].by = left[k].by => j = k
    /\ \A i \in Invocations : ses[i] = "took" => \E j \in 1..Len(left) : left[j].by = i

\* The balance of a message: what is owed and was handed out, and why.
BalanceOK(m) ==
    /\ IsFiniteSet(Attempted(m))
    /\ queued[m] + Cardinality(Attempted(m)) <= 1 + retries[m] + again
    /\ retries[m] <= Cardinality(FailuresOf(m))
    /\ reported[m] = "none" => queued[m] = 0 /\ Attempted(m) = {} /\ retries[m] = 0

BalancesOK == \A m \in Messages : BalanceOK(m)

Sound == TypeOK /\ StagesOK /\ LeftOK /\ BalancesOK

-----------------------------------------------------------------------------
(* What is rendered *)

\* A template prints whole dollars, for amounts that are not negative and for debt.
LEMMA DollarsAreWhole ==
    ASSUME NEW cents \in Int
    PROVE  Dollars(cents) \in Int /\ WholeDollars(Dollars(cents), cents)
<1>1. CASE cents >= 0
  BY <1>1 DEF Dollars, WholeDollars
<1>2. CASE ~(cents >= 0)
  <2>1. -cents \in Int /\ -cents >= 0
    BY <1>2
  <2>2. PICK d \in Int : d = (-cents) \div 100
    BY <2>1
  <2>3. d * 100 <= -cents /\ -cents < d * 100 + 100
    BY <2>1, <2>2
  <2>4. Dollars(cents) = -d
    BY <1>2, <2>2 DEF Dollars
  <2> QED BY <1>2, <2>2, <2>3, <2>4 DEF WholeDollars
<1> QED BY <1>1, <1>2

LEMMA RenderIsTrue ==
    ASSUME NEW m \in Messages
    PROVE  /\ Render(Content[m]) \in Rendered
           /\ Render(Content[m]) # NoHtml
           /\ LET f == Render(Content[m]).figures
              IN  /\ Len(f) >= 1 => WholeDollars(f[1], Content[m].cents)
                  /\ Len(f) = 2  => WholeDollars(f[2], Content[m].balance)
<1> DEFINE c == Content[m]
<1>1. c.kind \in Kinds /\ c.cents \in Int /\ c.balance \in Int
  BY MailAssumption
<1>2. PICK a \in Int : a = Dollars(c.cents) /\ WholeDollars(a, c.cents)
  BY <1>1, DollarsAreWhole
<1>3. PICK b \in Int : b = Dollars(c.balance) /\ WholeDollars(b, c.balance)
  BY <1>1, DollarsAreWhole
<1>4. PICK about : about = Template(c.kind)
  OBVIOUS
<1>10. about \in Subjects /\ about # ""
  BY <1>1, <1>4 DEF Template, Kinds, Subjects
<1>5. PICK f : f = Render(c).figures
  OBVIOUS
<1>6. /\ f \in Seq(Int)
      /\ Len(f) >= 1 => WholeDollars(f[1], c.cents)
      /\ Len(f) = 2  => WholeDollars(f[2], c.balance)
  <2>1. CASE c.kind \in {"AcknowledgeDeposit", "AcknowledgeWithdrawal"}
    <3>1. f = <<a, b>>
      BY <1>2, <1>3, <1>5, <2>1 DEF Render
    <3> QED BY <1>2, <1>3, <3>1
  <2>2. CASE c.kind = "RequestWithdrawal"
    <3>1. f = <<a>>
      BY <1>2, <1>5, <2>2 DEF Render
    <3> QED BY <1>2, <3>1
  <2>3. CASE c.kind \notin {"AcknowledgeDeposit", "AcknowledgeWithdrawal", "RequestWithdrawal"}
    <3>1. f = << >>
      BY <1>5, <2>3 DEF Render
    <3> QED BY <3>1
  <2> QED BY <2>1, <2>2, <2>3
<1>7. PICK r : r = Render(Content[m])
  OBVIOUS
<1>8. r = [about |-> about, figures |-> f]
  BY <1>4, <1>5, <1>7 DEF Render
<1>9. f \in Seq(Int)
  BY <1>6
<1>11. r \in Rendered
  BY <1>10, <1>8, <1>9 DEF Rendered
<1>12. r # NoHtml
  BY <1>10, <1>8 DEF NoHtml
<1> QED BY <1>5, <1>6, <1>7, <1>11, <1>12

-----------------------------------------------------------------------------
(* Init *)

LEMMA InitSound ==
    ASSUME Init
    PROVE  Sound
<1>1. TypeOK
  <2>1. << >> \in Seq([by : Invocations, subject : Subjects,
                       html : Rendered])
    OBVIOUS
  <2>2. NoHtml \in Rendered
    BY DEF NoHtml, Rendered
  <2> QED BY <2>1, <2>2, MailAssumption DEF Init, TypeOK
<1>2. StagesOK
  BY DEF Init, StagesOK, StageOK
<1>3. LeftOK
  BY DEF Init, LeftOK
<1>4. ASSUME NEW m \in Messages  PROVE BalanceOK(m)
  <2>1. Attempted(m) = {} /\ FailuresOf(m) = {}
    BY MailAssumption DEF Init, Attempted, FailuresOf
  <2> QED BY <2>1, FS_EmptySet DEF Init, BalanceOK
<1> QED BY <1>1, <1>2, <1>3, <1>4 DEF Sound, BalancesOK

-----------------------------------------------------------------------------
(* The balance of a message *)

\* An invocation under way goes on, or fails and is repeated while retries are left.
Works(i) ==
    /\ pc[i] \in {"getEmail", "render", "send", "wait"}
    /\ UNCHANGED <<reported, again, msg>>
    /\ \/ Failed(i)
       \/ /\ \E step \in {"render", "send", "wait", "success"} : Goto(i, step)
          /\ UNCHANGED <<queued, retries>>

LEMMA HandlingWorks ==
    ASSUME TypeOK, NEW i \in Invocations, Handle(i) \/ Killed(i)
    PROVE  Works(i) /\ UNCHANGED left
<1>1. CASE GetEmail(i)
  BY <1>1 DEF GetEmail, Works
<1>2. CASE Generate(i)
  BY <1>2 DEF Generate, Works
<1>3. CASE SendEmail(i)
  BY <1>3 DEF SendEmail, Works
<1>4. CASE Answered(i)
  BY <1>4 DEF Answered, Works
<1>5. CASE Timeout(i)
  BY <1>5 DEF Timeout, Works
<1>6. CASE Killed(i)
  BY <1>6 DEF Killed, Works
<1> QED BY <1>1, <1>2, <1>3, <1>4, <1>5, <1>6
        DEF Handle, GetEmail, Generate, SendEmail, Answered, Timeout, Killed

\* A step of an invocation moves no other one.
LEMMA WorksAlone ==
    ASSUME TypeOK, StagesOK, NEW i \in Invocations, Works(i)
    PROVE  /\ msg[i] \in Messages
           /\ pc'[i] \in {"render", "send", "wait", "success", "failed"}
           /\ \A q \in Invocations \ {i} : pc'[q] = pc[q]
           /\ pc' \in [Invocations -> {"free", "getEmail", "render", "send", "wait",
                                       "success", "failed"}]
           /\ queued' \in [Messages -> Nat] /\ retries' \in [Messages -> 0..MaxRetries]
<1>1. msg[i] \in Messages
  BY DEF Works, StagesOK, StageOK, TypeOK
<1>2. CASE Failed(i)
  <2>1. pc' = [pc EXCEPT ![i] = "failed"]
    BY <1>2 DEF Failed, Goto
  <2>2. CASE retries[msg[i]] < MaxRetries
    <3>1. /\ retries' = [retries EXCEPT ![msg[i]] = retries[msg[i]] + 1]
          /\ queued' = [queued EXCEPT ![msg[i]] = queued[msg[i]] + 1]
      BY <1>2, <2>2 DEF Failed
    <3>2. queued[msg[i]] + 1 \in Nat /\ retries[msg[i]] + 1 \in 0..MaxRetries
      BY <1>1, <2>2, MailAssumption DEF TypeOK
    <3> QED BY <1>1, <2>1, <3>1, <3>2 DEF TypeOK
  <2>3. CASE ~(retries[msg[i]] < MaxRetries)
    BY <1>1, <1>2, <2>1, <2>3 DEF Failed, TypeOK
  <2> QED BY <2>2, <2>3
<1>3. CASE ~Failed(i)
  <2>1. PICK step \in {"render", "send", "wait", "success"} : pc' = [pc EXCEPT ![i] = step]
    BY <1>3 DEF Works, Goto
  <2>2. UNCHANGED <<queued, retries>>
    BY <1>3 DEF Works
  <2> QED BY <1>1, <2>1, <2>2 DEF TypeOK
<1> QED BY <1>2, <1>3

LEMMA WorkKeepsBalances ==
    ASSUME Sound, NEW i \in Invocations, Works(i)
    PROVE  BalancesOK'
<1>0. TypeOK /\ StagesOK /\ BalancesOK /\ UNCHANGED <<reported, again, msg>>
  BY DEF Sound, Works
<1>1. SUFFICES ASSUME NEW m \in Messages  PROVE BalanceOK(m)'
  BY DEF BalancesOK
<1>2. BalanceOK(m)
  BY <1>0 DEF BalancesOK
<1>3. Attempted(m)' = Attempted(m)
  BY <1>0 DEF Attempted
<1>4. PICK failures : failures = FailuresOf(m)
  OBVIOUS
<1>5. IsFiniteSet(failures)
  <2>1. failures \subseteq Attempted(m)
    BY <1>4 DEF FailuresOf, Attempted
  <2> QED BY <1>2, <2>1, FS_Subset DEF BalanceOK
<1>6. /\ retries[m] \in Nat /\ queued[m] \in Nat /\ again \in Nat
      /\ Cardinality(Attempted(m)) \in Nat /\ Cardinality(failures) \in Nat
  <2>1. /\ retries[m] \in Nat /\ queued[m] \in Nat /\ again \in Nat
    BY <1>0, MailAssumption DEF TypeOK
  <2> QED BY <1>2, <1>5, <2>1, FS_CardinalityType DEF BalanceOK
<1>7. i \notin failures
  BY <1>4 DEF FailuresOf, Works
<1>8. CASE Failed(i) /\ msg[i] = m
  <2>1. /\ pc' = [pc EXCEPT ![i] = "failed"] /\ i \in Attempted(m)
        /\ IF retries[m] < MaxRetries
           THEN retries'[m] = retries[m] + 1 /\ queued'[m] = queued[m] + 1
           ELSE retries'[m] = retries[m] /\ queued'[m] = queued[m]
    BY <1>0, <1>8 DEF Failed, Goto, Attempted, TypeOK
  <2>2. FailuresOf(m)' = failures \cup {i}
    BY <1>0, <1>4, <1>8, <2>1 DEF FailuresOf, TypeOK
  <2>3. Cardinality(FailuresOf(m)') = Cardinality(failures) + 1
    BY <1>5, <1>7, <2>2, FS_AddElement
  <2>4. reported[m] # "none"
    BY <1>2, <2>1 DEF BalanceOK
  <2> QED BY <1>0, <1>2, <1>3, <1>4, <1>6, <2>1, <2>3, <2>4 DEF BalanceOK
<1>9. CASE ~(Failed(i) /\ msg[i] = m)
  <2>1. retries'[m] = retries[m] /\ queued'[m] = queued[m]
    BY <1>0, <1>9 DEF Works, Failed, TypeOK
  <2>2. FailuresOf(m)' = failures
    <3>1. CASE Failed(i)
      BY <1>0, <1>4, <1>9, <3>1 DEF FailuresOf, Failed, Goto, TypeOK
    <3>2. CASE ~Failed(i)
      <4>1. PICK step \in {"render", "send", "wait", "success"} : pc' = [pc EXCEPT ![i] = step]
        BY <3>2 DEF Works, Goto
      <4> QED BY <1>0, <1>4, <1>7, <4>1 DEF FailuresOf, TypeOK
    <3> QED BY <3>1, <3>2
  <2> QED BY <1>0, <1>2, <1>3, <1>4, <2>1, <2>2 DEF BalanceOK
<1> QED BY <1>8, <1>9

LEMMA DeliveryKeepsBalances ==
    ASSUME Sound, NEW m \in Messages,
           Publish(m) \/ Redeliver(m) \/ \E i \in Invocations : Invoke(i, m)
    PROVE  /\ BalancesOK' /\ queued' \in [Messages -> Nat]
           /\ reported' \in [Messages -> {"none", "ok", "error"}]
           /\ again' \in 0..MaxRedeliveries
<1>0. TypeOK /\ StagesOK /\ UNCHANGED retries
  BY DEF Sound, Publish, Redeliver, Invoke
<1>1. ASSUME NEW k \in Messages
      PROVE  /\ BalanceOK(k) /\ Cardinality(Attempted(k)) \in Nat
             /\ retries[k] \in Nat /\ queued[k] \in Nat /\ again \in Nat
  BY <1>0, FS_CardinalityType, MailAssumption DEF Sound, BalancesOK, BalanceOK, TypeOK
<1>2. CASE Publish(m)
  <2>1. reported[m] = "none" /\ UNCHANGED <<again, pc, msg>>
        /\ (UNCHANGED queued \/ queued' = [queued EXCEPT ![m] = 1])
        /\ \E result \in {"ok", "error"} : reported' = [reported EXCEPT ![m] = result]
    BY <1>2 DEF Publish
  <2>2. ASSUME NEW k \in Messages  PROVE BalanceOK(k)'
    <3>1. Attempted(k)' = Attempted(k) /\ FailuresOf(k)' = FailuresOf(k)
      BY <2>1 DEF Attempted, FailuresOf
    <3>2. CASE k = m
      <4>1. reported'[m] # "none"
        BY <1>0, <2>1 DEF TypeOK
      <4>3. BalanceOK(m) /\ Attempted(m) = {} /\ queued[m] = 0 /\ retries[m] = 0
        BY <1>1, <2>1 DEF BalanceOK
      <4>4. queued'[m] <= 1 /\ Cardinality(Attempted(m)) = 0
        BY <1>0, <2>1, <4>3, FS_EmptySet DEF TypeOK
      <4>2. queued'[m] \in Nat
        BY <1>0, <1>1, <2>1 DEF TypeOK
      <4> QED BY <1>0, <1>1, <2>1, <3>1, <3>2, <4>1, <4>2, <4>3, <4>4 DEF BalanceOK
    <3>3. CASE k # m
      BY <1>0, <1>1, <2>1, <3>1, <3>3 DEF BalanceOK, TypeOK
    <3> QED BY <3>2, <3>3
  <2> QED BY <1>0, <2>1, <2>2 DEF BalancesOK, TypeOK
<1>3. CASE Redeliver(m)
  <2>1. /\ queued' = [queued EXCEPT ![m] = queued[m] + 1] /\ again' = again + 1
        /\ again < MaxRedeliveries /\ UNCHANGED <<reported, pc, msg>>
        /\ Attempted(m) # {}
    BY <1>3 DEF Redeliver, Attempted
  <2>2. ASSUME NEW k \in Messages  PROVE BalanceOK(k)'
    <3>1. Attempted(k)' = Attempted(k) /\ FailuresOf(k)' = FailuresOf(k)
      BY <2>1 DEF Attempted, FailuresOf
    <3> QED BY SMTT(30), <1>0, <1>1, <2>1, <3>1 DEF BalanceOK, TypeOK
  <2>3. queued[m] + 1 \in Nat /\ again + 1 \in 0..MaxRedeliveries
    BY <1>1, <2>1, MailAssumption DEF TypeOK
  <2> QED BY <1>0, <2>1, <2>2, <2>3 DEF BalancesOK, TypeOK
<1>4. ASSUME NEW i \in Invocations, Invoke(i, m)
      PROVE  BalancesOK' /\ queued' \in [Messages -> Nat] /\ UNCHANGED <<reported, again>>
  <2>1. /\ pc[i] = "free" /\ queued[m] > 0 /\ queued' = [queued EXCEPT ![m] = queued[m] - 1]
        /\ msg' = [msg EXCEPT ![i] = m] /\ pc' = [pc EXCEPT ![i] = "getEmail"]
        /\ UNCHANGED <<reported, again>> /\ msg[i] = None
    BY <1>0, <1>4 DEF Invoke, StagesOK, StageOK
  <2>2. ASSUME NEW k \in Messages  PROVE BalanceOK(k)'
    <3>1. FailuresOf(k)' = FailuresOf(k)
      BY <1>0, <2>1 DEF FailuresOf, TypeOK
    <3>2. CASE k = m
      <4>1. Attempted(m)' = Attempted(m) \cup {i} /\ i \notin Attempted(m)
        BY <1>0, <2>1, MailAssumption DEF Attempted, TypeOK
      <4>2. /\ IsFiniteSet(Attempted(m)')
            /\ Cardinality(Attempted(m)') = Cardinality(Attempted(m)) + 1
        BY <1>1, <4>1, FS_AddElement DEF BalanceOK
      <4>3. queued'[m] = queued[m] - 1 /\ reported[m] # "none"
        BY <1>0, <1>1, <2>1 DEF BalanceOK, TypeOK
      <4> QED BY <1>0, <1>1, <2>1, <3>1, <3>2, <4>2, <4>3 DEF BalanceOK
    <3>3. CASE k # m
      <4>1. Attempted(k)' = Attempted(k)
        BY <1>0, <2>1, <3>3, MailAssumption DEF Attempted, TypeOK
      <4> QED BY <1>0, <1>1, <2>1, <3>1, <3>3, <4>1 DEF BalanceOK, TypeOK
    <3> QED BY <3>2, <3>3
  <2>3. queued[m] - 1 \in Nat
    BY <1>1, <2>1
  <2> QED BY <1>0, <2>1, <2>2, <2>3 DEF BalancesOK, TypeOK
<1> QED BY <1>0, <1>2, <1>3, <1>4 DEF TypeOK

-----------------------------------------------------------------------------
(* The steps *)

LEMMA LeftByInvocations ==
    ASSUME TypeOK
    PROVE  \A j \in 1..Len(left) : left[j].by \in Invocations
<1> DEFINE T == [by : Invocations, subject : Subjects, html : Rendered]
<1>1. left \in Seq(T) /\ \A t \in T : t.by \in Invocations
  BY DEF TypeOK
<1> HIDE DEF T
<1> QED BY <1>1

\* A step of an invocation keeps types, stages and what has left.
LEMMA HandlingKeeps ==
    ASSUME Sound, NEW i \in Invocations, Handle(i) \/ Killed(i)
    PROVE  Sound'
<1>0. TypeOK /\ StagesOK /\ LeftOK /\ Works(i) /\ BalancesOK'
      /\ UNCHANGED <<reported, again, msg, left>>
  BY HandlingWorks, WorkKeepsBalances DEF Sound, Works
<1>1. /\ msg[i] \in Messages
      /\ \A q \in Invocations \ {i} : pc'[q] = pc[q]
      /\ pc' \in [Invocations -> {"free", "getEmail", "render", "send", "wait",
                                  "success", "failed"}]
      /\ queued' \in [Messages -> Nat] /\ retries' \in [Messages -> 0..MaxRetries]
  BY <1>0, WorksAlone
<1>2. ASSUME Failed(i)  PROVE pc'[i] = "failed"
  BY <1>0, <1>2 DEF Failed, Goto, TypeOK
<1>3. ASSUME NEW step, Goto(i, step)  PROVE pc'[i] = step
  BY <1>0, <1>3 DEF Goto, TypeOK
<1>4. StageOK(i) /\ msg[i] # None
  BY <1>0, <1>1, MailAssumption DEF StagesOK
<1>5. ASSUME UNCHANGED <<html, ses>>, StageOK(i)'
      PROVE  Sound'
  <2>1. TypeOK'
    BY <1>0, <1>1, <1>5 DEF TypeOK
  <2>2. ASSUME NEW q \in Invocations \ {i}  PROVE StageOK(q)'
    BY <1>0, <1>1, <1>5, <2>2 DEF StagesOK, StageOK
  <2>3. LeftOK'
    BY <1>0, <1>5 DEF LeftOK
  <2> QED BY <1>0, <1>5, <2>1, <2>2, <2>3 DEF Sound, StagesOK
<1>13. ASSUME UNCHANGED <<html, ses>>, pc'[i] = "failed"
       PROVE  StageOK(i)'
  BY <1>0, <1>4, <1>13 DEF StageOK
<1>6. CASE GetEmail(i)
  <2>1. UNCHANGED <<html, ses>> /\ pc[i] = "getEmail" /\ pc'[i] \in {"render", "failed"}
    BY <1>2, <1>3, <1>6 DEF GetEmail
  <2>2. StageOK(i)'
    BY <1>0, <1>4, <2>1 DEF StageOK
  <2> QED BY <1>5, <2>1, <2>2
<1>7. CASE Generate(i)
  <2>1. PICK page \in Rendered : page = Render(Content[msg[i]]) /\ page # NoHtml
    BY <1>1, RenderIsTrue
  <2>2. /\ html' = [html EXCEPT ![i] = page] /\ UNCHANGED ses
        /\ pc[i] = "render" /\ pc'[i] = "send" /\ ses[i] = "none"
    BY <1>3, <1>4, <1>7, <2>1 DEF Generate, StageOK
  <2>3. html'[i] = page /\ \A q \in Invocations \ {i} : html'[q] = html[q]
    BY <1>0, <2>2 DEF TypeOK
  <2>4. TypeOK'
    BY <1>0, <1>1, <2>1, <2>2 DEF TypeOK
  <2>5. StageOK(i)'
    BY <1>0, <1>4, <2>1, <2>2, <2>3 DEF StageOK
  <2>6. ASSUME NEW q \in Invocations \ {i}  PROVE StageOK(q)'
    BY <1>0, <1>1, <2>2, <2>3 DEF StagesOK, StageOK
  <2>7. ASSUME NEW j \in 1..Len(left)  PROVE left[j].by \in Invocations \ {i}
    BY <1>0, <2>2, LeftByInvocations DEF LeftOK
  <2>8. LeftOK'
    BY <1>0, <2>2, <2>3, <2>7 DEF LeftOK
  <2> QED BY <1>0, <2>4, <2>5, <2>6, <2>8 DEF Sound, StagesOK
<1>8. CASE SendEmail(i)
  <2>1. CASE UNCHANGED ses
    <3>2. ses' # [ses EXCEPT ![i] = "asked"]
      BY <1>0, <1>4, <1>8, <2>1 DEF SendEmail, StageOK, TypeOK
    <3>3. pc'[i] = "failed" /\ UNCHANGED <<html, ses>>
      BY <1>2, <1>8, <2>1, <3>2 DEF SendEmail
    <3> QED BY <1>5, <1>13, <3>3
  <2>2. CASE ses' = [ses EXCEPT ![i] = "asked"] /\ Goto(i, "wait")
    <3>1. /\ pc[i] = "send" /\ pc'[i] = "wait" /\ ses[i] = "none" /\ UNCHANGED html
          /\ ses'[i] = "asked" /\ \A q \in Invocations \ {i} : ses'[q] = ses[q]
      BY <1>0, <1>3, <1>4, <1>8, <2>2 DEF SendEmail, StageOK, TypeOK
    <3>2. html[i] = Render(Content[msg[i]]) /\ html[i] # NoHtml
      BY <1>1, <1>4, <3>1, RenderIsTrue DEF StageOK
    <3>3. TypeOK'
      BY <1>0, <1>1, <2>2, <3>1, <3>2 DEF TypeOK
    <3>4. StageOK(i)'
      BY <1>0, <1>4, <3>1, <3>2 DEF StageOK
    <3>5. ASSUME NEW q \in Invocations \ {i}  PROVE StageOK(q)'
      BY <1>0, <1>1, <3>1 DEF StagesOK, StageOK
    <3>6. ASSUME NEW j \in 1..Len(left)  PROVE left[j].by \in Invocations \ {i}
      BY <1>0, <3>1, LeftByInvocations DEF LeftOK
    <3>7. LeftOK'
      BY <1>0, <3>1, <3>6 DEF LeftOK
    <3> QED BY <1>0, <3>3, <3>4, <3>5, <3>7 DEF Sound, StagesOK
  <2> QED BY <1>8, <2>1, <2>2 DEF SendEmail
<1>9. CASE Answered(i)
  <2>1. /\ UNCHANGED <<html, ses>> /\ pc[i] = "wait"
        /\ pc'[i] = "failed" \/ (pc'[i] = "success" /\ ses[i] = "took")
    BY <1>2, <1>3, <1>9 DEF Answered
  <2>2. StageOK(i)'
    BY <1>0, <1>4, <2>1 DEF StageOK
  <2> QED BY <1>5, <2>1, <2>2
<1>10. CASE Timeout(i)
  BY <1>2, <1>5, <1>10, <1>13 DEF Timeout
<1>11. CASE Killed(i)
  BY <1>2, <1>5, <1>11, <1>13 DEF Killed
<1>12. (GetEmail(i) \/ Answered(i) \/ Timeout(i) \/ Killed(i)) \/ Generate(i) \/ SendEmail(i)
  BY DEF Handle
<1> QED BY <1>0, <1>6, <1>7, <1>8, <1>9, <1>10, <1>11, <1>12 DEF Sound

\* A delivery, and what the API is told of a message, touch no mail.
LEMMA DeliveryKeeps ==
    ASSUME Sound, NEW m \in Messages,
           Publish(m) \/ Redeliver(m) \/ \E i \in Invocations : Invoke(i, m)
    PROVE  Sound'
<1>0. /\ TypeOK /\ StagesOK /\ LeftOK /\ UNCHANGED <<retries, html, ses, left>>
      /\ BalancesOK' /\ queued' \in [Messages -> Nat]
      /\ reported' \in [Messages -> {"none", "ok", "error"}] /\ again' \in 0..MaxRedeliveries
  BY DeliveryKeepsBalances DEF Sound, Publish, Redeliver, Invoke
<1>1. LeftOK'
  BY <1>0 DEF LeftOK
<1>2. CASE Publish(m) \/ Redeliver(m)
  <2>1. UNCHANGED <<pc, msg>>
    BY <1>2 DEF Publish, Redeliver
  <2>2. TypeOK' /\ StagesOK'
    BY <1>0, <2>1 DEF TypeOK, StagesOK, StageOK
  <2> QED BY <1>0, <1>1, <2>2 DEF Sound
<1>3. ASSUME NEW i \in Invocations, Invoke(i, m)
      PROVE  Sound'
  <2>1. /\ pc[i] = "free" /\ msg' = [msg EXCEPT ![i] = m]
        /\ pc' = [pc EXCEPT ![i] = "getEmail"] /\ m # None
    BY <1>3, MailAssumption DEF Invoke
  <2>2. TypeOK'
    BY <1>0, <2>1 DEF TypeOK
  <2>3. StageOK(i) /\ ses[i] = "none"
    BY <1>0, <2>1 DEF StagesOK, StageOK
  <2>4. StageOK(i)'
    BY <1>0, <2>1, <2>3 DEF StageOK, TypeOK
  <2>5. ASSUME NEW q \in Invocations \ {i}  PROVE StageOK(q)'
    BY <1>0, <2>1, <2>5 DEF StagesOK, StageOK, TypeOK
  <2> QED BY <1>0, <1>1, <2>2, <2>4, <2>5 DEF Sound, StagesOK
<1> QED BY <1>2, <1>3

\* SES takes a mail: the first of its invocation.
LEMMA TakingKeeps ==
    ASSUME Sound, NEW i \in Invocations, SesTakes(i) \/ SesRefuses(i)
    PROVE  Sound'
<1>0. TypeOK /\ StagesOK /\ LeftOK /\ BalancesOK /\ StageOK(i) /\ ses[i] = "asked"
      /\ UNCHANGED <<reported, queued, retries, again, pc, msg, html>>
  BY DEF Sound, StagesOK, SesTakes, SesRefuses
<1>1. BalancesOK'
  BY <1>0 DEF BalancesOK, BalanceOK, Attempted, FailuresOf
<1>2. ASSUME NEW j \in 1..Len(left)  PROVE left[j].by \in Invocations \ {i}
  BY <1>0, LeftByInvocations DEF LeftOK
<1>3. /\ html[i] # NoHtml /\ pc[i] \in {"wait", "failed"} /\ msg[i] \in Messages
  <2>1. pc[i] \in {"wait", "failed"}
    BY <1>0 DEF StageOK, TypeOK
  <2> QED BY <1>0, <2>1 DEF TypeOK, StageOK
<1>4. ASSUME NEW state \in {"took", "refused"}, ses' = [ses EXCEPT ![i] = state]
      PROVE  StagesOK'
  <2>1. ses'[i] = state /\ \A q \in Invocations \ {i} : ses'[q] = ses[q]
    BY <1>0, <1>4 DEF TypeOK
  <2>2. StageOK(i)'
    BY <1>0, <1>3, <2>1 DEF StageOK
  <2>3. ASSUME NEW q \in Invocations \ {i}  PROVE StageOK(q)'
    BY <1>0, <2>1, <2>3 DEF StagesOK, StageOK
  <2> QED BY <2>2, <2>3 DEF StagesOK
<1>5. CASE SesRefuses(i)
  <2>1. ses' = [ses EXCEPT ![i] = "refused"] /\ UNCHANGED left
    BY <1>5 DEF SesRefuses
  <2>2. TypeOK'
    BY <1>0, <1>3, <2>1 DEF TypeOK
  <2>3. ses'[i] # "took" /\ \A q \in Invocations \ {i} : ses'[q] = ses[q]
    BY <1>0, <2>1 DEF TypeOK
  <2>4. LeftOK'
    BY <1>0, <1>2, <2>1, <2>3 DEF LeftOK
  <2> QED BY <1>1, <1>4, <2>1, <2>2, <2>4 DEF Sound
<1>6. CASE SesTakes(i)
  <2> DEFINE T == [by : Invocations, subject : Subjects, html : Rendered]
  <2>1. PICK mail : mail = [by |-> i, subject |-> Subject(Content[msg[i]].kind), html |-> html[i]]
    OBVIOUS
  <2>2. ses' = [ses EXCEPT ![i] = "took"] /\ left' = Append(left, mail)
    BY <1>6, <2>1 DEF SesTakes
  <2>3. Content[msg[i]].kind \in Kinds
    BY <1>3, MailAssumption
  <2>4. Subject(Content[msg[i]].kind) \in Subjects
    BY <2>3 DEF Subject, Subjects, Kinds
  <2>5. mail \in T /\ left \in Seq(T) /\ mail.by = i /\ mail.html = html[i]
    BY <1>0, <2>1, <2>4 DEF TypeOK
  <2> HIDE DEF T
  <2>6. /\ left' \in Seq(T) /\ Len(left') = Len(left) + 1 /\ Len(left) \in Nat
        /\ left'[Len(left) + 1] = mail
        /\ \A j \in 1..Len(left) : left'[j] = left[j]
    BY <2>2, <2>5
  <2>7. TypeOK'
    <3>1. left' \in Seq([by : Invocations, subject : Subjects, html : Rendered])
      BY <2>6 DEF T
    <3> QED BY <1>0, <1>3, <2>2, <3>1 DEF TypeOK
  <2>8. ses'[i] = "took" /\ \A q \in Invocations \ {i} : ses'[q] = ses[q]
    BY <1>0, <2>2 DEF TypeOK
  <2>9. LeftOK'
    <3>1. \A j \in 1..Len(left') : j = Len(left) + 1 \/ j \in 1..Len(left)
      BY <2>6
    <3>2. \A j \in 1..Len(left') :
              ses'[left'[j].by] = "took" /\ left'[j].html = html'[left'[j].by]
      BY <1>0, <1>2, <2>5, <2>6, <2>8, <3>1 DEF LeftOK
    <3>3. \A j, k \in 1..Len(left') : left'[j].by = left'[k].by => j = k
      BY <1>0, <1>2, <2>5, <2>6, <3>1 DEF LeftOK
    <3>4. ASSUME NEW q \in Invocations, ses'[q] = "took"
          PROVE  \E j \in 1..Len(left') : left'[j].by = q
      <4>1. CASE q = i
        BY <2>5, <2>6, <4>1
      <4>2. CASE q # i
        <5>1. PICK j \in 1..Len(left) : left[j].by = q
          BY <1>0, <2>8, <3>4, <4>2 DEF LeftOK
        <5> QED BY <2>6, <5>1
      <4> QED BY <4>1, <4>2
    <3> QED BY <3>2, <3>3, <3>4 DEF LeftOK
  <2> QED BY <1>1, <1>4, <2>2, <2>7, <2>9 DEF Sound
<1> QED BY <1>5, <1>6

LEMMA NextKeeps ==
    ASSUME Sound, [Next]_vars
    PROVE  Sound'
<1>1. CASE UNCHANGED vars
  <2>1. TypeOK' /\ StagesOK' /\ LeftOK'
    BY <1>1 DEF vars, Sound, TypeOK, StagesOK, StageOK, LeftOK
  <2>2. \A m \in Messages : Attempted(m)' = Attempted(m) /\ FailuresOf(m)' = FailuresOf(m)
    BY <1>1 DEF vars, Attempted, FailuresOf
  <2>3. BalancesOK'
    BY <1>1, <2>2 DEF vars, Sound, BalancesOK, BalanceOK
  <2> QED BY <2>1, <2>3 DEF Sound
<1>2. CASE ~UNCHANGED vars
  BY <1>2, DeliveryKeeps, HandlingKeeps, TakingKeeps DEF Next, Quiescent
<1> QED BY <1>1, <1>2

LEMMA AlwaysSound == Spec => []Sound
<1>1. Init => Sound
  BY InitSound
<1>2. Sound /\ [Next]_vars => Sound'
  BY NextKeeps
<1> QED BY <1>1, <1>2, PTL DEF Spec

-----------------------------------------------------------------------------
(* The properties *)

\* No error of SES is taken for success, a mail prints its own message's figures,
\* and every copy has a failure or a redelivery that explains it.
LEMMA SoundAccounts ==
    ASSUME Sound
    PROVE  MailsAccounted
<1>0. TypeOK /\ StagesOK /\ LeftOK /\ BalancesOK /\ Len(left) \in Nat
  BY DEF Sound, TypeOK
<1>1. SuccessMeansSent
  BY <1>0 DEF SuccessMeansSent, StagesOK, StageOK, LeftOK
<1>2. FiguresAreTheMessages
  <2>1. SUFFICES ASSUME NEW j \in 1..Len(left)
                 PROVE  LET c == Content[msg[left[j].by]]
                            f == left[j].html.figures
                        IN  /\ Len(f) >= 1 => WholeDollars(f[1], c.cents)
                            /\ Len(f) = 2  => WholeDollars(f[2], c.balance)
    BY DEF FiguresAreTheMessages
  <2>2. PICK i \in Invocations : i = left[j].by
    BY <1>0, LeftByInvocations
  <2>3. ses[i] = "took" /\ left[j].html = html[i] /\ StageOK(i)
    BY <1>0, <2>2 DEF LeftOK, StagesOK
  <2>4. msg[i] \in Messages /\ left[j].html = Render(Content[msg[i]])
    BY <1>0, <2>3 DEF StageOK, TypeOK
  <2> QED BY <2>2, <2>4, RenderIsTrue
<1>3. ASSUME NEW m \in Messages
      PROVE  Cardinality(MailsOf(m)) <= 1 + Cardinality(FailuresOf(m)) + again
  <2>1. PICK mails : mails = MailsOf(m)
    OBVIOUS
  <2>2. BalanceOK(m) /\ IsFiniteSet(Attempted(m)) /\ FailuresOf(m) \subseteq Attempted(m)
    BY <1>0 DEF BalancesOK, BalanceOK, FailuresOf, Attempted
  <2>3. Cardinality(FailuresOf(m)) \in Nat /\ Cardinality(Attempted(m)) \in Nat
    BY <2>2, FS_Subset, FS_CardinalityType
  <2>4. PICK by \in [mails -> Attempted(m)] : \A j \in mails : by[j] = left[j].by
    <3>1. \A j \in mails : left[j].by \in Attempted(m)
      BY <1>0, <2>1, LeftByInvocations DEF MailsOf, Attempted
    <3>2. [j \in mails |-> left[j].by] \in [mails -> Attempted(m)]
      BY <3>1
    <3> QED BY <3>2
  <2>5. \A j, k \in mails : by[j] = by[k] => j = k
    BY <1>0, <2>1, <2>4 DEF LeftOK, MailsOf
  <2>6. by \in Injection(mails, Attempted(m))
    BY <2>4, <2>5 DEF Injection, IsInjective
  <2>7. IsFiniteSet(mails) /\ Cardinality(mails) <= Cardinality(Attempted(m))
    BY <2>2, <2>6, FS_Injection
  <2>8. /\ queued[m] \in Nat /\ retries[m] \in Nat /\ again \in Nat
        /\ Cardinality(mails) \in Nat
    BY <1>0, <2>7, FS_CardinalityType, MailAssumption DEF TypeOK
  <2> QED BY <2>1, <2>2, <2>3, <2>7, <2>8 DEF BalanceOK
<1> QED BY <1>1, <1>2, <1>3 DEF MailsAccounted, CopiesExplained

\* Every variable of the way of a mail keeps its type, and nothing is sent that was
\* not rendered: for any messages, invocations, retries and redeliveries.
THEOREM MailTypes == Spec => []TypeOK
<1>1. Sound => TypeOK
  BY DEF Sound
<1> QED BY <1>1, AlwaysSound, PTL

\* An invocation that answered success has sent its mail, a mail prints the whole
\* dollars of its own message, and no message is sent more often than one, its
\* failed invocations and the redeliveries explain.
THEOREM EveryMailAccounted == Spec => []MailsAccounted
<1>1. Sound => MailsAccounted
  BY SoundAccounts
<1> QED BY <1>1, AlwaysSound, PTL

=============================================================================
