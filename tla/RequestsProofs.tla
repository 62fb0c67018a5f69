--------------------------- MODULE RequestsProofs ---------------------------
(***************************************************************************)
(* Proofs about WithdrawalRequests and RequestsPage, for any number of     *)
(* calls, users, accounts and browsers.                                    *)
(***************************************************************************)
EXTENDS RequestsPage, SequenceTheorems, TLAPS

-----------------------------------------------------------------------------
(* What the server does, whoever asks.                                     *)

Sent == Asks \cup Resolutions \cup Listings

ServerNext ==
    \/ \E c \in Calls, k \in Sent : Arrive(c, k)
    \/ \E c \in Calls : Serve(c)

\* A row's place in the table is its id.
Numbered ==
    /\ \A i \in 1..Len(requests) : requests[i].id = i
    /\ \A e \in 1..Len(log) : log[e].id \in 1..Len(requests)
    /\ told \subseteq 1..Len(log)

\* Call c has written row r, and its entry in the log says so.
Written(c, r) ==
    /\ r.id \in 1..Len(requests)
    /\ r.account = requests[r.id].account /\ r.cents = requests[r.id].cents
    /\ entry[c] \in 1..Len(log) /\ log[entry[c]].id = r.id
    /\ \/ /\ call[c] \in Asks /\ r.cents = call[c].cents
          /\ log[entry[c]].kind = "ASKED"
       \/ /\ call[c] \in Resolutions /\ call[c].id = r.id
          /\ r.state = call[c].outcome /\ log[entry[c]].kind = r.state

\* What a call's position says of it.
CallOK(c) ==
    /\ pc[c] \in {"new", "insert", "find", "update", "select"} => entry[c] = 0
    /\ pc[c] = "insert" => call[c] \in Asks /\ Valid(call[c])
    /\ pc[c] = "find" => call[c] \in Resolutions
    /\ pc[c] = "update" =>
          /\ call[c] \in Resolutions /\ call[c].id \in 1..Len(requests)
          /\ CanAdmin(call[c].user, requests[call[c].id].account)
    /\ pc[c] = "select" => call[c] \in Listings
    /\ pc[c] = "notify" =>
          entry[c] \notin told /\ \E r \in Request : got[c] = {r} /\ Written(c, r)
    /\ answer[c] # "none" <=> pc[c] = "done"

CallsOK == \A c \in Calls : CallOK(c)

\* No two calls share an entry of the log.
OwnEntries ==
    /\ \A c \in Calls : entry[c] \in 0..Len(log)
    /\ \A c, d \in Calls : c # d /\ entry[c] # 0 => entry[c] # entry[d]

Sound == TypeOK /\ Numbered /\ CallsOK /\ OwnEntries

\* What a call may ask for is typed.
LEMMA SentTyped ==
    ASSUME NEW k \in Sent
    PROVE  /\ k.user \in Users
           /\ k \in Asks => /\ k.op = "request" /\ k.account \in Accounts
                            /\ k.cents \in Int
           /\ k \in Resolutions => /\ k.op = "resolve" /\ k.id \in 1..MaxIds
                                   /\ k.id \in Nat \ {0} /\ k.outcome \in States
           /\ k \in Listings => k.op = "list"
           /\ k.op = "request" => k \in Asks
           /\ k.op = "resolve" => k \in Resolutions
           /\ k.op = "list" => k \in Listings
<1>1. ASSUME k \in Asks
      PROVE  k.op = "request" /\ k.user \in Users /\ k.account \in Accounts /\ k.cents \in Int
  BY <1>1, RequestsAssumption DEF Asks
<1>2. ASSUME k \in Resolutions
      PROVE  /\ k.op = "resolve" /\ k.user \in Users /\ k.id \in 1..MaxIds
             /\ k.id \in Nat \ {0} /\ k.outcome \in States
  BY <1>2, RequestsAssumption DEF Resolutions
<1>3. ASSUME k \in Listings
      PROVE  k.op = "list" /\ k.user \in Users
  BY <1>3 DEF Listings
<1> QED BY <1>1, <1>2, <1>3 DEF Sent

\* Whoever has sent something has a call of the right form.
LEMMA CallTyped ==
    ASSUME TypeOK, NEW c \in Calls, call[c].op # "none"
    PROVE  call[c] \in Sent
BY DEF TypeOK, Sent, NoCall

\* A stored row is typed, and so are the holder and the admins of its account.
LEMMA RowTyped ==
    ASSUME TypeOK, NEW i \in 1..Len(requests)
    PROVE  /\ requests[i] \in Request
           /\ requests[i].account \in Accounts
           /\ requests[i].cents \in Nat \ {0}
           /\ requests[i].state \in States
           /\ Holder[requests[i].account] \in Users
<1>1. requests[i] \in Request
  BY ElementOfSeq DEF TypeOK
<1> QED BY <1>1, RequestsAssumption DEF Request

\* Finish moves one call to its end.
LEMMA Finished ==
    ASSUME TypeOK, NEW c \in Calls, NEW result \in {"ok", "refused", "failed"},
           Finish(c, result)
    PROVE  /\ pc' \in [Calls -> Steps] /\ pc'[c] = "done"
           /\ answer' \in [Calls -> {"none", "ok", "refused", "failed"}]
           /\ answer'[c] = result
           /\ got' \in [Calls -> SUBSET Request]
           /\ got'[c] = IF result = "ok" THEN got[c] ELSE {}
           /\ \A d \in Calls \ {c} :
                 pc'[d] = pc[d] /\ answer'[d] = answer[d] /\ got'[d] = got[d]
BY DEF TypeOK, Finish, Goto, Steps

\* The log has one more entry, which is call c's.
LogGains(c, id, kind) ==
    /\ log' \in Seq(Entry) /\ Len(log) \in Nat /\ Len(log') = Len(log) + 1
    /\ \A e \in 1..Len(log) : log'[e] = log[e]
    /\ log'[Len(log) + 1] = [id |-> id, kind |-> kind, by |-> call[c].user]
    /\ entry' \in [Calls -> Nat] /\ entry'[c] = Len(log) + 1
    /\ \A d \in Calls \ {c} : entry'[d] = entry[d]

LEMMA Entered ==
    ASSUME TypeOK, NEW c \in Calls, NEW id \in Nat \ {0}, NEW kind \in States \cup {"ASKED"},
           call[c].user \in Users, Enter(c, id, kind)
    PROVE  LogGains(c, id, kind)
<1> DEFINE x == [id |-> id, kind |-> kind, by |-> call[c].user]
<1>1. x \in Entry /\ log \in Seq(Entry)
  BY DEF TypeOK, Entry
<1>2. log' = Append(log, x) /\ entry' = [entry EXCEPT ![c] = Len(log) + 1]
  BY DEF Enter
<1>3. Len(log) \in Nat
  BY <1>1, LenProperties
<1> HIDE DEF x
<1>4. /\ log' \in Seq(Entry) /\ Len(log') = Len(log) + 1
      /\ \A e \in 1..Len(log) : log'[e] = log[e]
      /\ log'[Len(log) + 1] = x
  BY <1>1, <1>2, AppendProperties
<1> QED BY <1>2, <1>3, <1>4 DEF x, TypeOK, LogGains

\* An entry of the longer log is an earlier one or call c's.
LEMMA Gained ==
    ASSUME NEW c, NEW id, NEW kind, LogGains(c, id, kind)
    PROVE  /\ Len(log') \in Nat /\ Len(log) + 1 \in 1..Len(log')
           /\ \A e \in 1..Len(log') :
                 \/ e \in 1..Len(log) /\ log'[e] = log[e]
                 \/ /\ e = Len(log) + 1 /\ log'[e].id = id /\ log'[e].kind = kind
                    /\ log'[e].by = call[c].user
<1> DEFINE x == [id |-> id, kind |-> kind, by |-> call[c].user]
<1>1. x.id = id /\ x.kind = kind /\ x.by = call[c].user
  OBVIOUS
<1>2. log'[Len(log) + 1] = x
  BY DEF LogGains
<1> HIDE DEF x
<1> QED BY <1>1, <1>2 DEF LogGains

\* The row a resolution writes.
Decided(c) == [requests[call[c].id] EXCEPT !.state = call[c].outcome]

\* Update replaces the state of one row and nothing else.
LEMMA Updated ==
    ASSUME Sound, NEW c \in Calls, Update(c)
    PROVE  LET id == call[c].id
               r  == Decided(c)
           IN  /\ id \in 1..Len(requests) /\ id \in Nat \ {0}
               /\ call[c] \in Resolutions /\ call[c].user \in Users
               /\ call[c].user \in AdminsOf[requests[id].account]
               /\ r \in Request /\ r.id = id /\ r.state = call[c].outcome
               /\ r.account = requests[id].account /\ r.cents = requests[id].cents
               /\ requests' \in Seq(Request) /\ Len(requests') = Len(requests)
               /\ requests'[id] = r
               /\ \A i \in 1..Len(requests) \ {id} : requests'[i] = requests[i]
               /\ LogGains(c, id, r.state) /\ r.state \in States
               /\ got' \in [Calls -> SUBSET Request] /\ got'[c] = {r}
<1> DEFINE id == call[c].id
           r  == Decided(c)
<1>1. /\ call[c] \in Resolutions /\ id \in 1..Len(requests)
      /\ call[c].user \in AdminsOf[requests[id].account]
  BY DEF Sound, CallsOK, CallOK, Update, CanAdmin
<1>2. id \in Nat \ {0} /\ call[c].user \in Users /\ call[c].outcome \in States
  BY <1>1, SentTyped DEF Sent
<1>3. requests[id] \in Request /\ requests[id].id = id
  BY <1>1, RowTyped DEF Sound, Numbered
<1>4. /\ r \in Request /\ r.id = id /\ r.state = call[c].outcome
      /\ r.account = requests[id].account /\ r.cents = requests[id].cents
  BY <1>2, <1>3 DEF Request, Decided
<1>5. requests' = [requests EXCEPT ![id] = r] /\ got' = [got EXCEPT ![c] = {r}]
      /\ Enter(c, id, r.state)
  BY DEF Update, Decided
<1> HIDE DEF r
<1>6. /\ requests' \in Seq(Request) /\ Len(requests') = Len(requests)
      /\ \A j \in 1..Len(requests) : requests'[j] = IF j = id THEN r ELSE requests[j]
  BY <1>1, <1>4, <1>5, ExceptSeq DEF Sound, TypeOK
<1>7. LogGains(c, id, r.state)
  BY <1>2, <1>4, <1>5, Entered DEF Sound
<1>8. got' \in [Calls -> SUBSET Request] /\ got'[c] = {r}
  BY <1>4, <1>5 DEF Sound, TypeOK
<1> QED BY <1>1, <1>2, <1>4, <1>6, <1>7, <1>8 DEF r

\* The row a request files.
Filed(c) == [id |-> Len(requests) + 1, account |-> call[c].account,
             cents |-> call[c].cents, state |-> "PENDING"]

\* Insert adds one pending row at the end of the table.
LEMMA Inserted ==
    ASSUME Sound, NEW c \in Calls, Insert(c)
    PROVE  LET r == Filed(c)
           IN  /\ call[c] \in Asks /\ call[c].user \in Users
               /\ r \in Request /\ r.id = Len(requests) + 1 /\ r.state = "PENDING"
               /\ r.account = call[c].account /\ r.cents = call[c].cents
               /\ Len(requests) \in Nat
               /\ requests' \in Seq(Request) /\ Len(requests') = Len(requests) + 1
               /\ requests'[Len(requests) + 1] = r
               /\ \A i \in 1..Len(requests) : requests'[i] = requests[i]
               /\ LogGains(c, r.id, "ASKED")
               /\ got' \in [Calls -> SUBSET Request] /\ got'[c] = {r}
<1> DEFINE r == Filed(c)
<1>1. call[c] \in Asks /\ call[c].cents > 0
  BY DEF Sound, CallsOK, CallOK, Insert, Valid
<1>2. call[c].user \in Users /\ call[c].account \in Accounts /\ call[c].cents \in Nat \ {0}
  BY <1>1, SentTyped DEF Sent
<1>3. Len(requests) \in Nat /\ requests \in Seq(Request)
  BY LenProperties DEF Sound, TypeOK
<1>4. /\ r \in Request /\ r.id \in Nat \ {0} /\ r.id = Len(requests) + 1
      /\ r.state = "PENDING" /\ r.account = call[c].account /\ r.cents = call[c].cents
  BY <1>2, <1>3 DEF Request, States, Filed
<1>5. /\ requests' = Append(requests, r) /\ got' = [got EXCEPT ![c] = {r}]
      /\ Enter(c, r.id, "ASKED")
  BY DEF Insert, Filed
<1> HIDE DEF r
<1>6. /\ requests' \in Seq(Request) /\ Len(requests') = Len(requests) + 1
      /\ requests'[Len(requests) + 1] = r
      /\ \A i \in 1..Len(requests) : requests'[i] = requests[i]
  BY <1>3, <1>4, <1>5, AppendProperties
<1>7. LogGains(c, r.id, "ASKED")
  BY <1>2, <1>4, <1>5, Entered DEF Sound
<1>8. got' \in [Calls -> SUBSET Request] /\ got'[c] = {r}
  BY <1>4, <1>5 DEF Sound, TypeOK
<1> QED BY <1>1, <1>2, <1>3, <1>4, <1>6, <1>7, <1>8 DEF r

\* A call about to be announced holds the row it wrote.
LEMMA Holds ==
    ASSUME Sound, NEW c \in Calls, pc[c] = "notify"
    PROVE  \E r \in Request :
              /\ got[c] = {r} /\ Written(c, r) /\ entry[c] \notin told
              /\ r.id \in Nat \ {0} /\ r.account \in Accounts
              /\ r.cents \in Nat \ {0} /\ Holder[r.account] \in Users
              /\ Notice(c, r) = log[entry[c]].kind
<1>1. PICK r \in Request : got[c] = {r} /\ Written(c, r) /\ entry[c] \notin told
  BY DEF Sound, CallsOK, CallOK
<1>2. /\ r.id \in Nat \ {0} /\ r.account \in Accounts
      /\ r.cents \in Nat \ {0} /\ Holder[r.account] \in Users
  BY <1>1, RequestsAssumption DEF Request
<1>3. Notice(c, r) = log[entry[c]].kind
  <2>1. call[c] \in Asks => call[c].op = "request"
    BY SentTyped DEF Sent
  <2>2. call[c] \in Resolutions => call[c].op = "resolve"
    BY SentTyped DEF Sent
  <2> QED BY <1>1, <2>1, <2>2 DEF Notice, Written
<1> QED BY <1>1, <1>2, <1>3

\* The step of call c leaves the other calls alone; it may add a row and an entry,
\* and of the rows that are there it changes no more than the state.
Grow(c) ==
    /\ \A d \in Calls \ {c} :
          /\ pc'[d] = pc[d] /\ call'[d] = call[d] /\ got'[d] = got[d]
          /\ answer'[d] = answer[d] /\ entry'[d] = entry[d]
    /\ Len(requests) \in Nat /\ Len(requests') \in Nat /\ Len(requests) <= Len(requests')
    /\ \A i \in 1..Len(requests) :
          /\ requests'[i].id = requests[i].id
          /\ requests'[i].account = requests[i].account
          /\ requests'[i].cents = requests[i].cents
    /\ Len(log) \in Nat /\ Len(log') \in Nat /\ Len(log) <= Len(log')
    /\ \A e \in 1..Len(log) : log'[e] = log[e]
    /\ told' = told \/ told' = told \cup {entry[c]}

LEMMA StepGrows ==
    ASSUME Sound, NEW c \in Calls, Serve(c) \/ \E k \in Sent : Arrive(c, k)
    PROVE  Grow(c)
<1> USE DEF historyVars
<1>0. TypeOK /\ Len(requests) \in Nat /\ Len(log) \in Nat
  BY LenProperties DEF Sound, TypeOK
<1>1. ASSUME UNCHANGED <<requests, log>>, told' = told \/ told' = told \cup {entry[c]},
             \A d \in Calls \ {c} :
                /\ pc'[d] = pc[d] /\ call'[d] = call[d] /\ got'[d] = got[d]
                /\ answer'[d] = answer[d] /\ entry'[d] = entry[d]
      PROVE  Grow(c)
  BY <1>0, <1>1 DEF Grow
<1>2. ASSUME NEW k \in Sent, Arrive(c, k)
      PROVE  Grow(c)
  BY <1>0, <1>1, <1>2, Finished DEF Arrive, Goto, TypeOK
<1>3. CASE Insert(c)
  <2>1. /\ Len(requests') = Len(requests) + 1 /\ LogGains(c, Filed(c).id, "ASKED")
        /\ \A i \in 1..Len(requests) : requests'[i] = requests[i]
    BY <1>3, Inserted
  <2>2. \A d \in Calls \ {c} : /\ pc'[d] = pc[d] /\ call'[d] = call[d]
                               /\ got'[d] = got[d] /\ answer'[d] = answer[d]
    BY <1>0, <1>3 DEF Insert, Goto, TypeOK
  <2> QED BY <1>0, <1>3, <2>1, <2>2 DEF Grow, Insert, LogGains
<1>4. CASE FindRequest(c)
  BY <1>0, <1>1, <1>4, Finished DEF FindRequest, Goto, TypeOK
<1>5. CASE Update(c)
  <2>1. /\ Len(requests') = Len(requests) /\ LogGains(c, call[c].id, Decided(c).state)
        /\ \A i \in 1..Len(requests) : /\ requests'[i].id = requests[i].id
                                       /\ requests'[i].account = requests[i].account
                                       /\ requests'[i].cents = requests[i].cents
    BY <1>5, Updated DEF Sound, Numbered
  <2>2. \A d \in Calls \ {c} : /\ pc'[d] = pc[d] /\ call'[d] = call[d]
                               /\ got'[d] = got[d] /\ answer'[d] = answer[d]
    BY <1>0, <1>5 DEF Update, Goto, TypeOK
  <2> QED BY <1>0, <1>5, <2>1, <2>2 DEF Grow, Update, LogGains
<1>6. CASE Notify(c)
  <2>1. UNCHANGED <<requests, call, log, entry>>
        /\ (told' = told \/ told' = told \cup {entry[c]})
        /\ \E result \in {"ok", "refused", "failed"} : Finish(c, result)
    BY <1>6 DEF Notify
  <2> QED BY <1>0, <1>1, <2>1, Finished
<1>7. CASE Select(c)
  BY <1>0, <1>1, <1>7 DEF Select, Goto, TypeOK
<1>8. CASE Fail(c)
  BY <1>0, <1>1, <1>8, Finished DEF Fail
<1> QED BY <1>2, <1>3, <1>4, <1>5, <1>6, <1>7, <1>8 DEF Serve

\* Every step keeps the types.
LEMMA TypeStep ==
    ASSUME Sound, [ServerNext]_serverVars
    PROVE  TypeOK'
<1> USE DEF historyVars
<1>0. TypeOK
  BY DEF Sound
<1>1. ASSUME NEW c \in Calls, NEW k \in Sent, Arrive(c, k)
      PROVE  TypeOK'
  <2>1. call' \in [Calls -> Asks \cup Resolutions \cup Listings \cup {NoCall}]
    BY <1>0, <1>1 DEF Arrive, Sent, TypeOK
  <2>2. /\ pc' \in [Calls -> Steps] /\ got' \in [Calls -> SUBSET Request]
        /\ answer' \in [Calls -> {"none", "ok", "refused", "failed"}]
    <3>1. CASE Finish(c, "refused")
      BY <1>0, <3>1, Finished
    <3>2. CASE Goto(c, FirstStep(k)) /\ UNCHANGED <<got, answer>>
      <4>1. FirstStep(k) \in Steps
        BY SentTyped DEF FirstStep, Steps, Sent
      <4> QED BY <1>0, <3>2, <4>1 DEF Goto, TypeOK
    <3> QED BY <1>1, <3>1, <3>2 DEF Arrive
  <2> QED BY <1>0, <1>1, <2>1, <2>2 DEF Arrive, TypeOK
<1>2. ASSUME NEW c \in Calls, Insert(c)
      PROVE  TypeOK'
  <2>1. /\ requests' \in Seq(Request) /\ got' \in [Calls -> SUBSET Request]
        /\ LogGains(c, Filed(c).id, "ASKED")
    BY <1>2, Inserted
  <2>2. pc' \in [Calls -> Steps]
    BY <1>0, <1>2 DEF Insert, Goto, Steps, TypeOK
  <2> QED BY <1>0, <1>2, <2>1, <2>2 DEF Insert, TypeOK, LogGains
<1>3. ASSUME NEW c \in Calls, FindRequest(c)
      PROVE  TypeOK'
  <2>1. /\ pc' \in [Calls -> Steps] /\ got' \in [Calls -> SUBSET Request]
        /\ answer' \in [Calls -> {"none", "ok", "refused", "failed"}]
    BY <1>0, <1>3, Finished DEF FindRequest, Goto, Steps, TypeOK
  <2> QED BY <1>0, <1>3, <2>1 DEF FindRequest, TypeOK
<1>4. ASSUME NEW c \in Calls, Update(c)
      PROVE  TypeOK'
  <2>1. /\ requests' \in Seq(Request) /\ got' \in [Calls -> SUBSET Request]
        /\ LogGains(c, call[c].id, Decided(c).state) /\ call[c].id \in Nat \ {0}
    BY <1>4, Updated
  <2>2. pc' \in [Calls -> Steps]
    BY <1>0, <1>4 DEF Update, Goto, Steps, TypeOK
  <2>3. unclear' \subseteq Nat \ {0}
    BY <1>0, <1>4, <2>1 DEF Update, TypeOK
  <2> QED BY <1>0, <1>4, <2>1, <2>2, <2>3 DEF Update, TypeOK, LogGains
<1>5. ASSUME NEW c \in Calls, Notify(c)
      PROVE  TypeOK'
  <2>1. PICK r \in Request :
           /\ got[c] = {r} /\ r.id \in Nat \ {0} /\ r.cents \in Nat \ {0}
           /\ Holder[r.account] \in Users /\ Notice(c, r) = log[entry[c]].kind
           /\ entry[c] \in 1..Len(log)
    BY <1>5, Holds DEF Notify, Written
  <2>2. Notice(c, r) \in States \cup {"ASKED"}
    <3>1. log[entry[c]] \in Entry
      BY <1>0, <2>1, ElementOfSeq DEF TypeOK
    <3> QED BY <2>1, <3>1 DEF Entry
  <2>3. mails' \in Seq(Mail) /\ told' \subseteq Nat \ {0}
    <3>1. CASE UNCHANGED <<mails, told>>
      BY <1>0, <3>1 DEF TypeOK
    <3>2. CASE /\ Notice(c, r) # "PENDING"
               /\ mails' = Append(mails, [id |-> r.id, kind |-> Notice(c, r),
                                          cents |-> r.cents, to |-> Holder[r.account]])
               /\ told' = told \cup {entry[c]}
      <4>1. [id |-> r.id, kind |-> Notice(c, r), cents |-> r.cents,
             to |-> Holder[r.account]] \in Mail
        BY <2>1, <2>2, <3>2 DEF Mail, States
      <4>2. entry[c] \in Nat \ {0}
        BY <1>0, <2>1, LenProperties DEF TypeOK
      <4> QED BY <1>0, <3>2, <4>1, <4>2, AppendProperties DEF TypeOK
    <3> QED BY <1>5, <2>1, <3>1, <3>2 DEF Notify
  <2>4. \E result \in {"ok", "refused", "failed"} : Finish(c, result)
    BY <1>5 DEF Notify
  <2>5. /\ pc' \in [Calls -> Steps] /\ got' \in [Calls -> SUBSET Request]
        /\ answer' \in [Calls -> {"none", "ok", "refused", "failed"}]
    BY <1>0, <2>4, Finished
  <2> QED BY <1>0, <1>5, <2>3, <2>5 DEF Notify, TypeOK
<1>6. ASSUME NEW c \in Calls, Select(c)
      PROVE  TypeOK'
  <2>1. Listed(call[c].user) \subseteq Request
    BY RowTyped, <1>0 DEF Listed
  <2> QED BY <1>0, <1>6, <2>1 DEF Select, Goto, Steps, TypeOK
<1>7. ASSUME NEW c \in Calls, Fail(c)
      PROVE  TypeOK'
  <2>1. /\ pc' \in [Calls -> Steps] /\ got' \in [Calls -> SUBSET Request]
        /\ answer' \in [Calls -> {"none", "ok", "refused", "failed"}]
    BY <1>0, <1>7, Finished DEF Fail
  <2>2. {r.id : r \in got[c]} \subseteq Nat \ {0}
    BY <1>0 DEF TypeOK, Request
  <2>3. unclear' \subseteq Nat \ {0}
    BY <1>0, <1>7, <2>2 DEF Fail, TypeOK
  <2> QED BY <1>0, <1>7, <2>1, <2>3 DEF Fail, TypeOK
<1>8. CASE UNCHANGED serverVars
  BY <1>0, <1>8 DEF serverVars, TypeOK
<1> QED BY <1>1, <1>2, <1>3, <1>4, <1>5, <1>6, <1>7, <1>8 DEF ServerNext, Serve

\* Ids stay places in the table, and only entries of the log are announced.
LEMMA NumberedStep ==
    ASSUME Sound, [ServerNext]_serverVars
    PROVE  Numbered'
<1> USE DEF historyVars
<1>0. TypeOK /\ Numbered /\ Len(requests) \in Nat /\ Len(log) \in Nat
  BY LenProperties DEF Sound, TypeOK
<1>1. CASE UNCHANGED <<requests, log, told>>
  BY <1>0, <1>1 DEF Numbered
<1>2. ASSUME NEW c \in Calls, NEW k \in Sent, Arrive(c, k)
      PROVE  Numbered'
  BY <1>1, <1>2 DEF Arrive
<1>3. ASSUME NEW c \in Calls, Insert(c)
      PROVE  Numbered'
  <2>1. /\ Len(requests') = Len(requests) + 1
        /\ Filed(c).id = Len(requests) + 1 /\ requests'[Len(requests) + 1] = Filed(c)
        /\ \A i \in 1..Len(requests) : requests'[i] = requests[i]
        /\ LogGains(c, Filed(c).id, "ASKED")
    BY <1>3, Inserted
  <2>2. told' = told
    BY <1>3 DEF Insert
  <2>3. \A e \in 1..Len(log') : log'[e].id \in 1..Len(requests')
    BY <1>0, <2>1, Gained DEF Numbered
  <2>4. told' \subseteq 1..Len(log')
    BY <1>0, <2>1, <2>2 DEF Numbered, LogGains
  <2> QED BY <1>0, <2>1, <2>3, <2>4 DEF Numbered
<1>4. ASSUME NEW c \in Calls, Update(c)
      PROVE  Numbered'
  <2>1. /\ Len(requests') = Len(requests) /\ call[c].id \in 1..Len(requests)
        /\ \A i \in 1..Len(requests) : requests'[i].id = requests[i].id
        /\ LogGains(c, call[c].id, Decided(c).state)
    BY <1>0, <1>4, Updated DEF Numbered
  <2>2. told' = told
    BY <1>4 DEF Update
  <2>3. \A e \in 1..Len(log') : log'[e].id \in 1..Len(requests')
    BY <1>0, <2>1, Gained DEF Numbered
  <2>4. told' \subseteq 1..Len(log')
    BY <1>0, <2>1, <2>2 DEF Numbered, LogGains
  <2> QED BY <1>0, <2>1, <2>3, <2>4 DEF Numbered
<1>5. ASSUME NEW c \in Calls, Notify(c)
      PROVE  Numbered'
  <2>1. entry[c] \in 1..Len(log)
    BY <1>5, Holds DEF Notify, Written
  <2> QED BY <1>0, <1>5, <2>1 DEF Notify, Numbered
<1>6. ASSUME NEW c \in Calls, FindRequest(c) \/ Select(c) \/ Fail(c)
      PROVE  Numbered'
  BY <1>1, <1>6 DEF FindRequest, Select, Fail
<1>7. CASE UNCHANGED serverVars
  BY <1>1, <1>7 DEF serverVars
<1> QED BY <1>2, <1>3, <1>4, <1>5, <1>6, <1>7 DEF ServerNext, Serve

\* A call that does not move stays as sound as it was.
LEMMA OthersOK ==
    ASSUME Sound, NEW c \in Calls, Grow(c), NEW d \in Calls \ {c}
    PROVE  CallOK(d)'
<1>0. TypeOK /\ CallOK(d)
  BY DEF Sound, CallsOK
<1>1. /\ pc'[d] = pc[d] /\ call'[d] = call[d] /\ got'[d] = got[d]
      /\ answer'[d] = answer[d] /\ entry'[d] = entry[d]
  BY DEF Grow
<1>2. ASSUME NEW i \in 1..Len(requests)
      PROVE  /\ i \in 1..Len(requests') /\ requests'[i].account = requests[i].account
             /\ requests'[i].cents = requests[i].cents
  BY DEF Grow
<1>3. ASSUME NEW e \in 1..Len(log)
      PROVE  e \in 1..Len(log') /\ log'[e] = log[e]
  BY DEF Grow
<1>4. ASSUME pc[d] = "notify"
      PROVE  entry'[d] \notin told' /\ \E r \in Request : got'[d] = {r} /\ Written(d, r)'
  <2>1. PICK r \in Request : got[d] = {r} /\ Written(d, r)
    BY <1>0, <1>4 DEF CallOK
  <2>2. entry[d] \notin told /\ entry[d] \in 1..Len(log) /\ r.id \in 1..Len(requests)
    BY <1>0, <1>4, <2>1 DEF CallOK, Written
  <2>3. entry[d] # entry[c]
    BY <2>2 DEF Sound, OwnEntries
  <2>4. Written(d, r)'
    BY <1>1, <1>2, <1>3, <2>1, <2>2 DEF Written
  <2> QED BY <1>1, <2>1, <2>2, <2>3, <2>4 DEF Grow
<1>5. ASSUME pc[d] = "update"
      PROVE  /\ call[d] \in Resolutions /\ call[d].id \in 1..Len(requests')
             /\ CanAdmin(call[d].user, requests'[call[d].id].account)
  BY <1>0, <1>2, <1>5 DEF CallOK
<1> QED BY <1>0, <1>1, <1>4, <1>5 DEF CallOK

\* Nor does a call that moves lose track of what it asked and wrote.
LEMMA MoverOK ==
    ASSUME Sound, NEW c \in Calls, Serve(c) \/ \E k \in Sent : Arrive(c, k)
    PROVE  CallOK(c)'
<1> USE DEF historyVars
<1>0. TypeOK /\ CallOK(c) /\ entry[c] \in 0..Len(log) /\ Len(log) \in Nat
  BY LenProperties DEF Sound, CallsOK, OwnEntries, TypeOK
<1>1. ASSUME NEW result \in {"ok", "refused", "failed"}, Finish(c, result)
      PROVE  CallOK(c)'
  BY <1>0, <1>1, Finished DEF CallOK
<1>2. ASSUME NEW k \in Sent, Arrive(c, k), ~Finish(c, "refused")
      PROVE  CallOK(c)'
  <2>1. /\ pc[c] = "new" /\ Acceptable(k) /\ pc'[c] = FirstStep(k) /\ call'[c] = k
        /\ UNCHANGED <<answer, entry>>
    BY <1>0, <1>2 DEF Arrive, Goto, TypeOK
  <2>2. entry'[c] = 0 /\ answer'[c] = "none"
    BY <1>0, <2>1 DEF CallOK
  <2>3. CASE k \in Asks
    BY <2>1, <2>2, <2>3, SentTyped DEF FirstStep, Acceptable, CallOK
  <2>4. CASE k \in Resolutions
    BY <2>1, <2>2, <2>4, SentTyped DEF FirstStep, CallOK
  <2>5. CASE k \in Listings
    BY <2>1, <2>2, <2>5, SentTyped DEF FirstStep, CallOK
  <2> QED BY <2>3, <2>4, <2>5 DEF Sent
<1>3. CASE Insert(c)
  <2>0. PICK r \in Request : r = Filed(c)
    BY <1>3, Inserted
  <2>1. /\ call[c] \in Asks /\ r \in Request /\ r.id = Len(requests) + 1
        /\ r.cents = call[c].cents
        /\ Len(requests) \in Nat /\ Len(requests') = Len(requests) + 1
        /\ requests'[Len(requests) + 1] = r
        /\ LogGains(c, r.id, "ASKED") /\ got'[c] = {r}
    BY <1>3, <2>0, Inserted
  <2>2. pc'[c] = "notify" /\ UNCHANGED <<call, answer, told>> /\ pc[c] # "done"
    BY <1>0, <1>3 DEF Insert, Goto, TypeOK
  <2>3. entry'[c] = Len(log) + 1 /\ entry'[c] \in 1..Len(log')
        /\ log'[entry'[c]].id = r.id /\ log'[entry'[c]].kind = "ASKED"
    BY <1>0, <2>1, Gained DEF LogGains
  <2>4. Written(c, r)'
    BY <2>1, <2>2, <2>3 DEF Written
  <2>5. entry'[c] \notin told'
    BY <1>0, <2>2, <2>3 DEF Sound, Numbered
  <2> QED BY <1>0, <2>1, <2>2, <2>4, <2>5 DEF CallOK
<1>4. CASE FindRequest(c)
  <2>1. SUFFICES ASSUME ~Finish(c, "refused")  PROVE  CallOK(c)'
    BY <1>1
  <2>2. /\ pc[c] = "find" /\ pc'[c] = "update" /\ call[c].id \in 1..Len(requests)
        /\ MayResolve(call[c].user, requests[call[c].id])
        /\ UNCHANGED <<requests, call, answer, entry>>
    BY <1>0, <1>4, <2>1 DEF FindRequest, Goto, TypeOK
  <2> QED BY <1>0, <2>2 DEF CallOK, MayResolve
<1>5. CASE Update(c)
  <2> DEFINE id == call[c].id
  <2>0. PICK r \in Request : r = Decided(c)
    BY <1>5, Updated
  <2>1. /\ id \in 1..Len(requests) /\ call[c] \in Resolutions
        /\ r \in Request /\ r.id = id /\ r.state = call[c].outcome
        /\ Len(requests') = Len(requests) /\ requests'[id] = r
        /\ LogGains(c, id, r.state) /\ got'[c] = {r}
    BY <1>5, <2>0, Updated
  <2>2. pc'[c] = "notify" /\ UNCHANGED <<call, answer, told>> /\ pc[c] # "done"
    BY <1>0, <1>5 DEF Update, Goto, TypeOK
  <2>3. entry'[c] = Len(log) + 1 /\ entry'[c] \in 1..Len(log')
        /\ log'[entry'[c]].id = r.id /\ log'[entry'[c]].kind = r.state
    BY <1>0, <2>1, Gained DEF LogGains
  <2>4. Written(c, r)'
    BY <2>1, <2>2, <2>3 DEF Written
  <2>5. entry'[c] \notin told'
    BY <1>0, <2>2, <2>3 DEF Sound, Numbered
  <2> QED BY <1>0, <2>1, <2>2, <2>4, <2>5 DEF CallOK
<1>6. CASE Notify(c)
  BY <1>1, <1>6 DEF Notify
<1>7. CASE Select(c)
  BY <1>0, <1>7 DEF Select, Goto, CallOK, TypeOK
<1>8. CASE Fail(c)
  BY <1>1, <1>8 DEF Fail
<1> QED BY <1>1, <1>2, <1>3, <1>4, <1>5, <1>6, <1>7, <1>8 DEF Serve

\* The entry of a filing or a decision is a new one.
LEMMA OwnEntriesStep ==
    ASSUME Sound, NEW c \in Calls, Serve(c) \/ \E k \in Sent : Arrive(c, k)
    PROVE  OwnEntries'
<1> USE DEF historyVars
<1>0. TypeOK /\ OwnEntries
  BY DEF Sound
<1>1. CASE UNCHANGED <<log, entry>>
  BY <1>0, <1>1 DEF OwnEntries
<1>2. ASSUME NEW id, NEW kind, LogGains(c, id, kind)
      PROVE  OwnEntries'
  BY SMTT(30), <1>0, <1>2 DEF OwnEntries, LogGains
<1>3. CASE Insert(c)
  BY <1>2, <1>3, Inserted
<1>4. CASE Update(c)
  BY <1>2, <1>4, Updated
<1> QED BY <1>1, <1>3, <1>4
        DEF Serve, Arrive, FindRequest, Notify, Select, Fail

LEMMA SoundInit ==
    ASSUME ServerInit
    PROVE  Sound
<1>1. Len(<<>>) = 0 /\ 1..0 = {} /\ <<>> \in Seq(Request) /\ <<>> \in Seq(Mail)
      /\ <<>> \in Seq(Entry)
  OBVIOUS
<1>2. TypeOK
  BY <1>1 DEF ServerInit, TypeOK, Steps
<1>3. Numbered /\ CallsOK /\ OwnEntries
  BY <1>1 DEF ServerInit, Numbered, CallsOK, CallOK, OwnEntries
<1> QED BY <1>2, <1>3 DEF Sound

LEMMA SoundStep ==
    ASSUME Sound, [ServerNext]_serverVars
    PROVE  Sound'
<1>1. TypeOK' /\ Numbered'
  BY TypeStep, NumberedStep
<1>2. ASSUME NEW c \in Calls, Serve(c) \/ \E k \in Sent : Arrive(c, k)
      PROVE  CallsOK' /\ OwnEntries'
  <2>1. Grow(c)
    BY <1>2, StepGrows
  <2>2. \A d \in Calls \ {c} : CallOK(d)'
    BY <2>1, OthersOK
  <2>3. CallOK(c)'
    BY <1>2, MoverOK
  <2>4. OwnEntries'
    BY <1>2, OwnEntriesStep
  <2> QED BY <2>2, <2>3, <2>4 DEF CallsOK
<1>3. ASSUME UNCHANGED serverVars
      PROVE  CallsOK' /\ OwnEntries'
  <2>1. CallsOK /\ OwnEntries
    BY DEF Sound
  <2> QED BY <1>3, <2>1
          DEF serverVars, historyVars, CallsOK, CallOK, Written, OwnEntries
<1> QED BY <1>1, <1>2, <1>3 DEF ServerNext, Sound

\* Whatever the pages do, the server takes a step of its own, or none.
LEMMA PageStepServes ==
    ASSUME [PageNext]_vars
    PROVE  [ServerNext]_serverVars
<1> USE DEF ServerNext
<1>1. ASSUME NEW c \in Calls, NEW k \in Inputs, Elsewhere(c, k)
      PROVE  ServerNext
  BY <1>1, RequestsAssumption DEF Elsewhere, Sent
<1>2. ASSUME NEW c \in Calls, ServeNext(c)
      PROVE  ServerNext
  BY <1>2 DEF ServeNext
<1>3. ASSUME NEW p \in Pages, NEW c \in Calls, Open(p, c)
      PROVE  ServerNext
  <2>1. [op |-> "list", user |-> Owner[p]] \in Sent
    BY RequestsAssumption, PageAssumption DEF Sent, Listings
  <2> QED BY <1>3, <2>1 DEF Open, Send
<1>4. ASSUME NEW p \in Pages, NEW c \in Calls, NEW outcome \in Outcomes, NEW id \in Ids,
             Commit(p, c, outcome, id)
      PROVE  ServerNext
  <2>1. [op |-> "resolve", user |-> Owner[p], id |-> id, outcome |-> outcome] \in Sent
    BY RequestsAssumption, PageAssumption DEF Sent, Resolutions, Outcomes, Ids, States
  <2> QED BY <1>4, <2>1 DEF Commit, Send
<1>5. ASSUME NEW p \in Pages, NEW c \in Calls, Hear(p, c) \/ Lose(p, c)
      PROVE  UNCHANGED serverVars
  BY <1>5 DEF Hear, Lose
<1>6. ASSUME NEW p \in Pages, Leave(p) \/ Cancel(p)
      PROVE  UNCHANGED serverVars
  BY <1>6 DEF Leave, Cancel
<1>7. ASSUME NEW p \in Pages, NEW outcome \in Outcomes, NEW id \in Ids,
             Click(p, outcome, id)
      PROVE  UNCHANGED serverVars
  BY <1>7 DEF Click
<1>8. PageQuiescent \/ UNCHANGED vars => UNCHANGED serverVars
  BY DEF PageQuiescent, vars
<1> QED BY <1>1, <1>2, <1>3, <1>4, <1>5, <1>6, <1>7, <1>8 DEF PageNext, PageStep

\* The server is sound whatever browsers and other clients ask.
LEMMA AlwaysSound == PageSpec => []Sound
<1>1. Init => Sound
  BY SoundInit DEF Init
<1>2. Sound /\ [PageNext]_vars => Sound'
  BY SoundStep, PageStepServes
<1> QED BY <1>1, <1>2, PTL DEF PageSpec

-----------------------------------------------------------------------------
(* The refinement of RequestBook.                                          *)

\* The log and the outbox of RequestBook in terms of the server's.
BookLog == [e \in 1..Len(log) |-> [id |-> log[e].id, kind |-> log[e].kind]]
Outbox  == [j \in 1..Len(mails) |->
               [id |-> mails[j].id, kind |-> mails[j].kind, cents |-> mails[j].cents]]

\* A new entry is a new entry of the book, a new mail a new one of its outbox.
LEMMA LogAppended ==
    ASSUME TypeOK, TypeOK', NEW c, NEW id, NEW kind, LogGains(c, id, kind)
    PROVE  BookLog' = Append(BookLog, [id |-> id, kind |-> kind])
<1> DEFINE T == [id : Nat \ {0}, kind : States \cup {"ASKED"}]
           x == [id |-> id, kind |-> kind]
<1>1. Len(log) \in Nat /\ Len(log') = Len(log) + 1 /\ Len(log') \in Nat
  BY DEF LogGains
<1>2. \A e \in 1..Len(log) : log[e] \in Entry
  BY ElementOfSeq DEF TypeOK
<1>3. \A e \in 1..Len(log') : log'[e] \in Entry
  BY ElementOfSeq DEF TypeOK
<1>4. BookLog \in [1..Len(log) -> T] /\ BookLog' \in [1..Len(log') -> T]
  BY <1>2, <1>3 DEF BookLog, Entry
<1> HIDE DEF T
<1>5. /\ BookLog \in Seq(T) /\ Len(BookLog) = Len(log)
      /\ BookLog' \in Seq(T) /\ Len(BookLog') = Len(log) + 1
  <2>1. BookLog \in Seq(T) /\ BookLog' \in Seq(T)
    BY <1>1, <1>4, SeqDef
  <2>2. DOMAIN BookLog = 1..Len(log) /\ DOMAIN BookLog' = 1..Len(log')
    BY DEF BookLog
  <2> QED BY <1>1, <2>1, <2>2, LenProperties
<1>6. /\ \A e \in 1..Len(log) : BookLog'[e] = BookLog[e]
      /\ BookLog'[Len(log) + 1] = x
  BY <1>1 DEF BookLog, LogGains
<1>7. x \in T
  BY <1>1, <1>4, <1>6
<1> HIDE DEF x
<1>8. /\ Append(BookLog, x) \in Seq(T) /\ Len(Append(BookLog, x)) = Len(log) + 1
      /\ \A e \in 1..Len(log) : Append(BookLog, x)[e] = BookLog[e]
      /\ Append(BookLog, x)[Len(log) + 1] = x
  BY <1>5, <1>7, AppendProperties
<1>9. \A e \in 1..Len(log) + 1 : BookLog'[e] = Append(BookLog, x)[e]
  BY <1>1, <1>6, <1>8
<1>10. BookLog' = Append(BookLog, x)
  BY <1>5, <1>8, <1>9, SeqEqual
<1> QED BY <1>10 DEF x

LEMMA OutboxAppended ==
    ASSUME TypeOK, NEW m \in Mail, mails' = Append(mails, m)
    PROVE  Outbox' = Append(Outbox, [id |-> m.id, kind |-> m.kind, cents |-> m.cents])
<1> DEFINE T == [id : Nat \ {0}, kind : {"ASKED", "APPROVED", "REJECTED"}, cents : Nat \ {0}]
           x == [id |-> m.id, kind |-> m.kind, cents |-> m.cents]
<1>1. /\ Len(mails) \in Nat /\ Len(mails') = Len(mails) + 1 /\ mails' \in Seq(Mail)
      /\ mails'[Len(mails) + 1] = m
      /\ \A j \in 1..Len(mails) : mails'[j] = mails[j]
  BY AppendProperties, LenProperties DEF TypeOK
<1>2. \A j \in 1..Len(mails) : mails[j] \in Mail
  BY ElementOfSeq DEF TypeOK
<1>3. \A j \in 1..Len(mails') : mails'[j] \in Mail
  BY <1>1, ElementOfSeq
<1>4. Outbox \in [1..Len(mails) -> T] /\ Outbox' \in [1..Len(mails') -> T]
  BY <1>2, <1>3 DEF Outbox, Mail
<1> HIDE DEF T
<1>5. /\ Outbox \in Seq(T) /\ Len(Outbox) = Len(mails)
      /\ Outbox' \in Seq(T) /\ Len(Outbox') = Len(mails) + 1
  <2>1. ASSUME NEW f, NEW n \in Nat, f \in [1..n -> T] PROVE f \in Seq(T)
    BY <2>1, SeqDef
  <2>2. Len(mails') \in Nat
    BY <1>1
  <2>3. Outbox \in Seq(T) /\ Outbox' \in Seq(T)
    BY <1>1, <1>4, <2>1, <2>2
  <2>4. DOMAIN Outbox = 1..Len(mails) /\ DOMAIN Outbox' = 1..Len(mails')
    BY DEF Outbox
  <2> QED BY <1>1, <2>2, <2>3, <2>4, LenProperties
<1>6. /\ \A j \in 1..Len(mails) : Outbox'[j] = Outbox[j]
      /\ Outbox'[Len(mails) + 1] = x
  BY <1>1 DEF Outbox
<1>7. x \in T
  BY <1>1, <1>4, <1>6
<1> HIDE DEF x
<1>8. /\ Append(Outbox, x) \in Seq(T) /\ Len(Append(Outbox, x)) = Len(mails) + 1
      /\ \A j \in 1..Len(mails) : Append(Outbox, x)[j] = Outbox[j]
      /\ Append(Outbox, x)[Len(mails) + 1] = x
  BY <1>5, <1>7, AppendProperties
<1>9. \A j \in 1..Len(mails) + 1 : Outbox'[j] = Append(Outbox, x)[j]
  BY <1>1, <1>6, <1>8
<1>10. Outbox' = Append(Outbox, x)
  BY <1>5, <1>8, <1>9, SeqEqual
<1> QED BY <1>10 DEF x

\* What Notify tells, if it tells anything.
LEMMA Notified ==
    ASSUME Sound, NEW c \in Calls, Notify(c), ~UNCHANGED <<mails, told>>
    PROVE  \E r \in Request :
              /\ got[c] = {r} /\ Written(c, r) /\ entry[c] \notin told
              /\ r.account \in Mailed /\ log[entry[c]].kind # "PENDING"
              /\ LET m == [id |-> r.id, kind |-> log[entry[c]].kind,
                           cents |-> r.cents, to |-> Holder[r.account]]
                 IN  m \in Mail /\ mails' = Append(mails, m)
              /\ told' = told \cup {entry[c]}
              /\ UNCHANGED <<requests, call, log, entry, unclear>>
<1>1. PICK r \in Request :
         /\ got[c] = {r} /\ Written(c, r) /\ entry[c] \notin told
         /\ r.id \in Nat \ {0} /\ r.cents \in Nat \ {0} /\ Holder[r.account] \in Users
         /\ Notice(c, r) = log[entry[c]].kind
  BY Holds DEF Notify
<1>2. log[entry[c]] \in Entry
  BY <1>1, ElementOfSeq DEF Sound, TypeOK, Written
<1>3. /\ r.account \in Mailed /\ Notice(c, r) # "PENDING"
      /\ mails' = Append(mails, [id |-> r.id, kind |-> Notice(c, r),
                                 cents |-> r.cents, to |-> Holder[r.account]])
      /\ told' = told \cup {entry[c]}
      /\ UNCHANGED <<requests, call, log, entry, unclear>>
  BY <1>1 DEF Notify
<1>4. log[entry[c]].kind \in {"ASKED", "APPROVED", "REJECTED"}
  BY <1>1, <1>2, <1>3 DEF Entry, States
<1> QED BY <1>1, <1>3, <1>4 DEF Mail

\* Every step of the server files, decides or tells, or changes nothing of the book.
LEMMA PromiseStep ==
    ASSUME Sound, Sound', [ServerNext]_serverVars
    PROVE  [Promise!Next]_(Promise!vars)
<1> USE DEF historyVars
<1>0. TypeOK /\ TypeOK' /\ Len(requests) \in Nat /\ Len(log) \in Nat
  BY LenProperties DEF Sound, TypeOK
<1>1. ASSUME NEW c \in Calls, Insert(c)
      PROVE  Promise!Next
  <2>1. /\ call[c] \in Asks /\ call[c].account \in Accounts /\ call[c].cents \in Amounts
        /\ call[c].cents > 0
    BY <1>1 DEF Sound, CallsOK, CallOK, Insert, Valid, Asks
  <2>2. requests' = Append(requests, Filed(c)) /\ UNCHANGED <<told, mails>>
    BY <1>1 DEF Insert, Filed
  <2>3. BookLog' = Append(BookLog, [id |-> Len(requests) + 1, kind |-> "ASKED"])
    <3>1. LogGains(c, Len(requests) + 1, "ASKED")
      BY <1>1, Inserted
    <3> QED BY <1>0, <3>1, LogAppended
  <2>4. PICK a \in Accounts, cents \in Amounts :
           a = call[c].account /\ cents = call[c].cents
    BY <2>1
  <2>5. Promise!File(a, cents)
    BY <2>2, <2>3, <2>4 DEF Promise!File, BookLog, Filed
  <2> QED BY <2>1, <2>4, <2>5 DEF Promise!Next
<1>2. ASSUME NEW c \in Calls, Update(c)
      PROVE  Promise!Next
  <2>1. /\ call[c].id \in 1..Len(requests) /\ call[c].outcome \in States
        /\ LogGains(c, call[c].id, call[c].outcome)
    BY <1>2, Updated, SentTyped DEF Sent
  <2>2. /\ requests' = [requests EXCEPT ![call[c].id].state = call[c].outcome]
        /\ UNCHANGED <<told, mails>>
    BY <1>2 DEF Update
  <2>3. BookLog' = Append(BookLog, [id |-> call[c].id, kind |-> call[c].outcome])
    BY <1>0, <2>1, LogAppended
  <2>4. PICK id \in 1..Len(requests), outcome \in States :
           id = call[c].id /\ outcome = call[c].outcome
    BY <2>1
  <2>5. Promise!Decide(id, outcome)
    BY <2>2, <2>3, <2>4 DEF Promise!Decide, BookLog
  <2> QED BY <2>5 DEF Promise!Next, Promise!States, States
<1>3. ASSUME NEW c \in Calls, Notify(c), ~UNCHANGED <<mails, told>>
      PROVE  Promise!Next
  <2>1. PICK r \in Request :
              /\ Written(c, r) /\ entry[c] \notin told
              /\ log[entry[c]].kind # "PENDING"
              /\ LET m == [id |-> r.id, kind |-> log[entry[c]].kind,
                           cents |-> r.cents, to |-> Holder[r.account]]
                 IN  m \in Mail /\ mails' = Append(mails, m)
              /\ told' = told \cup {entry[c]}
              /\ UNCHANGED <<requests, call, log, entry, unclear>>
    BY <1>3, Notified
  <2>2. Outbox' = Append(Outbox, [id |-> r.id, kind |-> log[entry[c]].kind,
                                  cents |-> r.cents])
    BY <1>0, <2>1, OutboxAppended
  <2>3. /\ entry[c] \in 1..Len(log) /\ log[entry[c]].id = r.id
        /\ requests[r.id].cents = r.cents
    BY <2>1 DEF Written
  <2>4. /\ entry[c] \in 1..Len(BookLog) /\ BookLog[entry[c]].id = r.id
        /\ BookLog[entry[c]].kind = log[entry[c]].kind
    <3>1. Len(BookLog) = Len(log)
      BY <1>0 DEF BookLog
    <3> QED BY <2>3, <3>1 DEF BookLog
  <2>5. BookLog' = BookLog
    BY <2>1 DEF BookLog
  <2>6. PICK f \in 1..Len(BookLog) : f = entry[c]
    BY <2>4
  <2>7. Promise!Tell(f)
    BY <2>1, <2>2, <2>3, <2>4, <2>5, <2>6 DEF Promise!Tell, BookLog, Outbox
  <2> QED BY <2>7 DEF Promise!Next, BookLog
<1>4. CASE UNCHANGED <<requests, log, mails, told>>
  BY <1>4 DEF Promise!vars
<1>5. ASSUME NEW c \in Calls, Serve(c), ~Insert(c), ~Update(c)
      PROVE  UNCHANGED <<requests, log>> /\ (Notify(c) \/ UNCHANGED <<mails, told>>)
  BY <1>5 DEF Serve, FindRequest, Notify, Select, Fail
<1>6. ASSUME NEW c \in Calls, NEW k \in Sent, Arrive(c, k)
      PROVE  UNCHANGED <<requests, log, mails, told>>
  BY <1>6 DEF Arrive
<1>7. CASE UNCHANGED serverVars
  BY <1>4, <1>7 DEF serverVars
<1> QED BY <1>1, <1>2, <1>3, <1>4, <1>5, <1>6, <1>7 DEF ServerNext

\* The server implements RequestBook, however calls interleave, fail and are asked
\* again: a request is filed once, a decision sets its state, and a party is told of
\* a filing or a decision after it was made, at most once and in its own words.
THEOREM ServerKeepsBook == PageSpec => KeepsBook
<1>1. Init => Promise!Init
  BY DEF Init, ServerInit, Promise!Init
<1>2. Sound /\ Sound' /\ [PageNext]_vars => [Promise!Next]_(Promise!vars)
  BY PromiseStep, PageStepServes
<1> QED BY <1>1, <1>2, AlwaysSound, PTL DEF PageSpec, KeepsBook, Promise!Spec

-----------------------------------------------------------------------------
(* Decisions and answers.                                                  *)

\* What AnswersMatchLog says of one call.
AnswerOK(c) ==
    /\ answer[c] = "ok" /\ call[c].op # "list" =>
          /\ entry[c] \in 1..Len(log)
          /\ \E r \in got[c] :
                /\ r.id = log[entry[c]].id
                /\ IF call[c].op = "resolve" THEN r.state = call[c].outcome
                                             ELSE r.cents = call[c].cents
                /\ r.account \in Mailed /\ log[entry[c]].kind # "PENDING" =>
                      entry[c] \in told
    /\ answer[c] = "refused" => entry[c] = 0

LEMMA OtherAnswersOK ==
    ASSUME Sound, NEW c \in Calls, Grow(c), NEW d \in Calls \ {c}, AnswerOK(d)
    PROVE  AnswerOK(d)'
<1>1. /\ call'[d] = call[d] /\ got'[d] = got[d] /\ answer'[d] = answer[d]
      /\ entry'[d] = entry[d] /\ told \subseteq told'
      /\ \A e \in 1..Len(log) : e \in 1..Len(log') /\ log'[e] = log[e]
  BY DEF Grow
<1> QED BY <1>1 DEF AnswerOK

LEMMA MoverAnswerOK ==
    ASSUME Sound, NEW c \in Calls, AnswerOK(c), Serve(c) \/ \E k \in Sent : Arrive(c, k)
    PROVE  AnswerOK(c)'
<1> USE DEF historyVars
<1>0. TypeOK /\ CallOK(c)
  BY DEF Sound, CallsOK
<1>1. ASSUME answer'[c] \notin {"ok", "refused"}
      PROVE  AnswerOK(c)'
  BY <1>1 DEF AnswerOK
<1>2. ASSUME answer'[c] = "refused", entry'[c] = 0
      PROVE  AnswerOK(c)'
  BY <1>2 DEF AnswerOK
<1>3. ASSUME NEW k \in Sent, Arrive(c, k)
      PROVE  AnswerOK(c)'
  <2>1. pc[c] = "new" /\ entry'[c] = 0 /\ (Finish(c, "refused") \/ answer' = answer)
    BY <1>0, <1>3 DEF Arrive, CallOK
  <2> QED BY <1>0, <1>1, <1>2, <2>1, Finished DEF CallOK
<1>4. CASE Insert(c) \/ Update(c)
  BY <1>0, <1>1, <1>4 DEF Insert, Update, CallOK
<1>5. CASE FindRequest(c)
  <2>1. pc[c] = "find" /\ entry'[c] = 0 /\ (Finish(c, "refused") \/ answer' = answer)
    BY <1>0, <1>5 DEF FindRequest, CallOK
  <2> QED BY <1>0, <1>1, <1>2, <2>1, Finished DEF CallOK
<1>6. CASE Notify(c)
  <2>1. PICK r \in Request : got[c] = {r} /\ Written(c, r)
                             /\ Notice(c, r) = log[entry[c]].kind
    BY <1>6, Holds DEF Notify
  <2>2. UNCHANGED <<requests, call, log, entry>>
    BY <1>6 DEF Notify
  <2>3. CASE Finish(c, "ok")
    <3>1. got'[c] = {r} /\ answer'[c] = "ok"
      BY <1>0, <2>1, <2>3, Finished
    <3>2. r.account \in Mailed /\ log[entry[c]].kind # "PENDING" => entry[c] \in told'
      BY <1>6, <2>1 DEF Notify
    <3>3. IF call[c].op = "resolve" THEN r.state = call[c].outcome
                                    ELSE r.cents = call[c].cents
      <4>1. call[c] \in Asks => call[c].op = "request"
        BY SentTyped DEF Sent
      <4>2. call[c] \in Resolutions => call[c].op = "resolve"
        BY SentTyped DEF Sent
      <4> QED BY <2>1, <4>1, <4>2 DEF Written
    <3>4. entry[c] \in 1..Len(log) /\ r.id = log[entry[c]].id
      BY <2>1 DEF Written
    <3> QED BY <2>2, <3>1, <3>2, <3>3, <3>4 DEF AnswerOK
  <2>4. CASE Finish(c, "failed")
    BY <1>0, <1>1, <2>4, Finished
  <2> QED BY <1>6, <2>3, <2>4 DEF Notify
<1>7. CASE Select(c)
  <2>1. call'[c].op = "list" /\ answer'[c] = "ok"
    BY <1>0, <1>7, SentTyped DEF Select, CallOK, Sent, TypeOK
  <2> QED BY <2>1 DEF AnswerOK
<1>8. CASE Fail(c)
  BY <1>0, <1>1, <1>8, Finished DEF Fail
<1> QED BY <1>3, <1>4, <1>5, <1>6, <1>7, <1>8 DEF Serve

LEMMA AnswersStep ==
    ASSUME Sound, AnswersMatchLog, [ServerNext]_serverVars
    PROVE  AnswersMatchLog'
<1>0. AnswersMatchLog <=> \A c \in Calls : AnswerOK(c)
  BY DEF AnswersMatchLog, AnswerOK
<1>1. AnswersMatchLog' <=> \A c \in Calls : AnswerOK(c)'
  BY DEF AnswersMatchLog, AnswerOK
<1>2. ASSUME NEW c \in Calls, Serve(c) \/ \E k \in Sent : Arrive(c, k)
      PROVE  AnswersMatchLog'
  <2>1. Grow(c)
    BY <1>2, StepGrows
  <2>2. \A d \in Calls \ {c} : AnswerOK(d)'
    BY <1>0, <2>1, OtherAnswersOK
  <2>3. AnswerOK(c)'
    BY <1>0, <1>2, MoverAnswerOK
  <2> QED BY <1>1, <2>2, <2>3
<1>3. CASE UNCHANGED serverVars
  BY <1>3 DEF serverVars, historyVars, AnswersMatchLog
<1> QED BY <1>2, <1>3 DEF ServerNext

\* Of every request, only admins of its account have decided, and the last decision
\* is its state.
LEMMA DecidedStep ==
    ASSUME Sound, DecidedByAdmins, [ServerNext]_serverVars
    PROVE  DecidedByAdmins'
<1> USE DEF historyVars
<1>0. TypeOK /\ Numbered /\ Len(requests) \in Nat /\ Len(log) \in Nat
  BY LenProperties DEF Sound, TypeOK
<1>1. CASE UNCHANGED <<requests, log>>
  BY <1>1 DEF DecidedByAdmins
<1>2. ASSUME NEW c \in Calls, Insert(c)
      PROVE  DecidedByAdmins'
  <2>1. /\ Len(requests') = Len(requests) + 1
        /\ \A i \in 1..Len(requests) : requests'[i] = requests[i]
        /\ LogGains(c, Len(requests) + 1, "ASKED")
    BY <1>2, Inserted
  <2>2. ASSUME NEW i \in 1..Len(requests'), NEW e \in 1..Len(log'),
               log'[e].id = i, log'[e].kind # "ASKED"
        PROVE  /\ e \in 1..Len(log) /\ log'[e] = log[e] /\ i \in 1..Len(requests)
               /\ requests'[i] = requests[i]
    BY <1>0, <2>1, <2>2, Gained DEF Numbered
  <2>3. 1..Len(log) \subseteq 1..Len(log') /\ \A e \in 1..Len(log) : log'[e] = log[e]
    BY <2>1 DEF LogGains
  <2>4. ASSUME NEW i \in 1..Len(requests'), NEW e \in 1..Len(log'),
               log'[e].id = i, log'[e].kind # "ASKED"
        PROVE  log'[e].by \in AdminsOf[requests'[i].account]
    BY <2>2, <2>4 DEF DecidedByAdmins
  <2>5. ASSUME NEW i \in 1..Len(requests'), NEW e \in 1..Len(log'),
               log'[e].id = i, log'[e].kind # "ASKED",
               \A f \in 1..Len(log') : log'[f].id = i /\ log'[f].kind # "ASKED" => f <= e
        PROVE  log'[e].kind = requests'[i].state
    <3>1. \A f \in 1..Len(log) : log[f].id = i /\ log[f].kind # "ASKED" => f <= e
      BY <2>3, <2>5
    <3> QED BY SMTT(30), <2>2, <2>5, <3>1 DEF DecidedByAdmins
  <2> QED BY <2>4, <2>5 DEF DecidedByAdmins
<1>3. ASSUME NEW c \in Calls, Update(c)
      PROVE  DecidedByAdmins'
  <2> DEFINE id == call[c].id
             r  == Decided(c)
             n  == Len(log) + 1
  <2>1. /\ id \in 1..Len(requests) /\ call[c].user \in AdminsOf[requests[id].account]
        /\ r.account = requests[id].account /\ r.state \in States
        /\ Len(requests') = Len(requests) /\ requests'[id] = r
        /\ \A i \in 1..Len(requests) \ {id} : requests'[i] = requests[i]
        /\ LogGains(c, id, r.state)
    BY <1>3, Updated
  <2> HIDE DEF r, id
  <2>2. /\ n \in 1..Len(log') /\ \A e \in 1..Len(log') : e <= n
        /\ log'[n].id = id /\ log'[n].kind = r.state /\ log'[n].by = call[c].user
        /\ \A e \in 1..Len(log') : e # n => e \in 1..Len(log) /\ log'[e] = log[e]
    BY <2>1, Gained DEF LogGains
  <2> HIDE DEF n
  <2>3. 1..Len(log) \subseteq 1..Len(log') /\ \A e \in 1..Len(log) : log'[e] = log[e]
    BY <2>1 DEF LogGains
  <2>4. r.state # "ASKED"
    BY <2>1 DEF States
  <2>5. ASSUME NEW i \in 1..Len(requests'), NEW e \in 1..Len(log'),
               log'[e].id = i, log'[e].kind # "ASKED"
        PROVE  log'[e].by \in AdminsOf[requests'[i].account]
    <3>1. i \in 1..Len(requests) /\ requests'[i].account = requests[i].account
      BY <2>1
    <3>2. CASE e = n
      BY <2>1, <2>2, <2>5, <3>1, <3>2
    <3>3. CASE e # n
      BY <2>2, <2>5, <3>1, <3>3 DEF DecidedByAdmins
    <3> QED BY <3>2, <3>3
  <2>6. ASSUME NEW i \in 1..Len(requests'), NEW e \in 1..Len(log'),
               log'[e].id = i, log'[e].kind # "ASKED",
               \A f \in 1..Len(log') : log'[f].id = i /\ log'[f].kind # "ASKED" => f <= e
        PROVE  log'[e].kind = requests'[i].state
    <3>1. CASE i = id
      <4>1. n <= e /\ e <= n
        BY <2>2, <2>4, <2>6, <3>1
      <4>2. e = n
        BY <1>0, <4>1 DEF n
      <4> QED BY <2>1, <2>2, <3>1, <4>2
    <3>2. CASE i # id
      <4>1. e # n /\ e \in 1..Len(log) /\ log'[e] = log[e] /\ requests'[i] = requests[i]
        BY <2>1, <2>2, <2>6, <3>2
      <4>2. \A f \in 1..Len(log) : log[f].id = i /\ log[f].kind # "ASKED" => f <= e
        BY <2>3, <2>6
      <4> QED BY <2>1, <2>6, <4>1, <4>2 DEF DecidedByAdmins
    <3> QED BY <3>1, <3>2
  <2> QED BY <2>5, <2>6 DEF DecidedByAdmins
<1>4. ASSUME NEW c \in Calls, Serve(c), ~Insert(c), ~Update(c)
      PROVE  UNCHANGED <<requests, log>>
  BY <1>4 DEF Serve, FindRequest, Notify, Select, Fail
<1>5. ASSUME NEW c \in Calls, NEW k \in Sent, Arrive(c, k)
      PROVE  UNCHANGED <<requests, log>>
  BY <1>5 DEF Arrive
<1>6. CASE UNCHANGED serverVars
  BY <1>1, <1>6 DEF serverVars
<1> QED BY <1>1, <1>2, <1>3, <1>4, <1>5, <1>6 DEF ServerNext

\* However decisions overlap: the state of a request is the last decision on it,
\* taken by an admin of its account, and a caller who is told of success has an
\* entry of its own in the log, one who is refused has left none.
THEOREM EveryDecisionAccounted == PageSpec => []DecisionsAccounted
<1>1. Init => DecidedByAdmins /\ AnswersMatchLog
  BY DEF Init, ServerInit, DecidedByAdmins, AnswersMatchLog
<1>2. Sound /\ DecidedByAdmins /\ AnswersMatchLog /\ [PageNext]_vars
        => DecidedByAdmins' /\ AnswersMatchLog'
  BY DecidedStep, AnswersStep, PageStepServes
<1>3. DecidedByAdmins /\ AnswersMatchLog => DecisionsAccounted
  BY DEF DecisionsAccounted
<1> QED BY <1>1, <1>2, <1>3, AlwaysSound, PTL DEF PageSpec

-----------------------------------------------------------------------------
(* What the holder was last told.                                          *)

\* Call c has decided request i and has yet to mail it.
Announces(c, i) == pc[c] = "notify" /\ call[c].op = "resolve" /\ call[c].id = i

\* The last mail of a decision on request i tells its state.
Told(i) ==
    \E j \in 1..Len(mails) :
        /\ mails[j].id = i /\ mails[j].kind = requests[i].state
        /\ \A k \in 1..Len(mails) :
              mails[k].id = i /\ mails[k].kind # "ASKED" => k <= j

\* One decision at a time on request i is being announced, and it is the one stored.
ToldInTurn(i) ==
    /\ \A c, d \in Calls : Announces(c, i) /\ Announces(d, i) => c = d
    /\ \A c \in Calls : Announces(c, i) => call[c].outcome = requests[i].state
    /\ requests[i].state # "PENDING" /\ (\A c \in Calls : ~Announces(c, i)) => Told(i)

Clear(i) == requests[i].account \in Mailed /\ i \notin unclear

AllTold == \A i \in 1..Len(requests) : Clear(i) => ToldInTurn(i)

\* A step that neither decides nor announces keeps everybody as told as they were.
LEMMA QuietStep ==
    ASSUME AllTold, UNCHANGED mails, unclear \subseteq unclear',
           NEW c \in Calls, Grow(c), pc[c] # "notify", pc'[c] # "notify",
           UNCHANGED requests
    PROVE  AllTold'
<1>1. ASSUME NEW d \in Calls, NEW i
      PROVE  /\ Announces(d, i)' <=> Announces(d, i)
             /\ Announces(d, i) => call'[d] = call[d]
  BY DEF Announces, Grow
<1>2. \A i : Told(i)' <=> Told(i)
  BY DEF Told
<1>3. \A i : Clear(i)' => Clear(i)
  BY DEF Clear
<1> QED BY <1>1, <1>2, <1>3 DEF AllTold, ToldInTurn

LEMMA InsertTells ==
    ASSUME Sound, AllTold, NEW c \in Calls, Insert(c)
    PROVE  AllTold'
<1>0. TypeOK /\ Len(requests) \in Nat
  BY LenProperties DEF Sound, TypeOK
<1>1. Grow(c)
  BY StepGrows DEF Serve
<1>2. /\ call[c] \in Asks /\ requests'[Len(requests) + 1].state = "PENDING"
      /\ Len(requests') = Len(requests) + 1
      /\ \A i \in 1..Len(requests) : requests'[i] = requests[i]
  BY Inserted
<1>3. call'[c].op = "request" /\ pc[c] # "notify" /\ UNCHANGED <<mails, unclear, call>>
  BY <1>2, SentTyped DEF Insert, Sent
<1>4. ASSUME NEW d \in Calls, NEW i
      PROVE  Announces(d, i)' <=> Announces(d, i)
  BY <1>1, <1>3 DEF Announces, Grow
<1>5. ASSUME NEW i \in 1..Len(requests), Clear(i)'
      PROVE  ToldInTurn(i)'
  <2>1. Clear(i) /\ (Told(i)' <=> Told(i))
    BY <1>2, <1>3, <1>5 DEF Clear, Told
  <2> QED BY <1>2, <1>3, <1>4, <2>1 DEF AllTold, ToldInTurn
<1>6. ASSUME NEW d \in Calls
      PROVE  ~Announces(d, Len(requests) + 1)
  <2>1. SUFFICES ASSUME pc[d] = "notify", call[d].op = "resolve"
                 PROVE  call[d].id # Len(requests) + 1
    BY DEF Announces
  <2>2. PICK r \in Request : Written(d, r)
    BY <2>1, Holds
  <2>3. call[d] \in Resolutions /\ call[d].id = r.id /\ r.id \in 1..Len(requests)
    BY <2>1, <2>2, SentTyped DEF Written, Sent
  <2> QED BY <1>0, <2>3
<1>7. PICK n \in Nat : n = Len(requests) + 1
  BY <1>0
<1>8. ToldInTurn(n)'
  BY <1>2, <1>3, <1>4, <1>6, <1>7 DEF ToldInTurn
<1>9. \A i \in 1..Len(requests') : i \in 1..Len(requests) \/ i = n
  BY <1>0, <1>2, <1>7
<1> QED BY <1>5, <1>8, <1>9 DEF AllTold

LEMMA UpdateTells ==
    ASSUME Sound, AllTold, NEW c \in Calls, Update(c)
    PROVE  AllTold'
<1>0. TypeOK
  BY DEF Sound
<1>9. PICK id \in Nat : id = call[c].id
  BY Updated
<1>1. Grow(c)
  BY StepGrows DEF Serve
<1>2. /\ id \in 1..Len(requests) /\ Len(requests') = Len(requests)
      /\ requests'[id].state = call[c].outcome
      /\ requests'[id].account = requests[id].account
      /\ \A i \in 1..Len(requests) \ {id} : requests'[i] = requests[i]
      /\ call[c] \in Resolutions
  BY <1>9, Updated
<1>3. /\ call[c].op = "resolve" /\ pc[c] = "update" /\ pc'[c] = "notify"
      /\ UNCHANGED <<mails, call>> /\ unclear \subseteq unclear'
      /\ Announcing(c, id) => id \in unclear'
  BY <1>0, <1>2, <1>9, SentTyped DEF Update, Sent, Goto, TypeOK
<1>4. ASSUME NEW d \in Calls, NEW i
      PROVE  Announces(d, i)' <=> Announces(d, i) \/ (d = c /\ i = id)
  BY <1>1, <1>3, <1>9 DEF Announces, Grow
<1>5. ASSUME NEW i \in 1..Len(requests) \ {id}, Clear(i)'
      PROVE  ToldInTurn(i)'
  <2>1. Clear(i) /\ (Told(i)' <=> Told(i))
    BY <1>2, <1>3, <1>5 DEF Clear, Told
  <2> QED BY <1>2, <1>3, <1>4, <2>1 DEF AllTold, ToldInTurn
<1>6. ASSUME Clear(id)'
      PROVE  ToldInTurn(id)'
  <2>1. ~Announcing(c, id)
    BY <1>2, <1>3, <1>6 DEF Clear
  <2>2. \A d \in Calls : Announces(d, id) => d = c
    BY <2>1 DEF Announcing, Announces
  <2> QED BY <1>2, <1>3, <1>4, <1>9, <2>2 DEF ToldInTurn
<1> QED BY <1>2, <1>5, <1>6 DEF AllTold

LEMMA NotifyTells ==
    ASSUME Sound, AllTold, NEW c \in Calls, Notify(c)
    PROVE  AllTold'
<1>0. TypeOK /\ mails \in Seq(Mail) /\ Len(mails) \in Nat
  BY LenProperties DEF Sound, TypeOK
<1>1. Grow(c)
  BY StepGrows DEF Serve
<1>2. /\ pc[c] = "notify" /\ pc'[c] = "done" /\ UNCHANGED <<requests, call, log, entry, unclear>>
  BY <1>0, Finished DEF Notify
<1>3. PICK r \in Request : got[c] = {r} /\ Written(c, r)
                           /\ Notice(c, r) = log[entry[c]].kind
  BY Holds DEF Notify
<1>4. ASSUME NEW d \in Calls, NEW i
      PROVE  Announces(d, i)' <=> Announces(d, i) /\ d # c
  BY <1>1, <1>2 DEF Announces, Grow
<1>5. CASE call[c] \in Asks
  <2>1. call[c].op = "request" /\ log[entry[c]].kind = "ASKED"
    <3>1. call[c].op = "request"
      BY <1>5, SentTyped DEF Sent
    <3>2. ~ (call[c] \in Resolutions)
      BY <3>1, SentTyped DEF Sent
    <3> QED BY <1>3, <3>1, <3>2 DEF Written
  <2>2. ASSUME NEW i, Told(i)
        PROVE  Told(i)'
    <3>1. CASE UNCHANGED <<mails, told>>
      BY <1>2, <2>2, <3>1 DEF Told
    <3>2. CASE ~UNCHANGED <<mails, told>>
      <4>1. PICK m \in Mail : mails' = Append(mails, m) /\ m.kind = "ASKED"
        BY <2>1, <3>2, Notified
      <4>2. /\ Len(mails') = Len(mails) + 1 /\ mails'[Len(mails) + 1].kind = "ASKED"
            /\ \A j \in 1..Len(mails) : mails'[j] = mails[j]
        BY <1>0, <4>1, AppendProperties
      <4> QED BY <1>0, <1>2, <2>2, <4>2 DEF Told
    <3> QED BY <3>1, <3>2
  <2>3. \A d \in Calls, i \in 1..Len(requests) : Announces(d, i)' <=> Announces(d, i)
    BY <1>4, <2>1 DEF Announces
  <2> QED BY <1>2, <2>2, <2>3 DEF AllTold, ToldInTurn, Clear
<1>6. CASE call[c] \in Resolutions
  <2>0. PICK id \in 1..Len(requests) : id = call[c].id /\ r.id = id
    <3>1. ~ (call[c] \in Asks)
      BY <1>6, SentTyped DEF Sent
    <3> QED BY <1>3, <3>1 DEF Written
  <2>1. /\ Announces(c, id)
        /\ log[entry[c]].kind = call[c].outcome /\ call[c].outcome \in States
        /\ r.account = requests[id].account
    <3>1. /\ call[c].op = "resolve" /\ call[c].outcome \in States
      BY <1>6, SentTyped DEF Sent
    <3>2. ~ (call[c] \in Asks)
      BY <3>1, SentTyped DEF Sent
    <3> QED BY <1>2, <1>3, <2>0, <3>1, <3>2 DEF Written, Announces
  <2>2. ASSUME ~UNCHANGED <<mails, told>>
        PROVE  /\ Len(mails') = Len(mails) + 1
               /\ mails'[Len(mails) + 1].id = id
               /\ mails'[Len(mails) + 1].kind = call[c].outcome
               /\ \A j \in 1..Len(mails) : mails'[j] = mails[j]
    <3>1. PICK m \in Mail : mails' = Append(mails, m) /\ m.kind = call[c].outcome /\ m.id = id
      <4>1. PICK s \in Request :
               /\ got[c] = {s}
               /\ LET m == [id |-> s.id, kind |-> log[entry[c]].kind,
                            cents |-> s.cents, to |-> Holder[s.account]]
                  IN  m \in Mail /\ mails' = Append(mails, m)
        BY <2>2, Notified
      <4>2. s = r
        BY <1>3, <4>1
      <4> QED BY <2>0, <2>1, <4>1, <4>2
    <3> QED BY <1>0, <3>1, AppendProperties
  <2>3. ASSUME NEW i \in 1..Len(requests) \ {id}, Clear(i)
        PROVE  ToldInTurn(i)'
    <3>1. ASSUME NEW d \in Calls PROVE Announces(d, i)' <=> Announces(d, i)
      <4>1. ~Announces(c, i)
        BY <2>0, <2>3 DEF Announces
      <4>2. Announces(d, i)' <=> Announces(d, i) /\ d # c
        BY <1>4
      <4> QED BY <4>1, <4>2
    <3>2. Told(i) => Told(i)'
      <4>1. CASE UNCHANGED <<mails, told>>
        BY <1>2, <4>1 DEF Told
      <4>2. CASE ~UNCHANGED <<mails, told>>
        <5>1. SUFFICES ASSUME NEW j \in 1..Len(mails), mails[j].id = i,
                              mails[j].kind = requests[i].state,
                              \A k \in 1..Len(mails) :
                                 mails[k].id = i /\ mails[k].kind # "ASKED" => k <= j
                       PROVE  Told(i)'
          BY DEF Told
        <5>2. \A k \in 1..Len(mails') : mails'[k].id = i => k \in 1..Len(mails)
          BY SMTT(30), <1>0, <2>2, <2>3, <4>2
        <5>3. j \in 1..Len(mails') /\ mails'[j] = mails[j]
          BY <1>0, <2>2, <4>2
        <5> QED BY <1>2, <2>2, <4>2, <5>1, <5>2, <5>3 DEF Told
      <4> QED BY <4>1, <4>2
    <3> QED BY <1>2, <2>3, <3>1, <3>2 DEF AllTold, ToldInTurn
  <2>4. ASSUME Clear(id)
        PROVE  ToldInTurn(id)'
    <3>1. \A d \in Calls : ~Announces(d, id)'
      BY <1>4, <2>1, <2>4 DEF AllTold, ToldInTurn
    <3>2. call[c].outcome = requests[id].state
      BY <2>1, <2>4 DEF AllTold, ToldInTurn
    <3>3. ASSUME requests[id].state # "PENDING"
          PROVE  Told(id)'
      <4>1. ~UNCHANGED <<mails, told>>
        BY <1>0, <1>3, <2>1, <2>4, <3>2, <3>3, AppendProperties DEF Notify, Clear, Mail
      <4> QED BY <1>0, <1>2, <2>2, <3>2, <4>1 DEF Told
    <3> QED BY <1>2, <3>1, <3>3 DEF ToldInTurn
  <2> QED BY <1>2, <2>3, <2>4 DEF AllTold, Clear
<1> QED BY <1>3, <1>5, <1>6 DEF Written

LEMMA FailTells ==
    ASSUME Sound, AllTold, NEW c \in Calls, Fail(c)
    PROVE  AllTold'
<1>0. TypeOK
  BY DEF Sound
<1>1. Grow(c)
  BY StepGrows DEF Serve
<1>2. /\ pc'[c] = "done" /\ UNCHANGED <<requests, mails, call>> /\ unclear \subseteq unclear'
      /\ pc[c] = "notify" => unclear' = unclear \cup {r.id : r \in got[c]}
  BY <1>0, Finished DEF Fail
<1>3. CASE pc[c] # "notify"
  BY <1>1, <1>2, <1>3, QuietStep
<1>4. CASE pc[c] = "notify"
  <2>1. PICK r \in Request : got[c] = {r} /\ Written(c, r)
    BY <1>4, Holds
  <2>2. r.id \in unclear'
    BY <1>2, <1>4, <2>1
  <2>3. ASSUME NEW i, Announces(c, i)
        PROVE  i \in unclear'
    <3>1. call[c] \in Resolutions
      BY <2>1, <2>3, SentTyped DEF Written, Announces, Sent
    <3>2. ~ (call[c] \in Asks)
      BY <2>3, SentTyped DEF Announces, Sent
    <3> QED BY <2>1, <2>2, <2>3, <3>1, <3>2 DEF Written, Announces
  <2>4. ASSUME NEW d \in Calls, NEW i
        PROVE  Announces(d, i)' <=> Announces(d, i) /\ d # c
    BY <1>1, <1>2 DEF Announces, Grow
  <2>5. \A i : Told(i)' <=> Told(i)
    BY <1>2 DEF Told
  <2>6. ASSUME NEW i \in 1..Len(requests), Clear(i)'
        PROVE  ToldInTurn(i)'
    <3>1. Clear(i) /\ ~Announces(c, i)
      BY <1>2, <2>3, <2>6 DEF Clear
    <3> QED BY <1>2, <2>4, <2>5, <3>1 DEF AllTold, ToldInTurn
  <2> QED BY <1>2, <2>6 DEF AllTold
<1> QED BY <1>3, <1>4

LEMMA AllToldStep ==
    ASSUME Sound, AllTold, [ServerNext]_serverVars
    PROVE  AllTold'
<1> USE DEF historyVars
<1>0. TypeOK
  BY DEF Sound
<1>1. ASSUME NEW c \in Calls, NEW k \in Sent, Arrive(c, k)
      PROVE  AllTold'
  <2>1. FirstStep(k) # "notify"
    BY SentTyped DEF FirstStep, Sent
  <2>2. pc[c] # "notify" /\ pc'[c] # "notify" /\ UNCHANGED <<requests, mails, unclear>>
    BY <1>0, <1>1, <2>1, Finished DEF Arrive, Goto, TypeOK
  <2> QED BY <1>1, <2>2, StepGrows, QuietStep
<1>2. ASSUME NEW c \in Calls, FindRequest(c) \/ Select(c)
      PROVE  AllTold'
  <2>1. pc[c] # "notify" /\ pc'[c] # "notify" /\ UNCHANGED <<requests, mails, unclear>>
    BY <1>0, <1>2, Finished DEF FindRequest, Select, Goto, TypeOK
  <2>2. Grow(c)
    BY <1>2, StepGrows DEF Serve
  <2> QED BY <2>1, <2>2, QuietStep
<1>3. CASE UNCHANGED serverVars
  BY <1>3 DEF serverVars, AllTold, Clear, ToldInTurn, Told, Announces
<1> QED BY <1>1, <1>2, <1>3, InsertTells, UpdateTells, NotifyTells, FailTells
        DEF ServerNext, Serve

LEMMA AllToldSuffices ==
    ASSUME Sound, AllTold
    PROVE  LastMailTellsState
<1>1. SUFFICES ASSUME NEW i \in 1..Len(requests),
                      requests[i].account \in Mailed, i \notin unclear,
                      requests[i].state # "PENDING",
                      ~ \E c \in Calls :
                          pc[c] = "notify" /\ call[c].op = "resolve" /\ call[c].id = i
               PROVE  \E j \in {j \in 1..Len(mails) :
                                   mails[j].id = i /\ mails[j].kind # "ASKED"} :
                         /\ \A k \in {k \in 1..Len(mails) :
                                         mails[k].id = i /\ mails[k].kind # "ASKED"} : k <= j
                         /\ mails[j].kind = requests[i].state
  BY DEF LastMailTellsState
<1>2. Told(i)
  BY <1>1 DEF AllTold, Clear, ToldInTurn, Announces
<1>3. requests[i].state # "ASKED"
  BY RowTyped DEF Sound, States
<1> QED BY <1>2, <1>3 DEF Told

\* Unless decisions on a request overlapped or a mail was not taken, the holder was
\* last mailed the decision that is stored, as soon as no mail about it is on its way.
THEOREM HolderKnowsState == PageSpec => []LastMailTellsState
<1>1. Init => AllTold
  BY DEF Init, ServerInit, AllTold
<1>2. Sound /\ AllTold /\ [PageNext]_vars => AllTold'
  BY AllToldStep, PageStepServes
<1>3. Sound /\ AllTold => LastMailTellsState
  BY AllToldSuffices
<1> QED BY <1>1, <1>2, <1>3, AlwaysSound, PTL DEF PageSpec

-----------------------------------------------------------------------------
(* The pages.                                                              *)

\* What a call's entry and its answer say of it.
FactsOf(c) ==
    /\ \A r, s \in got[c] : r.id = s.id => r = s
    /\ call[c] \in Resolutions /\ entry[c] # 0 =>
          /\ entry[c] \in 1..Len(log)
          /\ log[entry[c]] = [id |-> call[c].id, kind |-> call[c].outcome,
                              by |-> call[c].user]
    /\ call[c] \in Resolutions /\ answer[c] = "ok" =>
          /\ entry[c] # 0
          /\ \E r \in Request : /\ got[c] = {r} /\ r.id = call[c].id
                                /\ r.state = call[c].outcome
    /\ call[c] \in Listings /\ answer[c] = "ok" => \A r \in got[c] : r.state = "PENDING"

LEMMA OtherFacts ==
    ASSUME Sound, NEW c \in Calls, Grow(c), NEW d \in Calls \ {c}, FactsOf(d)
    PROVE  FactsOf(d)'
<1>1. /\ call'[d] = call[d] /\ got'[d] = got[d] /\ answer'[d] = answer[d]
      /\ entry'[d] = entry[d]
      /\ \A e \in 1..Len(log) : e \in 1..Len(log') /\ log'[e] = log[e]
  BY DEF Grow
<1> QED BY <1>1 DEF FactsOf

LEMMA MoverFacts ==
    ASSUME Sound, NEW c \in Calls, FactsOf(c), Serve(c) \/ \E k \in Sent : Arrive(c, k)
    PROVE  FactsOf(c)'
<1> USE DEF historyVars
<1>0. TypeOK /\ CallOK(c)
  BY DEF Sound, CallsOK
<1>1. ASSUME NEW result \in {"refused", "failed"}, Finish(c, result),
             UNCHANGED <<log, entry>>, UNCHANGED call \/ entry[c] = 0
      PROVE  FactsOf(c)'
  <2>1. got'[c] = {} /\ answer'[c] = result
    BY <1>0, <1>1, Finished
  <2> QED BY <1>1, <2>1 DEF FactsOf
<1>2. ASSUME NEW k \in Sent, Arrive(c, k)
      PROVE  FactsOf(c)'
  <2>1. pc[c] = "new" /\ entry[c] = 0 /\ answer[c] = "none" /\ UNCHANGED <<log, entry>>
    BY <1>0, <1>2 DEF Arrive, CallOK
  <2>2. CASE UNCHANGED <<got, answer>>
    BY <2>1, <2>2 DEF FactsOf
  <2> QED BY <1>1, <1>2, <2>1, <2>2 DEF Arrive
<1>3. CASE Insert(c)
  <2>1. call[c] \in Asks /\ got'[c] = {Filed(c)}
    BY <1>3, Inserted
  <2>2. call[c].op = "request" /\ UNCHANGED <<call, answer>> /\ pc[c] = "insert"
    BY <1>3, <2>1, SentTyped DEF Insert, Sent
  <2>3. answer'[c] = "none" /\ ~ (call'[c] \in Resolutions)
    BY <1>0, <2>2, SentTyped DEF CallOK, Sent
  <2> QED BY <2>1, <2>3 DEF FactsOf
<1>4. CASE FindRequest(c)
  <2>1. CASE UNCHANGED <<got, answer>>
    BY <1>4, <2>1 DEF FindRequest, FactsOf
  <2> QED BY <1>1, <1>4, <2>1 DEF FindRequest
<1>5. CASE Update(c)
  <2>1. /\ call[c] \in Resolutions /\ got'[c] = {Decided(c)}
        /\ Decided(c).state = call[c].outcome
        /\ LogGains(c, call[c].id, Decided(c).state)
    BY <1>5, Updated
  <2>2. UNCHANGED <<call, answer>> /\ answer[c] = "none"
    BY <1>0, <1>5 DEF Update, CallOK
  <2> QED BY <2>1, <2>2, Gained DEF FactsOf, LogGains
<1>6. CASE Notify(c)
  <2>1. PICK r \in Request : got[c] = {r} /\ Written(c, r)
    BY <1>6, Holds DEF Notify
  <2>2. UNCHANGED <<call, log, entry>>
    BY <1>6 DEF Notify
  <2>3. CASE Finish(c, "ok")
    <3>1. got'[c] = {r} /\ answer'[c] = "ok"
      BY <1>0, <2>1, <2>3, Finished
    <3>2. call[c] \in Resolutions =>
             entry[c] # 0 /\ r.id = call[c].id /\ r.state = call[c].outcome
      <4>1. call[c] \in Resolutions => ~ (call[c] \in Asks)
        BY SentTyped DEF Sent
      <4> QED BY <2>1, <4>1 DEF Written
    <3>3. ~ (call[c] \in Listings)
      BY <2>1, SentTyped DEF Written, Sent
    <3> QED BY <2>2, <3>1, <3>2, <3>3 DEF FactsOf
  <2> QED BY <1>1, <1>6, <2>2, <2>3 DEF Notify
<1>7. CASE Select(c)
  <2>1. got'[c] = Listed(call[c].user) /\ UNCHANGED <<call, log, entry, requests>>
    BY <1>0, <1>7 DEF Select, TypeOK
  <2>2. call[c] \in Listings /\ ~ (call[c] \in Resolutions)
    BY <1>0, <1>7, SentTyped DEF Select, CallOK, Sent
  <2>3. \A r, s \in Listed(call[c].user) : r.id = s.id => r = s
    BY DEF Listed, Sound, Numbered
  <2> QED BY <2>1, <2>2, <2>3 DEF FactsOf, Listed
<1>8. CASE Fail(c)
  BY <1>1, <1>8 DEF Fail
<1> QED BY <1>2, <1>3, <1>4, <1>5, <1>6, <1>7, <1>8 DEF Serve

Facts == \A c \in Calls : FactsOf(c)

LEMMA FactsStep ==
    ASSUME Sound, Facts, [ServerNext]_serverVars
    PROVE  Facts'
<1>1. ASSUME NEW c \in Calls, Serve(c) \/ \E k \in Sent : Arrive(c, k)
      PROVE  Facts'
  BY <1>1, StepGrows, OtherFacts, MoverFacts DEF Facts
<1>2. CASE UNCHANGED serverVars
  BY <1>2 DEF serverVars, historyVars, Facts, FactsOf
<1> QED BY <1>1, <1>2 DEF ServerNext

\* What was asked, answered or entered stays; the log only grows.
LEMMA Lasting ==
    ASSUME Sound, [ServerNext]_serverVars
    PROVE  /\ \A d \in Calls : pc[d] # "new" => pc'[d] # "new" /\ call'[d] = call[d]
           /\ \A d \in Calls : pc[d] = "done" =>
                 /\ pc'[d] = "done" /\ got'[d] = got[d] /\ answer'[d] = answer[d]
                 /\ entry'[d] = entry[d]
           /\ \A d \in Calls : entry[d] # 0 => pc[d] # "new" /\ entry'[d] = entry[d]
           /\ Len(log) \in Nat /\ Len(log') \in Nat /\ Len(log) <= Len(log')
           /\ \A e \in 1..Len(log) : log'[e] = log[e]
<1> USE DEF historyVars
<1>0. TypeOK /\ (\A d \in Calls : CallOK(d)) /\ Len(log) \in Nat
  BY LenProperties DEF Sound, TypeOK, CallsOK
<1>1. ASSUME NEW c \in Calls, NEW k \in Sent, Arrive(c, k)
      PROVE  pc[c] = "new" /\ UNCHANGED entry
  BY <1>1 DEF Arrive
<1>2. ASSUME NEW c \in Calls, Serve(c)
      PROVE  /\ pc[c] \notin {"new", "done"} /\ pc'[c] # "new" /\ call'[c] = call[c]
             /\ entry[c] # 0 => UNCHANGED entry
  <2>1. pc[c] \notin {"new", "done"} /\ UNCHANGED call
    BY <1>2 DEF Serve, Insert, FindRequest, Update, Notify, Select, Fail
  <2>2. entry[c] # 0 => UNCHANGED entry
    BY <1>0, <1>2 DEF Serve, Insert, FindRequest, Update, Notify, Select, Fail, CallOK
  <2>3. pc'[c] # "new"
    BY <1>0, <1>2, Finished
    DEF Serve, Insert, FindRequest, Update, Notify, Select, Fail, Goto, TypeOK
  <2> QED BY <2>1, <2>2, <2>3
<1>3. ASSUME NEW c \in Calls, Serve(c) \/ \E k \in Sent : Arrive(c, k)
      PROVE  Grow(c)
  BY <1>3, StepGrows
<1>4. CASE UNCHANGED serverVars
  BY <1>0, <1>4 DEF serverVars, CallOK
<1> QED BY <1>0, <1>1, <1>2, <1>3, <1>4 DEF ServerNext, Grow, CallOK

\* A request that was put back after an entry was put back after it ever since.
LEMMA PutBackStays ==
    ASSUME Sound, [ServerNext]_serverVars, NEW c \in Calls, entry[c] # 0,
           PutBack(call[c].id, entry[c])
    PROVE  PutBack(call[c].id, entry[c])'
<1>1. /\ entry'[c] = entry[c] /\ call'[c] = call[c] /\ entry[c] \in Nat
      /\ Len(log) \in Nat /\ Len(log') \in Nat /\ Len(log) <= Len(log')
      /\ \A e \in 1..Len(log) : log'[e] = log[e]
  BY Lasting DEF Sound, TypeOK
<1>2. PICK f \in (entry[c] + 1)..Len(log) :
         log[f].id = call[c].id /\ log[f].kind = "PENDING"
  BY DEF PutBack
<1>3. f \in 1..Len(log) /\ f \in (entry[c] + 1)..Len(log')
  BY <1>1, <1>2
<1> QED BY <1>1, <1>2, <1>3 DEF PutBack

\* A pending request of which a decision is logged was put back to pending later.
UndoneIsLogged ==
    \A i \in 1..Len(requests) : \A e \in 1..Len(log) :
        /\ requests[i].state = "PENDING" /\ log[e].id = i
        /\ log[e].kind \notin {"ASKED", "PENDING"}
        => PutBack(i, e)

LEMMA UndoneStep ==
    ASSUME Sound, UndoneIsLogged, [ServerNext]_serverVars
    PROVE  UndoneIsLogged'
<1> USE DEF historyVars
<1>0. /\ TypeOK /\ Numbered /\ Len(requests) \in Nat /\ Len(log) \in Nat
      /\ Len(log') \in Nat /\ Len(log) <= Len(log')
      /\ \A e \in 1..Len(log) : log'[e] = log[e]
  BY LenProperties, Lasting DEF Sound, TypeOK
<1>1. ASSUME NEW i, NEW e \in 1..Len(log), PutBack(i, e)
      PROVE  PutBack(i, e)'
  BY <1>0, <1>1 DEF PutBack
<1>2. ASSUME NEW c \in Calls, Insert(c)
      PROVE  UndoneIsLogged'
  <2>1. /\ Len(requests') = Len(requests) + 1
        /\ \A i \in 1..Len(requests) : requests'[i] = requests[i]
        /\ LogGains(c, Len(requests) + 1, "ASKED")
    BY <1>2, Inserted
  <2>2. ASSUME NEW e \in 1..Len(log'), log'[e].kind # "ASKED"
        PROVE  e \in 1..Len(log) /\ log'[e] = log[e] /\ log[e].id \in 1..Len(requests)
    BY <1>0, <2>1, <2>2, Gained DEF Numbered
  <2> QED BY <1>1, <2>1, <2>2 DEF UndoneIsLogged
<1>3. ASSUME NEW c \in Calls, Update(c)
      PROVE  UndoneIsLogged'
  <2>1. PICK id \in 1..Len(requests) : id = call[c].id
    BY <1>3, Updated
  <2>2. PICK outcome \in States : outcome = Decided(c).state
    BY <1>3, Updated
  <2>3. /\ Len(requests') = Len(requests) /\ requests'[id].state = outcome
        /\ \A i \in 1..Len(requests) \ {id} : requests'[i] = requests[i]
        /\ LogGains(c, id, outcome)
    BY <1>3, <2>1, <2>2, Updated
  <2>4. ASSUME NEW i \in 1..Len(requests) \ {id}, NEW e \in 1..Len(log'), log'[e].id = i
        PROVE  e \in 1..Len(log) /\ log'[e] = log[e]
    BY <2>3, <2>4, Gained
  <2>5. ASSUME outcome = "PENDING", NEW e \in 1..Len(log'),
               log'[e].kind \notin {"ASKED", "PENDING"}
        PROVE  PutBack(id, e)'
    <3>1. /\ Len(log') = Len(log) + 1 /\ log'[Len(log) + 1].id = id
          /\ log'[Len(log) + 1].kind = "PENDING" /\ e \in 1..Len(log)
      BY <1>0, <2>3, <2>5, Gained DEF LogGains
    <3>2. Len(log) + 1 \in (e + 1)..Len(log')
      BY <1>0, <3>1
    <3> QED BY <3>1, <3>2 DEF PutBack
  <2> QED BY <1>1, <2>3, <2>4, <2>5 DEF UndoneIsLogged
<1>4. CASE UNCHANGED <<requests, log>>
  BY <1>4 DEF UndoneIsLogged, PutBack
<1>5. ASSUME NEW c \in Calls, Serve(c), ~Insert(c), ~Update(c)
      PROVE  UNCHANGED <<requests, log>>
  BY <1>5 DEF Serve, FindRequest, Notify, Select, Fail
<1>6. ASSUME NEW c \in Calls, NEW k \in Sent, Arrive(c, k)
      PROVE  UNCHANGED <<requests, log>>
  BY <1>6 DEF Arrive
<1>7. CASE UNCHANGED serverVars
  BY <1>4, <1>7 DEF serverVars
<1> QED BY <1>2, <1>3, <1>4, <1>5, <1>6, <1>7 DEF ServerNext

\* What the server knows that a page relies on.
Reliable == Sound /\ Facts /\ UndoneIsLogged

LEMMA AlwaysReliable == PageSpec => []Reliable
<1>1. Init => Facts /\ UndoneIsLogged
  <2>1. Len(<<>>) = 0 /\ 1..0 = {}
    OBVIOUS
  <2> QED BY <2>1 DEF Init, ServerInit, Facts, FactsOf, UndoneIsLogged
<1>2. Sound /\ Facts /\ UndoneIsLogged /\ [PageNext]_vars => Facts' /\ UndoneIsLogged'
  BY FactsStep, UndoneStep, PageStepServes
<1>3. Reliable <=> Sound /\ Facts /\ UndoneIsLogged
  BY DEF Reliable
<1> QED BY <1>1, <1>2, <1>3, AlwaysSound, PTL DEF PageSpec

\* What arrives is new, and has no answer yet but perhaps a refusal.
LEMMA Arrived ==
    ASSUME Sound, NEW c \in Calls, NEW k \in Sent, Arrive(c, k)
    PROVE  /\ pc[c] = "new" /\ pc'[c] # "new" /\ call'[c] = k /\ answer'[c] # "ok"
           /\ UNCHANGED <<entry, log>>
<1>0. TypeOK /\ CallOK(c)
  BY DEF Sound, CallsOK
<1>1. pc[c] = "new" /\ call'[c] = k /\ UNCHANGED <<entry, log>>
  BY <1>0 DEF Arrive, historyVars, TypeOK
<1>2. CASE Finish(c, "refused")
  BY <1>0, <1>1, <1>2, Finished
<1>3. CASE Goto(c, FirstStep(k)) /\ UNCHANGED <<got, answer>>
  <2>1. FirstStep(k) # "new"
    BY SentTyped DEF FirstStep, Sent
  <2> QED BY <1>0, <1>1, <1>3, <2>1 DEF Goto, CallOK, TypeOK
<1> QED BY <1>1, <1>2, <1>3 DEF Arrive

\* What a page has asked; nobody has asked what was not asked.
AskerOK(c) ==
    /\ asker[c] \in Pages => /\ pc[c] # "new" /\ call[c].user = Owner[asker[c]]
                             /\ call[c] \in Listings \/ call[c] \in Resolutions
                             /\ call[c] \in Resolutions => call[c].outcome \in Outcomes
    /\ c \in heard => asker[c] \in Pages

PageTyped ==
    /\ shows \in [Pages -> BOOLEAN]
    /\ data \in [Pages -> {"NotAsked", "Failure", "Success"}]
    /\ list \in [Pages -> SUBSET Request]
    /\ confirm \in [Pages -> {<<>>} \cup (Outcomes \X Ids)]
    /\ responses \in [Pages -> [Ids -> {"NotAsked", "Loading", "Failure", "Success"}]]
    /\ asker \in [Calls -> Pages \cup {NoPage}]
    /\ heard \subseteq Calls
    /\ marred \subseteq Pages

OneRowEach == \A p \in Pages : \A r, s \in list[p] : r.id = s.id => r = s

\* What p sends for its list, and for a button.
ListCall(p) == [op |-> "list", user |-> Owner[p]]
ResolveCall(p, outcome, id) ==
    [op |-> "resolve", user |-> Owner[p], id |-> id, outcome |-> outcome]

LEMMA ListSent ==
    ASSUME NEW p \in Pages
    PROVE  /\ ListCall(p) \in Listings /\ ListCall(p) \in Sent
           /\ ListCall(p) \notin Resolutions /\ ListCall(p).user = Owner[p]
<1>1. Owner[p] \in Users
  BY RequestsAssumption, PageAssumption
<1>2. ListCall(p) \in Listings /\ ListCall(p).op = "list" /\ ListCall(p).user = Owner[p]
  BY <1>1 DEF ListCall, Listings
<1> QED BY <1>2, SentTyped DEF Sent

LEMMA ResolveSent ==
    ASSUME NEW p \in Pages, NEW outcome \in Outcomes, NEW id \in Ids
    PROVE  /\ ResolveCall(p, outcome, id) \in Resolutions
           /\ ResolveCall(p, outcome, id) \in Sent
           /\ ResolveCall(p, outcome, id) \notin Listings
           /\ ResolveCall(p, outcome, id).user = Owner[p]
           /\ ResolveCall(p, outcome, id).id = id
           /\ ResolveCall(p, outcome, id).outcome = outcome
<1>1. Owner[p] \in Users
  BY RequestsAssumption, PageAssumption
<1>2. /\ ResolveCall(p, outcome, id) \in Resolutions
      /\ ResolveCall(p, outcome, id).op = "resolve"
      /\ ResolveCall(p, outcome, id).user = Owner[p]
      /\ ResolveCall(p, outcome, id).id = id
      /\ ResolveCall(p, outcome, id).outcome = outcome
  BY <1>1 DEF ResolveCall, Resolutions, Outcomes, Ids, States
<1> QED BY <1>2, SentTyped DEF Sent

\* The page's steps by what they do: what the server does of itself, ...
LEMMA PageSteps ==
    ASSUME [PageNext]_vars
    PROVE  \/ UNCHANGED pageVars
           \/ \E p \in Pages, c \in Calls : Open(p, c) \/ Hear(p, c) \/ Lose(p, c)
           \/ \E p \in Pages, c \in Calls, outcome \in Outcomes, id \in Ids :
                 Commit(p, c, outcome, id)
           \/ \E p \in Pages : Leave(p) \/ Cancel(p)
           \/ \E p \in Pages, outcome \in Outcomes, id \in Ids : Click(p, outcome, id)
BY DEF PageNext, PageStep, Elsewhere, ServeNext, PageQuiescent, vars

\* The page's askers and what they asked.
LEMMA AskedStep ==
    ASSUME Reliable, PageTyped, \A d \in Calls : AskerOK(d), [PageNext]_vars,
           NEW c \in Calls
    PROVE  AskerOK(c)'
<1>1. /\ [ServerNext]_serverVars /\ Sound /\ AskerOK(c)
      /\ pc[c] # "new" => pc'[c] # "new" /\ call'[c] = call[c]
  BY PageStepServes, Lasting DEF Reliable
<1>2. ASSUME UNCHANGED <<asker, heard>>
      PROVE  AskerOK(c)'
  BY <1>1, <1>2 DEF AskerOK
<1>3. ASSUME UNCHANGED asker, NEW p \in Pages, NEW d \in InFlight(p), heard' = heard \cup {d}
      PROVE  AskerOK(c)'
  BY <1>1, <1>3 DEF AskerOK, InFlight
<1>4. ASSUME NEW p \in Pages, NEW d \in Calls, NEW k \in Listings \cup Resolutions,
             Send(p, d, k), k.user = Owner[p],
             k \in Resolutions => k.outcome \in Outcomes, UNCHANGED heard
      PROVE  AskerOK(c)'
  <2>1. pc'[d] # "new" /\ call'[d] = k /\ asker' = [asker EXCEPT ![d] = p]
    BY <1>1, <1>4, Arrived DEF Send, Sent
  <2>2. CASE c = d
    BY <1>1, <1>4, <2>1, <2>2 DEF AskerOK, PageTyped
  <2>3. CASE c # d
    BY <1>1, <1>4, <2>1, <2>3 DEF AskerOK, PageTyped
  <2> QED BY <2>2, <2>3
<1>5. ASSUME NEW p \in Pages, NEW d \in Calls, Open(p, d)
      PROVE  AskerOK(c)'
  <2>1. Send(p, d, ListCall(p)) /\ UNCHANGED heard
    BY <1>5 DEF Open, ListCall
  <2> QED BY <1>4, <2>1, ListSent
<1>6. ASSUME NEW p \in Pages, NEW d \in Calls, NEW outcome \in Outcomes, NEW id \in Ids,
             Commit(p, d, outcome, id)
      PROVE  AskerOK(c)'
  <2>1. Send(p, d, ResolveCall(p, outcome, id)) /\ UNCHANGED heard
    BY <1>6 DEF Commit, ResolveCall
  <2> QED BY <1>4, <2>1, ResolveSent
<1>7. ASSUME NEW p \in Pages, NEW d \in Calls, Hear(p, d) \/ Lose(p, d)
      PROVE  AskerOK(c)'
  BY <1>3, <1>7 DEF Hear, Lose
<1> QED BY <1>2, <1>5, <1>6, <1>7, PageSteps DEF pageVars, Leave, Cancel, Click

\* An answer is of a listing or of a resolution, which answers one row.
LEMMA Answered ==
    ASSUME Reliable, NEW p \in Pages, NEW c \in Calls, AskerOK(c), asker[c] = p
    PROVE  /\ call[c].user = Owner[p] /\ pc[c] # "new"
           /\ call[c].op = "list" \/ call[c].op = "resolve"
           /\ call[c].op = "list" <=> call[c] \in Listings
           /\ call[c].op = "resolve" <=> call[c] \in Resolutions
           /\ call[c] \in Resolutions => call[c].id \in Ids /\ call[c].outcome \in Outcomes
           /\ call[c] \in Resolutions /\ answer[c] = "ok" =>
                 \E r \in Request : /\ got[c] = {r} /\ r.id = call[c].id
                                    /\ r.state = call[c].outcome
<1>1. /\ call[c].user = Owner[p] /\ pc[c] # "new"
      /\ call[c] \in Listings \/ call[c] \in Resolutions
      /\ call[c] \in Resolutions => call[c].outcome \in Outcomes
  BY DEF AskerOK
<1>2. call[c] \in Sent
  BY <1>1 DEF Sent
<1>3. /\ call[c] \in Resolutions => call[c].op = "resolve" /\ call[c].id \in Ids
      /\ call[c] \in Listings => call[c].op = "list"
  BY <1>2, SentTyped DEF Ids
<1>4. call[c] \in Resolutions /\ answer[c] = "ok" =>
                 \E r \in Request : /\ got[c] = {r} /\ r.id = call[c].id
                                    /\ r.state = call[c].outcome
  BY DEF Reliable, Facts, FactsOf
<1> QED BY <1>1, <1>3, <1>4

\* What an answer does to the page it reaches.
LEMMA Applied ==
    ASSUME Reliable, PageTyped, NEW p \in Pages, NEW c \in Calls, AskerOK(c), asker[c] = p,
           NEW result \in {"Success", "Failure"}, result = "Success" => pc[c] = "done",
           Apply(p, c, result)
    PROVE  /\ data' \in [Pages -> {"NotAsked", "Failure", "Success"}]
           /\ list' \in [Pages -> SUBSET Request]
           /\ responses' \in [Pages -> [Ids -> {"NotAsked", "Loading", "Failure", "Success"}]]
           /\ \A q \in Pages \ {p} : /\ data'[q] = data[q] /\ list'[q] = list[q]
                                     /\ responses'[q] = responses[q]
           /\ list'[p] = list[p] \/ list'[p] = {} \/
              \/ call[c] \in Listings /\ list'[p] = got[c] /\ result = "Success"
              \/ /\ call[c] \in Resolutions /\ answer[c] = "ok"
                 /\ \E r \in Request : /\ got[c] = {r} /\ r.id = call[c].id
                                       /\ r.state = call[c].outcome
                                       /\ list'[p] = Put(list[p], r)
<1>0. TypeOK
  BY DEF Reliable, Sound
<1>1. CASE ~shows[p]
  BY <1>1 DEF Apply, PageTyped
<1>2. CASE shows[p] /\ call[c].op = "list"
  <2>1. call[c] \in Listings /\ OnData(p, c, result)
    BY <1>2, Answered DEF Apply
  <2>2. got[c] \subseteq Request
    BY <1>0 DEF TypeOK
  <2> QED BY <2>1, <2>2 DEF OnData, PageTyped
<1>3. CASE shows[p] /\ call[c].op # "list"
  <2>1. /\ call[c] \in Resolutions /\ OnResolveResponse(p, c, result)
        /\ call[c].id \in Ids
    BY <1>3, Answered DEF Apply
  <2>2. /\ data' = data
        /\ responses' \in [Pages -> [Ids -> {"NotAsked", "Loading", "Failure", "Success"}]]
        /\ \A q \in Pages \ {p} : responses'[q] = responses[q]
    BY <2>1 DEF OnResolveResponse, PageTyped
  <2>3. CASE UNCHANGED list
    BY <2>2, <2>3 DEF PageTyped
  <2>4. CASE ~UNCHANGED list
    <3>1. answer[c] = "ok" /\ list' = [list EXCEPT ![p] = UNION {Put(@, r) : r \in got[c]}]
      BY <2>1, <2>4 DEF OnResolveResponse, PageTyped
    <3>2. PICK r \in Request : got[c] = {r} /\ r.id = call[c].id /\ r.state = call[c].outcome
      BY <2>1, <3>1, Answered
    <3>3. UNION {Put(list[p], s) : s \in got[c]} = Put(list[p], r)
      BY <3>2
    <3>4. Put(list[p], r) \subseteq Request
      BY DEF Put, PageTyped
    <3>5. list' = [list EXCEPT ![p] = Put(list[p], r)]
      BY <3>1, <3>3
    <3> QED BY <2>1, <2>2, <3>1, <3>2, <3>4, <3>5 DEF PageTyped
  <2> QED BY <2>3, <2>4
<1> QED BY <1>1, <1>2, <1>3

Asked == \A c \in Calls : AskerOK(c)

\* A lost answer counts as a failure, an answer that comes as what it says.
LEMMA Reached ==
    ASSUME Reliable, PageTyped, NEW p \in Pages, NEW c \in Calls, Hear(p, c) \/ Lose(p, c)
    PROVE  /\ asker[c] = p /\ c \notin heard /\ heard' = heard \cup {c}
           /\ UNCHANGED <<serverVars, shows, confirm, asker>>
           /\ \E result \in {"Success", "Failure"} :
                 /\ Apply(p, c, result)
                 /\ result = "Success" => pc[c] = "done"
                 /\ result = "Success" /\ call[c].op = "list" => answer[c] = "ok"
           /\ marred \subseteq marred' /\ marred' \subseteq Pages
           /\ p \notin marred' => Apply(p, c, "Success") /\ pc[c] = "done" /\ answer[c] = "ok"
           /\ marred' \subseteq marred \cup {p}
<1>1. CASE Lose(p, c)
  BY <1>1 DEF Lose, InFlight, PageTyped
<1>2. CASE Hear(p, c)
  <2>1. answer[c] \in {"ok", "refused", "failed"}
    BY <1>2 DEF Hear, Reliable, Sound, TypeOK, CallsOK, CallOK
  <2>2. /\ Results(c) \subseteq {"Success", "Failure"}
        /\ answer[c] = "ok" => Results(c) = {"Success"}
        /\ call[c].op = "list" /\ answer[c] # "ok" => Results(c) = {"Failure"}
    BY <2>1 DEF Results
  <2> QED BY <1>2, <2>1, <2>2 DEF Hear, InFlight, PageTyped
<1> QED BY <1>1, <1>2

LEMMA PageTypedStep ==
    ASSUME Reliable, PageTyped, Asked, [PageNext]_vars
    PROVE  PageTyped'
<1>1. ASSUME UNCHANGED pageVars
      PROVE  PageTyped'
  BY <1>1 DEF pageVars, PageTyped
<1>2. ASSUME NEW p \in Pages, Reset(p)
      PROVE  /\ data' \in [Pages -> {"NotAsked", "Failure", "Success"}]
             /\ list' \in [Pages -> SUBSET Request]
             /\ confirm' \in [Pages -> {<<>>} \cup (Outcomes \X Ids)]
             /\ responses' \in [Pages -> [Ids -> {"NotAsked", "Loading", "Failure", "Success"}]]
             /\ marred' \subseteq Pages
  <2>1. Nothing \in [Ids -> {"NotAsked", "Loading", "Failure", "Success"}]
    BY DEF Nothing
  <2> QED BY <1>2, <2>1 DEF Reset, PageTyped
<1>3. ASSUME NEW p \in Pages, NEW c \in Calls, Open(p, c)
      PROVE  PageTyped'
  BY <1>2, <1>3 DEF Open, Send, PageTyped
<1>4. ASSUME NEW p \in Pages, Leave(p)
      PROVE  PageTyped'
  BY <1>2, <1>4 DEF Leave, PageTyped
<1>5. ASSUME NEW p \in Pages, NEW c \in Calls, NEW outcome \in Outcomes, NEW id \in Ids,
             Commit(p, c, outcome, id)
      PROVE  PageTyped'
  BY <1>5 DEF Commit, Send, PageTyped
<1>6. ASSUME NEW p \in Pages, Cancel(p)
      PROVE  PageTyped'
  BY <1>6 DEF Cancel, PageTyped
<1>7. ASSUME NEW p \in Pages, NEW outcome \in Outcomes, NEW id \in Ids, Click(p, outcome, id)
      PROVE  PageTyped'
  BY <1>7 DEF Click, PageTyped
<1>8. ASSUME NEW p \in Pages, NEW c \in Calls, Hear(p, c) \/ Lose(p, c)
      PROVE  PageTyped'
  <2>1. PICK result \in {"Success", "Failure"} :
           Apply(p, c, result) /\ (result = "Success" => pc[c] = "done")
    BY <1>8, Reached
  <2>2. /\ data' \in [Pages -> {"NotAsked", "Failure", "Success"}]
        /\ list' \in [Pages -> SUBSET Request]
        /\ responses' \in [Pages -> [Ids -> {"NotAsked", "Loading", "Failure", "Success"}]]
    BY <1>8, <2>1, Reached, Applied DEF Asked
  <2> QED BY <1>8, <2>2, Reached DEF PageTyped
<1> QED BY <1>1, <1>3, <1>4, <1>5, <1>6, <1>7, <1>8, PageSteps

\* A step changes the list of one page at most: it empties it, fills it with an
\* answer, or puts a row that was decided in it.
LEMMA ListSteps ==
    ASSUME Reliable, PageTyped, Asked, [PageNext]_vars, NEW p \in Pages
    PROVE  \/ list'[p] = list[p]
           \/ list'[p] = {}
           \/ \E c \in Calls : /\ asker[c] = p /\ call[c] \in Listings /\ list'[p] = got[c]
                               /\ answer[c] = "ok" \/ got[c] = {}
           \/ \E c \in Calls, r \in Request :
                 /\ asker[c] = p /\ call[c] \in Resolutions /\ answer[c] = "ok"
                 /\ got[c] = {r} /\ r.id = call[c].id /\ r.state = call[c].outcome
                 /\ list'[p] = Put(list[p], r)
<1>1. CASE UNCHANGED pageVars
  BY <1>1 DEF pageVars
<1>2. ASSUME NEW q \in Pages, Reset(q)
      PROVE  list'[p] = list[p] \/ list'[p] = {}
  BY <1>2 DEF Reset, PageTyped
<1>3. ASSUME NEW q \in Pages, NEW c \in Calls, Hear(q, c) \/ Lose(q, c), list'[p] # list[p],
             list'[p] # {}
      PROVE  \/ /\ asker[c] = p /\ call[c] \in Listings /\ list'[p] = got[c]
                /\ answer[c] = "ok" \/ got[c] = {}
             \/ \E r \in Request :
                 /\ asker[c] = p /\ call[c] \in Resolutions /\ answer[c] = "ok"
                 /\ got[c] = {r} /\ r.id = call[c].id /\ r.state = call[c].outcome
                 /\ list'[p] = Put(list[p], r)
  <2>1. PICK result \in {"Success", "Failure"} :
           Apply(q, c, result) /\ (result = "Success" => pc[c] = "done")
    BY <1>3, Reached
  <2>2. asker[c] = q /\ AskerOK(c)
    BY <1>3, Reached DEF Asked
  <2>3. p = q
    BY <1>3, <2>1, <2>2, Applied
  <2>4. \/ call[c] \in Listings /\ list'[p] = got[c]
        \/ /\ call[c] \in Resolutions /\ answer[c] = "ok"
           /\ \E r \in Request : /\ got[c] = {r} /\ r.id = call[c].id
                                 /\ r.state = call[c].outcome
                                 /\ list'[p] = Put(list[p], r)
    BY <1>3, <2>1, <2>2, <2>3, Applied
  <2>5. CASE call[c] \in Listings /\ list'[p] = got[c]
    <3>1. call[c].op = "list"
      BY <2>2, <2>5, Answered
    <3>2. PICK s \in {"Success", "Failure"} : Apply(q, c, s) /\ (s = "Success" => answer[c] = "ok")
      BY <1>3, <3>1, Reached
    <3>3. s = "Success" \/ list'[p] = list[p] \/ list'[p] = {}
      BY <2>3, <3>1, <3>2 DEF Apply, OnData, PageTyped
    <3> QED BY <1>3, <2>2, <2>3, <2>5, <3>2, <3>3
  <2> QED BY <2>2, <2>3, <2>4, <2>5
<1> QED BY <1>1, <1>2, <1>3, PageSteps DEF Open, Leave, Commit, Cancel, Click

LEMMA OneRowStep ==
    ASSUME Reliable, PageTyped, Asked, OneRowEach, [PageNext]_vars
    PROVE  OneRowEach'
<1>1. SUFFICES ASSUME NEW p \in Pages
               PROVE  \A r, s \in list'[p] : r.id = s.id => r = s
  BY DEF OneRowEach
<1>2. \A c \in Calls : \A r, s \in got[c] : r.id = s.id => r = s
  BY DEF Reliable, Facts, FactsOf
<1>3. \A r : \A s, t \in Put(list[p], r) : s.id = t.id => s = t
  BY DEF Put, OneRowEach
<1> QED BY <1>2, <1>3, ListSteps DEF OneRowEach

\* What a page shows as decided, its admin has decided.
LEMMA ShownStep ==
    ASSUME Reliable, PageTyped, Asked, ShownDecisionsHappened, [PageNext]_vars
    PROVE  ShownDecisionsHappened'
<1>1. SUFFICES ASSUME NEW p \in Pages, NEW r \in list'[p], r.state # "PENDING"
               PROVE  \E e \in 1..Len(log') :
                         log'[e] = [id |-> r.id, kind |-> r.state, by |-> Owner[p]]
  BY DEF ShownDecisionsHappened
<1>2. /\ Len(log) \in Nat /\ Len(log') \in Nat /\ Len(log) <= Len(log')
      /\ \A e \in 1..Len(log) : log'[e] = log[e]
  BY PageStepServes, Lasting DEF Reliable
<1>3. SUFFICES \E e \in 1..Len(log) :
                  log[e] = [id |-> r.id, kind |-> r.state, by |-> Owner[p]]
  BY <1>2
<1>4. CASE r \in list[p]
  BY <1>1, <1>4 DEF ShownDecisionsHappened
<1>5. ASSUME NEW c \in Calls, asker[c] = p, call[c] \in Listings, r \in got[c],
             answer[c] = "ok"
      PROVE  FALSE
  BY <1>1, <1>5 DEF Reliable, Facts, FactsOf
<1>6. ASSUME NEW c \in Calls, asker[c] = p, call[c] \in Resolutions, answer[c] = "ok",
             r.id = call[c].id, r.state = call[c].outcome
      PROVE  \E e \in 1..Len(log) :
                log[e] = [id |-> r.id, kind |-> r.state, by |-> Owner[p]]
  <2>1. call[c].user = Owner[p]
    BY <1>6, Answered DEF Asked
  <2> QED BY <1>6, <2>1 DEF Reliable, Facts, FactsOf
<1> QED BY <1>1, <1>4, <1>5, <1>6, ListSteps DEF Put

-----------------------------------------------------------------------------
(* The visits of a page that had no error and no early navigation.         *)

Own(p) == {c \in Calls : asker[c] = p /\ call[c] \in Resolutions}

\* Call c has decided, and its request was put back to pending since.
Undone(c) == entry[c] # 0 /\ PutBack(call[c].id, entry[c])

\* A page waits for its list alone; buttons whose resolution is awaited are gone.
Waiting(p) ==
    /\ data[p] = "Success" => shows[p]
    /\ \A c \in InFlight(p) : call[c] \in Listings =>
          shows[p] /\ data[p] = "NotAsked" /\ InFlight(p) = {c}
    /\ \A c \in InFlight(p) \cap Own(p) :
          shows[p] /\ data[p] = "Success" /\ responses[p][call[c].id] = "Loading"
    /\ \A c, d \in InFlight(p) \cap Own(p) : call[c].id = call[d].id => c = d
    /\ \A c \in Own(p) \cap heard : pc[c] = "done" /\ answer[c] = "ok"

\* What was decided on the page is on display, or in the answer that comes, as
\* decided or as put back.
Remembers(p) ==
    /\ \A c \in Own(p) \cap heard : \A r \in list[p] :
          r.id = call[c].id => r.state # "PENDING" \/ Undone(c)
    /\ \A c \in InFlight(p) : call[c] \in Listings /\ answer[c] = "ok" =>
          \A d \in Own(p), r \in got[c] : r.id = call[d].id => Undone(d)

OnceOn(p) ==
    \A c, d \in Own(p) : call[c].id = call[d].id =>
        c = d \/ Undone(c) \/ Undone(d)

VisitOK(p) == Waiting(p) /\ Remembers(p) /\ OnceOn(p)

PageSound == Reliable /\ PageTyped /\ Asked /\ OneRowEach

LEMMA UndoneStays ==
    ASSUME PageSound, [PageNext]_vars, NEW c \in Calls, Undone(c)
    PROVE  Undone(c)'
BY PageStepServes, PutBackStays, Lasting DEF Undone, PageSound, Reliable

\* Page p's own calls stay what they are.
LEMMA OwnStays ==
    ASSUME PageSound, [PageNext]_vars, NEW p \in Pages, NEW c \in Calls, asker[c] = p
    PROVE  /\ call'[c] = call[c]
           /\ pc[c] = "done" => /\ pc'[c] = "done" /\ answer'[c] = answer[c]
                                /\ got'[c] = got[c]
<1>1. pc[c] # "new"
  BY DEF PageSound, Asked, AskerOK
<1> QED BY <1>1, PageStepServes, Lasting DEF PageSound, Reliable

\* The answer with the list reflects all that was decided on the page before.
LEMMA SelectRemembers ==
    ASSUME PageSound, NEW p \in Pages, VisitOK(p), NEW c \in InFlight(p), Select(c),
           [PageNext]_vars,
           NEW d \in Own(p), NEW r \in got'[c], r.id = call[d].id
    PROVE  Undone(d)'
<1>0. TypeOK /\ Numbered /\ CallOK(c) /\ FactsOf(d) /\ d \in Calls /\ c \in Calls
  BY DEF PageSound, Reliable, Sound, CallsOK, Facts, Own, InFlight
<1>1. call[c] \in Listings
  BY <1>0 DEF Select, CallOK
<1>2. d \in heard /\ answer[d] = "ok"
  <2>1. d \notin InFlight(p) \/ d = c
    BY <1>1 DEF VisitOK, Waiting
  <2>2. d # c
    <3>1. call[c] \notin Resolutions
      BY <1>1, SentTyped DEF Sent
    <3> QED BY <3>1 DEF Own
  <2> QED BY <2>1, <2>2 DEF VisitOK, Waiting, InFlight, Own
<1>3. /\ entry[d] # 0 /\ entry[d] \in 1..Len(log)
      /\ log[entry[d]] = [id |-> call[d].id, kind |-> call[d].outcome, by |-> call[d].user]
      /\ call[d].outcome \in Outcomes
  BY <1>0, <1>2 DEF FactsOf, Own, PageSound, Asked, AskerOK
<1>4. r \in Listed(call[c].user)
  BY <1>0 DEF Select, TypeOK
<1>5. PICK i \in 1..Len(requests) : r = requests[i] /\ requests[i].state = "PENDING" /\ r.id = i
  BY <1>0, <1>4 DEF Listed, Numbered
<1>6. log[entry[d]].id = i /\ log[entry[d]].kind \notin {"ASKED", "PENDING"}
  BY <1>3, <1>5 DEF Outcomes
<1>7. PutBack(i, entry[d])
  BY <1>3, <1>5, <1>6 DEF UndoneIsLogged, PageSound, Reliable
<1>8. Undone(d)
  BY <1>3, <1>5, <1>7 DEF Undone
<1> QED BY <1>0, <1>8, UndoneStays

\* A call is answered with success by its last statement.
LEMMA Succeeds ==
    ASSUME Sound, [ServerNext]_serverVars, NEW c \in Calls, pc[c] # "new",
           call[c] \in Listings, answer'[c] = "ok", answer[c] # "ok"
    PROVE  Select(c)
<1> USE DEF historyVars
<1>0. TypeOK /\ CallOK(c) /\ ~ (call[c] \in Resolutions) /\ ~ (call[c] \in Asks)
  BY SentTyped DEF Sound, CallsOK, Sent
<1>1. ASSUME NEW d \in Calls \ {c}, Serve(d) \/ \E k \in Sent : Arrive(d, k)
      PROVE  FALSE
  BY <1>1, StepGrows DEF Grow
<1>2. ~ \E k \in Sent : Arrive(c, k)
  BY DEF Arrive
<1>3. ~ UNCHANGED serverVars
  BY DEF serverVars
<1>4. Serve(c)
  BY <1>1, <1>2, <1>3 DEF ServerNext
<1>5. ~ (Insert(c) \/ FindRequest(c) \/ Update(c) \/ Fail(c))
  BY <1>0, Finished DEF Insert, FindRequest, Update, Fail
<1>6. ~ Notify(c)
  BY <1>0, Holds DEF Notify, Written
<1> QED BY <1>4, <1>5, <1>6 DEF Serve

\* As long as nothing of page p changes, nor its calls, its visit stays sound.
LEMMA VisitKept ==
    ASSUME PageSound, [PageNext]_vars, NEW p \in Pages, VisitOK(p),
           shows'[p] = shows[p], data'[p] = data[p], list'[p] = list[p],
           responses'[p] = responses[p],
           \A c \in Calls : asker'[c] = p <=> asker[c] = p,
           \A c \in Calls : asker[c] = p => (c \in heard' <=> c \in heard)
    PROVE  VisitOK(p)'
<1>1. \A c \in Calls : asker[c] = p => call'[c] = call[c]
  BY OwnStays
<1>2. InFlight(p)' = InFlight(p) /\ Own(p)' = Own(p)
  BY <1>1 DEF InFlight, Own
<1>3. Own(p)' \cap heard' = Own(p) \cap heard
  BY <1>2 DEF Own
<1>4. \A c \in Own(p) : c \in Calls /\ call'[c] = call[c] /\ (Undone(c) => Undone(c)')
  BY <1>1, UndoneStays DEF Own
<1>5. Waiting(p)'
  <2>1. \A c \in InFlight(p) : call'[c] = call[c]
    BY <1>1 DEF InFlight
  <2>2. \A c \in Own(p) \cap heard : pc'[c] = "done" /\ answer'[c] = "ok"
    BY OwnStays DEF VisitOK, Waiting, Own
  <2> QED BY <1>2, <1>3, <1>4, <2>1, <2>2 DEF VisitOK, Waiting
<1>6. Remembers(p)'
  <2>1. ASSUME NEW c \in InFlight(p), call[c] \in Listings, answer'[c] = "ok",
               NEW d \in Own(p), NEW r \in got'[c], r.id = call[d].id
        PROVE  Undone(d)'
    <3>1. c \in Calls /\ asker[c] = p /\ pc[c] # "new"
      BY DEF InFlight, PageSound, Asked, AskerOK
    <3>2. CASE answer[c] = "ok"
      <4>1. pc[c] = "done"
        BY <3>1, <3>2 DEF PageSound, Reliable, Sound, CallsOK, CallOK
      <4>2. got'[c] = got[c]
        BY <3>1, <4>1, OwnStays
      <4> QED BY <1>4, <2>1, <3>2, <4>2 DEF VisitOK, Remembers
    <3>3. CASE answer[c] # "ok"
      <4>1. Select(c)
        BY <2>1, <3>1, <3>3, PageStepServes, Succeeds DEF PageSound, Reliable
      <4> QED BY <2>1, <4>1, SelectRemembers
    <3> QED BY <3>2, <3>3
  <2>2. \A c \in InFlight(p) : call'[c] = call[c]
    BY <1>1 DEF InFlight
  <2> QED BY <1>2, <1>3, <1>4, <2>1, <2>2 DEF VisitOK, Remembers
<1>7. OnceOn(p)'
  BY <1>2, <1>4 DEF VisitOK, OnceOn
<1> QED BY <1>5, <1>6, <1>7 DEF VisitOK

LEMMA OpenVisit ==
    ASSUME PageSound, [PageNext]_vars, NEW p \in Pages, VisitOK(p), NEW c \in Calls,
           Open(p, c), p \notin marred'
    PROVE  VisitOK(p)'
<1>1. /\ pc[c] = "new" /\ call'[c] = ListCall(p) /\ answer'[c] # "ok"
      /\ ListCall(p) \in Listings /\ ListCall(p) \notin Resolutions
  BY ListSent, Arrived DEF Open, Send, ListCall, PageSound, Reliable
<1>2. /\ asker' = [asker EXCEPT ![c] = p] /\ shows'[p] = TRUE /\ data'[p] = "NotAsked"
      /\ list'[p] = {} /\ UNCHANGED heard /\ InFlight(p) = {}
  BY DEF Open, Send, Reset, PageSound, PageTyped
<1>3. asker[c] # p /\ c \notin heard
  BY <1>1 DEF PageSound, Asked, AskerOK
<1>4. \A d \in Calls : asker'[d] = p <=> asker[d] = p \/ d = c
  BY <1>2 DEF PageSound, PageTyped
<1>5. \A d \in Calls : asker[d] = p => call'[d] = call[d]
  BY OwnStays
<1>6. InFlight(p)' = {c}
  BY <1>2, <1>3, <1>4 DEF InFlight
<1>7. Own(p)' = Own(p) /\ c \notin Own(p)
  BY <1>1, <1>3, <1>4, <1>5 DEF Own
<1>8. \A d \in Own(p) : d \in Calls /\ call'[d] = call[d] /\ (Undone(d) => Undone(d)')
  BY <1>5, UndoneStays DEF Own
<1>9. Waiting(p)'
  <2>1. \A d \in Own(p) \cap heard : pc'[d] = "done" /\ answer'[d] = "ok"
    BY OwnStays DEF VisitOK, Waiting, Own
  <2> QED BY <1>1, <1>2, <1>6, <1>7, <2>1 DEF Waiting
<1>10. Remembers(p)'
  BY <1>1, <1>2, <1>6 DEF Remembers
<1>11. OnceOn(p)'
  BY <1>7, <1>8 DEF VisitOK, OnceOn
<1> QED BY <1>9, <1>10, <1>11 DEF VisitOK

LEMMA LeaveVisit ==
    ASSUME PageSound, [PageNext]_vars, NEW p \in Pages, VisitOK(p), Leave(p),
           p \notin marred'
    PROVE  VisitOK(p)'
<1>1. /\ data'[p] = "NotAsked" /\ list'[p] = {} /\ UNCHANGED <<serverVars, heard, asker>>
      /\ InFlight(p) = {}
  BY DEF Leave, Reset, PageSound, PageTyped
<1>2. /\ InFlight(p)' = {} /\ Own(p)' = Own(p) /\ (\A d \in Calls : Undone(d)' <=> Undone(d))
      /\ UNCHANGED <<call, pc, answer, got>>
  BY <1>1 DEF InFlight, Own, Undone, PutBack, serverVars, historyVars
<1>3. OnceOn(p)'
  BY <1>2 DEF VisitOK, OnceOn, Own
<1> QED BY <1>1, <1>2, <1>3 DEF VisitOK, Waiting, Remembers

LEMMA CommitVisit ==
    ASSUME PageSound, [PageNext]_vars, NEW p \in Pages, VisitOK(p), NEW c \in Calls,
           NEW outcome \in Outcomes, NEW id \in Ids, Commit(p, c, outcome, id)
    PROVE  VisitOK(p)'
<1>1. /\ pc[c] = "new" /\ call'[c] = ResolveCall(p, outcome, id) /\ call'[c].id = id
      /\ call'[c] \in Resolutions /\ call'[c] \notin Listings
  BY ResolveSent, Arrived DEF Commit, Send, ResolveCall, PageSound, Reliable
<1>2. /\ asker' = [asker EXCEPT ![c] = p] /\ UNCHANGED <<shows, data, list, heard>>
      /\ responses' = [responses EXCEPT ![p][id] = "Loading"]
  BY DEF Commit, Send
<1>3. asker[c] # p /\ c \notin heard
  BY <1>1 DEF PageSound, Asked, AskerOK
<1>4. \A d \in Calls : asker'[d] = p <=> asker[d] = p \/ d = c
  BY <1>2 DEF PageSound, PageTyped
<1>5. \A d \in Calls : asker[d] = p => call'[d] = call[d] /\ d # c
  BY <1>3, OwnStays
<1>6. InFlight(p)' = InFlight(p) \cup {c} /\ Own(p)' = Own(p) \cup {c}
  BY <1>1, <1>2, <1>3, <1>4, <1>5 DEF InFlight, Own
<1>7. \A d \in Own(p) : d \in Calls /\ call'[d] = call[d] /\ (Undone(d) => Undone(d)')
  BY <1>5, UndoneStays DEF Own
<1>8. /\ data[p] = "Success" /\ shows[p] /\ responses[p][id] # "Loading"
      /\ \E r \in list[p] : r.id = id /\ r.state = "PENDING"
  BY DEF Commit, ButtonsOf, VisitOK, Waiting
<1>9. \A d \in InFlight(p) : d \in Calls /\ call'[d] = call[d] /\ call[d] \notin Listings
  BY <1>5, <1>8 DEF VisitOK, Waiting, InFlight
<1>10. /\ responses'[p][id] = "Loading"
       /\ \A i \in Ids : responses[p][i] = "Loading" => responses'[p][i] = "Loading"
  BY <1>2 DEF PageSound, PageTyped
<1>11. \A d \in Own(p) : call[d].id \in Ids
  BY Answered DEF Own, PageSound, Asked
<1>12. Waiting(p)'
  <2>1. \A d \in InFlight(p) \cap Own(p) :
           responses[p][call[d].id] = "Loading" /\ call[d].id # id
    BY <1>8 DEF VisitOK, Waiting
  <2>2. \A d \in InFlight(p)' : call'[d] \notin Listings
    BY <1>1, <1>6, <1>9
  <2>3. \A d \in (InFlight(p) \cap Own(p))' : responses'[p][call'[d].id] = "Loading"
    BY <1>1, <1>6, <1>7, <1>10, <1>11, <2>1
  <2>4. \A d, e \in (InFlight(p) \cap Own(p))' : call'[d].id = call'[e].id => d = e
    <3>1. \A d \in (InFlight(p) \cap Own(p))' : d = c \/ d \in InFlight(p) \cap Own(p)
      BY <1>6
    <3>2. \A d, e \in InFlight(p) \cap Own(p) : call[d].id = call[e].id => d = e
      BY DEF VisitOK, Waiting
    <3> QED BY <1>1, <1>7, <2>1, <3>1, <3>2
  <2>5. \A d \in (Own(p) \cap heard)' : pc'[d] = "done" /\ answer'[d] = "ok"
    <3>1. (Own(p) \cap heard)' = Own(p) \cap heard
      BY <1>2, <1>3, <1>6
    <3> QED BY <3>1, OwnStays DEF VisitOK, Waiting, Own
  <2> QED BY <1>2, <1>8, <2>2, <2>3, <2>4, <2>5 DEF Waiting
<1>13. Remembers(p)'
  <2>1. (Own(p) \cap heard)' = Own(p) \cap heard
    BY <1>2, <1>3, <1>6
  <2> QED BY <1>1, <1>2, <1>6, <1>7, <1>9, <2>1 DEF VisitOK, Remembers
<1>14. OnceOn(p)'
  <2>1. ASSUME NEW d \in Own(p), call[d].id = id
        PROVE  Undone(d)
    <3>1. d \notin InFlight(p)
      BY <1>8, <2>1 DEF VisitOK, Waiting
    <3>2. d \in heard
      BY <3>1 DEF InFlight, Own
    <3> QED BY <1>8, <2>1, <3>2 DEF VisitOK, Remembers
  <2> QED BY <1>1, <1>6, <1>7, <2>1 DEF VisitOK, OnceOn
<1> QED BY <1>12, <1>13, <1>14 DEF VisitOK

LEMMA HearVisit ==
    ASSUME PageSound, [PageNext]_vars, NEW p \in Pages, VisitOK(p), NEW c \in Calls,
           Hear(p, c) \/ Lose(p, c), p \notin marred'
    PROVE  VisitOK(p)'
<1>1. /\ asker[c] = p /\ c \notin heard /\ heard' = heard \cup {c}
      /\ UNCHANGED <<serverVars, shows, asker>>
      /\ Apply(p, c, "Success") /\ pc[c] = "done" /\ answer[c] = "ok"
  BY Reached DEF PageSound
<1>2. /\ UNCHANGED <<call, pc, answer, got>> /\ Own(p)' = Own(p)
      /\ InFlight(p)' = InFlight(p) \ {c} /\ (\A d \in Calls : Undone(d)' <=> Undone(d))
      /\ c \in InFlight(p)
  BY <1>1 DEF serverVars, historyVars, Own, InFlight, Undone, PutBack
<1>3. OnceOn(p)'
  BY <1>2 DEF VisitOK, OnceOn, Own
<1>4. AskerOK(c) /\ (call[c] \in Listings \/ call[c] \in Resolutions)
  BY <1>1 DEF PageSound, Asked, AskerOK
<1>5. CASE call[c] \in Listings
  <2>1. shows[p] /\ InFlight(p)' = {} /\ call[c].op = "list" /\ c \notin Own(p)
    BY <1>1, <1>2, <1>4, <1>5, SentTyped DEF VisitOK, Waiting, Own, Sent
  <2>2. list'[p] = got[c]
    BY <1>1, <2>1 DEF Apply, OnData, PageSound, PageTyped
  <2>3. Own(p)' \cap heard' = Own(p) \cap heard
    BY <1>1, <1>2, <2>1
  <2>4. Waiting(p)'
    BY <1>1, <1>2, <2>1, <2>3 DEF VisitOK, Waiting
  <2>5. Remembers(p)'
    <3>1. \A d \in Own(p), r \in got[c] : r.id = call[d].id => Undone(d)
      BY <1>1, <1>2, <1>5 DEF VisitOK, Remembers
    <3>2. \A d \in Own(p) : d \in Calls
      BY DEF Own
    <3> QED BY <1>2, <2>1, <2>2, <3>1, <3>2 DEF Remembers
  <2> QED BY <1>3, <2>4, <2>5 DEF VisitOK
<1>6. CASE call[c] \in Resolutions
  <2>1. /\ call[c].op # "list" /\ c \in Own(p) /\ call[c].id \in Ids
        /\ shows[p] /\ data[p] = "Success"
    BY <1>1, <1>2, <1>4, <1>6, Answered DEF PageSound, VisitOK, Waiting, Own
  <2>2. PICK r \in Request : got[c] = {r} /\ r.id = call[c].id /\ r.state = call[c].outcome
    BY <1>1, <1>4, <1>6, Answered DEF PageSound
  <2>3. OnResolveResponse(p, c, "Success")
    BY <1>1, <2>1 DEF Apply
  <2>4. list'[p] = Put(list[p], r) /\ UNCHANGED data
    <3>1. UNION {Put(list[p], s) : s \in got[c]} = Put(list[p], r)
      BY <2>2
    <3>2. list' = [list EXCEPT ![p] = UNION {Put(@, s) : s \in got[c]}]
      BY <1>1, <2>1, <2>3 DEF OnResolveResponse, PageSound, PageTyped
    <3> QED BY <2>3, <3>1, <3>2 DEF OnResolveResponse, PageSound, PageTyped
  <2>5. \A i \in Ids \ {call[c].id} : responses'[p][i] = responses[p][i]
    BY <2>3 DEF OnResolveResponse, PageSound, PageTyped
  <2>6. \A d \in InFlight(p) : call[d] \notin Listings
    BY <1>2, <2>1 DEF VisitOK, Waiting
  <2>7. Waiting(p)'
    <3>1. \A d \in Own(p) : call[d].id \in Ids
      BY Answered DEF Own, PageSound, Asked
    <3>2. \A d \in (InFlight(p) \ {c}) \cap Own(p) : call[d].id # call[c].id
      BY <1>2, <2>1 DEF VisitOK, Waiting
    <3> QED BY <1>1, <1>2, <2>1, <2>4, <2>5, <2>6, <3>1, <3>2 DEF VisitOK, Waiting
  <2>8. Remembers(p)'
    <3>1. r.state # "PENDING"
      BY <1>1, <1>4, <1>6, <2>2 DEF AskerOK, Outcomes
    <3>2. \A d \in Own(p) : d \in Calls
      BY DEF Own
    <3>3. \A d \in Own(p) \cap heard', s \in list'[p] :
             s.id = call[d].id => s.state # "PENDING" \/ Undone(d)
      BY <1>1, <2>2, <2>4, <3>1 DEF Put, VisitOK, Remembers
    <3> QED BY <1>2, <2>6, <3>2, <3>3 DEF Remembers
  <2> QED BY <1>3, <2>7, <2>8 DEF VisitOK
<1> QED BY <1>4, <1>5, <1>6

Visits == \A p \in Pages \ marred : VisitOK(p)

LEMMA VisitsStep ==
    ASSUME PageSound, Visits, [PageNext]_vars
    PROVE  Visits'
<1>1. SUFFICES ASSUME NEW p \in Pages, p \notin marred'
               PROVE  VisitOK(p)'
  BY DEF Visits
<1>2. ASSUME p \notin marred, shows'[p] = shows[p], data'[p] = data[p], list'[p] = list[p],
             responses'[p] = responses[p],
             \A c \in Calls : asker'[c] = p <=> asker[c] = p,
             \A c \in Calls : asker[c] = p => (c \in heard' <=> c \in heard)
      PROVE  VisitOK(p)'
  BY <1>2, VisitKept DEF Visits
<1>3. CASE UNCHANGED pageVars
  BY <1>1, <1>2, <1>3 DEF pageVars
<1>4. ASSUME NEW q \in Pages, NEW c \in Calls, Send(q, c, call'[c]), p # q
      PROVE  \A d \in Calls : asker'[d] = p <=> asker[d] = p
  <2>1. asker[c] # p
    BY <1>4 DEF Send, Arrive, PageSound, Asked, AskerOK
  <2> QED BY <1>4, <2>1 DEF Send, PageSound, PageTyped
<1>5. ASSUME NEW q \in Pages, NEW c \in Calls, Open(q, c)
      PROVE  VisitOK(p)'
  <2>1. p \notin marred
    BY <1>1, <1>5 DEF Open, Reset
  <2>2. CASE p = q
    BY <1>1, <1>5, <2>1, <2>2, OpenVisit DEF Visits
  <2>3. CASE p # q
    <3>1. Send(q, c, call'[c])
      BY <1>5, ListSent, Arrived DEF Open, Send, ListCall, PageSound, Reliable
    <3> QED BY <1>2, <1>4, <1>5, <2>1, <2>3, <3>1 DEF Open, Reset, PageSound, PageTyped
  <2> QED BY <2>2, <2>3
<1>6. ASSUME NEW q \in Pages, NEW c \in Calls, NEW outcome \in Outcomes, NEW id \in Ids,
             Commit(q, c, outcome, id)
      PROVE  VisitOK(p)'
  <2>1. p \notin marred
    BY <1>1, <1>6 DEF Commit
  <2>2. CASE p = q
    BY <1>6, <2>1, <2>2, CommitVisit DEF Visits
  <2>3. CASE p # q
    <3>1. Send(q, c, call'[c])
      BY <1>6, ResolveSent, Arrived DEF Commit, Send, ResolveCall, PageSound, Reliable
    <3> QED BY <1>2, <1>4, <1>6, <2>1, <2>3, <3>1 DEF Commit, PageSound, PageTyped
  <2> QED BY <2>2, <2>3
<1>7. ASSUME NEW q \in Pages, NEW c \in Calls, Hear(q, c) \/ Lose(q, c)
      PROVE  VisitOK(p)'
  <2>1. p \notin marred
    BY <1>1, <1>7, Reached DEF PageSound
  <2>2. CASE p = q
    BY <1>1, <1>7, <2>1, <2>2, HearVisit DEF Visits
  <2>3. CASE p # q
    <3>1. asker[c] = q /\ AskerOK(c)
      BY <1>7, Reached DEF PageSound, Asked
    <3>2. data'[p] = data[p] /\ list'[p] = list[p] /\ responses'[p] = responses[p]
      BY <1>7, <2>3, <3>1, Reached, Applied DEF PageSound
    <3> QED BY <1>2, <1>7, <2>1, <2>3, <3>1, <3>2, Reached DEF PageSound
  <2> QED BY <2>2, <2>3
<1>8. ASSUME NEW q \in Pages, Leave(q)
      PROVE  VisitOK(p)'
  <2>1. p \notin marred
    BY <1>1, <1>8 DEF Leave, Reset
  <2>2. CASE p = q
    BY <1>1, <1>8, <2>1, <2>2, LeaveVisit DEF Visits
  <2>3. CASE p # q
    BY <1>2, <1>8, <2>1, <2>3 DEF Leave, Reset, PageSound, PageTyped
  <2> QED BY <2>2, <2>3
<1>9. ASSUME NEW q \in Pages, Cancel(q) \/ \E outcome \in Outcomes, id \in Ids : Click(q, outcome, id)
      PROVE  VisitOK(p)'
  BY <1>1, <1>2, <1>9 DEF Cancel, Click
<1> QED BY <1>3, <1>5, <1>6, <1>7, <1>8, <1>9, PageSteps

LEMMA PagesInit ==
    ASSUME Init
    PROVE  PageTyped /\ Asked /\ OneRowEach /\ ShownDecisionsHappened /\ Visits
<1>1. PageTyped
  <2>1. Nothing \in [Ids -> {"NotAsked", "Loading", "Failure", "Success"}]
    BY DEF Nothing
  <2> QED BY <2>1 DEF Init, PageTyped
<1>2. Asked /\ OneRowEach /\ ShownDecisionsHappened
  BY PageAssumption DEF Init, Asked, AskerOK, OneRowEach, ShownDecisionsHappened
<1>3. \A p \in Pages : InFlight(p) = {} /\ Own(p) = {}
  BY PageAssumption DEF Init, InFlight, Own
<1>4. \A p \in Pages : VisitOK(p)
  BY <1>3 DEF Init, VisitOK, Waiting, Remembers, OnceOn
<1> QED BY <1>1, <1>2, <1>4 DEF Visits

LEMMA PagesAlwaysSound == PageSpec => [](PageSound /\ ShownDecisionsHappened /\ Visits)
<1>1. Init => PageTyped /\ Asked /\ OneRowEach /\ ShownDecisionsHappened /\ Visits
  BY PagesInit
<1>2. Reliable /\ Reliable' /\ PageTyped /\ Asked /\ OneRowEach /\ ShownDecisionsHappened
        /\ Visits /\ [PageNext]_vars
        => PageTyped' /\ Asked' /\ OneRowEach' /\ ShownDecisionsHappened' /\ Visits'
  BY PageTypedStep, AskedStep, OneRowStep, ShownStep, VisitsStep DEF PageSound, Asked
<1>3. PageSound <=> Reliable /\ PageTyped /\ Asked /\ OneRowEach
  BY DEF PageSound
<1> QED BY <1>1, <1>2, <1>3, AlwaysReliable, PTL DEF PageSpec

\* Every variable of the server and of the pages keeps its type, and no page lists a
\* request twice.
THEOREM RequestTypes == PageSpec => []PageTypeOK
<1>1. PageSound => PageTypeOK
  BY DEF PageSound, Reliable, Sound, PageTyped, OneRowEach, PageTypeOK
<1> QED BY <1>1, PagesAlwaysSound, PTL

\* Whatever answers are late or lost, a page shows only decisions its admin took; one
\* without errors and early navigation shows them all, and sends each once, unless
\* somebody puts the request back to pending.
THEOREM PagesShowDecisions == PageSpec => []DecisionsShown
<1>1. ASSUME PageSound, Visits
      PROVE  ShowsOwnDecisions /\ DecidesOnce
  <2>1. ASSUME NEW p \in Pages \ marred, InFlight(p) = {}, NEW r \in list[p],
               NEW c \in Calls, asker[c] = p, call[c].op = "resolve", call[c].id = r.id
        PROVE  r.state # "PENDING" \/ PutBack(r.id, entry[c])
    <3>1. c \in Own(p) /\ c \in heard
      BY <1>1, <2>1, Answered DEF PageSound, Asked, Own, InFlight
    <3> QED BY <1>1, <2>1, <3>1 DEF Visits, VisitOK, Remembers, Undone
  <2>2. ASSUME NEW p \in Pages \ marred, NEW c \in Calls, NEW d \in Calls,
               asker[c] = p, asker[d] = p, call[c].op = "resolve", call[d].op = "resolve",
               call[c].id = call[d].id, c # d
        PROVE  \E b \in {c, d} : entry[b] # 0 /\ PutBack(call[b].id, entry[b])
    <3>1. c \in Own(p) /\ d \in Own(p)
      BY <1>1, <2>2, Answered DEF PageSound, Asked, Own
    <3> QED BY <1>1, <2>2, <3>1 DEF Visits, VisitOK, OnceOn, Undone
  <2> QED BY <2>1, <2>2 DEF ShowsOwnDecisions, DecidesOnce
<1>2. ShownDecisionsHappened /\ ShowsOwnDecisions /\ DecidesOnce => DecisionsShown
  BY DEF DecisionsShown
<1> QED BY <1>1, <1>2, PagesAlwaysSound, PTL

=============================================================================
