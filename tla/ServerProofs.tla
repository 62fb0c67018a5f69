----------------------------- MODULE ServerProofs -----------------------------
(***************************************************************************)
(* Proofs about Server, for any number of requests, threads, connections   *)
(* and migrations.                                                         *)
(***************************************************************************)
EXTENDS Server, FiniteSetTheorems, TLAPS

Holders == {r \in Requests : held[r]}

\* Requests are under way in a process that serves, and that has migrated.
Serving ==
    /\ \A r \in Requests : pc[r] \in Guards \cup {"queued"} => process = "up"
    /\ process = "up" => schema = Migrations

\* The pool's balance, while there is a pool.
Pooled ==
    /\ \A r \in Requests : held[r] => pc[r] \in {"body", "user", "execute"}
    /\ IsFiniteSet(Holders)
    /\ process = "off" => idle = 0
    /\ process # "off" => idle + Cardinality(Holders) = PoolSize

\* What the position of a request says of it.
RequestOK(r) ==
    /\ pc[r] = "new" => request[r] = NoRequest
    /\ pc[r] \in {"new", "queued"} \cup Guards => answer[r] = "none"
    /\ pc[r] \notin {"execute", "done"} => user[r] = None
    /\ pc[r] \in {"jwt", "user"} => request[r].route = "app"
    /\ request[r].route = "app" =>
          /\ request[r] \in AppRequests
          /\ request[r].token \in issued \cup {System, Forged, Short, None}
    /\ request[r].route = "app" /\ request[r].token = None =>
          pc[r] \notin {"conn", "body", "user", "execute"} /\ answer[r] # "unavailable"

\* A refusal has its reason.
RefusalOK(r) ==
    answer[r] = "unauthorized" /\ r \notin faulted =>
        /\ request[r].route = "app"
        /\ request[r].token \in Token => request[r].token.exp < admitted[r]

\* What holds of request r and its user.
AdmissionOK(r) ==
    user[r] # None =>
        \/ user[r] = System /\ request[r].token = System
        \/ /\ request[r].token \in issued
           /\ request[r].token.user = user[r]
           /\ admitted[r] <= request[r].token.exp

RequestsOK == \A r \in Requests : RequestOK(r) /\ RefusalOK(r) /\ AdmissionOK(r)

Sound == TypeOK /\ Serving /\ Pooled /\ RequestsOK

-----------------------------------------------------------------------------

\* Finish ends one request and gives its connection back.
LEMMA Finished ==
    ASSUME TypeOK, Pooled, NEW r \in Requests, NEW result \in Answers,
           pc[r] \in Guards, process # "off", Finish(r, result)
    PROVE  /\ pc' = [pc EXCEPT ![r] = "done"] /\ answer' = [answer EXCEPT ![r] = result]
           /\ held' = [held EXCEPT ![r] = FALSE]
           /\ idle' \in 0..PoolSize
           /\ IsFiniteSet(Holders') /\ idle' + Cardinality(Holders') = PoolSize
<1>1. /\ pc' = [pc EXCEPT ![r] = "done"] /\ answer' = [answer EXCEPT ![r] = result]
      /\ held' = [held EXCEPT ![r] = FALSE]
      /\ idle' = IF held[r] THEN idle + 1 ELSE idle
  BY DEF Finish, Goto, Release
<1>2. Holders' = Holders \ {r}
  BY <1>1 DEF Holders, TypeOK
<1>3. /\ IsFiniteSet(Holders') /\ Cardinality(Holders') \in Nat
      /\ Cardinality(Holders') = IF held[r] THEN Cardinality(Holders) - 1
                                 ELSE Cardinality(Holders)
  <2>1. IsFiniteSet(Holders) /\ (r \in Holders <=> held[r])
    BY DEF Pooled, Holders
  <2>2. /\ IsFiniteSet(Holders \ {r})
        /\ Cardinality(Holders \ {r}) = IF r \in Holders THEN Cardinality(Holders) - 1
                                         ELSE Cardinality(Holders)
    BY <2>1, FS_RemoveElement
  <2>3. Cardinality(Holders \ {r}) \in Nat
    BY <2>2, FS_CardinalityType
  <2> QED BY <1>2, <2>1, <2>2, <2>3
<1>4. idle + Cardinality(Holders) = PoolSize /\ idle \in Nat /\ Cardinality(Holders) \in Nat
  BY FS_CardinalityType DEF Pooled, TypeOK
<1>5. idle' + Cardinality(Holders') = PoolSize /\ idle' \in 0..PoolSize
  BY <1>1, <1>3, <1>4, ServerAssumption
<1> QED BY <1>1, <1>3, <1>5

\* Every guard of a request moves that request alone.
Moves(r) ==
    /\ \A q \in Requests \ {r} :
          /\ pc'[q] = pc[q] /\ request'[q] = request[q] /\ held'[q] = held[q]
          /\ user'[q] = user[q] /\ answer'[q] = answer[q] /\ admitted'[q] = admitted[q]
          /\ q \in faulted' <=> q \in faulted
    /\ issued \subseteq issued'

\* The other requests stay as sound as they were.
LEMMA OthersOK ==
    ASSUME RequestsOK, NEW r \in Requests, Moves(r), NEW q \in Requests \ {r}
    PROVE  RequestOK(q)' /\ RefusalOK(q)' /\ AdmissionOK(q)'
<1>1. /\ pc'[q] = pc[q] /\ request'[q] = request[q] /\ user'[q] = user[q]
      /\ answer'[q] = answer[q] /\ admitted'[q] = admitted[q]
      /\ q \in faulted' <=> q \in faulted
      /\ issued \subseteq issued'
  BY DEF Moves
<1>2. RequestOK(q) /\ RefusalOK(q) /\ AdmissionOK(q)
  BY DEF RequestsOK
<1>3. RequestOK(q)'
  BY <1>1, <1>2 DEF RequestOK
<1>4. RefusalOK(q)'
  BY <1>1, <1>2 DEF RefusalOK
<1>5. AdmissionOK(q)'
  BY <1>1, <1>2 DEF AdmissionOK
<1> QED BY <1>3, <1>4, <1>5

\* A step of the pool: whoever moves on without a connection changes nothing.
LEMMA PoolKept ==
    ASSUME TypeOK, Pooled, NEW r \in Requests, ~held[r] \/ pc'[r] \in {"body", "user", "execute"},
           \A q \in Requests \ {r} : pc'[q] = pc[q],
           UNCHANGED <<held, idle, process>>
    PROVE  Pooled'
<1>1. Holders' = Holders
  BY DEF Holders
<1> QED BY <1>1 DEF Pooled

LEMMA PoolFinished ==
    ASSUME TypeOK, Pooled, NEW r \in Requests, NEW result \in Answers,
           pc[r] \in Guards, process # "off", Finish(r, result), UNCHANGED process
    PROVE  Pooled'
<1>1. /\ pc' = [pc EXCEPT ![r] = "done"] /\ held' = [held EXCEPT ![r] = FALSE]
      /\ IsFiniteSet(Holders') /\ idle' + Cardinality(Holders') = PoolSize
  BY Finished
<1>2. \A q \in Requests : held'[q] => pc'[q] \in {"body", "user", "execute"}
  BY <1>1 DEF Pooled, TypeOK
<1> QED BY <1>1, <1>2 DEF Pooled

LEMMA PoolTaken ==
    ASSUME TypeOK, Pooled, NEW r \in Requests, TakeConn(r), process # "off"
    PROVE  Pooled' /\ idle' \in 0..PoolSize
<1>1. /\ held' = [held EXCEPT ![r] = TRUE] /\ pc' = [pc EXCEPT ![r] = "body"]
      /\ idle' = idle - 1 /\ idle > 0 /\ UNCHANGED process /\ ~held[r]
  BY DEF TakeConn, Goto, lifeVars, Pooled
<1>2. Holders' = Holders \cup {r} /\ r \notin Holders
  BY <1>1 DEF Holders, TypeOK
<1>3. IsFiniteSet(Holders) /\ idle + Cardinality(Holders) = PoolSize
  BY DEF Pooled
<1>4. /\ IsFiniteSet(Holders') /\ Cardinality(Holders') = Cardinality(Holders) + 1
      /\ Cardinality(Holders) \in Nat
  BY <1>2, <1>3, FS_AddElement, FS_CardinalityType
<1>5. idle' + Cardinality(Holders') = PoolSize /\ idle' \in 0..PoolSize
  BY <1>1, <1>3, <1>4, ServerAssumption DEF TypeOK
<1>6. \A q \in Requests : held'[q] => pc'[q] \in {"body", "user", "execute"}
  BY <1>1 DEF Pooled, TypeOK
<1> QED BY <1>1, <1>4, <1>5, <1>6 DEF Pooled

\* The type of a request's record tells its kind.
LEMMA RequestKinds ==
    ASSUME TypeOK, NEW r \in Requests
    PROVE  /\ request[r].route = "app" => request[r] \in AppRequests
           /\ request[r] \in PubRequests => request[r].route = "pub"
           /\ request[r].route = "pub" => request[r].signer \in Users \cup {None}
           /\ NoRequest.route # "app"
<1>1. request[r] \in AppRequests \cup PubRequests \cup {NoRequest}
  BY DEF TypeOK
<1>2. request[r] \in AppRequests => request[r].route = "app"
  BY DEF AppRequests
<1>3. request[r] \in PubRequests => request[r].route = "pub" /\ request[r].signer \in Users \cup {None}
  BY DEF PubRequests
<1>4. NoRequest.route = "none"
  BY DEF NoRequest
<1> QED BY <1>1, <1>2, <1>3, <1>4

\* A thread that serves r moves r alone, in a process that serves.
LEMMA ServeMoves ==
    ASSUME Sound, NEW r \in Requests, Serve(r)
    PROVE  /\ Moves(r) /\ UNCHANGED <<process, schema, database, now, request>>
           /\ pc[r] \in Guards \cup {"queued"}
           /\ process = "up" /\ schema = Migrations
<1>0. TypeOK
  BY DEF Sound
<1>1. ASSUME NEW result, Finish(r, result)
      PROVE  \A q \in Requests \ {r} :
                pc'[q] = pc[q] /\ held'[q] = held[q] /\ answer'[q] = answer[q]
  BY <1>0, <1>1 DEF Finish, Goto, TypeOK
<1>2. ASSUME NEW step, Goto(r, step)
      PROVE  \A q \in Requests \ {r} : pc'[q] = pc[q]
  BY <1>0, <1>2 DEF Goto, TypeOK
<1>3. UNCHANGED <<process, schema, database, now, request>> /\ issued \subseteq issued'
  BY DEF Serve, Begin, JwtGuard, TakeConn, ConnTimeout, ParseBody, GetUser, Execute, lifeVars
<1>4. ASSUME Begin(r)  PROVE Moves(r)
  BY <1>2, <1>3, <1>4 DEF Begin, Moves
<1>5. ASSUME JwtGuard(r)  PROVE Moves(r)
  BY <1>1, <1>2, <1>3, <1>5 DEF JwtGuard, Moves
<1>6. ASSUME TakeConn(r)  PROVE Moves(r)
  BY <1>0, <1>2, <1>3, <1>6 DEF TakeConn, Moves, TypeOK
<1>7. ASSUME ConnTimeout(r)  PROVE Moves(r)
  BY <1>1, <1>3, <1>7 DEF ConnTimeout, Moves
<1>8. ASSUME ParseBody(r)  PROVE Moves(r)
  BY <1>1, <1>2, <1>3, <1>8 DEF ParseBody, Moves
<1>9. ASSUME GetUser(r)  PROVE Moves(r)
  BY <1>0, <1>1, <1>2, <1>3, <1>9 DEF GetUser, Moves, TypeOK
<1>10. ASSUME Execute(r)  PROVE Moves(r)
  BY <1>1, <1>3, <1>10 DEF Execute, Moves
<1>11. pc[r] \in Guards \cup {"queued"}
  BY DEF Serve, Begin, JwtGuard, TakeConn, ConnTimeout, ParseBody, GetUser, Execute, Guards
<1> QED BY <1>3, <1>4, <1>5, <1>6, <1>7, <1>8, <1>9, <1>10, <1>11 DEF Serve, Sound, Serving

LEMMA ServeTypes ==
    ASSUME Sound, NEW r \in Requests, Serve(r)
    PROVE  TypeOK'
<1>0. TypeOK /\ Pooled /\ process # "off" /\ pc[r] \in Guards \cup {"queued"}
      /\ UNCHANGED <<process, schema, database, now, request>>
  BY ServeMoves DEF Sound
<1>1. ASSUME NEW result \in Answers, Finish(r, result), pc[r] \in Guards
      PROVE  /\ pc' \in [Requests -> {"new", "queued", "done"} \cup Guards]
             /\ held' \in [Requests -> BOOLEAN] /\ answer' \in [Requests -> Answers]
             /\ idle' \in 0..PoolSize
  <2>1. /\ pc' = [pc EXCEPT ![r] = "done"] /\ answer' = [answer EXCEPT ![r] = result]
        /\ held' = [held EXCEPT ![r] = FALSE] /\ idle' \in 0..PoolSize
    BY <1>0, <1>1, Finished
  <2> QED BY <1>0, <2>1 DEF TypeOK
<1>2. ASSUME NEW step \in Guards, Goto(r, step)
      PROVE  pc' \in [Requests -> {"new", "queued", "done"} \cup Guards]
  BY <1>0, <1>2 DEF Goto, TypeOK
<1>3. CASE Begin(r)
  <2>1. FirstGuard(r) \in Guards
    BY DEF FirstGuard, Guards
  <2> QED BY <1>0, <1>2, <1>3, <2>1 DEF Begin, TypeOK
<1>4. CASE JwtGuard(r)
  <2>1. pc[r] \in Guards /\ "conn" \in Guards /\ {"unauthorized", "dropped"} \subseteq Answers
    BY <1>4 DEF JwtGuard, Guards, Answers
  <2>2. \/ Finish(r, "unauthorized") \/ Finish(r, "dropped")
        \/ Goto(r, "conn") /\ UNCHANGED <<answer, held, idle>>
    BY <1>4 DEF JwtGuard
  <2>3. /\ pc' \in [Requests -> {"new", "queued", "done"} \cup Guards]
        /\ held' \in [Requests -> BOOLEAN] /\ answer' \in [Requests -> Answers]
        /\ idle' \in 0..PoolSize
    BY <1>0, <1>1, <1>2, <2>1, <2>2 DEF TypeOK
  <2> QED BY <1>0, <1>4, <2>3 DEF JwtGuard, TypeOK
<1>5. CASE TakeConn(r)
  <2>1. "body" \in Guards
    BY DEF Guards
  <2>2. idle' \in 0..PoolSize
    BY <1>0, <1>5, PoolTaken
  <2>3. held' \in [Requests -> BOOLEAN]
    BY <1>0, <1>5 DEF TakeConn, TypeOK
  <2>4. pc' \in [Requests -> {"new", "queued", "done"} \cup Guards]
    BY <1>2, <1>5, <2>1 DEF TakeConn
  <2> QED BY <1>0, <1>5, <2>2, <2>3, <2>4 DEF TakeConn, TypeOK
<1>6. CASE ConnTimeout(r)
  <2>1. pc[r] \in Guards /\ "unavailable" \in Answers
    BY <1>6 DEF ConnTimeout, Guards, Answers
  <2> QED BY <1>0, <1>1, <1>6, <2>1 DEF ConnTimeout, TypeOK
<1>7. CASE ParseBody(r)
  <2>1. pc[r] \in Guards /\ "badRequest" \in Answers /\ {"user", "execute"} \subseteq Guards
    BY <1>7 DEF ParseBody, Guards, Answers
  <2>2. /\ pc' \in [Requests -> {"new", "queued", "done"} \cup Guards]
        /\ held' \in [Requests -> BOOLEAN] /\ answer' \in [Requests -> Answers]
        /\ idle' \in 0..PoolSize
    BY <1>0, <1>1, <1>2, <1>7, <2>1 DEF ParseBody, TypeOK
  <2> QED BY <1>0, <1>7, <2>2 DEF ParseBody, TypeOK
<1>8. CASE GetUser(r)
  <2>1. pc[r] \in Guards /\ "unauthorized" \in Answers /\ "execute" \in Guards
    BY <1>8 DEF GetUser, Guards, Answers
  <2>2. /\ pc' \in [Requests -> {"new", "queued", "done"} \cup Guards]
        /\ held' \in [Requests -> BOOLEAN] /\ answer' \in [Requests -> Answers]
        /\ idle' \in 0..PoolSize
    BY <1>0, <1>1, <1>2, <1>8, <2>1 DEF GetUser, TypeOK
  <2>3. user' \in [Requests -> Users \cup {System, None}]
    <3>1. CASE UNCHANGED user
      BY <1>0, <3>1 DEF TypeOK
    <3>2. CASE user' = [user EXCEPT ![r] = System]
      BY <1>0, <3>2 DEF TypeOK
    <3>3. CASE Decodes(request[r].token) /\ user' = [user EXCEPT ![r] = request[r].token.user]
      <4>1. request[r].token \in Token
        BY <1>0, <3>3 DEF Decodes, TypeOK
      <4>2. request[r].token.user \in Users
        BY <4>1 DEF Token
      <4> QED BY <1>0, <3>3, <4>2 DEF TypeOK
    <3> QED BY <1>8, <3>1, <3>2, <3>3 DEF GetUser
  <2>4. admitted' \in [Requests -> 0..MaxTime] /\ faulted' \subseteq Requests
    BY <1>0, <1>8 DEF GetUser, TypeOK
  <2> QED BY <1>0, <1>8, <2>2, <2>3, <2>4 DEF GetUser, TypeOK
<1>9. CASE Execute(r)
  <2>1. pc[r] \in Guards /\ {"ok", "error", "dropped"} \subseteq Answers
    BY <1>9 DEF Execute, Guards, Answers
  <2>2. /\ pc' \in [Requests -> {"new", "queued", "done"} \cup Guards]
        /\ held' \in [Requests -> BOOLEAN] /\ answer' \in [Requests -> Answers]
        /\ idle' \in 0..PoolSize
    BY <1>0, <1>1, <1>9, <2>1 DEF Execute
  <2>3. issued' \subseteq Token
    <3>1. CASE UNCHANGED issued
      BY <1>0, <3>1 DEF TypeOK
    <3>2. CASE request[r].route = "pub" /\ request[r].signer # None
               /\ issued' = issued \cup {NewToken(request[r].signer)}
      <4>1. request[r].signer \in Users
        BY <1>0, <3>2, RequestKinds
      <4>2. now + Life \in 0..(MaxTime + Life)
        BY <1>0, ServerAssumption DEF TypeOK
      <4>3. NewToken(request[r].signer) \in Token
        BY <4>1, <4>2 DEF NewToken, Token
      <4> QED BY <1>0, <3>2, <4>3 DEF TypeOK
    <3> QED BY <1>9, <3>1, <3>2 DEF Execute
  <2> QED BY <1>0, <1>9, <2>2, <2>3 DEF Execute, TypeOK
<1> QED BY <1>3, <1>4, <1>5, <1>6, <1>7, <1>8, <1>9 DEF Serve

LEMMA ServePool ==
    ASSUME Sound, NEW r \in Requests, Serve(r)
    PROVE  Pooled'
<1>0. TypeOK /\ Pooled /\ process # "off" /\ UNCHANGED process
      /\ \A q \in Requests \ {r} : pc'[q] = pc[q]
  BY ServeMoves DEF Sound, Moves
<1>1. ASSUME NEW result \in Answers, Finish(r, result), pc[r] \in Guards
      PROVE  Pooled'
  BY <1>0, <1>1, PoolFinished
<1>2. CASE Begin(r)
  BY <1>0, <1>2, PoolKept DEF Begin, Pooled
<1>3. CASE JwtGuard(r)
  <2>1. pc[r] \in Guards /\ {"unauthorized", "dropped"} \subseteq Answers /\ ~held[r]
    BY <1>0, <1>3 DEF JwtGuard, Guards, Answers, Pooled
  <2>2. \/ Finish(r, "unauthorized") \/ Finish(r, "dropped") \/ UNCHANGED <<held, idle>>
    BY <1>3 DEF JwtGuard
  <2> QED BY <1>0, <1>1, <2>1, <2>2, PoolKept
<1>4. CASE TakeConn(r)
  BY <1>0, <1>4, PoolTaken
<1>5. CASE ConnTimeout(r)
  BY <1>1, <1>5 DEF ConnTimeout, Guards, Answers
<1>6. CASE ParseBody(r)
  <2>1. pc[r] \in Guards /\ "badRequest" \in Answers
    BY <1>6 DEF ParseBody, Guards, Answers
  <2>2. Finish(r, "badRequest") \/ (UNCHANGED <<held, idle>> /\ pc'[r] \in {"user", "execute"})
    BY <1>0, <1>6 DEF ParseBody, Goto, TypeOK
  <2> QED BY <1>0, <1>1, <2>1, <2>2, PoolKept
<1>7. CASE GetUser(r)
  <2>1. pc[r] \in Guards /\ "unauthorized" \in Answers
    BY <1>7 DEF GetUser, Guards, Answers
  <2>2. Finish(r, "unauthorized") \/ (UNCHANGED <<held, idle>> /\ pc'[r] = "execute")
    BY <1>0, <1>7 DEF GetUser, Goto, TypeOK
  <2> QED BY <1>0, <1>1, <2>1, <2>2, PoolKept
<1>8. CASE Execute(r)
  BY <1>1, <1>8 DEF Execute, Guards, Answers
<1> QED BY <1>2, <1>3, <1>4, <1>5, <1>6, <1>7, <1>8 DEF Serve

LEMMA ServeRequest ==
    ASSUME Sound, NEW r \in Requests, Serve(r)
    PROVE  RequestOK(r)' /\ RefusalOK(r)' /\ AdmissionOK(r)'
<1>0. TypeOK /\ RequestOK(r) /\ RefusalOK(r) /\ AdmissionOK(r)
      /\ UNCHANGED <<process, schema, database, now, request>> /\ issued \subseteq issued'
  BY ServeMoves DEF Sound, RequestsOK, Moves
<1>1. ASSUME NEW result, Finish(r, result)
      PROVE  pc'[r] = "done" /\ answer'[r] = result
  BY <1>0, <1>1 DEF Finish, Goto, TypeOK
<1>2. ASSUME NEW step, Goto(r, step)
      PROVE  pc'[r] = step
  BY <1>0, <1>2 DEF Goto, TypeOK
<1>3. AdmissionOK(r)' \/ ~UNCHANGED user
  BY <1>0 DEF AdmissionOK, RequestOK, Serve, Begin, JwtGuard, TakeConn, ConnTimeout,
              ParseBody, GetUser, Execute
<1>4. CASE Begin(r)
  <2>1. FirstGuard(r) \in {"jwt", "conn"} /\ (FirstGuard(r) = "jwt" <=> request[r].route = "app")
    BY DEF FirstGuard
  <2>2. /\ pc'[r] = FirstGuard(r) /\ pc[r] = "queued"
        /\ UNCHANGED <<issued, user, answer, admitted, faulted>>
    BY <1>2, <1>4 DEF Begin
  <2> QED BY <1>0, <2>1, <2>2 DEF RequestOK, RefusalOK, AdmissionOK
<1>5. CASE JwtGuard(r)
  <2>1. pc[r] = "jwt" /\ UNCHANGED <<issued, user, admitted, faulted>>
    BY <1>5 DEF JwtGuard
  <2>2. CASE request[r].token = None /\ Finish(r, "unauthorized")
    <3>1. None \notin Token /\ pc'[r] = "done" /\ answer'[r] = "unauthorized"
      BY <1>1, <2>2, HeaderAssumption
    <3>2. user[r] = None /\ request[r].token \notin issued'
      BY <1>0, <2>1, <2>2, <3>1 DEF RequestOK, TypeOK, Guards
    <3>3. RequestOK(r)'
      BY <1>0, <2>1, <2>2, <3>1, <3>2 DEF RequestOK, Guards
    <3>4. RefusalOK(r)'
      BY <1>0, <2>1, <2>2, <3>1, <3>2 DEF RefusalOK, RequestOK, Guards
    <3>5. AdmissionOK(r)'
      BY <1>0, <2>1, <3>2 DEF AdmissionOK
    <3> QED BY <3>3, <3>4, <3>5
  <2>3. CASE Finish(r, "dropped")
    BY <1>0, <1>1, <2>1, <2>3 DEF RequestOK, RefusalOK, AdmissionOK, Guards
  <2>4. CASE request[r].token # None /\ Goto(r, "conn") /\ UNCHANGED answer
    BY <1>0, <1>2, <2>1, <2>4 DEF RequestOK, RefusalOK, AdmissionOK, Guards
  <2> QED BY <1>5, <2>2, <2>3, <2>4 DEF JwtGuard
<1>6. CASE TakeConn(r)
  <2>1. /\ pc[r] = "conn" /\ pc'[r] = "body"
        /\ UNCHANGED <<issued, user, answer, admitted, faulted>>
    BY <1>2, <1>6 DEF TakeConn
  <2> QED BY <1>0, <2>1 DEF RequestOK, RefusalOK, AdmissionOK, Guards
<1>7. CASE ConnTimeout(r)
  <2>1. /\ pc[r] = "conn" /\ pc'[r] = "done" /\ answer'[r] = "unavailable"
        /\ UNCHANGED <<issued, user, admitted, faulted>>
    BY <1>1, <1>7 DEF ConnTimeout
  <2> QED BY <1>0, <2>1 DEF RequestOK, RefusalOK, AdmissionOK, Guards
<1>8. CASE ParseBody(r)
  <2>1. pc[r] = "body" /\ UNCHANGED <<issued, user, admitted, faulted>>
    BY <1>8 DEF ParseBody
  <2>2. \/ pc'[r] = "done" /\ answer'[r] = "badRequest"
        \/ pc'[r] = (IF request[r].route = "app" THEN "user" ELSE "execute") /\ UNCHANGED answer
    BY <1>1, <1>2, <1>8 DEF ParseBody
  <2> QED BY <1>0, <2>1, <2>2 DEF RequestOK, RefusalOK, AdmissionOK, Guards
<1>9. CASE GetUser(r)
  <2> DEFINE t == request[r].token
  <2>1. /\ pc[r] = "user" /\ user[r] = None /\ admitted'[r] = now /\ request[r].route = "app"
        /\ t # None /\ answer[r] = "none" /\ UNCHANGED issued /\ now \in Nat
        /\ t \in issued \cup {System, Forged, Short, None}
    BY <1>0, <1>9, ServerAssumption DEF GetUser, RequestOK, TypeOK, Guards
  <2>2. t \in Token => t \in issued
    BY <2>1, HeaderAssumption
  <2>3. CASE user' = [user EXCEPT ![r] = System] /\ t = System
             /\ Goto(r, "execute") /\ UNCHANGED <<answer, faulted>>
    <3>1. user'[r] = System /\ pc'[r] = "execute"
      BY <1>0, <1>2, <2>3 DEF TypeOK
    <3> QED BY <1>0, <2>1, <2>3, <3>1 DEF RequestOK, RefusalOK, AdmissionOK, Guards
  <2>4. CASE user' = [user EXCEPT ![r] = t.user] /\ Decodes(t)
             /\ Goto(r, "execute") /\ UNCHANGED <<answer, faulted>>
    <3>1. user'[r] = t.user /\ pc'[r] = "execute" /\ t \in issued /\ now <= t.exp
      <4>1. t \in issued /\ t.exp >= now
        BY <2>4 DEF Decodes
      <4>2. t \in Token
        BY <1>0, <4>1 DEF TypeOK
      <4>3. t.exp \in Int
        BY <4>2, ServerAssumption DEF Token
      <4>4. now <= t.exp
        BY <2>1, <4>1, <4>3
      <4>5. user'[r] = t.user /\ pc'[r] = "execute"
        BY <1>0, <1>2, <2>4 DEF TypeOK
      <4> QED BY <4>1, <4>4, <4>5
    <3> QED BY <1>0, <2>1, <2>4, <3>1 DEF RequestOK, RefusalOK, AdmissionOK, Guards
  <2>5. CASE Finish(r, "unauthorized") /\ r \in faulted' /\ UNCHANGED user
    BY <1>0, <1>1, <2>1, <2>5 DEF RequestOK, RefusalOK, AdmissionOK, Guards
  <2>6. CASE Finish(r, "unauthorized") /\ ~Decodes(t) /\ UNCHANGED <<user, faulted>>
    <3>1. t \in Token => t.exp < now
      <4>1. ASSUME t \in Token
            PROVE  t.exp < now
        <5>1. ~ (t.exp >= now)
          BY <2>2, <2>6, <4>1 DEF Decodes
        <5>2. t.exp \in Int
          BY <4>1, ServerAssumption DEF Token
        <5> QED BY <2>1, <5>1, <5>2
      <4> QED BY <4>1
    <3> QED BY <1>0, <1>1, <2>1, <2>6, <3>1 DEF RequestOK, RefusalOK, AdmissionOK, Guards
  <2> QED BY <1>9, <2>3, <2>4, <2>5, <2>6 DEF GetUser
<1>10. CASE Execute(r)
  <2>1. pc[r] = "execute" /\ UNCHANGED <<user, admitted, faulted>>
    BY <1>10 DEF Execute
  <2>2. pc'[r] = "done" /\ answer'[r] \in {"ok", "error", "dropped"}
    BY <1>1, <1>10 DEF Execute
  <2> QED BY <1>0, <2>1, <2>2 DEF RequestOK, RefusalOK, AdmissionOK, Guards
<1> QED BY <1>4, <1>5, <1>6, <1>7, <1>8, <1>9, <1>10 DEF Serve

LEMMA ServeStep ==
    ASSUME Sound, NEW r \in Requests, Serve(r)
    PROVE  Sound'
<1>1. Moves(r) /\ UNCHANGED <<process, schema>> /\ process = "up" /\ schema = Migrations
  BY ServeMoves
<1>2. Serving'
  BY <1>1 DEF Serving
<1>3. \A q \in Requests \ {r} : RequestOK(q)' /\ RefusalOK(q)' /\ AdmissionOK(q)'
  BY <1>1, OthersOK DEF Sound
<1>4. RequestsOK'
  BY <1>3, ServeRequest DEF RequestsOK
<1> QED BY <1>2, <1>4, ServeTypes, ServePool DEF Sound

\* A request arrives with a token that was given out, or one that is none.
LEMMA ArriveStep ==
    ASSUME Sound, NEW r \in Requests, NEW k \in AppRequests \cup PubRequests, Arrive(r, k)
    PROVE  Sound'
<1>0. TypeOK /\ Serving /\ Pooled /\ RequestOK(r) /\ AdmissionOK(r) /\ RequestsOK
  BY DEF Sound, RequestsOK
<1>1. /\ process = "up" /\ pc[r] = "new"
      /\ pc' = [pc EXCEPT ![r] = "queued"] /\ request' = [request EXCEPT ![r] = k]
      /\ k.route = "app" => k.token \in issued \cup {System, Forged, Short, None}
      /\ UNCHANGED <<process, schema, database, idle, now, issued, held, user, answer,
                     admitted, faulted>>
  BY DEF Arrive, Goto, lifeVars
<1>2. pc'[r] = "queued" /\ request'[r] = k
      /\ \A q \in Requests \ {r} : pc'[q] = pc[q] /\ request'[q] = request[q]
  BY <1>0, <1>1 DEF TypeOK
<1>3. TypeOK'
  BY <1>0, <1>1 DEF TypeOK
<1>4. Serving'
  BY <1>0, <1>1 DEF Serving
<1>5. Pooled'
  BY <1>0, <1>1, <1>2, PoolKept DEF Pooled
<1>6. k.route = "app" => k \in AppRequests
  BY DEF AppRequests, PubRequests
<1>7. RequestOK(r)' /\ RefusalOK(r)' /\ AdmissionOK(r)'
  BY <1>0, <1>1, <1>2, <1>6 DEF RequestOK, RefusalOK, AdmissionOK, Guards
<1>8. Moves(r)
  BY <1>1, <1>2 DEF Moves
<1>9. RequestsOK'
  BY <1>0, <1>7, <1>8, OthersOK DEF RequestsOK
<1> QED BY <1>3, <1>4, <1>5, <1>9 DEF Sound

\* The process starts, migrates, serves and dies; time passes.
LEMMA LifeStep ==
    ASSUME Sound, Start \/ Migrate \/ Launch \/ Die \/ DatabaseTurns \/ Tick
    PROVE  Sound'
<1> USE DEF reqVars, lifeVars
<1>0. TypeOK /\ Serving /\ Pooled /\ RequestsOK
  BY DEF Sound
<1>1. ASSUME UNCHANGED reqVars, issued' = issued
      PROVE  RequestsOK'
  BY <1>0, <1>1 DEF RequestsOK, RequestOK, RefusalOK, AdmissionOK
<1>2. ASSUME UNCHANGED <<process, idle, pc, held>>
      PROVE  Pooled'
  BY <1>0, <1>2 DEF Pooled, Holders
<1>3. CASE Start
  <2>1. Holders = {} /\ Holders' = {}
    BY <1>0, <1>3 DEF Start, Holders, Pooled, Serving, Guards
  <2>2. Pooled'
    BY <1>0, <1>3, <2>1, FS_EmptySet, ServerAssumption DEF Start, Pooled
  <2>3. TypeOK' /\ Serving'
    BY <1>0, <1>3, ServerAssumption DEF Start, TypeOK, Serving
  <2> QED BY <1>1, <1>3, <2>2, <2>3 DEF Start, Sound
<1>4. CASE Migrate
  <2>1. TypeOK' /\ Serving'
    BY <1>0, <1>4, ServerAssumption DEF Migrate, TypeOK, Serving
  <2> QED BY <1>1, <1>2, <1>4, <2>1 DEF Migrate, Sound
<1>5. CASE Launch
  <2>1. TypeOK' /\ Serving'
    BY <1>0, <1>5 DEF Launch, TypeOK, Serving
  <2>2. Pooled'
    BY <1>0, <1>5 DEF Launch, Pooled, Holders
  <2> QED BY <1>1, <1>5, <2>1, <2>2 DEF Launch, Sound
<1>6. CASE Die
  <2>1. /\ \A r \in Requests :
              /\ held'[r] = FALSE
              /\ pc'[r] = IF pc[r] = "new" THEN "new" ELSE "done"
              /\ answer'[r] = IF pc[r] \in Guards \cup {"queued"} THEN "dropped" ELSE answer[r]
        /\ process' = "off" /\ idle' = 0
        /\ UNCHANGED <<database, schema, now, issued, request, user, admitted, faulted>>
    BY <1>6 DEF Die
  <2>2. TypeOK'
    BY <1>0, <1>6, ServerAssumption DEF Die, TypeOK, Answers
  <2>3. Serving'
    BY <2>1 DEF Serving, Guards
  <2>4. Holders' = {}
    BY <2>1 DEF Holders
  <2>5. Pooled'
    BY <2>1, <2>4, FS_EmptySet DEF Pooled
  <2>6. ASSUME NEW r \in Requests
        PROVE  RequestOK(r)' /\ RefusalOK(r)' /\ AdmissionOK(r)'
    <3>1. RequestOK(r) /\ RefusalOK(r) /\ AdmissionOK(r)
      BY <1>0 DEF RequestsOK
    <3>2. RequestOK(r)'
      BY <2>1, <3>1 DEF RequestOK, Guards
    <3>3. RefusalOK(r)'
      BY <2>1, <3>1 DEF RefusalOK
    <3>4. AdmissionOK(r)'
      BY <2>1, <3>1 DEF AdmissionOK
    <3> QED BY <3>2, <3>3, <3>4
  <2>7. RequestsOK'
    BY <2>6 DEF RequestsOK
  <2> QED BY <2>2, <2>3, <2>5, <2>7 DEF Sound
<1>7. CASE DatabaseTurns
  <2>1. TypeOK' /\ Serving'
    BY <1>0, <1>7 DEF DatabaseTurns, TypeOK, Serving
  <2> QED BY <1>1, <1>2, <1>7, <2>1 DEF DatabaseTurns, Sound
<1>8. CASE Tick
  <2>1. TypeOK' /\ Serving'
    BY <1>0, <1>8, ServerAssumption DEF Tick, TypeOK, Serving
  <2> QED BY <1>1, <1>2, <1>8, <2>1 DEF Tick, Sound
<1> QED BY <1>3, <1>4, <1>5, <1>6, <1>7, <1>8

LEMMA SoundInit ==
    ASSUME Init
    PROVE  Sound
<1>1. Holders = {}
  BY DEF Init, Holders
<1>2. TypeOK
  BY ServerAssumption DEF Init, TypeOK, Answers
<1>3. Serving /\ Pooled
  BY <1>1, FS_EmptySet DEF Init, Serving, Pooled, Guards
<1>4. RequestsOK
  BY DEF Init, RequestsOK, RequestOK, RefusalOK, AdmissionOK, NoRequest
<1> QED BY <1>2, <1>3, <1>4 DEF Sound

LEMMA AlwaysSound == Spec => []Sound
<1>1. Sound /\ UNCHANGED vars => Sound'
  BY DEF vars, reqVars, Sound, TypeOK, Serving, Pooled, Holders, RequestsOK, RequestOK,
         RefusalOK, AdmissionOK
<1>2. Sound /\ [Next]_vars => Sound'
  BY <1>1, ServeStep, ArriveStep, LifeStep DEF Next
<1> QED BY <1>2, SoundInit, PTL DEF Spec

-----------------------------------------------------------------------------

\* The types of the server's state, in every behaviour.
THEOREM ServerTypes == Spec => []TypeOK
BY AlwaysSound, PTL DEF Sound

\* No request is served before the database has seen every migration, however often
\* the process was killed while it migrated.
THEOREM NeverOnOldSchema == Spec => []ServedOnNewSchema
<1>1. Sound => ServedOnNewSchema
  BY DEF Sound, Serving, ServedOnNewSchema
<1> QED BY <1>1, AlwaysSound, PTL

\* The pool neither leaks nor gains a connection, for any number of requests, threads
\* and connections and on every way a request may end.
THEOREM PoolNeverLeaks == Spec => []ConnectionsAccounted
<1>1. Sound => ConnectionsAccounted
  BY DEF Sound, Pooled, Holders, ConnectionsAccounted
<1> QED BY <1>1, AlwaysSound, PTL

\* Whoever is served as a user had a token of that user that was valid then; a valid
\* token is refused only if a statement fails; a request without one takes no connection.
THEOREM TokensAlwaysDecide == Spec => []TokensDecide
<1>1. Sound => AdmittedByToken
  BY DEF Sound, RequestsOK, AdmissionOK, AdmittedByToken
<1>2. Sound => StrangersTakeNoConnection
  BY DEF Sound, RequestsOK, RequestOK, StrangersTakeNoConnection
<1>3. Sound => SessionsLast
  BY DEF Sound, TypeOK, RequestsOK, RefusalOK, SessionsLast
<1> QED BY <1>1, <1>2, <1>3, AlwaysSound, PTL DEF TokensDecide

=============================================================================
