-------------------------------- MODULE Server --------------------------------
(***************************************************************************)
(* The process of the API server: its start with the database migrations,  *)
(* its crashes and restarts, its worker threads, its pool of connections,  *)
(* and the guards a request passes before its operation is executed.       *)
(*                                                                         *)
(* A request r walks through its guards pc[r] on one of Threads threads.   *)
(* What an operation does to the database is in Ledger, Onboarding,        *)
(* WithdrawalRequests and Passwords; here it succeeds, or its statement    *)
(* fails, or its handler panics.  Only a sign-in is told apart: its answer *)
(* holds a token.  The database may go away and return at any time.        *)
(*                                                                         *)
(* A definition that no action or property uses (LaunchOrGoOn, ...) is a  *)
(* faulty variant of the one that follows it.                              *)
(***************************************************************************)
EXTENDS Integers, FiniteSets

CONSTANTS
    Requests,    \* the requests that may be made, numbered as they arrive
    Users,
    Threads,     \* worker threads
    PoolSize,    \* connections of the pool
    Migrations,  \* number of the embedded migrations
    Life,        \* how long a token is valid: 52 weeks
    MaxTime,     \* the bound of the clock
    System,      \* the token of SYSTEM_JWT, and the user it stands for
    Forged,      \* a token this server did not make
    Short,       \* an Authorization header too short to hold a token
    None

ASSUME ServerAssumption ==
    /\ Requests \subseteq Nat
    /\ Threads \in Nat \ {0} /\ PoolSize \in Nat \ {0}
    /\ Migrations \in Nat /\ Life \in Nat /\ MaxTime \in Nat
    /\ System \notin Users /\ None \notin Users

VARIABLES
    process,    \* "off", "starting" or "up"
    database,   \* whether the database answers
    schema,     \* the number of migrations the database has seen
    idle,       \* the number of pooled connections nobody holds
    now,
    issued,     \* the tokens given out
    pc,         \* pc[r]: the guard request r passes next
    request,    \* request[r]: route, and token or signer
    held,       \* held[r]: r holds a connection
    user,       \* user[r]: as whom r is executed
    answer,     \* answer[r]
    \* History variables, which no guard reads.
    admitted,   \* admitted[r]: when its token was decoded
    faulted     \* the requests during which a statement failed

lifeVars == <<process, schema>>
reqVars  == <<pc, request, held, user, answer, admitted, faulted>>
vars     == <<process, database, schema, idle, now, issued, reqVars>>

Token == [user : Users, exp : 0..(MaxTime + Life)]

\* No header that holds no token of this server looks like one.
ASSUME HeaderAssumption == {System, Forged, Short, None} \cap Token = {}

\* A request of the app comes with what its Authorization header holds, or none;
\* one of the public routes may sign a user in.
AppRequests == [route : {"app"}, token : Token \cup {System, Forged, Short, None}]
PubRequests == [route : {"pub"}, signer : Users \cup {None}]
NoRequest   == [route |-> "none"]

Guards  == {"jwt", "conn", "body", "user", "execute"}
Answers == {"none", "ok", "unauthorized", "unavailable", "badRequest", "error", "dropped"}

-----------------------------------------------------------------------------

Init ==
    /\ process = "off" /\ database \in BOOLEAN
    /\ schema = 0 /\ idle = 0 /\ now = 0 /\ issued = {}
    /\ pc = [r \in Requests |-> "new"]
    /\ request = [r \in Requests |-> NoRequest]
    /\ held = [r \in Requests |-> FALSE]
    /\ user = [r \in Requests |-> None]
    /\ answer = [r \in Requests |-> "none"]
    /\ admitted = [r \in Requests |-> 0]
    /\ faulted = {}

Running == {r \in Requests : pc[r] \in Guards}

\* rocket(): the configuration is read, the pool opens its connections.
Start ==
    /\ process = "off" /\ database
    /\ process' = "starting"
    /\ idle' = PoolSize
    /\ UNCHANGED <<database, schema, now, issued, reqVars>>

\* run_migrations: each of them commits by itself, and a restart goes on there.
Migrate ==
    /\ process = "starting" /\ database /\ schema < Migrations
    /\ schema' = schema + 1
    /\ UNCHANGED <<process, database, idle, now, issued, reqVars>>

LaunchOrGoOn ==
    /\ process = "starting"
    /\ process' = "up"
    /\ UNCHANGED <<database, schema, idle, now, issued, reqVars>>

\* launch() serves only if no fairing has failed.
Launch ==
    /\ process = "starting" /\ schema = Migrations
    /\ process' = "up"
    /\ UNCHANGED <<database, schema, idle, now, issued, reqVars>>

\* A migration or the start fails, or the process is killed: the requests it was
\* serving or had queued get no answer.
Die ==
    /\ process # "off"
    /\ process' = "off"
    /\ idle' = 0
    /\ pc' = [r \in Requests |-> IF pc[r] = "new" THEN "new" ELSE "done"]
    /\ answer' = [r \in Requests |-> IF pc[r] \in Guards \cup {"queued"} THEN "dropped"
                                     ELSE answer[r]]
    /\ held' = [r \in Requests |-> FALSE]
    /\ UNCHANGED <<database, schema, now, issued, request, user, admitted, faulted>>

DatabaseTurns ==
    /\ database' = ~database
    /\ UNCHANGED <<process, schema, idle, now, issued, reqVars>>

Tick ==
    /\ now < MaxTime
    /\ now' = now + 1
    /\ UNCHANGED <<process, database, schema, idle, issued, reqVars>>

-----------------------------------------------------------------------------
(* A request *)

Goto(r, step) == pc' = [pc EXCEPT ![r] = step]

ReleaseOfServed(r, result) ==
    IF result \in {"ok", "error"} THEN idle' = idle + 1 ELSE UNCHANGED idle
ReleaseTwice(r, result) == IF held[r] THEN idle' = idle + 2 ELSE UNCHANGED idle
\* The connection returns to the pool when its guard or its context is dropped.
Release(r, result) == IF held[r] THEN idle' = idle + 1 ELSE UNCHANGED idle

Finish(r, result) ==
    /\ Goto(r, "done")
    /\ answer' = [answer EXCEPT ![r] = result]
    /\ held' = [held EXCEPT ![r] = FALSE]
    /\ Release(r, result)

Arrive(r, k) ==
    /\ process = "up"
    /\ pc[r] = "new" /\ \A q \in Requests : q < r => pc[q] # "new"
    /\ k.route = "app" => k.token \in issued \cup {System, Forged, Short, None}
    /\ request' = [request EXCEPT ![r] = k]
    /\ Goto(r, "queued")
    /\ UNCHANGED <<lifeVars, database, idle, now, issued, held, user, answer, admitted, faulted>>

FirstGuardIsConn(r) == "conn"
\* The parameters of graphql_app_handler and graphql_pub_handler, in their order.
FirstGuard(r) == IF request[r].route = "app" THEN "jwt" ELSE "conn"

\* A thread is free.
Begin(r) ==
    /\ pc[r] = "queued" /\ Cardinality(Running) < Threads
    /\ Goto(r, FirstGuard(r))
    /\ UNCHANGED <<lifeVars, database, idle, now, issued, request, held, user, answer, admitted, faulted>>

\* The guard JWT takes the header apart; a header without room for a token panics.
JwtGuard(r) ==
    /\ pc[r] = "jwt"
    /\ CASE request[r].token = None  -> Finish(r, "unauthorized")
         [] request[r].token = Short -> Finish(r, "dropped")
         [] OTHER -> Goto(r, "conn") /\ UNCHANGED <<answer, held, idle>>
    /\ UNCHANGED <<lifeVars, database, now, issued, request, user, admitted, faulted>>

\* The guard DbConn: pool.get().
TakeConn(r) ==
    /\ pc[r] = "conn" /\ idle > 0 /\ database
    /\ idle' = idle - 1
    /\ held' = [held EXCEPT ![r] = TRUE]
    /\ Goto(r, "body")
    /\ UNCHANGED <<lifeVars, database, now, issued, request, user, answer, admitted, faulted>>

ConnTimeoutNever(r) == FALSE /\ UNCHANGED vars
\* No connection within the time limit of the pool: all are held, or the database
\* opens none.
ConnTimeout(r) ==
    /\ pc[r] = "conn" /\ (idle = 0 \/ ~database)
    /\ Finish(r, "unavailable")
    /\ UNCHANGED <<lifeVars, database, now, issued, request, user, admitted, faulted>>

\* The data guard parses the body, after the request guards.
ParseBody(r) ==
    /\ pc[r] = "body"
    /\ \/ /\ Goto(r, IF request[r].route = "app" THEN "user" ELSE "execute")
          /\ UNCHANGED <<answer, held, idle>>
       \/ Finish(r, "badRequest")
    /\ UNCHANGED <<lifeVars, database, now, issued, request, user, admitted, faulted>>

DecodesLate(t) == t \in issued
DecodesStrictly(t) == t \in issued /\ t.exp > now
\* decode_token: the signature, and the time exp.
Decodes(t) == t \in issued /\ t.exp >= now

\* get_user: SYSTEM_JWT is compared first; then the token, then the user's row.
\* Every error, one of the database too, is answered as unauthorized.
GetUser(r) ==
    LET t == request[r].token
        Admit(u) == user' = [user EXCEPT ![r] = u]
                    /\ Goto(r, "execute") /\ UNCHANGED <<answer, held, idle, faulted>>
    IN  /\ pc[r] = "user"
        /\ admitted' = [admitted EXCEPT ![r] = now]
        /\ \/ t = System /\ Admit(System)
           \/ /\ t # System /\ Decodes(t) /\ database
              /\ Admit(t.user)
           \/ /\ t # System /\ Decodes(t) /\ ~database
              /\ Finish(r, "unauthorized")
              /\ faulted' = faulted \cup {r}
              /\ UNCHANGED user
           \/ /\ t # System /\ ~Decodes(t)
              /\ Finish(r, "unauthorized")
              /\ UNCHANGED <<user, faulted>>
        /\ UNCHANGED <<lifeVars, database, now, issued, request>>

NewToken(u) == [user |-> u, exp |-> now + Life]

\* The schema executes the operation; a sign-in that succeeds gives a token.
Execute(r) ==
    /\ pc[r] = "execute"
    /\ \/ /\ database
          /\ Finish(r, "ok")
          /\ issued' = IF request[r].route = "pub" /\ request[r].signer # None
                       THEN issued \cup {NewToken(request[r].signer)} ELSE issued
       \/ \E result \in {"error", "dropped"} : Finish(r, result) /\ UNCHANGED issued
    /\ UNCHANGED <<lifeVars, database, now, request, user, admitted, faulted>>

Serve(r) ==
    \/ Begin(r) \/ JwtGuard(r) \/ TakeConn(r) \/ ConnTimeout(r)
    \/ ParseBody(r) \/ GetUser(r) \/ Execute(r)

Next ==
    \/ Start \/ Migrate \/ Launch \/ Die \/ DatabaseTurns \/ Tick
    \/ \E r \in Requests : Serve(r) \/ \E k \in AppRequests \cup PubRequests : Arrive(r, k)

Spec == Init /\ [][Next]_vars

(***************************************************************************)
(* The threads go on with what they have begun, and the pool keeps its     *)
(* time limit.  Nothing is assumed of the database, of the operator who    *)
(* restarts the process, or of those who send requests.                    *)
(***************************************************************************)
FairSpec == Spec /\ \A r \in Requests : WF_vars(Serve(r))

-----------------------------------------------------------------------------
(***************************************************************************)
(* Properties.                                                             *)
(***************************************************************************)

\* Every variable has its type.
TypeOK ==
    /\ process \in {"off", "starting", "up"} /\ database \in BOOLEAN
    /\ schema \in 0..Migrations /\ idle \in 0..PoolSize /\ now \in 0..MaxTime
    /\ issued \subseteq Token
    /\ pc \in [Requests -> {"new", "queued", "done"} \cup Guards]
    /\ request \in [Requests -> AppRequests \cup PubRequests \cup {NoRequest}]
    /\ held \in [Requests -> BOOLEAN]
    /\ user \in [Requests -> Users \cup {System, None}]
    /\ answer \in [Requests -> Answers]
    /\ admitted \in [Requests -> 0..MaxTime]
    /\ faulted \subseteq Requests

\* No request is served by a process whose database has not seen all migrations,
\* whatever starts failed or were killed half-way before.
ServedOnNewSchema ==
    \A r \in Requests : pc[r] \in Guards \cup {"queued"} => schema = Migrations

\* Every connection is idle or held by one request under way, also after early
\* returns, refusals, panics and a restart: the pool never shrinks or grows.
ConnectionsAccounted ==
    /\ \A r \in Requests : held[r] => pc[r] \in {"body", "user", "execute"}
    /\ process # "off" => idle + Cardinality({r \in Requests : held[r]}) = PoolSize

\* Whoever an operation of the app is executed as has shown a token that was given
\* to this user and had not expired, or the system's token.
AdmittedByToken ==
    \A r \in Requests : user[r] # None =>
        \/ user[r] = System /\ request[r].token = System
        \/ /\ request[r].token \in issued
           /\ request[r].token.user = user[r]
           /\ admitted[r] <= request[r].token.exp

\* A request without a token is turned away before it asks for a connection, so
\* it cannot keep others waiting at the limit of the pool.
StrangersTakeNoConnection ==
    \A r \in Requests :
        /\ request[r].route = "app" => request[r].token # None \/ pc[r] # "conn"
        /\ answer[r] = "unavailable" /\ request[r].route = "app" =>
               request[r].token # None

\* The token of a sign-in opens the app for its whole life, also after a restart:
\* its holder is refused only when it has expired or a statement failed.
SessionsLast ==
    \A r \in Requests :
        /\ answer[r] = "unauthorized" /\ r \notin faulted
        /\ request[r].token \in issued
        => request[r].token.exp < admitted[r]

\* All three: the token of a request decides whether it enters and what it may take.
TokensDecide == AdmittedByToken /\ StrangersTakeNoConnection /\ SessionsLast

\* Every request that arrives is answered, or the process dies: at the limit of
\* the pool or without a database too.
EveryRequestEnds ==
    \A r \in Requests : pc[r] = "queued" ~> pc[r] = "done"

=============================================================================
