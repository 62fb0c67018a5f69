---------------------------- MODULE ClientProofs ----------------------------
(***************************************************************************)
(* Proofs about the parts of the client (Client), for any users, public    *)
(* pages, accounts, investors and number of calls, and any bounds.         *)
(*                                                                         *)
(* A part has an inductive invariant of its own: TabSound, CornerSound,    *)
(* FormsSound, HomeSound and AccountSound.  They say of the answers that   *)
(* are awaited what the page relies on when they come; a step of the       *)
(* client is a step of one part and a stutter of the others, so each part  *)
(* keeps its own (ClientSound).                                            *)
(***************************************************************************)
EXTENDS Client, FiniteSetTheorems, TLAPS

\* The finite sets that an instance brings are those of FiniteSets.
LEMMA SameFiniteSets ==
    ASSUME NEW S
    PROVE  /\ Tab!IsFiniteSet(S) <=> IsFiniteSet(S)
           /\ Tab!Cardinality(S) = Cardinality(S)
           /\ Account!Cardinality(S) = Cardinality(S)
<1>1. Tab!IsFiniteSet(S) <=> IsFiniteSet(S)
  BY DEF Tab!IsFiniteSet, IsFiniteSet
<1>2. Tab!Cardinality(S) = Cardinality(S)
  BY DEF Tab!Cardinality, Cardinality
<1>3. Account!Cardinality(S) = Cardinality(S)
  BY DEF Account!Cardinality, Cardinality
<1> QED BY <1>1, <1>2, <1>3

-----------------------------------------------------------------------------
(* Session: the invariant.                                                 *)

\* What a call in flight was sent from.
TabCall ==
    [area : Tab!Roles \cup {"public", "none"}, page : PublicPages \cup {"home", "none"},
     user : TabUsers \cup {None}]

FromPublic(k) == k.area = "public" => k.user \in TabUsers
FromPrivate(k) == k.area \in Tab!Roles => k.user \in TabUsers

TabCallsFit ==
    /\ sCall \in [TabCalls -> TabCall]
    /\ \A c \in TabCalls :
          /\ sPc[c] = "free" => sCall[c] = Tab!NoCall
          /\ FromPublic(sCall[c]) /\ FromPrivate(sCall[c])

\* A private area was opened for a user.
AreaFits == Tab!Private => area.user \in TabUsers

\* Every answer to a form puts off one navigation at most.
Submissions == {c \in TabCalls : sCall[c].area = "public"}
RoomKept == Len(pending) + Cardinality(Submissions) <= MaxPending

\* Unless a session was begun while answers were awaited, the private calls in
\* flight are those of the session, or of the one that has ended, and of the area.
CallsAreSessions ==
    ~crossed => \A c \in TabCalls :
        sCall[c].area \in Tab!Roles =>
            /\ session \in {None, sCall[c].user}
            /\ Tab!Private => area.user = sCall[c].user

TabSound ==
    /\ Tab!TypeOK /\ TabCallsFit /\ AreaFits /\ RoomKept /\ CallsAreSessions
    /\ Tab!AreaIsSessions /\ Tab!SettledAreaFits /\ Tab!OwnDataOnly /\ Tab!StoredIsSession

-----------------------------------------------------------------------------
(* Session: what its operators yield.                                      *)

AreaRecord ==
    [area : Tab!Roles \cup {"public", "notFound"}, page : PublicPages \cup {"home", "none"},
     user : TabUsers \cup {None}]

\* A route and the home of a user.
LEMMA RouteFacts ==
    ASSUME Tab!SessionAssumption
    PROVE  /\ Tab!SignIn \in Tab!Routes
           /\ \A u \in TabUsers : Tab!Home(u) \in Tab!Routes
           /\ \A u \in TabUsers : RoleOf[u] \in Tab!Roles
           /\ \A r \in Tab!Routes : r.area \in Tab!Roles \cup {"public", "none"}
           /\ \A r \in Tab!Routes : r.page \in PublicPages \cup {"home", "none"}
<1>1. "signIn" \in PublicPages
  BY DEF Tab!SessionAssumption
<1>2. Tab!SignIn \in [area : {"public"}, page : PublicPages]
  BY <1>1 DEF Tab!SignIn
<1>3. Tab!SignIn \in Tab!Routes
  BY <1>2 DEF Tab!Routes
<1>4. ASSUME NEW u \in TabUsers PROVE RoleOf[u] \in Tab!Roles /\ Tab!Home(u) \in Tab!Routes
  <2>1. RoleOf[u] \in Tab!Roles
    BY DEF Tab!SessionAssumption, Tab!Roles
  <2>2. Tab!Home(u) \in [area : Tab!Roles, page : {"home"}]
    BY <2>1 DEF Tab!Home
  <2> QED BY <2>1, <2>2 DEF Tab!Routes
<1>5. ASSUME NEW r \in Tab!Routes
      PROVE  /\ r.area \in Tab!Roles \cup {"public", "none"}
             /\ r.page \in PublicPages \cup {"home", "none"}
  BY DEF Tab!Routes
<1> QED BY <1>3, <1>4, <1>5

\* initCurrentPage: where a navigation of a session lands, and what it opens.
LEMMA LandingFits ==
    ASSUME Tab!SessionAssumption, NEW s \in TabUsers \cup {None}, NEW r \in Tab!Routes
    PROVE  Tab!Landing(s, r) \in Tab!Routes
BY RouteFacts DEF Tab!Landing

LEMMA AreaForFits ==
    ASSUME Tab!SessionAssumption, NEW s \in TabUsers \cup {None}, NEW r \in Tab!Routes
    PROVE  /\ Tab!AreaFor(s, r) \in AreaRecord
           /\ Tab!AreaFor(s, r).area \in Tab!Roles => s \in TabUsers /\ Tab!AreaFor(s, r).user = s
<1>1. CASE (s = None /\ r.area = "public") \/ (s # None /\ r.area = RoleOf[s])
  <2>1. Tab!AreaFor(s, r) = [area |-> r.area, page |-> r.page, user |-> s]
    BY <1>1 DEF Tab!AreaFor
  <2>2. r.page \in PublicPages \cup {"home", "none"}
    BY RouteFacts
  <2>3. r.area \in Tab!Roles \cup {"public"} /\ (r.area \in Tab!Roles => s \in TabUsers)
    BY <1>1, RouteFacts DEF Tab!Roles
  <2> QED BY <2>1, <2>2, <2>3 DEF AreaRecord
<1>2. CASE ~((s = None /\ r.area = "public") \/ (s # None /\ r.area = RoleOf[s]))
  <2>1. Tab!AreaFor(s, r) = [area |-> "notFound", page |-> "none", user |-> None]
    BY <1>2 DEF Tab!AreaFor
  <2> QED BY <2>1 DEF AreaRecord, Tab!Roles
<1> QED BY <1>1, <1>2

\* A navigation shows the area of its session and route, and no data yet.
Opened(s) ==
    /\ location' \in Tab!Routes /\ area' \in AreaRecord
    /\ sData' = None /\ sForm' = "NotAsked"
    /\ area' = Tab!AreaFor(s, location')
    /\ Tab!Private' => s \in TabUsers /\ area'.user = s

LEMMA InitPageOpens ==
    ASSUME Tab!SessionAssumption, NEW s \in TabUsers \cup {None}, NEW r \in Tab!Routes,
           Tab!InitPage(s, r)
    PROVE  Opened(s)
<1>1. Tab!Landing(s, r) \in Tab!Routes
  BY LandingFits
<1>2. PICK l \in Tab!Routes : l = Tab!Landing(s, r)
  BY <1>1
<1>3. /\ Tab!AreaFor(s, l) \in AreaRecord
      /\ Tab!AreaFor(s, l).area \in Tab!Roles => s \in TabUsers /\ Tab!AreaFor(s, l).user = s
  BY AreaForFits
<1> QED BY <1>2, <1>3 DEF Tab!InitPage, Opened, Tab!Private

-----------------------------------------------------------------------------
(* Session: the calls of a step.                                           *)

\* A call of a private area to those of another session.
CallOf(u, k) == k.area \in Tab!Roles => k.user = u

LEMMA SubmissionsFinite ==
    ASSUME Tab!SessionAssumption
    PROVE  IsFiniteSet(Submissions) /\ Cardinality(Submissions) \in Nat
<1>1. Submissions \subseteq TabCalls /\ IsFiniteSet(TabCalls)
  BY SameFiniteSets DEF Submissions, Tab!SessionAssumption
<1> QED BY <1>1, FS_Subset, FS_CardinalityType

\* A call that is sent from an area.
LEMMA TabSendFits ==
    ASSUME TabCallsFit, sPc \in [TabCalls -> {"free", "sent", "served"}],
           NEW c \in TabCalls, NEW k \in TabCall, FromPublic(k), FromPrivate(k),
           sCall' = [sCall EXCEPT ![c] = k], sPc' = [sPc EXCEPT ![c] = "sent"]
    PROVE  TabCallsFit' /\ sPc' \in [TabCalls -> {"free", "sent", "served"}]
<1>1. sCall' \in [TabCalls -> TabCall] /\ sPc' \in [TabCalls -> {"free", "sent", "served"}]
  BY DEF TabCallsFit
<1>2. ASSUME NEW d \in TabCalls
      PROVE  /\ sPc'[d] = "free" => sCall'[d] = Tab!NoCall
             /\ FromPublic(sCall'[d]) /\ FromPrivate(sCall'[d])
  <2>1. CASE d = c
    BY <2>1 DEF TabCallsFit
  <2>2. CASE d # c
    BY <2>2 DEF TabCallsFit
  <2> QED BY <2>1, <2>2
<1> QED BY <1>1, <1>2 DEF TabCallsFit, TabCall

\* A page that opens asks for the data of its area, in a call that was free.
LEMMA TabLoadFits ==
    ASSUME Tab!SessionAssumption, TabCallsFit, sPc \in [TabCalls -> {"free", "sent", "served"}],
           NEW s \in TabUsers \cup {None}, Opened(s), Tab!Load
    PROVE  /\ TabCallsFit' /\ sPc' \in [TabCalls -> {"free", "sent", "served"}]
           /\ Submissions' = Submissions
           /\ \A d \in TabCalls : sCall'[d] = sCall[d] \/ (Tab!Private' /\ sCall'[d].user = s)
<1>1. CASE UNCHANGED <<sCall, sPc>>
  BY <1>1 DEF TabCallsFit, Submissions, TabCall, Tab!NoCall
<1>2. CASE area'.area \in Tab!Roles /\ \E c \in TabCalls : sPc[c] = "free" /\ Tab!Send(c, area')
  <2>1. PICK c \in TabCalls : sPc[c] = "free" /\ Tab!Send(c, area')
    BY <1>2
  <2>2. PICK k : k = [area |-> area'.area, page |-> area'.page, user |-> area'.user]
    OBVIOUS
  <2>3. area'.area \in Tab!Roles /\ area'.page \in PublicPages \cup {"home", "none"}
        /\ area'.user = s /\ s \in TabUsers /\ Tab!Private'
    BY <1>2 DEF Opened, AreaRecord, Tab!Private
  <2>4. k \in TabCall
    BY <2>2, <2>3 DEF TabCall
  <2>5. k.area \in Tab!Roles /\ k.user = s /\ k.area # "public"
    BY <2>2, <2>3 DEF Tab!Roles
  <2>6. FromPublic(k) /\ FromPrivate(k)
    BY <2>3, <2>5 DEF FromPublic, FromPrivate
  <2>7. sCall' = [sCall EXCEPT ![c] = k] /\ sPc' = [sPc EXCEPT ![c] = "sent"]
    BY <2>1, <2>2 DEF Tab!Send
  <2>8. TabCallsFit' /\ sPc' \in [TabCalls -> {"free", "sent", "served"}]
    BY <2>4, <2>6, <2>7, TabSendFits
  <2>9. sCall \in [TabCalls -> TabCall] /\ sCall[c] = Tab!NoCall
    BY <2>1 DEF TabCallsFit
  <2>10. sCall[c].area # "public"
    BY <2>9 DEF Tab!NoCall
  <2>11. \A d \in TabCalls : sCall'[d] = IF d = c THEN k ELSE sCall[d]
    BY <2>7, <2>9
  <2>12. \A d \in TabCalls : sCall'[d].area = "public" <=> sCall[d].area = "public"
    BY <2>5, <2>10, <2>11
  <2>13. Submissions' = Submissions
    BY <2>12 DEF Submissions
  <2> QED BY <2>3, <2>5, <2>8, <2>11, <2>13
<1> QED BY <1>1, <1>2 DEF Tab!Load

-----------------------------------------------------------------------------
(* Session: the steps.                                                     *)

\* Init establishes the invariant.
LEMMA SessionInit == Tab!SessionAssumption /\ Tab!Init => TabSound
<1> SUFFICES ASSUME Tab!SessionAssumption, Tab!Init PROVE TabSound
  OBVIOUS
<1>1. area \in AreaRecord /\ (area.area \in Tab!Roles => None \in TabUsers)
  BY RouteFacts, AreaForFits DEF Tab!Init
<1>2. area.area \notin Tab!Roles /\ None \notin TabUsers
  BY <1>1 DEF Tab!SessionAssumption
<1>3. area = [area |-> "public", page |-> "signIn", user |-> None]
  BY DEF Tab!Init, Tab!AreaFor, Tab!SignIn
<1>4. Tab!TypeOK
  <2>1. pending \in Seq(Tab!Routes) /\ Len(pending) = 0 /\ MaxPending \in Nat
    BY DEF Tab!Init, Tab!SessionAssumption
  <2>2. location \in Tab!Routes
    BY RouteFacts DEF Tab!Init
  <2>3. sPc \in [TabCalls -> {"free", "sent", "served"}]
          /\ sAnswer \in [TabCalls -> {"none", "ok", "failed"}]
    BY DEF Tab!Init
  <2>4. /\ session = None /\ stored = None /\ sData = None /\ sForm = "NotAsked"
        /\ shared = FALSE /\ crossed = FALSE
    BY DEF Tab!Init
  <2>5. Len(pending) <= MaxPending
    BY <2>1
  <2> QED BY <1>1, <1>3, <2>1, <2>2, <2>3, <2>4, <2>5 DEF Tab!TypeOK, AreaRecord, Tab!Private
<1>5. TabCallsFit
  BY DEF Tab!Init, TabCallsFit, TabCall, Tab!NoCall, FromPublic, FromPrivate, Tab!Roles
<1>6. RoomKept
  <2>1. Submissions = {}
    BY DEF Tab!Init, Submissions, Tab!NoCall
  <2>2. Cardinality(Submissions) = 0
    BY <2>1, FS_EmptySet
  <2> QED BY <2>2 DEF RoomKept, Tab!Init, Tab!SessionAssumption
<1>7. AreaFits /\ CallsAreSessions /\ Tab!AreaIsSessions
  BY <1>2 DEF AreaFits, Tab!Private, CallsAreSessions, Tab!AreaIsSessions, Tab!Init, Tab!NoCall,
     Tab!Roles
<1>8. Tab!SettledAreaFits /\ Tab!OwnDataOnly /\ Tab!StoredIsSession
  BY DEF Tab!Init, Tab!SettledAreaFits, Tab!OwnDataOnly, Tab!StoredIsSession
<1> QED BY <1>4, <1>5, <1>6, <1>7, <1>8 DEF TabSound

\* A navigation within the document: what it opens is its session's, and the calls
\* in flight are those that were and one of the session.
LEMMA TabOpenKeeps ==
    ASSUME Tab!SessionAssumption, TabSound, Opened(session), Tab!Load,
           pending' \in Seq(Tab!Routes), Len(pending') <= Len(pending),
           UNCHANGED <<session, stored, sAnswer, shared, crossed>>
    PROVE  TabSound'
<1>1. session \in TabUsers \cup {None} /\ sPc \in [TabCalls -> {"free", "sent", "served"}]
  BY DEF TabSound, Tab!TypeOK
<1>2. /\ TabCallsFit' /\ sPc' \in [TabCalls -> {"free", "sent", "served"}]
      /\ Submissions' = Submissions
      /\ \A d \in TabCalls : sCall'[d] = sCall[d] \/ (Tab!Private' /\ sCall'[d].user = session)
  BY <1>1, TabLoadFits DEF TabSound
<1>3. Len(pending) \in Nat
  BY DEF TabSound, Tab!TypeOK
<1>4. Len(pending') \in Nat
  OBVIOUS
<1>5. MaxPending \in Nat /\ Cardinality(Submissions) \in Nat
  BY SubmissionsFinite DEF Tab!SessionAssumption
<1>6. RoomKept'
  BY <1>2, <1>3, <1>4, <1>5 DEF TabSound, RoomKept
<1>7. Len(pending') <= MaxPending
  BY <1>3, <1>4 DEF TabSound, Tab!TypeOK, Tab!SessionAssumption
<1>8. Tab!TypeOK'
  BY <1>2, <1>7 DEF TabSound, Tab!TypeOK, Opened, AreaRecord, Tab!Private
<1>9. AreaFits' /\ Tab!AreaIsSessions'
  BY DEF AreaFits, Tab!AreaIsSessions, Opened
<1>10. CallsAreSessions'
  <2> SUFFICES ASSUME ~crossed', NEW d \in TabCalls, sCall'[d].area \in Tab!Roles
               PROVE  /\ session' \in {None, sCall'[d].user}
                      /\ Tab!Private' => area'.user = sCall'[d].user
    BY DEF CallsAreSessions
  <2>1. CASE Tab!Private' /\ sCall'[d].user = session
    BY <2>1 DEF Opened
  <2>2. CASE sCall'[d] = sCall[d]
    <3>1. session \in {None, sCall[d].user}
      BY <2>2 DEF TabSound, CallsAreSessions
    <3>2. Tab!Private' => session # None /\ area'.user = session
      BY DEF Opened, Tab!SessionAssumption
    <3> QED BY <2>2, <3>1, <3>2
  <2> QED BY <1>2, <2>1, <2>2
<1>11. Tab!SettledAreaFits' /\ Tab!OwnDataOnly' /\ Tab!StoredIsSession'
  BY DEF Tab!SettledAreaFits, Tab!OwnDataOnly, Tab!StoredIsSession, TabSound, Opened
<1> QED BY <1>2, <1>6, <1>8, <1>9, <1>10, <1>11 DEF TabSound

LEMMA TabGoKeeps ==
    ASSUME Tab!SessionAssumption, TabSound, NEW r \in Tab!Routes, Tab!Go(r)
    PROVE  TabSound'
<1>1. session \in TabUsers \cup {None} /\ pending \in Seq(Tab!Routes) /\ Len(pending) \in Nat
  BY DEF TabSound, Tab!TypeOK
<1>2. Opened(session)
  BY <1>1, InitPageOpens DEF Tab!Go
<1> QED BY <1>1, <1>2, TabOpenKeeps DEF Tab!Go

LEMMA TabWakeKeeps ==
    ASSUME Tab!SessionAssumption, TabSound, Tab!Wake
    PROVE  TabSound'
<1>1. session \in TabUsers \cup {None} /\ pending \in Seq(Tab!Routes) /\ pending # <<>>
  BY DEF TabSound, Tab!TypeOK, Tab!Wake
<1>2. Head(pending) \in Tab!Routes
  BY <1>1
<1>3. Tail(pending) \in Seq(Tab!Routes) /\ Len(Tail(pending)) <= Len(pending)
  BY <1>1
<1>4. Opened(session)
  BY <1>1, <1>2, InitPageOpens DEF Tab!Wake
<1> QED BY <1>3, <1>4, TabOpenKeeps DEF Tab!Wake

\* After a reload there is one call, of the area that was opened, or none.
LEMMA TabReloadKeeps ==
    ASSUME Tab!SessionAssumption, TabSound, NEW r \in Tab!Routes, Tab!Reload(r)
    PROVE  TabSound'
<1>1. stored \in TabUsers \cup {None}
  BY DEF TabSound, Tab!TypeOK
<1>2. Opened(stored)
  BY <1>1, InitPageOpens DEF Tab!Reload
<1>3. /\ session' = stored /\ stored' = stored /\ pending' = <<>> /\ shared' = shared
      /\ crossed' = FALSE /\ sAnswer' = [c \in TabCalls |-> "none"]
  BY DEF Tab!Reload
<1>4. /\ TabCallsFit' /\ sPc' \in [TabCalls -> {"free", "sent", "served"}]
      /\ \A d \in TabCalls : sCall'[d] = Tab!NoCall
            \/ (Tab!Private' /\ sCall'[d].user = stored /\ sCall'[d].area \in Tab!Roles)
  <2>1. CASE area'.area \notin Tab!Roles
    <3>1. sCall' = [c \in TabCalls |-> Tab!NoCall] /\ sPc' = [c \in TabCalls |-> "free"]
      BY <2>1 DEF Tab!Reload
    <3> QED BY <3>1 DEF TabCallsFit, TabCall, Tab!NoCall, FromPublic, FromPrivate, Tab!Roles
  <2>2. CASE area'.area \in Tab!Roles
    <3>1. PICK c \in TabCalls :
             /\ sCall' = [d \in TabCalls |-> IF d = c
                           THEN [area |-> area'.area, page |-> area'.page, user |-> stored]
                           ELSE Tab!NoCall]
             /\ sPc' = [d \in TabCalls |-> IF d = c THEN "sent" ELSE "free"]
      BY <2>2 DEF Tab!Reload
    <3>2. PICK k : k = [area |-> area'.area, page |-> area'.page, user |-> stored]
      OBVIOUS
    <3>3. area'.page \in PublicPages \cup {"home", "none"} /\ Tab!Private' /\ stored \in TabUsers
      BY <1>2, <2>2 DEF Opened, AreaRecord, Tab!Private
    <3>4. k \in TabCall
      BY <2>2, <3>2, <3>3 DEF TabCall
    <3>5. k.user = stored /\ k.area \in Tab!Roles
      BY <2>2, <3>2
    <3>6. FromPublic(k) /\ FromPrivate(k) /\ FromPublic(Tab!NoCall) /\ FromPrivate(Tab!NoCall)
      BY <3>3, <3>5 DEF FromPublic, FromPrivate, Tab!NoCall, Tab!Roles
    <3>7. Tab!NoCall \in TabCall
      BY DEF Tab!NoCall, TabCall
    <3>8. sCall' = [d \in TabCalls |-> IF d = c THEN k ELSE Tab!NoCall]
      BY <3>1, <3>2
    <3> QED BY <3>1, <3>3, <3>4, <3>5, <3>6, <3>7, <3>8 DEF TabCallsFit, TabCall
  <2> QED BY <2>1, <2>2
<1>5. RoomKept'
  <2>1. \A d \in TabCalls : sCall'[d].area # "public"
    BY <1>4 DEF Tab!NoCall, Tab!Roles
  <2>2. Submissions' = {}
    BY <2>1 DEF Submissions
  <2>3. Cardinality(Submissions') = 0
    BY <2>2, FS_EmptySet
  <2>4. Len(pending') = 0
    BY <1>3
  <2> QED BY <2>3, <2>4 DEF RoomKept, Tab!SessionAssumption
<1>6. Tab!TypeOK'
  <2>1. pending' \in Seq(Tab!Routes) /\ Len(pending') = 0 /\ MaxPending \in Nat
    BY <1>3 DEF Tab!SessionAssumption
  <2>2. Len(pending') <= MaxPending
    BY <2>1
  <2>3. /\ session' \in TabUsers \cup {None} /\ stored' \in TabUsers \cup {None}
        /\ shared' \in BOOLEAN /\ crossed' \in BOOLEAN
    BY <1>1, <1>3 DEF TabSound, Tab!TypeOK
  <2>4. sAnswer' \in [TabCalls -> {"none", "ok", "failed"}]
    BY <1>3
  <2>5. /\ location' \in Tab!Routes /\ area' \in AreaRecord
        /\ sData' = None /\ sForm' = "NotAsked"
    BY <1>2 DEF Opened
  <2> QED BY <1>4, <2>1, <2>2, <2>3, <2>4, <2>5 DEF Tab!TypeOK, AreaRecord, Tab!Private
<1>7. AreaFits' /\ Tab!AreaIsSessions'
  BY <1>2, <1>3 DEF AreaFits, Tab!AreaIsSessions, Opened
<1>8. CallsAreSessions'
  BY <1>2, <1>3, <1>4 DEF CallsAreSessions, Opened, Tab!NoCall, Tab!Roles
<1>9. Tab!SettledAreaFits' /\ Tab!OwnDataOnly' /\ Tab!StoredIsSession'
  BY <1>2, <1>3 DEF Tab!SettledAreaFits, Tab!OwnDataOnly, Tab!StoredIsSession, Opened
<1> QED BY <1>4, <1>5, <1>6, <1>7, <1>8, <1>9 DEF TabSound

LEMMA OtherTabKeeps ==
    ASSUME Tab!SessionAssumption, TabSound, Tab!OtherTab
    PROVE  TabSound'
<1>1. /\ UNCHANGED <<session, location, area, sData, sForm, pending, sCall, sPc, sAnswer, crossed>>
      /\ stored' \in TabUsers \cup {None} /\ shared' = TRUE
  BY DEF Tab!OtherTab, Tab!callVars
<1>2. Tab!TypeOK' /\ TabCallsFit'
  BY <1>1 DEF TabSound, Tab!TypeOK, TabCallsFit, Tab!Private
<1>3. AreaFits' /\ RoomKept' /\ CallsAreSessions' /\ Tab!AreaIsSessions'
  BY <1>1 DEF TabSound, AreaFits, RoomKept, Submissions, CallsAreSessions, Tab!AreaIsSessions,
     Tab!Private
<1>4. Tab!SettledAreaFits' /\ Tab!OwnDataOnly' /\ Tab!StoredIsSession'
  BY <1>1 DEF TabSound, Tab!SettledAreaFits, Tab!OwnDataOnly, Tab!StoredIsSession
<1> QED BY <1>2, <1>3, <1>4 DEF TabSound

LEMMA TabServeKeeps ==
    ASSUME Tab!SessionAssumption, TabSound, NEW c \in TabCalls, Tab!Serve(c)
    PROVE  TabSound'
<1>1. /\ UNCHANGED <<session, stored, location, area, sData, sForm, pending, sCall, shared,
                     crossed>>
      /\ sPc[c] = "sent" /\ sPc' = [sPc EXCEPT ![c] = "served"]
  BY DEF Tab!Serve, Tab!pageVars
<1>2. PICK result \in {"ok", "failed"} : sAnswer' = [sAnswer EXCEPT ![c] = result]
  BY DEF Tab!Serve
<1>3. sPc' \in [TabCalls -> {"free", "sent", "served"}]
        /\ sAnswer' \in [TabCalls -> {"none", "ok", "failed"}]
  BY <1>1, <1>2 DEF TabSound, Tab!TypeOK
<1>4. Tab!TypeOK'
  BY <1>1, <1>3 DEF TabSound, Tab!TypeOK, Tab!Private
<1>5. TabCallsFit'
  <2>1. \A d \in TabCalls : sPc'[d] = "free" => sPc[d] = "free"
    BY <1>1 DEF TabSound, Tab!TypeOK
  <2> QED BY <1>1, <2>1 DEF TabSound, TabCallsFit
<1>6. AreaFits' /\ RoomKept' /\ CallsAreSessions' /\ Tab!AreaIsSessions'
  BY <1>1 DEF TabSound, AreaFits, RoomKept, Submissions, CallsAreSessions, Tab!AreaIsSessions,
     Tab!Private
<1>7. Tab!SettledAreaFits' /\ Tab!OwnDataOnly' /\ Tab!StoredIsSession'
  BY <1>1 DEF TabSound, Tab!SettledAreaFits, Tab!OwnDataOnly, Tab!StoredIsSession
<1> QED BY <1>4, <1>5, <1>6, <1>7 DEF TabSound

\* A form is submitted: one more answer that may put off a navigation.
LEMMA TabSubmitKeeps ==
    ASSUME Tab!SessionAssumption, TabSound, NEW c \in TabCalls, NEW u \in TabUsers, Tab!Submit(c, u)
    PROVE  TabSound'
<1>1. /\ UNCHANGED <<session, stored, location, area, sData, pending, sAnswer, shared, crossed>>
      /\ sPc[c] = "free" /\ area.area = "public" /\ sForm' = "Loading" /\ Tab!Room
  BY DEF Tab!Submit
<1>2. PICK k \in TabCall : k = [area |-> area.area, page |-> area.page, user |-> u]
  BY <1>1 DEF TabSound, Tab!TypeOK, TabCall
<1>3. k.area = "public" /\ k.user = u /\ k.area \notin Tab!Roles
  BY <1>1, <1>2 DEF Tab!Roles
<1>4. FromPublic(k) /\ FromPrivate(k)
  BY <1>3 DEF FromPublic, FromPrivate
<1>5. sCall' = [sCall EXCEPT ![c] = k] /\ sPc' = [sPc EXCEPT ![c] = "sent"]
  <2>1. area \in [area : Tab!Roles \cup {"public", "notFound"},
                  page : PublicPages \cup {"home", "none"}, user : TabUsers \cup {None}]
    BY DEF TabSound, Tab!TypeOK
  <2>2. PICK from : from = [area EXCEPT !.user = u]
    OBVIOUS
  <2>3. from.area = area.area /\ from.page = area.page /\ from.user = u
    BY <2>1, <2>2
  <2>4. Tab!Send(c, from)
    BY <2>2 DEF Tab!Submit
  <2> QED BY <1>2, <2>3, <2>4 DEF Tab!Send
<1>6. sPc \in [TabCalls -> {"free", "sent", "served"}] /\ sCall \in [TabCalls -> TabCall]
        /\ sCall[c] = Tab!NoCall
  BY <1>1 DEF TabSound, Tab!TypeOK, TabCallsFit
<1>7. TabCallsFit' /\ sPc' \in [TabCalls -> {"free", "sent", "served"}]
  BY <1>4, <1>5, <1>6, TabSendFits DEF TabSound
<1>8. \A d \in TabCalls : sCall'[d] = IF d = c THEN k ELSE sCall[d]
  BY <1>5, <1>6
<1>9. RoomKept'
  <2>1. Submissions' = Submissions \cup {c} /\ c \notin Submissions
    BY <1>3, <1>6, <1>8 DEF Submissions, Tab!NoCall
  <2>2. Cardinality(Submissions') = Cardinality(Submissions) + 1
    BY <2>1, SubmissionsFinite, FS_AddElement
  <2>3. Len(pending) + Cardinality(Submissions) < MaxPending
    BY <1>1, SameFiniteSets DEF Tab!Room, Submissions
  <2>4. Cardinality(Submissions) \in Nat /\ Len(pending) \in Nat /\ MaxPending \in Nat
    BY SubmissionsFinite DEF TabSound, Tab!TypeOK, Tab!SessionAssumption
  <2>5. Len(pending') = Len(pending)
    BY <1>1
  <2> QED BY <2>2, <2>3, <2>4, <2>5 DEF RoomKept
<1>10. ~Tab!Private
  BY <1>1 DEF Tab!Private, Tab!Roles
<1>11. Tab!TypeOK'
  BY <1>1, <1>7, <1>10 DEF TabSound, Tab!TypeOK, Tab!Private
<1>12. AreaFits' /\ Tab!AreaIsSessions'
  BY <1>1, <1>10 DEF AreaFits, Tab!AreaIsSessions, Tab!Private
<1>13. CallsAreSessions'
  <2>1. ASSUME NEW d \in TabCalls, sCall'[d].area \in Tab!Roles PROVE sCall'[d] = sCall[d]
    BY <1>3, <1>8, <2>1
  <2> QED BY <1>1, <1>10, <2>1 DEF TabSound, CallsAreSessions, Tab!Private
<1>14. Tab!SettledAreaFits' /\ Tab!OwnDataOnly' /\ Tab!StoredIsSession'
  BY <1>1 DEF TabSound, Tab!SettledAreaFits, Tab!OwnDataOnly, Tab!StoredIsSession
<1> QED BY <1>7, <1>9, <1>11, <1>12, <1>13, <1>14 DEF TabSound

\* A private page asks, for the user it was opened for: the one of the session, or
\* of the session that has just ended.
LEMMA TabAskKeeps ==
    ASSUME Tab!SessionAssumption, TabSound, NEW c \in TabCalls, Tab!Ask(c)
    PROVE  TabSound'
<1>1. /\ UNCHANGED <<session, stored, location, area, sData, sForm, pending, sAnswer, shared,
                     crossed>>
      /\ sPc[c] = "free" /\ Tab!Private
  BY DEF Tab!Ask, Tab!pageVars
<1>2. area.user \in TabUsers /\ session \in {None, area.user}
  BY <1>1 DEF TabSound, AreaFits, Tab!AreaIsSessions
<1>3. PICK k \in TabCall : k = [area |-> area.area, page |-> area.page, user |-> area.user]
  BY <1>1 DEF TabSound, Tab!TypeOK, TabCall, Tab!Private
<1>4. k.area \in Tab!Roles /\ k.user = area.user /\ k.area # "public"
  BY <1>1, <1>3 DEF Tab!Private, Tab!Roles
<1>5. FromPublic(k) /\ FromPrivate(k)
  BY <1>2, <1>4 DEF FromPublic, FromPrivate
<1>6. sCall' = [sCall EXCEPT ![c] = k] /\ sPc' = [sPc EXCEPT ![c] = "sent"]
  BY <1>3 DEF Tab!Ask, Tab!Send
<1>7. sPc \in [TabCalls -> {"free", "sent", "served"}] /\ sCall \in [TabCalls -> TabCall]
        /\ sCall[c] = Tab!NoCall
  BY <1>1 DEF TabSound, Tab!TypeOK, TabCallsFit
<1>8. TabCallsFit' /\ sPc' \in [TabCalls -> {"free", "sent", "served"}]
  BY <1>5, <1>6, <1>7, TabSendFits DEF TabSound
<1>9. \A d \in TabCalls : sCall'[d] = IF d = c THEN k ELSE sCall[d]
  BY <1>6, <1>7
<1>10. Submissions' = Submissions
  <2>1. sCall[c].area # "public"
    BY <1>7 DEF Tab!NoCall
  <2>2. \A d \in TabCalls : sCall'[d].area = "public" <=> sCall[d].area = "public"
    BY <1>4, <1>9, <2>1
  <2> QED BY <2>2 DEF Submissions
<1>11. RoomKept'
  BY <1>1, <1>10 DEF TabSound, RoomKept
<1>12. Tab!TypeOK'
  BY <1>1, <1>8 DEF TabSound, Tab!TypeOK, Tab!Private
<1>13. AreaFits' /\ Tab!AreaIsSessions'
  BY <1>1 DEF TabSound, AreaFits, Tab!AreaIsSessions, Tab!Private
<1>14. CallsAreSessions'
  <2> SUFFICES ASSUME ~crossed', NEW d \in TabCalls, sCall'[d].area \in Tab!Roles
               PROVE  /\ session' \in {None, sCall'[d].user}
                      /\ Tab!Private' => area'.user = sCall'[d].user
    BY DEF CallsAreSessions
  <2>1. CASE d = c
    BY <1>1, <1>2, <1>4, <1>9, <2>1
  <2>2. CASE d # c
    BY <1>1, <1>9, <2>2 DEF TabSound, CallsAreSessions, Tab!Private
  <2> QED BY <2>1, <2>2
<1>15. Tab!SettledAreaFits' /\ Tab!OwnDataOnly' /\ Tab!StoredIsSession'
  BY <1>1 DEF TabSound, Tab!SettledAreaFits, Tab!OwnDataOnly, Tab!StoredIsSession
<1> QED BY <1>8, <1>11, <1>12, <1>13, <1>14, <1>15 DEF TabSound

\* Sign Out ends the session and puts off the navigation to the sign-in page.
LEMMA SignOutKeeps ==
    ASSUME Tab!SessionAssumption, TabSound, Tab!SignOut
    PROVE  TabSound'
<1>1. /\ UNCHANGED <<location, area, sData, sForm, sCall, sPc, sAnswer, shared, crossed>>
      /\ session' = None /\ stored' = None /\ pending' = Append(pending, Tab!SignIn)
      /\ Tab!Private /\ Tab!Room
  BY DEF Tab!SignOut, Tab!EndSession, Tab!callVars
<1>2. /\ pending' \in Seq(Tab!Routes) /\ Len(pending') = Len(pending) + 1 /\ pending' # <<>>
      /\ Len(pending) \in Nat
  BY <1>1, RouteFacts DEF TabSound, Tab!TypeOK
<1>3. /\ Len(pending) + Cardinality(Submissions) < MaxPending
      /\ Cardinality(Submissions) \in Nat /\ MaxPending \in Nat
  BY <1>1, SubmissionsFinite, SameFiniteSets DEF Tab!Room, Submissions, Tab!SessionAssumption
<1>4. Submissions' = Submissions
  BY <1>1 DEF Submissions
<1>5. RoomKept' /\ Len(pending') <= MaxPending
  BY <1>2, <1>3, <1>4 DEF RoomKept
<1>6. Tab!TypeOK'
  BY <1>1, <1>2, <1>5 DEF TabSound, Tab!TypeOK, Tab!Private
<1>7. TabCallsFit' /\ AreaFits'
  BY <1>1 DEF TabSound, TabCallsFit, AreaFits, Tab!Private
<1>8. CallsAreSessions' /\ Tab!AreaIsSessions'
  BY <1>1 DEF TabSound, CallsAreSessions, Tab!AreaIsSessions, Tab!Private
<1>9. Tab!SettledAreaFits' /\ Tab!OwnDataOnly' /\ Tab!StoredIsSession'
  BY <1>1, <1>2 DEF TabSound, Tab!SettledAreaFits, Tab!OwnDataOnly, Tab!StoredIsSession
<1> QED BY <1>5, <1>6, <1>7, <1>8, <1>9 DEF TabSound

\* An answer is taken off, whatever it does to the page.
LEMMA TabAnswerTaken ==
    ASSUME Tab!SessionAssumption, TabSound, NEW c \in TabCalls,
           sCall' = [sCall EXCEPT ![c] = Tab!NoCall], sPc' = [sPc EXCEPT ![c] = "free"],
           sAnswer' = [sAnswer EXCEPT ![c] = "none"]
    PROVE  /\ TabCallsFit' /\ sPc' \in [TabCalls -> {"free", "sent", "served"}]
           /\ sAnswer' \in [TabCalls -> {"none", "ok", "failed"}]
           /\ Submissions' = Submissions \ {c}
           /\ \A d \in TabCalls : sCall'[d] = sCall[d] \/ sCall'[d] = Tab!NoCall
<1>1. /\ sPc \in [TabCalls -> {"free", "sent", "served"}]
      /\ sAnswer \in [TabCalls -> {"none", "ok", "failed"}]
      /\ sCall \in [TabCalls -> TabCall]
  BY DEF TabSound, Tab!TypeOK, TabCallsFit
<1>2. Tab!NoCall \in TabCall /\ FromPublic(Tab!NoCall) /\ FromPrivate(Tab!NoCall)
        /\ Tab!NoCall.area = "none"
  BY DEF TabCall, Tab!NoCall, FromPublic, FromPrivate, Tab!Roles
<1>3. sCall' \in [TabCalls -> TabCall]
  BY <1>1, <1>2
<1>4. \A d \in TabCalls : sCall'[d] = IF d = c THEN Tab!NoCall ELSE sCall[d]
  BY <1>1
<1>5. \A d \in TabCalls : sPc'[d] = IF d = c THEN "free" ELSE sPc[d]
  BY <1>1
<1>6. \A d \in TabCalls :
         /\ sPc'[d] = "free" => sCall'[d] = Tab!NoCall
         /\ FromPublic(sCall'[d]) /\ FromPrivate(sCall'[d])
  BY <1>2, <1>4, <1>5 DEF TabSound, TabCallsFit
<1>7. TabCallsFit'
  BY <1>3, <1>6 DEF TabCallsFit, TabCall
<1>8. Submissions' = Submissions \ {c}
  BY <1>2, <1>4 DEF Submissions
<1> QED BY <1>1, <1>4, <1>7, <1>8

LEMMA RoomAfterAnswer ==
    ASSUME Tab!SessionAssumption, NEW c \in TabCalls, Submissions' = Submissions \ {c}
    PROVE  /\ Cardinality(Submissions') \in Nat /\ Cardinality(Submissions) \in Nat
           /\ Cardinality(Submissions') <= Cardinality(Submissions)
           /\ c \in Submissions => Cardinality(Submissions') = Cardinality(Submissions) - 1
<1>1. IsFiniteSet(Submissions) /\ Cardinality(Submissions) \in Nat
  BY SubmissionsFinite
<1>2. Cardinality(Submissions \ {c}) =
        IF c \in Submissions THEN Cardinality(Submissions) - 1 ELSE Cardinality(Submissions)
  BY <1>1, FS_RemoveElement
<1>3. Cardinality(Submissions \ {c}) \in Nat
  BY <1>1, FS_Subset, FS_CardinalityType
<1> QED BY <1>1, <1>2, <1>3

\* The answer to a form of the public page that is shown, and a session it starts.
LEMMA StartSessionKeeps ==
    ASSUME Tab!SessionAssumption, TabSound, NEW c \in TabCalls, sCall[c].area = "public",
           Tab!Reaches(c),
           Tab!StartSession(sCall[c].user),
           sForm' \in {"Failure", "Success"},
           crossed' = (crossed \/ \E d \in TabCalls : sCall[d].area \in Tab!Roles),
           UNCHANGED <<location, area, sData, shared>>,
           sCall' = [sCall EXCEPT ![c] = Tab!NoCall], sPc' = [sPc EXCEPT ![c] = "free"],
           sAnswer' = [sAnswer EXCEPT ![c] = "none"]
    PROVE  TabSound'
<1>1. /\ TabCallsFit' /\ sPc' \in [TabCalls -> {"free", "sent", "served"}]
      /\ sAnswer' \in [TabCalls -> {"none", "ok", "failed"}]
      /\ Submissions' = Submissions \ {c}
      /\ \A d \in TabCalls : sCall'[d] = sCall[d] \/ sCall'[d] = Tab!NoCall
  BY TabAnswerTaken
<1>2. PICK u \in TabUsers : u = sCall[c].user
  BY DEF TabSound, TabCallsFit, FromPublic
<1>3. session' = u /\ stored' = u /\ pending' = Append(pending, Tab!Home(u))
  BY <1>2 DEF Tab!StartSession
<1>4. /\ pending' \in Seq(Tab!Routes) /\ Len(pending') = Len(pending) + 1 /\ pending' # <<>>
      /\ Len(pending) \in Nat
  BY <1>3, RouteFacts DEF TabSound, Tab!TypeOK
<1>5. area.area = "public" /\ ~Tab!Private
  BY DEF Tab!Reaches, Tab!Private, Tab!Roles
<1>6. RoomKept' /\ Len(pending') <= MaxPending
  <2>1. c \in Submissions
    BY DEF Submissions
  <2>2. /\ Cardinality(Submissions') \in Nat /\ Cardinality(Submissions) \in Nat
        /\ Cardinality(Submissions') = Cardinality(Submissions) - 1
    BY <1>1, <2>1, RoomAfterAnswer
  <2>3. Len(pending) + Cardinality(Submissions) <= MaxPending /\ MaxPending \in Nat
    BY DEF TabSound, RoomKept, Tab!SessionAssumption
  <2>4. Len(pending') \in Nat
    BY <1>4
  <2>5. Len(pending') + Cardinality(Submissions') <= MaxPending
    BY <1>4, <2>2, <2>3
  <2> QED BY <2>2, <2>3, <2>4, <2>5 DEF RoomKept
<1>7. Tab!TypeOK'
  <2>1. crossed' \in BOOLEAN
    BY DEF TabSound, Tab!TypeOK
  <2> QED BY <1>1, <1>3, <1>4, <1>5, <1>6, <2>1 DEF TabSound, Tab!TypeOK, Tab!Private
<1>8. AreaFits' /\ Tab!AreaIsSessions'
  BY <1>5 DEF AreaFits, Tab!AreaIsSessions, Tab!Private
<1>9. CallsAreSessions'
  <2> SUFFICES ASSUME ~crossed', NEW d \in TabCalls, sCall'[d].area \in Tab!Roles PROVE FALSE
    BY DEF CallsAreSessions
  <2>1. sCall[d].area \notin Tab!Roles
    OBVIOUS
  <2> QED BY <1>1, <2>1 DEF Tab!NoCall, Tab!Roles
<1>10. Tab!SettledAreaFits' /\ Tab!StoredIsSession'
  BY <1>3, <1>4 DEF Tab!SettledAreaFits, Tab!StoredIsSession
<1>11. Tab!OwnDataOnly'
  BY DEF TabSound, Tab!OwnDataOnly
<1> QED BY <1>1, <1>6, <1>7, <1>8, <1>9, <1>10, <1>11 DEF TabSound

\* An answer that starts no session: a form that failed, data of a page, or an
\* answer to what is not shown.
LEMMA TabPageAnswerKeeps ==
    ASSUME Tab!SessionAssumption, TabSound, NEW c \in TabCalls,
           UNCHANGED <<session, stored, location, area, pending, shared, crossed>>,
           sForm' \in {"NotAsked", "Loading", "Failure", "Success"},
           area.area = "public" \/ sForm' = sForm,
           sData' = sData \/ sData' = None
             \/ (Tab!Reaches(c) /\ sCall[c].area \in Tab!Roles /\ sData' = sCall[c].user),
           sCall' = [sCall EXCEPT ![c] = Tab!NoCall], sPc' = [sPc EXCEPT ![c] = "free"],
           sAnswer' = [sAnswer EXCEPT ![c] = "none"]
    PROVE  TabSound'
<1>1. /\ TabCallsFit' /\ sPc' \in [TabCalls -> {"free", "sent", "served"}]
      /\ sAnswer' \in [TabCalls -> {"none", "ok", "failed"}]
      /\ Submissions' = Submissions \ {c}
      /\ \A d \in TabCalls : sCall'[d] = sCall[d] \/ sCall'[d] = Tab!NoCall
  BY TabAnswerTaken
<1>2. sData' \in TabUsers \cup {None} /\ (~Tab!Private => sData' = None)
  <2>1. CASE sData' = sData \/ sData' = None
    BY <2>1 DEF TabSound, Tab!TypeOK
  <2>2. CASE Tab!Reaches(c) /\ sCall[c].area \in Tab!Roles /\ sData' = sCall[c].user
    <3>1. Tab!Private
      BY <2>2 DEF Tab!Reaches, Tab!Private
    <3>2. sCall[c].user \in TabUsers
      BY <2>2 DEF TabSound, TabCallsFit, FromPrivate
    <3> QED BY <2>2, <3>1, <3>2
  <2> QED BY <2>1, <2>2
<1>3. area.area # "public" => sForm' = "NotAsked"
  BY DEF TabSound, Tab!TypeOK
<1>4. Tab!TypeOK'
  BY <1>1, <1>2, <1>3 DEF TabSound, Tab!TypeOK, Tab!Private
<1>5. RoomKept'
  <2>1. /\ Cardinality(Submissions') \in Nat /\ Cardinality(Submissions) \in Nat
        /\ Cardinality(Submissions') <= Cardinality(Submissions)
    BY <1>1, RoomAfterAnswer
  <2>2. Len(pending) \in Nat /\ MaxPending \in Nat
    BY DEF TabSound, Tab!TypeOK, Tab!SessionAssumption
  <2>3. Len(pending) + Cardinality(Submissions) <= MaxPending
    BY DEF TabSound, RoomKept
  <2>4. Len(pending') = Len(pending)
    OBVIOUS
  <2> QED BY <2>1, <2>2, <2>3, <2>4 DEF RoomKept
<1>6. AreaFits' /\ Tab!AreaIsSessions'
  BY DEF TabSound, AreaFits, Tab!AreaIsSessions, Tab!Private
<1>7. CallsAreSessions'
  <2>1. ASSUME NEW d \in TabCalls, sCall'[d].area \in Tab!Roles PROVE sCall'[d] = sCall[d]
    BY <1>1, <2>1 DEF Tab!NoCall, Tab!Roles
  <2> QED BY <2>1 DEF TabSound, CallsAreSessions, Tab!Private
<1>8. Tab!SettledAreaFits' /\ Tab!StoredIsSession'
  BY DEF TabSound, Tab!SettledAreaFits, Tab!StoredIsSession
<1>9. Tab!OwnDataOnly'
  <2> SUFFICES ASSUME ~crossed' PROVE sData' \in {None, area'.user}
    BY DEF Tab!OwnDataOnly
  <2>1. CASE sData' = sData \/ sData' = None
    BY <2>1 DEF TabSound, Tab!OwnDataOnly
  <2>2. CASE Tab!Reaches(c) /\ sCall[c].area \in Tab!Roles /\ sData' = sCall[c].user
    <3>1. Tab!Private
      BY <2>2 DEF Tab!Reaches, Tab!Private
    <3>2. area.user = sCall[c].user
      BY <2>2, <3>1 DEF TabSound, CallsAreSessions
    <3> QED BY <2>2, <3>2
  <2> QED BY <2>1, <2>2
<1> QED BY <1>1, <1>4, <1>5, <1>6, <1>7, <1>8, <1>9 DEF TabSound

\* An answer, good, bad or lost.
LEMMA TabApplyKeeps ==
    ASSUME Tab!SessionAssumption, TabSound, NEW c \in TabCalls, NEW result, Tab!Apply(c, result)
    PROVE  TabSound'
<1>1. /\ UNCHANGED <<location, area, shared>>
      /\ sCall' = [sCall EXCEPT ![c] = Tab!NoCall] /\ sPc' = [sPc EXCEPT ![c] = "free"]
      /\ sAnswer' = [sAnswer EXCEPT ![c] = "none"]
  BY DEF Tab!Apply
<1>2. CASE Tab!Reaches(c) /\ sCall[c].area = "public" /\ Tab!OnSubmit(c, result)
  <2>1. sForm' \in {"Failure", "Success"} /\ UNCHANGED sData
    BY <1>2 DEF Tab!OnSubmit
  <2>2. area.area = "public"
    BY <1>2 DEF Tab!Reaches
  <2>3. CASE result = "ok" /\ sCall[c].page \in SessionPages
    <3>1. /\ Tab!StartSession(sCall[c].user)
          /\ crossed' = (crossed \/ \E d \in TabCalls : sCall[d].area \in Tab!Roles)
      BY <1>2, <2>3 DEF Tab!OnSubmit
    <3> QED BY <1>1, <1>2, <2>1, <3>1, StartSessionKeeps
  <2>4. CASE ~(result = "ok" /\ sCall[c].page \in SessionPages)
    <3>1. UNCHANGED <<session, stored, pending, crossed>>
      BY <1>2, <2>4 DEF Tab!OnSubmit
    <3> QED BY <1>1, <2>1, <2>2, <3>1, TabPageAnswerKeeps
  <2> QED BY <2>3, <2>4
<1>3. CASE Tab!Reaches(c) /\ sCall[c].area \in Tab!Roles /\ Tab!OnData(c, result)
  <2>1. /\ sData' = sCall[c].user \/ sData' = None
        /\ UNCHANGED <<sForm, session, stored, pending, crossed>>
    BY <1>3 DEF Tab!OnData
  <2>2. sForm' \in {"NotAsked", "Loading", "Failure", "Success"}
    BY <2>1 DEF TabSound, Tab!TypeOK
  <2> QED BY <1>1, <1>3, <2>1, <2>2, TabPageAnswerKeeps
<1>4. CASE UNCHANGED <<sData, sForm, session, stored, pending, crossed>>
  <2>1. sForm' \in {"NotAsked", "Loading", "Failure", "Success"}
    BY <1>4 DEF TabSound, Tab!TypeOK
  <2> QED BY <1>1, <1>4, <2>1, TabPageAnswerKeeps
<1> QED BY <1>2, <1>3, <1>4 DEF Tab!Apply

\* Every step keeps the invariant.
LEMMA SessionStep == Tab!SessionAssumption /\ TabSound /\ [Tab!Next]_(Tab!vars) => TabSound'
<1> SUFFICES ASSUME Tab!SessionAssumption, TabSound, [Tab!Next]_(Tab!vars) PROVE TabSound'
  OBVIOUS
<1>1. CASE \E r \in Tab!Routes : Tab!Go(r)
  BY <1>1, TabGoKeeps
<1>2. CASE \E r \in Tab!Routes : Tab!Reload(r)
  BY <1>2, TabReloadKeeps
<1>3. CASE \E c \in TabCalls : Tab!Serve(c)
  BY <1>3, TabServeKeeps
<1>4. CASE \E c \in TabCalls : Tab!Ask(c)
  BY <1>4, TabAskKeeps
<1>5. CASE \E c \in TabCalls : Tab!Hear(c) \/ Tab!Lose(c)
  <2>1. PICK c \in TabCalls : \E result : Tab!Apply(c, result)
    BY <1>5 DEF Tab!Hear, Tab!Lose
  <2> QED BY <2>1, TabApplyKeeps
<1>6. CASE \E c \in TabCalls : \E u \in TabUsers : Tab!Submit(c, u)
  BY <1>6, TabSubmitKeeps
<1>7. CASE Tab!Wake
  BY <1>7, TabWakeKeeps
<1>8. CASE Tab!SignOut
  BY <1>8, SignOutKeeps
<1>9. CASE Tab!OtherTab
  BY <1>9, OtherTabKeeps
<1>10. CASE UNCHANGED Tab!vars
  <2>1. UNCHANGED <<session, stored, location, area, sData, sForm, pending, sCall, sPc, sAnswer,
                    shared, crossed>>
    BY <1>10 DEF Tab!vars, Tab!pageVars, Tab!callVars
  <2>2. Tab!TypeOK' /\ TabCallsFit' /\ AreaFits' /\ RoomKept'
    BY <2>1 DEF TabSound, Tab!TypeOK, TabCallsFit, AreaFits, RoomKept, Submissions, Tab!Private
  <2>3. CallsAreSessions' /\ Tab!AreaIsSessions'
    BY <2>1 DEF TabSound, CallsAreSessions, Tab!AreaIsSessions, Tab!Private
  <2>4. Tab!SettledAreaFits' /\ Tab!OwnDataOnly' /\ Tab!StoredIsSession'
    BY <2>1 DEF TabSound, Tab!SettledAreaFits, Tab!OwnDataOnly, Tab!StoredIsSession
  <2> QED BY <2>2, <2>3, <2>4 DEF TabSound
<1> QED BY <1>1, <1>2, <1>3, <1>4, <1>5, <1>6, <1>7, <1>8, <1>9, <1>10 DEF Tab!Next

-----------------------------------------------------------------------------
(* Session: the theorems.                                                  *)

\* The invariant holds in every reachable state of a tab.
LEMMA SessionIsSound == ASSUME Tab!SessionAssumption PROVE Tab!Spec => []TabSound
<1>1. Tab!Init => TabSound
  BY SessionInit
<1>2. TabSound /\ [Tab!Next]_(Tab!vars) => TabSound'
  BY SessionStep
<1> QED BY <1>1, <1>2, PTL DEF Tab!Spec

\* Every variable of a tab has its type: the navigations that are put off stay
\* within the bound too, and only a private page holds data.
THEOREM SessionTypes == ASSUME Tab!SessionAssumption PROVE Tab!Spec => []Tab!TypeOK
<1>1. TabSound => Tab!TypeOK
  BY DEF TabSound
<1> QED BY <1>1, SessionIsSound, PTL

\* A tab shows the area and the data of its session, and a reload goes on with it
\* (App.elm), whatever is clicked, answered late or lost in the 100 ms between a
\* change of the session and the navigation that follows it.
THEOREM TabShowsItsSession == ASSUME Tab!SessionAssumption PROVE Tab!Spec => []Tab!TabIsSessions
<1>1. TabSound => Tab!TabIsSessions
  BY DEF TabSound, Tab!TabIsSessions
<1> QED BY <1>1, SessionIsSound, PTL

-----------------------------------------------------------------------------
(* Notifications.                                                          *)

\* Each message on the screen has the timer it was added with, no timer is overdue,
\* and the numbers that are given are below the next one.
TimerOf(n) == [id |-> n.id, due |-> n.at + DismissIn, message |-> n.message]

CornerSound ==
    /\ Corner!TypeOK
    /\ Corner!NumbersDiffer
    /\ nextId <= added + 1
    /\ \A n \in notifications : n.at <= now /\ TimerOf(n) \in timers
    /\ \A t \in timers : t.due >= now

LEMMA CornerInit == Corner!NotificationsAssumption /\ Corner!Init => CornerSound
BY DEF Corner!NotificationsAssumption, Corner!Init, CornerSound, Corner!TypeOK, Corner!NumbersDiffer

\* A message is added with the next number and a timer for that number.
LEMMA AddKeeps ==
    ASSUME Corner!NotificationsAssumption, CornerSound, Corner!Add
    PROVE  CornerSound'
<1>1. /\ DismissIn \in Nat \ {0} /\ MaxTime \in Nat /\ MaxAdded \in Nat
      /\ now \in 0..MaxTime /\ added \in 0..MaxAdded /\ added < MaxAdded
      /\ nextId \in 1..(MaxAdded + 1) /\ nextId <= added + 1
  BY DEF Corner!NotificationsAssumption, CornerSound, Corner!TypeOK, Corner!Add
<1>2. PICK n : n = [id |-> nextId, at |-> now, message |-> added + 1]
  OBVIOUS
<1>3. PICK t : t = [id |-> nextId, due |-> now + DismissIn, message |-> added + 1]
  OBVIOUS
<1>4. /\ notifications' = notifications \cup {n} /\ timers' = timers \cup {t}
      /\ nextId' = nextId + 1 /\ added' = added + 1 /\ now' = now
  BY <1>2, <1>3 DEF Corner!Add, Corner!Show, Corner!Sleep
<1>5. n \in Corner!Notification /\ t \in Corner!Timer
  BY <1>1, <1>2, <1>3 DEF Corner!Notification, Corner!Timer
<1>6. /\ n.id = nextId /\ n.at = now /\ t.due = now + DismissIn /\ TimerOf(n) = t
  BY <1>2, <1>3 DEF TimerOf
<1>7. Corner!TypeOK'
  BY <1>1, <1>4, <1>5 DEF CornerSound, Corner!TypeOK
<1>8. Corner!NumbersDiffer'
  <2>1. \A m \in notifications : m.id < nextId /\ m.id \in Nat
    BY DEF CornerSound, Corner!NumbersDiffer, Corner!TypeOK, Corner!Notification
  <2>2. \A m \in notifications' : m.id < nextId'
    BY <1>1, <1>4, <1>6, <2>1
  <2>3. ASSUME NEW m \in notifications', NEW o \in notifications', m.id = o.id PROVE m = o
    <3>1. CASE m \in notifications /\ o \in notifications
      BY <2>3, <3>1 DEF CornerSound, Corner!NumbersDiffer
    <3>2. CASE m = n \/ o = n
      BY <1>1, <1>4, <1>6, <2>1, <2>3, <3>2
    <3> QED BY <1>4, <3>1, <3>2
  <2> QED BY <2>2, <2>3 DEF Corner!NumbersDiffer
<1>9. \A m \in notifications' : m.at <= now' /\ TimerOf(m) \in timers'
  BY <1>1, <1>4, <1>6 DEF CornerSound
<1>10. \A o \in timers' : o.due >= now'
  BY <1>1, <1>4, <1>6 DEF CornerSound
<1>11. nextId' <= added' + 1
  BY <1>1, <1>4
<1> QED BY <1>7, <1>8, <1>9, <1>10, <1>11 DEF CornerSound

\* A dismissal takes everything off the screen and starts the numbers again.
LEMMA FireKeeps ==
    ASSUME Corner!NotificationsAssumption, CornerSound, Corner!Fire
    PROVE  CornerSound'
<1>1. PICK t \in timers :
         /\ timers' = timers \ {t} /\ notifications' = {} /\ nextId' = 1
         /\ now' = now /\ added' = added
  BY DEF Corner!Fire
<1>2. MaxAdded \in Nat /\ added \in 0..MaxAdded
  BY DEF Corner!NotificationsAssumption, CornerSound, Corner!TypeOK
<1>3. Corner!TypeOK'
  BY <1>1, <1>2 DEF CornerSound, Corner!TypeOK, Corner!Notification
<1>4. Corner!NumbersDiffer'
  BY <1>1 DEF Corner!NumbersDiffer
<1>5. nextId' <= added' + 1
  BY <1>1, <1>2
<1> QED BY <1>1, <1>3, <1>4, <1>5 DEF CornerSound

\* The clock waits for the timers that are due.
LEMMA TickKeeps ==
    ASSUME Corner!NotificationsAssumption, CornerSound, Corner!Tick
    PROVE  CornerSound'
<1>1. /\ now < MaxTime /\ now' = now + 1 /\ \A t \in timers : t.due > now
      /\ UNCHANGED <<notifications, nextId, timers, added>>
  BY DEF Corner!Tick
<1>2. now \in 0..MaxTime /\ MaxTime \in Nat
  BY DEF Corner!NotificationsAssumption, CornerSound, Corner!TypeOK
<1>3. Corner!TypeOK'
  BY <1>1, <1>2 DEF CornerSound, Corner!TypeOK
<1>4. Corner!NumbersDiffer'
  BY <1>1 DEF CornerSound, Corner!NumbersDiffer
<1>5. \A n \in notifications' : n.at <= now' /\ TimerOf(n) \in timers'
  <2>1. \A n \in notifications : n.at \in Nat
    BY <1>2 DEF CornerSound, Corner!TypeOK, Corner!Notification
  <2> QED BY <1>1, <1>2, <2>1 DEF CornerSound
<1>6. \A t \in timers' : t.due >= now'
  <2>1. \A t \in timers : t.due \in Nat
    BY DEF CornerSound, Corner!TypeOK, Corner!Timer
  <2> QED BY <1>1, <1>2, <2>1
<1>7. nextId' <= added' + 1
  BY <1>1 DEF CornerSound
<1> QED BY <1>3, <1>4, <1>5, <1>6, <1>7 DEF CornerSound

LEMMA CornerStep ==
    Corner!NotificationsAssumption /\ CornerSound /\ [Corner!Next]_(Corner!vars) => CornerSound'
<1> SUFFICES ASSUME Corner!NotificationsAssumption, CornerSound, [Corner!Next]_(Corner!vars)
             PROVE  CornerSound'
  OBVIOUS
<1>1. CASE UNCHANGED <<notifications, nextId, timers, now, added>>
  BY <1>1 DEF CornerSound, Corner!TypeOK, Corner!NumbersDiffer
<1> QED BY <1>1, AddKeeps, FireKeeps, TickKeeps DEF Corner!Next, Corner!Quiescent, Corner!vars

\* No message outlives its time, although a dismissal drops the whole list and
\* starts the numbers again (Notifications.elm): any two messages on the screen
\* differ in number, and each still has its timer.
THEOREM MessagesGoInTime ==
    ASSUME Corner!NotificationsAssumption
    PROVE  Corner!Spec => [](Corner!TypeOK /\ Corner!MessagesAreTimed)
<1>1. Corner!Init => CornerSound
  BY CornerInit
<1>2. CornerSound /\ [Corner!Next]_(Corner!vars) => CornerSound'
  BY CornerStep
<1>3. CornerSound => Corner!TypeOK /\ Corner!MessagesAreTimed
  <2> SUFFICES ASSUME CornerSound PROVE Corner!TypeOK /\ Corner!MessagesAreTimed
    OBVIOUS
  <2>1. Corner!TypeOK /\ Corner!NumbersDiffer
    BY DEF CornerSound
  <2>2. ASSUME NEW n \in notifications
        PROVE  /\ now - n.at <= DismissIn
               /\ \E t \in timers : t.message = n.message /\ t.id = n.id
    <3>1. n.at \in 0..MaxTime /\ now \in 0..MaxTime /\ DismissIn \in Nat /\ MaxTime \in Nat
      BY <2>1 DEF Corner!TypeOK, Corner!Notification, Corner!NotificationsAssumption
    <3>2. TimerOf(n) \in timers /\ TimerOf(n).due >= now
      BY DEF CornerSound
    <3>3. /\ TimerOf(n).due = n.at + DismissIn /\ TimerOf(n).id = n.id
          /\ TimerOf(n).message = n.message
      BY DEF TimerOf
    <3> QED BY <3>1, <3>2, <3>3
  <2>3. Corner!GoneInTime /\ Corner!ShownAreTimed
    BY <2>2 DEF Corner!GoneInTime, Corner!ShownAreTimed
  <2> QED BY <2>1, <2>3 DEF Corner!MessagesAreTimed
<1> QED BY <1>1, <1>2, <1>3, PTL DEF Corner!Spec

-----------------------------------------------------------------------------
(* The client runs its parts.                                              *)

LEMMA ClientRunsTab == ClientSpec => Tab!Spec
<1>1. ClientInit => Tab!Init
  BY DEF ClientInit
<1>2. [ClientNext]_clientVars => [Tab!Next]_(Tab!vars)
  BY DEF ClientNext, clientVars, tabVars, OnlyRequests, OnlyAccount, OnlyHome, OnlyForms,
         OnlySession, OnlyNotifications, Tab!vars, Tab!pageVars, Tab!callVars
<1> QED BY <1>1, <1>2, PTL DEF ClientSpec, Tab!Spec

LEMMA ClientRunsCorner == ClientSpec => Corner!Spec
<1>1. ClientInit => Corner!Init
  BY DEF ClientInit
<1>2. [ClientNext]_clientVars => [Corner!Next]_(Corner!vars)
  BY DEF ClientNext, clientVars, cornerVars, OnlyRequests, OnlyAccount, OnlyHome, OnlyForms,
         OnlySession, OnlyNotifications, Corner!vars
<1> QED BY <1>1, <1>2, PTL DEF ClientSpec, Corner!Spec

LEMMA ClientRunsForms == ClientSpec => Forms!Spec
<1>1. ClientInit => Forms!Init
  BY DEF ClientInit
<1>2. [ClientNext]_clientVars => [Forms!Next]_(Forms!vars)
  BY DEF ClientNext, clientVars, formVars, OnlyRequests, OnlyAccount, OnlyHome, OnlyForms,
         OnlySession, OnlyNotifications, Forms!vars, Forms!pageVars, Forms!callVars, Forms!histVars
<1> QED BY <1>1, <1>2, PTL DEF ClientSpec, Forms!Spec

LEMMA ClientRunsHome == ClientSpec => Home!Spec
<1>1. ClientInit => Home!Init
  BY DEF ClientInit
<1>2. [ClientNext]_clientVars => [Home!Next]_(Home!vars)
  BY DEF ClientNext, clientVars, homeVars, OnlyRequests, OnlyAccount, OnlyHome, OnlyForms,
         OnlySession, OnlyNotifications, Home!vars, Home!serverVars, Home!pageVars
<1> QED BY <1>1, <1>2, PTL DEF ClientSpec, Home!Spec

LEMMA ClientRunsAccount == ClientSpec => Account!Spec
<1>1. ClientInit => Account!Init
  BY DEF ClientInit
<1>2. [ClientNext]_clientVars => [Account!Next]_(Account!vars)
  BY DEF ClientNext, clientVars, accountVars, OnlyRequests, OnlyAccount, OnlyHome, OnlyForms,
         OnlySession, OnlyNotifications, Account!vars, Account!serverVars, Account!pageVars
<1> QED BY <1>1, <1>2, PTL DEF ClientSpec, Account!Spec

-----------------------------------------------------------------------------
(* The pages that are one form: the invariant.                             *)

FormsAssumption == Forms!FormPagesAssumption

\* Fills are numbered as they are entered, calls as they are made; an answer that is
\* good is of a call that was carried out.
FormCallsFit ==
    /\ fForm <= fFills
    /\ fCommitted \subseteq 1..fMade
    /\ \A c \in Forms!CallNumbers : fCall[c].fill <= fFills
    /\ \A c \in Forms!CallNumbers : fAnswer[c] = "ok" => c \in fCommitted

\* What is entered when no answer is awaited gets answers of its own only.
OwnAnswersOnly ==
    fForm # 0 /\ fForm \notin hurried =>
        \A c \in Forms!InFlight : fCall[c].page = fPage => fCall[c].fill = fForm

\* What a success would clear, and was submitted without an error so far, is under
\* the spinner.
SentFormSpins ==
    fForm # 0 /\ fPage \in Forms!Clearing /\ fForm \notin fExcused
    /\ (\E c \in 1..fMade : fCall[c].page = fPage /\ fCall[c].fill = fForm)
        => fResponse = "Loading"

\* As OncePerFill, of the calls that were sent.
SentOnce ==
    \A c, d \in 1..fMade :
        c # d /\ Forms!Same(c, d) /\ fCall[c].page \in Forms!Clearing
            => fCall[c].fill \in fExcused

FormsSound ==
    /\ Forms!TypeOK /\ FormCallsFit
    /\ OwnAnswersOnly /\ SentFormSpins /\ SentOnce
    /\ Forms!OneInvestorPerFill /\ Forms!ClearedWasDone

-----------------------------------------------------------------------------
(* The pages that are one form: the steps.                                 *)

\* Init establishes the invariant.
LEMMA FormsInit == FormsAssumption /\ Forms!Init => FormsSound
<1> SUFFICES ASSUME FormsAssumption, Forms!Init PROVE FormsSound
  OBVIOUS
<1>1. /\ FormCalls \in Nat /\ FormFills \in Nat
      /\ fPage = None /\ fForm = 0 /\ fResponse = "NotAsked" /\ fMade = 0 /\ fFills = 0
      /\ fCommitted = {} /\ gone = {} /\ hurried = {} /\ fExcused = {}
      /\ fCall = [c \in Forms!CallNumbers |-> Forms!NoCall]
      /\ fPc = [c \in Forms!CallNumbers |-> "new"]
      /\ fAnswer = [c \in Forms!CallNumbers |-> "none"]
  BY DEF FormsAssumption, Forms!FormPagesAssumption, Forms!Init
<1>2. Forms!NoCall \in [page : Forms!FormNames \cup {None}, fill : 0..FormFills]
      /\ Forms!NoCall.fill = 0
  BY <1>1 DEF Forms!NoCall
<1>3. Forms!TypeOK
  BY <1>1, <1>2 DEF Forms!TypeOK
<1>4. FormCallsFit
  BY <1>1, <1>2 DEF FormCallsFit
<1>5. OwnAnswersOnly /\ SentFormSpins /\ SentOnce
  BY <1>1 DEF OwnAnswersOnly, SentFormSpins, SentOnce
<1>6. Forms!OneInvestorPerFill /\ Forms!ClearedWasDone
  BY <1>1 DEF Forms!OneInvestorPerFill, Forms!ClearedWasDone
<1> QED BY <1>3, <1>4, <1>5, <1>6 DEF FormsSound

\* What a call that is sent is: the next one, on its way.
LEMMA FormsSendFacts ==
    ASSUME FormsAssumption, FormsSound,
           NEW p \in Forms!FormNames \cup {None}, NEW f \in 0..FormFills, Forms!Send(p, f)
    PROVE  /\ fMade' = fMade + 1 /\ fMade \in Nat /\ fMade' \in 0..FormCalls
           /\ fMade' \in Forms!CallNumbers
           /\ fCall' \in [Forms!CallNumbers ->
                            [page : Forms!FormNames \cup {None}, fill : 0..FormFills]]
           /\ fPc' \in [Forms!CallNumbers -> {"new", "sent", "served", "heard"}]
           /\ fCall'[fMade'].page = p /\ fCall'[fMade'].fill = f
           /\ \A c \in Forms!CallNumbers \ {fMade'} : fCall'[c] = fCall[c] /\ fPc'[c] = fPc[c]
           /\ UNCHANGED <<fAnswer, fCommitted>>
<1>1. FormCalls \in Nat /\ fMade \in 0..FormCalls /\ fMade < FormCalls
  BY DEF FormsAssumption, Forms!FormPagesAssumption, FormsSound, Forms!TypeOK, Forms!Send
<1>2. fMade' = fMade + 1 /\ fMade + 1 \in 1..FormCalls
  BY <1>1 DEF Forms!Send
<1>3. PICK k : k = [page |-> p, fill |-> f]
  OBVIOUS
<1>4. k \in [page : Forms!FormNames \cup {None}, fill : 0..FormFills] /\ k.page = p /\ k.fill = f
  BY <1>3
<1>5. /\ fCall' = [fCall EXCEPT ![fMade + 1] = k] /\ fPc' = [fPc EXCEPT ![fMade + 1] = "sent"]
      /\ UNCHANGED <<fAnswer, fCommitted>>
  BY <1>3 DEF Forms!Send
<1>6. /\ fCall \in [1..FormCalls -> [page : Forms!FormNames \cup {None}, fill : 0..FormFills]]
      /\ fPc \in [1..FormCalls -> {"new", "sent", "served", "heard"}]
  BY DEF FormsSound, Forms!TypeOK, Forms!CallNumbers
<1> QED BY <1>1, <1>2, <1>4, <1>5, <1>6 DEF Forms!CallNumbers

\* What was carried out is not touched by a call that is sent.
LEMMA FormsSendKeepsDone ==
    ASSUME FormsAssumption, FormsSound, UNCHANGED <<gone, hurried>>,
           NEW p \in Forms!FormNames \cup {None}, NEW f \in 0..FormFills, Forms!Send(p, f)
    PROVE  Forms!OneInvestorPerFill' /\ Forms!ClearedWasDone'
<1>1. \A c \in fCommitted : fCall'[c] = fCall[c]
  BY FormsSendFacts DEF FormsSound, FormCallsFit, Forms!TypeOK
<1>2. fCommitted' = fCommitted
  BY FormsSendFacts
<1> QED BY <1>1, <1>2 DEF FormsSound, Forms!OneInvestorPerFill, Forms!ClearedWasDone, Forms!Same

\* Another page is opened, blank.
LEMMA FormsGoKeeps ==
    ASSUME FormsAssumption, FormsSound, NEW p \in Forms!FormNames \cup {None}, Forms!Go(p)
    PROVE  FormsSound'
<1>1. /\ fPage' = p /\ fForm' = 0 /\ UNCHANGED <<fFills, gone, hurried, fExcused>>
      /\ fResponse' \in {"NotAsked", "Loading"}
  BY DEF Forms!Go, Forms!histVars
<1>2. FormCalls \in Nat /\ FormFills \in Nat /\ fFills \in 0..FormFills
  BY DEF FormsAssumption, Forms!FormPagesAssumption, FormsSound, Forms!TypeOK
<1>3. OwnAnswersOnly' /\ SentFormSpins'
  BY <1>1 DEF OwnAnswersOnly, SentFormSpins
<1>4. CASE UNCHANGED <<fMade, fCall, fPc, fAnswer, fCommitted>>
  <2>1. Forms!TypeOK'
    BY <1>1, <1>2, <1>4 DEF FormsSound, Forms!TypeOK
  <2>2. FormCallsFit'
    BY <1>1, <1>2, <1>4 DEF FormsSound, FormCallsFit
  <2>3. SentOnce'
    BY <1>1, <1>4 DEF FormsSound, SentOnce, Forms!Same
  <2>4. Forms!OneInvestorPerFill' /\ Forms!ClearedWasDone'
    BY <1>1, <1>4 DEF FormsSound, Forms!OneInvestorPerFill, Forms!ClearedWasDone, Forms!Same
  <2> QED BY <1>3, <2>1, <2>2, <2>3, <2>4 DEF FormsSound
<1>5. CASE p \in Forms!Automatic /\ Forms!Send(p, 0)
  <2>0. 0 \in 0..FormFills
    BY <1>2
  <2>1. /\ fMade' = fMade + 1 /\ fMade \in Nat /\ fMade' \in 0..FormCalls
        /\ fMade' \in Forms!CallNumbers
        /\ fCall' \in [Forms!CallNumbers ->
                         [page : Forms!FormNames \cup {None}, fill : 0..FormFills]]
        /\ fPc' \in [Forms!CallNumbers -> {"new", "sent", "served", "heard"}]
        /\ fCall'[fMade'].page = p /\ fCall'[fMade'].fill = 0
        /\ \A c \in Forms!CallNumbers \ {fMade'} : fCall'[c] = fCall[c] /\ fPc'[c] = fPc[c]
        /\ UNCHANGED <<fAnswer, fCommitted>>
    BY <1>5, <2>0, FormsSendFacts
  <2>2. Forms!TypeOK'
    BY <1>1, <1>2, <2>1 DEF FormsSound, Forms!TypeOK
  <2>3. FormCallsFit'
    <3>1. \A c \in Forms!CallNumbers : fCall'[c].fill <= fFills
      BY <1>2, <2>1 DEF FormsSound, FormCallsFit
    <3>2. fCommitted \subseteq 1..fMade'
      BY <2>1 DEF FormsSound, FormCallsFit
    <3> QED BY <1>1, <1>2, <2>1, <3>1, <3>2 DEF FormsSound, FormCallsFit
  <2>4. SentOnce'
    <3> SUFFICES ASSUME NEW c \in 1..fMade', NEW d \in 1..fMade', c # d, fCall'[c] = fCall'[d],
                        fCall'[c].page \in Forms!Clearing
                 PROVE  fCall'[c].fill \in fExcused'
      BY DEF SentOnce, Forms!Same
    <3>1. p \notin Forms!Clearing
      BY <1>5 DEF Forms!Automatic, Forms!Clearing, Forms!Leaving
    <3>2. c \in 1..fMade /\ d \in 1..fMade
      BY <2>1, <3>1
    <3>3. c \in Forms!CallNumbers \ {fMade'} /\ d \in Forms!CallNumbers \ {fMade'}
      BY <1>2, <2>1, <3>2 DEF Forms!CallNumbers
    <3> QED BY <1>1, <2>1, <3>2, <3>3 DEF FormsSound, SentOnce, Forms!Same
  <2>5. Forms!OneInvestorPerFill' /\ Forms!ClearedWasDone'
    BY <1>1, <1>5, <2>0, FormsSendKeepsDone
  <2> QED BY <1>3, <2>2, <2>3, <2>4, <2>5 DEF FormsSound
<1> QED BY <1>4, <1>5 DEF Forms!Go, Forms!callVars

\* The entries get the next number.
LEMMA FormsFillKeeps ==
    ASSUME FormsAssumption, FormsSound, Forms!Fill
    PROVE  FormsSound'
<1>1. /\ fPage \in Forms!FormNames \ Forms!Automatic /\ fFills < FormFills
      /\ fFills' = fFills + 1 /\ fForm' = fFills + 1
      /\ hurried' = IF \E c \in Forms!InFlight : fCall[c].page = fPage
                    THEN hurried \cup {fFills + 1} ELSE hurried
      /\ UNCHANGED <<fPage, fResponse, fMade, fCall, fPc, fAnswer, fCommitted, gone, fExcused>>
  BY DEF Forms!Fill, Forms!callVars
<1>2. FormFills \in Nat /\ fFills \in 0..FormFills /\ None \notin Forms!FormNames
  BY DEF FormsAssumption, Forms!FormPagesAssumption, FormsSound, Forms!TypeOK
<1>3. Forms!TypeOK'
  <2>1. fFills + 1 \in 1..FormFills
    BY <1>1, <1>2
  <2>2. hurried' \subseteq 1..FormFills
    BY <1>1, <2>1 DEF FormsSound, Forms!TypeOK
  <2>3. fPage \notin Forms!Automatic \cup {None}
    BY <1>1, <1>2
  <2>4. fForm' \in 0..FormFills /\ fFills' \in 0..FormFills
    BY <1>1, <2>1
  <2> QED BY <1>1, <2>2, <2>3, <2>4 DEF FormsSound, Forms!TypeOK
<1>4. \A c \in Forms!CallNumbers : fCall[c].fill <= fFills /\ fCall[c].fill \in 0..FormFills
  BY DEF FormsSound, FormCallsFit, Forms!TypeOK
<1>5. FormCallsFit'
  BY <1>1, <1>2, <1>4 DEF FormsSound, FormCallsFit
<1>6. OwnAnswersOnly'
  <2>1. Forms!InFlight' = Forms!InFlight
    BY <1>1 DEF Forms!InFlight
  <2> QED BY <1>1, <2>1 DEF OwnAnswersOnly
<1>7. SentFormSpins'
  <2>1. \A c \in 1..fMade : fCall[c].fill # fFills + 1
    BY <1>2, <1>4 DEF FormsSound, Forms!TypeOK, Forms!CallNumbers, FormsAssumption,
       Forms!FormPagesAssumption
  <2> QED BY <1>1, <2>1 DEF SentFormSpins
<1>8. SentOnce' /\ Forms!OneInvestorPerFill'
  BY <1>1 DEF FormsSound, SentOnce, Forms!OneInvestorPerFill, Forms!Same
<1>9. Forms!ClearedWasDone'
  BY <1>1 DEF FormsSound, Forms!ClearedWasDone
<1> QED BY <1>3, <1>5, <1>6, <1>7, <1>8, <1>9 DEF FormsSound

\* The entries are sent, perhaps a second time.
LEMMA FormsSubmitKeeps ==
    ASSUME FormsAssumption, FormsSound, Forms!Submit
    PROVE  FormsSound'
<1>1. /\ fForm # 0 /\ fResponse' = "Loading"
      /\ fExcused' = IF fResponse = "Loading" THEN fExcused \cup {fForm} ELSE fExcused
      /\ UNCHANGED <<fPage, fForm, fFills, gone, hurried>>
  BY DEF Forms!Submit
<1>2. /\ FormCalls \in Nat /\ FormFills \in Nat /\ fFills \in 0..FormFills
      /\ fForm \in 0..FormFills /\ fForm <= fFills
      /\ fPage \in Forms!FormNames \cup {None}
  BY DEF FormsAssumption, Forms!FormPagesAssumption, FormsSound, Forms!TypeOK, FormCallsFit
<1>3. Forms!Send(fPage, fForm)
  BY DEF Forms!Submit
<1>4. /\ fMade' = fMade + 1 /\ fMade \in Nat /\ fMade' \in 0..FormCalls
      /\ fMade' \in Forms!CallNumbers
      /\ fCall' \in [Forms!CallNumbers -> [page : Forms!FormNames \cup {None}, fill : 0..FormFills]]
      /\ fPc' \in [Forms!CallNumbers -> {"new", "sent", "served", "heard"}]
      /\ fCall'[fMade'].page = fPage /\ fCall'[fMade'].fill = fForm
      /\ \A c \in Forms!CallNumbers \ {fMade'} : fCall'[c] = fCall[c] /\ fPc'[c] = fPc[c]
      /\ UNCHANGED <<fAnswer, fCommitted>>
  BY <1>2, <1>3, FormsSendFacts
<1>5. \A c \in 1..fMade' : c = fMade' \/ (c \in 1..fMade /\ c \in Forms!CallNumbers \ {fMade'})
  BY <1>2, <1>4 DEF Forms!CallNumbers
<1>6. Forms!TypeOK'
  <2>1. fExcused' \subseteq 1..FormFills
    BY <1>1, <1>2 DEF FormsSound, Forms!TypeOK
  <2> QED BY <1>1, <1>2, <1>4, <2>1 DEF FormsSound, Forms!TypeOK
<1>7. FormCallsFit'
  <2>1. \A c \in Forms!CallNumbers : fCall'[c].fill <= fFills
    BY <1>2, <1>4 DEF FormsSound, FormCallsFit
  <2>2. fCommitted \subseteq 1..fMade'
    BY <1>4 DEF FormsSound, FormCallsFit
  <2> QED BY <1>1, <1>2, <1>4, <2>1, <2>2 DEF FormsSound, FormCallsFit
<1>8. OwnAnswersOnly'
  <2> SUFFICES ASSUME fForm \notin hurried, NEW c \in Forms!InFlight', fCall'[c].page = fPage
               PROVE  fCall'[c].fill = fForm
    BY <1>1 DEF OwnAnswersOnly
  <2>1. CASE c = fMade'
    BY <1>4, <2>1
  <2>2. CASE c # fMade'
    <3>1. c \in 1..fMade' /\ fPc'[c] # "heard"
      BY DEF Forms!InFlight
    <3>2. c \in Forms!InFlight /\ fCall[c] = fCall'[c]
      BY <1>4, <1>5, <2>2, <3>1 DEF Forms!InFlight
    <3> QED BY <1>1, <3>2 DEF FormsSound, OwnAnswersOnly
  <2> QED BY <2>1, <2>2
<1>9. SentFormSpins'
  BY <1>1 DEF SentFormSpins
<1>10. SentOnce'
  <2>1. ASSUME NEW c \in 1..fMade, fCall[c].page = fPage, fCall[c].fill = fForm,
               fPage \in Forms!Clearing
        PROVE  fForm \in fExcused'
    BY <1>1, <2>1 DEF FormsSound, SentFormSpins
  <2> SUFFICES ASSUME NEW c \in 1..fMade', NEW d \in 1..fMade', c # d, fCall'[c] = fCall'[d],
                      fCall'[c].page \in Forms!Clearing
               PROVE  fCall'[c].fill \in fExcused'
    BY DEF SentOnce, Forms!Same
  <2>2. CASE c = fMade' \/ d = fMade'
    <3>1. fCall'[c].page = fPage /\ fCall'[c].fill = fForm
      BY <1>4, <2>2
    <3>2. PICK e \in 1..fMade : fCall[e].page = fPage /\ fCall[e].fill = fForm
      BY <1>4, <1>5, <2>2, <3>1
    <3> QED BY <2>1, <3>1, <3>2
  <2>3. CASE c # fMade' /\ d # fMade'
    <3>1. /\ c \in 1..fMade /\ d \in 1..fMade
          /\ fCall'[c] = fCall[c] /\ fCall'[d] = fCall[d]
      BY <1>4, <1>5, <2>3
    <3>2. fCall[c].fill \in fExcused
      BY <3>1 DEF FormsSound, SentOnce, Forms!Same
    <3> QED BY <1>1, <3>1, <3>2
  <2> QED BY <2>2, <2>3
<1>11. Forms!OneInvestorPerFill' /\ Forms!ClearedWasDone'
  BY <1>1, <1>2, <1>3, FormsSendKeepsDone
<1> QED BY <1>6, <1>7, <1>8, <1>9, <1>10, <1>11 DEF FormsSound

\* The server carries a call out, if no other was for the same investor.
LEMMA CommitKeeps ==
    ASSUME FormsAssumption, FormsSound, NEW c \in 1..fMade, UNCHANGED fCall,
           \/ fCommitted' = fCommitted
           \/ Forms!Commits(c) /\ fCommitted' = fCommitted \cup {c}
    PROVE  /\ fCommitted' \subseteq 1..fMade /\ fCommitted \subseteq fCommitted'
           /\ Forms!OneInvestorPerFill'
<1>1. fCommitted' \subseteq 1..fMade /\ fCommitted \subseteq fCommitted'
  BY DEF FormsSound, FormCallsFit
<1>2. CASE fCommitted' = fCommitted
  BY <1>1, <1>2 DEF FormsSound, Forms!OneInvestorPerFill, Forms!Same
<1>3. CASE Forms!Commits(c) /\ fCommitted' = fCommitted \cup {c}
  <2>1. fCall[c].page = "createInvestor" => \A d \in fCommitted : fCall[c] # fCall[d]
    BY <1>3 DEF Forms!Commits, Forms!Unique, Forms!Same
  <2> QED BY <1>1, <1>3, <2>1 DEF FormsSound, Forms!OneInvestorPerFill, Forms!Same
<1> QED BY <1>2, <1>3

LEMMA FormsExecuteKeeps ==
    ASSUME FormsAssumption, FormsSound, NEW c \in Forms!CallNumbers, Forms!Execute(c)
    PROVE  FormsSound'
<1>1. /\ c \in 1..fMade /\ fPc[c] = "sent"
      /\ fPc' = [fPc EXCEPT ![c] = "served"]
      /\ UNCHANGED <<fPage, fForm, fResponse, fMade, fCall, fFills, gone, hurried, fExcused>>
  BY DEF Forms!Execute, Forms!pageVars, Forms!histVars
<1>2. PICK result \in {"ok", "failed"} :
         /\ fAnswer' = [fAnswer EXCEPT ![c] = result]
         /\ \/ Forms!Commits(c) /\ fCommitted' = fCommitted \cup {c}
            \/ result = "failed" /\ fCommitted' = fCommitted
  BY DEF Forms!Execute
<1>3. /\ fCommitted' \subseteq 1..fMade /\ fCommitted \subseteq fCommitted'
      /\ Forms!OneInvestorPerFill'
  BY <1>1, <1>2, CommitKeeps
<1>4. Forms!TypeOK'
  <2>1. 1..fMade \subseteq Forms!CallNumbers
    BY DEF FormsSound, Forms!TypeOK, Forms!CallNumbers, FormsAssumption, Forms!FormPagesAssumption
  <2> QED BY <1>1, <1>2, <1>3, <2>1 DEF FormsSound, Forms!TypeOK
<1>5. FormCallsFit'
  <2>1. \A d \in Forms!CallNumbers : fAnswer'[d] = "ok" => d \in fCommitted'
    BY <1>2, <1>3 DEF FormsSound, FormCallsFit, Forms!TypeOK
  <2> QED BY <1>1, <1>3, <2>1 DEF FormsSound, FormCallsFit
<1>6. OwnAnswersOnly'
  <2>1. Forms!InFlight' \subseteq Forms!InFlight
    BY <1>1 DEF Forms!InFlight, FormsSound, Forms!TypeOK
  <2> QED BY <1>1, <2>1 DEF FormsSound, OwnAnswersOnly
<1>7. SentFormSpins' /\ SentOnce'
  BY <1>1 DEF FormsSound, SentFormSpins, SentOnce, Forms!Same
<1>8. Forms!ClearedWasDone'
  BY <1>1, <1>3 DEF FormsSound, Forms!ClearedWasDone
<1> QED BY <1>3, <1>4, <1>5, <1>6, <1>7, <1>8 DEF FormsSound

\* What an answer does to the page: a good one may clear it, any other stays beside
\* the entries.
LEMMA FormsApplyFacts ==
    ASSUME FormsAssumption, FormsSound, NEW c \in Forms!InFlight,
           NEW result \in {"ok", "errors", "Err"}, Forms!Apply(c, result)
    PROVE  \/ UNCHANGED <<fPage, fForm, fResponse>> /\ fPage # fCall[c].page
           \/ /\ fPage = fCall[c].page /\ result # "ok"
              /\ UNCHANGED <<fPage, fForm>> /\ fResponse' \in {"Success", "Failure"}
           \/ /\ fPage = fCall[c].page /\ result = "ok" /\ fPage \in Forms!Clearing
              /\ fForm' = 0 /\ fPage' \in {fPage, None} /\ fResponse' \in {"NotAsked", "Success"}
           \/ /\ fPage = fCall[c].page /\ result = "ok" /\ fPage \notin Forms!Clearing
              /\ UNCHANGED <<fPage, fForm>> /\ fResponse' = "Success"
<1>1. CASE fPage # fCall[c].page
  BY <1>1 DEF Forms!Apply, Forms!pageVars
<1>2. CASE fPage = fCall[c].page
  <2>1. Forms!OnResponse(c, result)
    BY <1>2 DEF Forms!Apply
  <2>2. CASE result = "ok"
    <3>1. /\ fPage' = IF fPage \in Forms!Leaving THEN None ELSE fPage
          /\ fResponse' = IF fPage \in Forms!Leaving THEN "NotAsked" ELSE "Success"
          /\ fForm' = IF fPage \in Forms!Clearing THEN 0 ELSE fForm
      BY <2>1, <2>2 DEF Forms!OnResponse, Forms!OnSuccess
    <3>2. Forms!Leaving \subseteq Forms!Clearing
      BY DEF Forms!Clearing
    <3> QED BY <1>2, <2>2, <3>1, <3>2
  <2>3. CASE result # "ok"
    BY <1>2, <2>1, <2>3 DEF Forms!OnResponse
  <2> QED BY <2>2, <2>3
<1> QED BY <1>1, <1>2

\* An answer, good, bad or lost; a good one is of a call that was carried out.
LEMMA FormsAnswerKeeps ==
    ASSUME FormsAssumption, FormsSound, NEW c \in Forms!InFlight,
           NEW result \in {"ok", "errors", "Err"}, Forms!Apply(c, result),
           result = "ok" => c \in fCommitted,
           \/ fCommitted' = fCommitted
           \/ Forms!Commits(c) /\ fCommitted' = fCommitted \cup {c}
    PROVE  FormsSound'
<1>1. /\ fPc' = [fPc EXCEPT ![c] = "heard"] /\ fAnswer' = [fAnswer EXCEPT ![c] = "none"]
      /\ gone' = IF fForm # 0 /\ fForm' = 0 THEN gone \cup {fForm} ELSE gone
      /\ fExcused' = IF fPage = fCall[c].page /\ result # "ok"
                     THEN fExcused \cup ({fCall[c].fill, fForm} \ {0}) ELSE fExcused
      /\ UNCHANGED <<fMade, fCall, fFills, hurried>>
  BY DEF Forms!Apply
<1>2. /\ c \in 1..fMade /\ c \in Forms!CallNumbers /\ fPc[c] # "heard"
      /\ FormFills \in Nat /\ fForm \in 0..FormFills
      /\ fCall[c].fill \in 0..FormFills /\ 1..fMade \subseteq Forms!CallNumbers
      /\ None \notin Forms!FormNames
  <2>1. /\ FormCalls \in Nat /\ fMade \in 0..FormCalls /\ FormFills \in Nat
        /\ fForm \in 0..FormFills /\ None \notin Forms!FormNames
    BY DEF FormsAssumption, Forms!FormPagesAssumption, FormsSound, Forms!TypeOK
  <2>2. c \in 1..fMade /\ fPc[c] # "heard" /\ 1..fMade \subseteq Forms!CallNumbers
    BY <2>1 DEF Forms!InFlight, Forms!CallNumbers
  <2> QED BY <2>1, <2>2 DEF FormsSound, Forms!TypeOK
<1>3. \/ UNCHANGED <<fPage, fForm, fResponse>> /\ fPage # fCall[c].page
      \/ /\ fPage = fCall[c].page /\ result # "ok"
         /\ UNCHANGED <<fPage, fForm>> /\ fResponse' \in {"Success", "Failure"}
      \/ /\ fPage = fCall[c].page /\ result = "ok" /\ fPage \in Forms!Clearing
         /\ fForm' = 0 /\ fPage' \in {fPage, None} /\ fResponse' \in {"NotAsked", "Success"}
      \/ /\ fPage = fCall[c].page /\ result = "ok" /\ fPage \notin Forms!Clearing
         /\ UNCHANGED <<fPage, fForm>> /\ fResponse' = "Success"
  BY FormsApplyFacts
<1>4. fExcused \subseteq fExcused' /\ fExcused' \subseteq 1..FormFills
  <2>1. {fCall[c].fill, fForm} \ {0} \subseteq 1..FormFills
    BY <1>2
  <2>2. fExcused \subseteq 1..FormFills
    BY DEF FormsSound, Forms!TypeOK
  <2> QED BY <1>1, <2>1, <2>2
<1>5. /\ fCommitted' \subseteq 1..fMade /\ fCommitted \subseteq fCommitted'
      /\ Forms!OneInvestorPerFill'
  BY <1>1, <1>2, CommitKeeps
<1>6. Forms!TypeOK'
  <2>1. gone' \subseteq 1..FormFills
    BY <1>1, <1>2 DEF FormsSound, Forms!TypeOK
  <2>2. /\ fPage' \in Forms!FormNames \cup {None} /\ fForm' \in 0..FormFills
        /\ fResponse' \in {"NotAsked", "Loading", "Failure", "Success"}
        /\ fPage' \in Forms!Automatic \cup {None} => fForm' = 0
    BY <1>2, <1>3 DEF FormsSound, Forms!TypeOK
  <2>3. /\ fPc' \in [Forms!CallNumbers -> {"new", "sent", "served", "heard"}]
        /\ fAnswer' \in [Forms!CallNumbers -> {"none", "ok", "failed"}]
    BY <1>1, <1>2 DEF FormsSound, Forms!TypeOK
  <2>4. fCommitted' \subseteq Forms!CallNumbers
    BY <1>2, <1>5
  <2> QED BY <1>1, <1>4, <2>1, <2>2, <2>3, <2>4 DEF FormsSound, Forms!TypeOK
<1>7. FormCallsFit'
  <2>1. fForm' <= fFills
    BY <1>2, <1>3 DEF FormsSound, FormCallsFit, Forms!TypeOK
  <2>2. \A d \in Forms!CallNumbers : fAnswer'[d] = "ok" => d \in fCommitted'
    BY <1>1, <1>5 DEF FormsSound, FormCallsFit, Forms!TypeOK
  <2> QED BY <1>1, <1>5, <2>1, <2>2 DEF FormsSound, FormCallsFit
<1>8. Forms!InFlight' \subseteq Forms!InFlight
  BY <1>1, <1>2 DEF Forms!InFlight, FormsSound, Forms!TypeOK
<1>9. OwnAnswersOnly'
  BY <1>1, <1>3, <1>8 DEF FormsSound, OwnAnswersOnly
<1>10. SentFormSpins'
  <2> SUFFICES ASSUME fForm' # 0, fPage' \in Forms!Clearing, fForm' \notin fExcused',
                      NEW d \in 1..fMade, fCall[d].page = fPage', fCall[d].fill = fForm'
               PROVE  fResponse' = "Loading"
    BY <1>1 DEF SentFormSpins
  <2>1. UNCHANGED <<fPage, fForm, fResponse>>
    BY <1>1, <1>3
  <2> QED BY <1>4, <2>1 DEF FormsSound, SentFormSpins
<1>11. SentOnce'
  BY <1>1, <1>4 DEF FormsSound, SentOnce, Forms!Same
<1>12. Forms!ClearedWasDone'
  <2> SUFFICES ASSUME NEW n \in gone' \ hurried PROVE \E d \in fCommitted' : fCall[d].fill = n
    BY <1>1 DEF Forms!ClearedWasDone
  <2>1. CASE n \in gone
    BY <1>5, <2>1 DEF FormsSound, Forms!ClearedWasDone
  <2>2. CASE n \notin gone
    <3>1. n = fForm /\ fForm # 0 /\ fForm' = 0
      BY <1>1, <2>2
    <3>2. result = "ok" /\ fPage = fCall[c].page
      BY <1>3, <3>1
    <3>3. fCall[c].fill = fForm
      BY <3>1, <3>2 DEF FormsSound, OwnAnswersOnly
    <3> QED BY <1>5, <3>1, <3>2, <3>3
  <2> QED BY <2>1, <2>2
<1> QED BY <1>5, <1>6, <1>7, <1>9, <1>10, <1>11, <1>12 DEF FormsSound

\* Every step keeps the invariant.
LEMMA FormsStep == FormsAssumption /\ FormsSound /\ [Forms!Next]_(Forms!vars) => FormsSound'
<1> SUFFICES ASSUME FormsAssumption, FormsSound, [Forms!Next]_(Forms!vars) PROVE FormsSound'
  OBVIOUS
<1>1. CASE \E p \in Forms!FormNames \cup {None} : Forms!Go(p)
  BY <1>1, FormsGoKeeps
<1>2. CASE Forms!Fill
  BY <1>2, FormsFillKeeps
<1>3. CASE Forms!Submit
  BY <1>3, FormsSubmitKeeps
<1>4. CASE \E c \in Forms!CallNumbers : Forms!Execute(c)
  BY <1>4, FormsExecuteKeeps
<1>5. ASSUME NEW c \in Forms!CallNumbers, Forms!Hear(c) PROVE FormsSound'
  <2>1. c \in Forms!InFlight /\ UNCHANGED fCommitted
    BY <1>5 DEF Forms!Hear
  <2>2. PICK result \in IF fAnswer[c] = "ok" THEN {"ok"} ELSE {"errors", "Err"} :
             Forms!Apply(c, result)
    BY <1>5 DEF Forms!Hear
  <2>3. result \in {"ok", "errors", "Err"} /\ (result = "ok" => fAnswer[c] = "ok")
    BY <2>2
  <2>4. result = "ok" => c \in fCommitted
    BY <2>3 DEF FormsSound, FormCallsFit
  <2> QED BY <2>1, <2>2, <2>3, <2>4, FormsAnswerKeeps
<1>6. ASSUME NEW c \in Forms!CallNumbers, Forms!Lose(c) PROVE FormsSound'
  <2>1. /\ c \in Forms!InFlight /\ Forms!Apply(c, "Err")
        /\ \/ fCommitted' = fCommitted
           \/ Forms!Commits(c) /\ fCommitted' = fCommitted \cup {c}
    BY <1>6 DEF Forms!Lose
  <2> QED BY <2>1, FormsAnswerKeeps
<1>7. CASE UNCHANGED Forms!vars
  <2>1. UNCHANGED <<fPage, fForm, fResponse, fMade, fCall, fPc, fAnswer, fCommitted, fFills,
                    gone, hurried, fExcused>>
    BY <1>7 DEF Forms!vars, Forms!pageVars, Forms!callVars, Forms!histVars
  <2>2. Forms!TypeOK' /\ FormCallsFit'
    BY <2>1 DEF FormsSound, Forms!TypeOK, FormCallsFit
  <2>3. OwnAnswersOnly' /\ SentFormSpins' /\ SentOnce'
    BY <2>1 DEF FormsSound, OwnAnswersOnly, SentFormSpins, SentOnce, Forms!Same, Forms!InFlight
  <2>4. Forms!OneInvestorPerFill' /\ Forms!ClearedWasDone'
    BY <2>1 DEF FormsSound, Forms!OneInvestorPerFill, Forms!ClearedWasDone, Forms!Same
  <2> QED BY <2>2, <2>3, <2>4 DEF FormsSound
<1> QED BY <1>1, <1>2, <1>3, <1>4, <1>5, <1>6, <1>7 DEF Forms!Next

\* The invariant holds in every reachable state of these pages.
LEMMA FormsSoundness == ASSUME FormsAssumption PROVE Forms!Spec => []FormsSound
<1>1. Forms!Init => FormsSound
  BY FormsInit
<1>2. FormsSound /\ [Forms!Next]_(Forms!vars) => FormsSound'
  BY FormsStep
<1> QED BY <1>1, <1>2, PTL DEF Forms!Spec

-----------------------------------------------------------------------------
(* The home page: the invariant.                                           *)

HomeAssumption == Home!HomePageAssumption

Changes == {"archive", "unarchive"}

HomeCallFits(c) ==
    /\ hCall[c].op \in Changes => hCall[c].who \in Investors
    /\ hCall[c].op = "list" => hCall[c].own = TRUE /\ hCall[c].who = None /\ hPc[c] # "authorise"
    /\ hCall[c].op = "none" => hPc[c] = "new"

\* Answers that came are of what the database has been.
WasFits ==
    /\ \A i \in Investors : (i \in archived) \in was[i]
    /\ \A c \in HomeCalls : hPc[c] = "done" /\ hAnswer[c] = "ok" =>
          /\ hCall[c].op = "list" => \A i \in Investors : (i \in hGot[c]) \in was[i]
          /\ hCall[c].op = "archive" => TRUE \in was[hCall[c].who]
          /\ hCall[c].op = "unarchive" => FALSE \in was[hCall[c].who]

\* The list of an unmarred page is asked for alone, before anything can be clicked.
ListWaits ==
    \A c \in Home!InFlight : hCall[c].op = "list" =>
        /\ Home!InFlight = {c} /\ hData # "Success"
        /\ hPc[c] = "done" /\ hAnswer[c] = "ok" =>
              \A i \in Investors \ meddled : i \in hGot[c] <=> i \in archived

\* Its changes are under the spinner, and an answer that came is still true.
ChangesWait ==
    hData = "Success" => \A c \in Home!InFlight :
        /\ hCall[c].who \in busy
        /\ hPc[c] = "done" /\ hAnswer[c] = "ok" /\ hCall[c].who \notin meddled =>
              (hCall[c].who \in archived <=> hCall[c].op = "archive")

\* Until a change is made, the list agrees.
FlagsAgree ==
    hData = "Success" => \A i \in Investors \ meddled :
        (\A c \in Home!InFlight : hCall[c].who = i => hPc[c] # "done")
            => (i \in flagged <=> i \in archived)

HomeSound ==
    /\ Home!TypeOK /\ WasFits
    /\ \A c \in HomeCalls : HomeCallFits(c)
    /\ ~hShows => hData = "NotAsked"
    /\ Home!ShownFlagsHappened
    /\ ~hMarred => ListWaits /\ ChangesWait /\ FlagsAgree
    /\ Home!OneChangeAtATime

-----------------------------------------------------------------------------
(* The home page: the steps.                                               *)

\* A call in flight is one of those there are.
LEMMA InFlightAtHome ==
    \A c \in Home!InFlight : c \in HomeCalls /\ hPc[c] # "new" /\ hPc[c] # "heard"
BY DEF Home!InFlight

\* Init establishes the invariant.
LEMMA HomeInit == HomeAssumption /\ Home!Init => HomeSound
<1> SUFFICES ASSUME HomeAssumption, Home!Init PROVE HomeSound
  OBVIOUS
<1>1. /\ archived \subseteq Investors /\ hShows = FALSE /\ hData = "NotAsked"
      /\ flagged = {} /\ busy = {} /\ meddled = {} /\ hMarred = FALSE
      /\ hCall = [c \in HomeCalls |-> Home!NoCall]
      /\ hPc = [c \in HomeCalls |-> "new"]
      /\ hAnswer = [c \in HomeCalls |-> "none"]
      /\ hGot = [c \in HomeCalls |-> {}]
      /\ was = [i \in Investors |-> {(i \in archived)}]
  BY DEF Home!Init
<1>2. Home!InFlight = {}
  BY <1>1 DEF Home!InFlight
<1>3. \A i \in Investors : was[i] = {(i \in archived)} /\ (i \in archived) \in BOOLEAN
  BY <1>1
<1>4. was \in [Investors -> SUBSET BOOLEAN]
  <2>1. \A i \in Investors : {(i \in archived)} \in SUBSET BOOLEAN
    BY <1>3, Zenon
  <2> QED BY <1>1, <2>1
<1>5. Home!TypeOK
  BY <1>1, <1>4 DEF Home!TypeOK
<1>6. WasFits
  <2>1. ASSUME NEW i \in Investors PROVE (i \in archived) \in was[i]
    <3>1. was[i] = {(i \in archived)}
      BY <1>1
    <3> QED BY <3>1
  <2> QED BY <1>1, <2>1 DEF WasFits
<1>7. \A c \in HomeCalls : HomeCallFits(c)
  BY <1>1 DEF HomeCallFits, Home!NoCall, Changes
<1>8. ListWaits /\ ChangesWait /\ FlagsAgree /\ Home!OneChangeAtATime
  BY <1>1, <1>2 DEF ListWaits, ChangesWait, FlagsAgree, Home!OneChangeAtATime
<1>9. Home!ShownFlagsHappened
  BY <1>1 DEF Home!ShownFlagsHappened
<1> QED BY <1>1, <1>5, <1>6, <1>7, <1>8, <1>9 DEF HomeSound

\* A call of the page, or of the other admin.
LEMMA HomeSendFacts ==
    ASSUME HomeSound, NEW c \in HomeCalls, NEW own \in BOOLEAN,
           NEW op \in Changes \cup {"list"}, NEW i \in Investors \cup {None},
           Home!Send(c, op, i, own)
    PROVE  /\ hPc[c] = "new" /\ c \notin Home!InFlight
           /\ hCall' \in [HomeCalls -> Home!Call \cup {Home!NoCall}]
           /\ hPc' \in [HomeCalls -> {"new", "authorise", "run", "done", "heard"}]
           /\ hCall'[c].op = op /\ hCall'[c].who = i /\ hCall'[c].own = own
           /\ hPc'[c] = IF op = "list" THEN "run" ELSE "authorise"
           /\ \A d \in HomeCalls \ {c} : hCall'[d] = hCall[d] /\ hPc'[d] = hPc[d]
           /\ UNCHANGED <<archived, hAnswer, hGot, was, meddled>>
<1>1. PICK k : k = [op |-> op, who |-> i, own |-> own]
  OBVIOUS
<1>2. k \in Home!Call /\ k.op = op /\ k.who = i /\ k.own = own
  BY <1>1 DEF Home!Call, Changes
<1>3. /\ hPc[c] = "new" /\ hCall' = [hCall EXCEPT ![c] = k]
      /\ hPc' = [hPc EXCEPT ![c] = IF op = "list" THEN "run" ELSE "authorise"]
      /\ UNCHANGED <<archived, hAnswer, hGot, was, meddled>>
  BY <1>1 DEF Home!Send
<1>4. /\ hCall \in [HomeCalls -> Home!Call \cup {Home!NoCall}]
      /\ hPc \in [HomeCalls -> {"new", "authorise", "run", "done", "heard"}]
  BY DEF HomeSound, Home!TypeOK
<1>5. c \notin Home!InFlight
  BY <1>3 DEF Home!InFlight
<1> QED BY <1>2, <1>3, <1>4, <1>5

LEMMA HomeSendKeeps ==
    ASSUME HomeSound, NEW c \in HomeCalls, NEW own \in BOOLEAN,
           NEW op \in Changes \cup {"list"}, NEW i \in Investors \cup {None},
           Home!Send(c, op, i, own),
           op = "list" => own = TRUE /\ i = None, op # "list" => i \in Investors
    PROVE  /\ WasFits' /\ \A d \in HomeCalls : HomeCallFits(d)'
           /\ own = TRUE => Home!InFlight' = Home!InFlight \cup {c}
           /\ own = FALSE => Home!InFlight' = Home!InFlight
<1>1. /\ hPc[c] = "new" /\ c \notin Home!InFlight
      /\ hCall'[c].op = op /\ hCall'[c].who = i /\ hCall'[c].own = own
      /\ hPc'[c] = IF op = "list" THEN "run" ELSE "authorise"
      /\ \A d \in HomeCalls \ {c} : hCall'[d] = hCall[d] /\ hPc'[d] = hPc[d]
      /\ UNCHANGED <<archived, hAnswer, hGot, was, meddled>>
  BY HomeSendFacts
<1>2. WasFits'
  <2>1. \A d \in HomeCalls : hPc'[d] = "done" => d # c /\ hCall'[d] = hCall[d] /\ hPc[d] = "done"
    BY <1>1
  <2>2. \A j \in Investors : (j \in archived') \in was'[j]
    BY <1>1, Zenon DEF HomeSound, WasFits
  <2> QED BY <1>1, <2>1, <2>2, Zenon DEF HomeSound, WasFits
<1>3. \A d \in HomeCalls : HomeCallFits(d)'
  BY <1>1 DEF HomeSound, HomeCallFits, Changes
<1>4. own = TRUE => Home!InFlight' = Home!InFlight \cup {c}
  BY <1>1 DEF Home!InFlight
<1>5. own = FALSE => Home!InFlight' = Home!InFlight
  BY <1>1 DEF Home!InFlight
<1> QED BY <1>2, <1>3, <1>4, <1>5

\* The page is opened, blank, and asks for its list.
LEMMA HomeOpenKeeps ==
    ASSUME HomeSound, NEW c \in HomeCalls, Home!Open(c)
    PROVE  HomeSound'
<1>1. /\ hShows' = TRUE /\ hData' = "NotAsked" /\ flagged' = {} /\ busy' = {}
      /\ hMarred' = (Home!InFlight # {}) /\ Home!Send(c, "list", None, TRUE)
  BY DEF Home!Open
<1>2. /\ hPc[c] = "new" /\ c \notin Home!InFlight
      /\ hCall' \in [HomeCalls -> Home!Call \cup {Home!NoCall}]
      /\ hPc' \in [HomeCalls -> {"new", "authorise", "run", "done", "heard"}]
      /\ hCall'[c].op = "list" /\ hCall'[c].who = None /\ hPc'[c] = "run"
      /\ UNCHANGED <<archived, hAnswer, hGot, was, meddled>>
  BY <1>1, HomeSendFacts
<1>3. /\ WasFits' /\ \A d \in HomeCalls : HomeCallFits(d)'
      /\ Home!InFlight' = Home!InFlight \cup {c}
  BY <1>1, HomeSendKeeps
<1>4. Home!TypeOK'
  BY <1>1, <1>2 DEF HomeSound, Home!TypeOK
<1>5. Home!ShownFlagsHappened' /\ ChangesWait' /\ FlagsAgree'
  BY <1>1 DEF Home!ShownFlagsHappened, ChangesWait, FlagsAgree
<1>6. ~hMarred' => ListWaits' /\ Home!OneChangeAtATime'
  <2> SUFFICES ASSUME ~hMarred' PROVE ListWaits' /\ Home!OneChangeAtATime'
    OBVIOUS
  <2>1. Home!InFlight' = {c}
    BY <1>1, <1>3
  <2> QED BY <1>1, <1>2, <2>1 DEF ListWaits, Home!OneChangeAtATime
<1>7. Home!OneChangeAtATime'
  BY <1>6 DEF Home!OneChangeAtATime
<1> QED BY <1>1, <1>3, <1>4, <1>5, <1>6, <1>7 DEF HomeSound

LEMMA HomeLeaveKeeps ==
    ASSUME HomeSound, Home!Leave
    PROVE  HomeSound'
<1>1. /\ hShows' = FALSE /\ hData' = "NotAsked" /\ flagged' = {} /\ busy' = {}
      /\ UNCHANGED <<hMarred, archived, hCall, hPc, hAnswer, hGot, was, meddled>>
  BY DEF Home!Leave, Home!serverVars
<1>2. Home!InFlight' = Home!InFlight
  BY <1>1 DEF Home!InFlight
<1>3. Home!TypeOK' /\ \A d \in HomeCalls : HomeCallFits(d)'
  BY <1>1 DEF HomeSound, Home!TypeOK, HomeCallFits
<1>4. WasFits'
  BY <1>1, Zenon DEF HomeSound, WasFits
<1>5. Home!ShownFlagsHappened' /\ ChangesWait' /\ FlagsAgree'
  BY <1>1 DEF Home!ShownFlagsHappened, ChangesWait, FlagsAgree
<1>6. (~hMarred' => ListWaits') /\ Home!OneChangeAtATime'
  BY <1>1, <1>2 DEF HomeSound, ListWaits, Home!OneChangeAtATime
<1> QED BY <1>1, <1>3, <1>4, <1>5, <1>6 DEF HomeSound

\* A click on an investor who has no spinner.
LEMMA HomePressKeeps ==
    ASSUME HomeAssumption, HomeSound, NEW c \in HomeCalls, NEW i \in Investors,
           Home!Press(c, i)
    PROVE  HomeSound'
<1>1. PICK op \in Changes : op = IF i \in flagged THEN "unarchive" ELSE "archive"
  BY DEF Changes
<1>2. /\ hData = "Success" /\ i \notin busy /\ busy' = busy \cup {i}
      /\ Home!Send(c, op, i, TRUE)
      /\ UNCHANGED <<hShows, hData, flagged, hMarred>>
  BY <1>1 DEF Home!Press, Home!SetBusy
<1>3. op # "list" /\ i # None
  BY DEF Changes, HomeAssumption, Home!HomePageAssumption
<1>4. /\ hPc[c] = "new" /\ c \notin Home!InFlight
      /\ hCall' \in [HomeCalls -> Home!Call \cup {Home!NoCall}]
      /\ hPc' \in [HomeCalls -> {"new", "authorise", "run", "done", "heard"}]
      /\ hCall'[c].op = op /\ hCall'[c].who = i /\ hPc'[c] = "authorise"
      /\ \A d \in HomeCalls \ {c} : hCall'[d] = hCall[d] /\ hPc'[d] = hPc[d]
      /\ UNCHANGED <<archived, hAnswer, hGot, was, meddled>>
  BY <1>2, <1>3, HomeSendFacts
<1>5. /\ WasFits' /\ \A d \in HomeCalls : HomeCallFits(d)'
      /\ Home!InFlight' = Home!InFlight \cup {c}
  BY <1>2, <1>3, HomeSendKeeps
<1>6. Home!TypeOK'
  BY <1>2, <1>4 DEF HomeSound, Home!TypeOK
<1>7. Home!ShownFlagsHappened'
  BY <1>2, <1>4, Zenon DEF HomeSound, Home!ShownFlagsHappened
<1>8. \A d \in Home!InFlight : d # c /\ hCall'[d] = hCall[d] /\ hPc'[d] = hPc[d]
  BY <1>4, InFlightAtHome
<1>9. ASSUME ~hMarred PROVE ListWaits' /\ ChangesWait' /\ FlagsAgree' /\ Home!OneChangeAtATime'
  <2>1. ListWaits /\ ChangesWait /\ FlagsAgree /\ Home!OneChangeAtATime
    BY <1>9 DEF HomeSound
  <2>2. \A d \in Home!InFlight : hCall[d].op # "list" /\ hCall[d].who # i
    BY <1>2, <2>1 DEF ListWaits, ChangesWait
  <2>3. ListWaits'
    BY <1>3, <1>4, <1>5, <1>8, <2>2 DEF ListWaits
  <2>4. ChangesWait'
    BY <1>2, <1>4, <1>5, <1>8, <2>1 DEF ChangesWait
  <2>5. FlagsAgree'
    BY <1>2, <1>4, <1>5, <1>8, <2>1 DEF FlagsAgree
  <2>6. Home!OneChangeAtATime'
    BY <1>4, <1>5, <1>8, <1>9, <2>1, <2>2 DEF Home!OneChangeAtATime
  <2> QED BY <2>3, <2>4, <2>5, <2>6
<1>10. Home!OneChangeAtATime'
  BY <1>2, <1>9 DEF Home!OneChangeAtATime
<1> QED BY <1>2, <1>5, <1>6, <1>7, <1>9, <1>10 DEF HomeSound

\* The other admin clicks.
LEMMA HomeElsewhereKeeps ==
    ASSUME HomeSound, NEW c \in HomeCalls, NEW i \in Investors, NEW op \in Changes,
           Home!Elsewhere(c, op, i)
    PROVE  HomeSound'
<1>1. /\ Home!Send(c, op, i, FALSE) /\ op # "list"
      /\ UNCHANGED <<hShows, hData, flagged, busy, hMarred>>
  BY DEF Home!Elsewhere, Home!pageVars, Changes
<1>2. /\ c \notin Home!InFlight
      /\ hCall' \in [HomeCalls -> Home!Call \cup {Home!NoCall}]
      /\ hPc' \in [HomeCalls -> {"new", "authorise", "run", "done", "heard"}]
      /\ \A d \in HomeCalls \ {c} : hCall'[d] = hCall[d] /\ hPc'[d] = hPc[d]
      /\ UNCHANGED <<archived, hAnswer, hGot, was, meddled>>
  BY <1>1, HomeSendFacts
<1>3. /\ WasFits' /\ \A d \in HomeCalls : HomeCallFits(d)'
      /\ Home!InFlight' = Home!InFlight
  BY <1>1, HomeSendKeeps
<1>4. Home!TypeOK'
  BY <1>1, <1>2 DEF HomeSound, Home!TypeOK
<1>5. Home!ShownFlagsHappened'
  BY <1>1, <1>2, Zenon DEF HomeSound, Home!ShownFlagsHappened
<1>6. \A d \in Home!InFlight : hCall'[d] = hCall[d] /\ hPc'[d] = hPc[d]
  BY <1>2, InFlightAtHome
<1>7. ~hMarred' => ListWaits' /\ ChangesWait' /\ FlagsAgree'
  BY <1>1, <1>2, <1>3, <1>6 DEF HomeSound, ListWaits, ChangesWait, FlagsAgree
<1>8. Home!OneChangeAtATime'
  BY <1>1, <1>3, <1>6 DEF HomeSound, Home!OneChangeAtATime
<1> QED BY <1>1, <1>3, <1>4, <1>5, <1>7, <1>8 DEF HomeSound

\* The server authorises a call, or fails it.
LEMMA HomeRefuseKeeps ==
    ASSUME HomeSound, NEW c \in HomeCalls, Home!Authorise(c) \/ Home!Fail(c)
    PROVE  HomeSound'
<1>1. PICK s \in {"run", "done"} : hPc' = [hPc EXCEPT ![c] = s]
  BY DEF Home!Authorise, Home!Fail, Home!Finish
<1>2. /\ hPc[c] \in {"authorise", "run"}
      /\ UNCHANGED <<archived, hCall, hGot, was, meddled, hShows, hData, flagged, busy, hMarred>>
      /\ hAnswer' = hAnswer \/ hAnswer' = [hAnswer EXCEPT ![c] = "failed"]
      /\ hPc' = [hPc EXCEPT ![c] = "run"] \/ hAnswer' = [hAnswer EXCEPT ![c] = "failed"]
  BY DEF Home!Authorise, Home!Fail, Home!Finish, Home!pageVars
<1>3. /\ hPc \in [HomeCalls -> {"new", "authorise", "run", "done", "heard"}]
      /\ hAnswer \in [HomeCalls -> {"none", "ok", "failed"}]
  BY DEF HomeSound, Home!TypeOK
<1>4. Home!TypeOK'
  BY <1>1, <1>2, <1>3 DEF HomeSound, Home!TypeOK
<1>5. Home!InFlight' = Home!InFlight
  BY <1>1, <1>2, <1>3 DEF Home!InFlight
<1>6. \A d \in HomeCalls : hPc'[d] = "done" /\ hAnswer'[d] = "ok" =>
           hPc[d] = "done" /\ hAnswer[d] = "ok"
  BY <1>1, <1>2, <1>3
<1>7. \A d \in HomeCalls : hPc'[d] # "done" => hPc[d] # "done"
  BY <1>1, <1>2, <1>3
<1>8. \A d \in HomeCalls : HomeCallFits(d)'
  BY <1>1, <1>2, <1>3 DEF HomeSound, HomeCallFits
<1>9. WasFits' /\ Home!ShownFlagsHappened'
  <2>1. WasFits /\ Home!ShownFlagsHappened
    BY DEF HomeSound
  <2>2. WasFits'
    BY <1>2, <1>6, <2>1, Zenon DEF WasFits
  <2>3. Home!ShownFlagsHappened'
    BY <1>2, <2>1, Zenon DEF Home!ShownFlagsHappened
  <2> QED BY <2>2, <2>3
<1>10. ~hMarred' => ListWaits' /\ ChangesWait' /\ FlagsAgree'
  BY <1>2, <1>5, <1>6, <1>7, InFlightAtHome DEF HomeSound, ListWaits, ChangesWait, FlagsAgree
<1>11. Home!OneChangeAtATime'
  BY <1>2, <1>5 DEF HomeSound, Home!OneChangeAtATime
<1> QED BY <1>2, <1>4, <1>8, <1>9, <1>10, <1>11 DEF HomeSound

\* The list is read, as it is now.
LEMMA HomeListKeeps ==
    ASSUME HomeSound, NEW c \in HomeCalls, Home!List(c)
    PROVE  HomeSound'
<1>1. /\ hPc[c] = "run" /\ hCall[c].op = "list" /\ hGot' = [hGot EXCEPT ![c] = archived]
      /\ hPc' = [hPc EXCEPT ![c] = "done"] /\ hAnswer' = [hAnswer EXCEPT ![c] = "ok"]
      /\ UNCHANGED <<archived, hCall, was, meddled, hShows, hData, flagged, busy, hMarred>>
  BY DEF Home!List, Home!Finish, Home!pageVars
<1>2. /\ hPc \in [HomeCalls -> {"new", "authorise", "run", "done", "heard"}]
      /\ hAnswer \in [HomeCalls -> {"none", "ok", "failed"}]
      /\ hGot \in [HomeCalls -> SUBSET Investors] /\ archived \subseteq Investors
  BY DEF HomeSound, Home!TypeOK
<1>3. Home!TypeOK'
  BY <1>1, <1>2 DEF HomeSound, Home!TypeOK
<1>4. Home!InFlight' = Home!InFlight /\ c \in Home!InFlight
  <2>1. hCall[c].own = TRUE
    BY <1>1 DEF HomeSound, HomeCallFits
  <2> QED BY <1>1, <1>2, <2>1 DEF Home!InFlight
<1>5. \A d \in HomeCalls \ {c} : hPc'[d] = hPc[d] /\ hAnswer'[d] = hAnswer[d] /\ hGot'[d] = hGot[d]
  BY <1>1, <1>2
<1>6. hGot'[c] = archived
  BY <1>1, <1>2
<1>7. \A d \in HomeCalls : HomeCallFits(d)'
  BY <1>1, <1>2 DEF HomeSound, HomeCallFits
<1>8. Home!ShownFlagsHappened'
  BY <1>1, Zenon DEF HomeSound, Home!ShownFlagsHappened
<1>9. WasFits'
  <2>1. \A i \in Investors : (i \in archived') \in was'[i]
    BY <1>1, Zenon DEF HomeSound, WasFits
  <2>2. ASSUME NEW d \in HomeCalls, hPc'[d] = "done", hAnswer'[d] = "ok"
        PROVE  /\ hCall'[d].op = "list" => \A i \in Investors : (i \in hGot'[d]) \in was'[i]
               /\ hCall'[d].op = "archive" => TRUE \in was'[hCall'[d].who]
               /\ hCall'[d].op = "unarchive" => FALSE \in was'[hCall'[d].who]
    <3>1. CASE d = c
      <4>1. \A i \in Investors : (i \in hGot'[c]) \in was'[i]
        BY <1>1, <1>6, <2>1, Zenon
      <4>2. hCall'[c].op = "list"
        BY <1>1
      <4> QED BY <3>1, <4>1, <4>2, Zenon
    <3>2. CASE d # c
      <4>1. hPc[d] = "done" /\ hAnswer[d] = "ok" /\ hGot'[d] = hGot[d]
        BY <1>5, <2>2, <3>2
      <4> QED BY <1>1, <4>1, Zenon DEF HomeSound, WasFits
    <3> QED BY <3>1, <3>2
  <2> QED BY <2>1, <2>2, Zenon DEF WasFits
<1>10. ASSUME ~hMarred PROVE ListWaits' /\ ChangesWait' /\ FlagsAgree'
  <2>1. Home!InFlight = {c} /\ hData # "Success"
    BY <1>1, <1>4, <1>10 DEF HomeSound, ListWaits
  <2> QED BY <1>1, <1>4, <1>6, <2>1 DEF ListWaits, ChangesWait, FlagsAgree
<1>11. Home!OneChangeAtATime'
  BY <1>1, <1>4 DEF HomeSound, Home!OneChangeAtATime
<1> QED BY <1>1, <1>3, <1>7, <1>8, <1>9, <1>10, <1>11 DEF HomeSound

\* What the database has been is remembered.
LEMMA WasGrows ==
    ASSUME HomeSound, was' = [i \in Investors |-> was[i] \cup {(i \in archived')}]
    PROVE  /\ was' \in [Investors -> SUBSET BOOLEAN]
           /\ \A i \in Investors : was[i] \subseteq was'[i] /\ (i \in archived') \in was'[i]
<1>1. was \in [Investors -> SUBSET BOOLEAN]
  BY DEF HomeSound, Home!TypeOK
<1>2. ASSUME NEW i \in Investors
      PROVE  /\ was'[i] \in SUBSET BOOLEAN /\ was[i] \subseteq was'[i]
             /\ (i \in archived') \in was'[i]
  <2>1. was'[i] = was[i] \cup {(i \in archived')}
    OBVIOUS
  <2>2. was[i] \subseteq was'[i]
    BY <2>1
  <2>3. (i \in archived') \in was'[i]
    BY <2>1
  <2>4. was'[i] \in SUBSET BOOLEAN
    <3>1. (i \in archived') \in BOOLEAN /\ was[i] \in SUBSET BOOLEAN
      BY <1>1
    <3> QED BY <2>1, <3>1, Zenon
  <2> QED BY <2>2, <2>3, <2>4
<1> QED BY <1>2

\* A change is written.
LEMMA HomeUpdateKeeps ==
    ASSUME HomeAssumption, HomeSound, NEW c \in HomeCalls, Home!Update(c)
    PROVE  HomeSound'
<1>1. /\ hPc[c] = "run" /\ hCall[c].op # "list" /\ archived' = Home!SetArchived(c)
      /\ was' = [i \in Investors |-> was[i] \cup {(i \in archived')}]
      /\ meddled' = IF hCall[c].own THEN meddled ELSE meddled \cup {hCall[c].who}
      /\ hPc' = [hPc EXCEPT ![c] = "done"] /\ hAnswer' = [hAnswer EXCEPT ![c] = "ok"]
      /\ UNCHANGED <<hCall, hGot, hShows, hData, flagged, busy, hMarred>>
  BY DEF Home!Update, Home!Finish, Home!pageVars
<1>2. /\ hPc \in [HomeCalls -> {"new", "authorise", "run", "done", "heard"}]
      /\ hAnswer \in [HomeCalls -> {"none", "ok", "failed"}]
      /\ hCall[c] \in Home!Call \cup {Home!NoCall}
      /\ meddled \subseteq Investors /\ archived \subseteq Investors
  BY DEF HomeSound, Home!TypeOK
<1>3. hCall[c].op \in Changes /\ hCall[c].who \in Investors
  <2>1. hCall[c].op # "none"
    BY <1>1 DEF HomeSound, HomeCallFits
  <2>2. hCall[c].op \in Changes
    BY <1>1, <1>2, <2>1 DEF Home!Call, Home!NoCall, Changes
  <2> QED BY <2>2 DEF HomeSound, HomeCallFits
<1>4. PICK who \in Investors : who = hCall[c].who
  BY <1>3
<1>5. /\ archived' = IF hCall[c].op = "archive" THEN archived \cup {who} ELSE archived \ {who}
      /\ archived' \subseteq Investors /\ meddled' \subseteq Investors
      /\ meddled \subseteq meddled'
      /\ \A i \in Investors \ {who} : i \in archived' <=> i \in archived
  BY <1>1, <1>2, <1>4 DEF Home!SetArchived
<1>6. /\ was' \in [Investors -> SUBSET BOOLEAN]
      /\ \A i \in Investors : was[i] \subseteq was'[i] /\ (i \in archived') \in was'[i]
  BY <1>1, WasGrows
<1>7. Home!TypeOK'
  BY <1>1, <1>2, <1>5, <1>6 DEF HomeSound, Home!TypeOK
<1>8. Home!InFlight' = Home!InFlight
  BY <1>1, <1>2 DEF Home!InFlight
<1>9. \A d \in HomeCalls \ {c} : hPc'[d] = hPc[d] /\ hAnswer'[d] = hAnswer[d]
  BY <1>1, <1>2
<1>10. \A d \in HomeCalls : HomeCallFits(d)'
  BY <1>1, <1>2 DEF HomeSound, HomeCallFits
<1>11. Home!ShownFlagsHappened'
  <2>1. ASSUME NEW i \in Investors, (i \in flagged) \in was[i] PROVE (i \in flagged) \in was'[i]
    BY <1>6, <2>1, Zenon
  <2> QED BY <1>1, <2>1, Zenon DEF HomeSound, Home!ShownFlagsHappened
<1>12. WasFits'
  <2>1. ASSUME NEW d \in HomeCalls, hPc'[d] = "done", hAnswer'[d] = "ok"
        PROVE  /\ hCall[d].op = "list" => \A i \in Investors : (i \in hGot[d]) \in was'[i]
               /\ hCall[d].op = "archive" => TRUE \in was'[hCall[d].who]
               /\ hCall[d].op = "unarchive" => FALSE \in was'[hCall[d].who]
    <3>1. CASE d = c
      <4>1. (who \in archived') \in was'[who]
        BY <1>6, Zenon
      <4>2. hCall[c].op = "archive" => TRUE \in was'[who]
        BY <1>5, <4>1
      <4>3. ASSUME hCall[c].op = "unarchive" PROVE FALSE \in was'[who]
        <5>1. (who \in archived') = FALSE
          BY <1>5, <4>3
        <5> QED BY <4>1, <5>1
      <4>4. hCall[c].op # "list"
        BY <1>1
      <4> QED BY <1>4, <3>1, <4>2, <4>3, <4>4, Zenon
    <3>2. CASE d # c
      <4>1. hPc[d] = "done" /\ hAnswer[d] = "ok"
        BY <1>9, <2>1, <3>2
      <4>2. /\ hCall[d].op = "list" => \A i \in Investors : (i \in hGot[d]) \in was[i]
            /\ hCall[d].op = "archive" => TRUE \in was[hCall[d].who]
            /\ hCall[d].op = "unarchive" => FALSE \in was[hCall[d].who]
        BY <4>1, Zenon DEF HomeSound, WasFits
      <4>3. hCall[d].op = "list" => \A i \in Investors : (i \in hGot[d]) \in was'[i]
        BY <1>6, <4>2, Zenon
      <4>4. hCall[d].op \in Changes => hCall[d].who \in Investors
        BY DEF HomeSound, HomeCallFits
      <4>5. /\ hCall[d].op = "archive" => TRUE \in was'[hCall[d].who]
            /\ hCall[d].op = "unarchive" => FALSE \in was'[hCall[d].who]
        BY <1>6, <4>2, <4>4 DEF Changes
      <4> QED BY <4>3, <4>5, Zenon
    <3> QED BY <3>1, <3>2
  <2>2. \A i \in Investors : (i \in archived') \in was'[i]
    BY <1>6, Zenon
  <2>3. UNCHANGED <<hCall, hGot>>
    BY <1>1
  <2> QED BY <2>1, <2>2, <2>3, Zenon DEF WasFits
<1>13. who \in meddled' \/ c \in Home!InFlight
  BY <1>1, <1>4 DEF Home!InFlight
<1>14. ASSUME ~hMarred PROVE ListWaits' /\ ChangesWait' /\ FlagsAgree'
  <2>1. ListWaits /\ ChangesWait /\ FlagsAgree
    BY <1>14 DEF HomeSound
  <2>2. ASSUME NEW d \in Home!InFlight, hCall[d].who = who, who \notin meddled' PROVE d = c
    <3>1. who # None
      BY DEF HomeAssumption, Home!HomePageAssumption
    <3> QED BY <1>4, <1>13, <1>14, <2>2, <3>1 DEF HomeSound, Home!OneChangeAtATime
  <2>3. ListWaits'
    <3> SUFFICES ASSUME NEW d \in Home!InFlight, hCall[d].op = "list"
                 PROVE  /\ Home!InFlight = {d} /\ hData # "Success"
                        /\ hPc'[d] = "done" /\ hAnswer'[d] = "ok" =>
                              \A i \in Investors \ meddled' : i \in hGot[d] <=> i \in archived'
      BY <1>1, <1>8 DEF ListWaits
    <3>1. Home!InFlight = {d} /\ hData # "Success" /\ d # c
      BY <1>1, <2>1 DEF ListWaits
    <3>2. who \in meddled'
      BY <1>13, <3>1
    <3>3. hPc'[d] = hPc[d] /\ hAnswer'[d] = hAnswer[d]
      BY <1>9, <3>1, InFlightAtHome
    <3> QED BY <1>5, <2>1, <3>1, <3>2, <3>3 DEF ListWaits
  <2>4. ChangesWait'
    <3> SUFFICES ASSUME hData = "Success", NEW d \in Home!InFlight
                 PROVE  /\ hCall[d].who \in busy
                        /\ hPc'[d] = "done" /\ hAnswer'[d] = "ok" /\ hCall[d].who \notin meddled' =>
                             (hCall[d].who \in archived' <=> hCall[d].op = "archive")
      BY <1>1, <1>8 DEF ChangesWait
    <3>1. hCall[d].who \in busy
      BY <2>1 DEF ChangesWait
    <3>2. CASE d = c
      BY <1>4, <1>5, <3>1, <3>2
    <3>3. CASE d # c
      <4>1. hPc'[d] = hPc[d] /\ hAnswer'[d] = hAnswer[d]
        BY <1>9, <3>3, InFlightAtHome
      <4>2. hCall[d].who \notin meddled' => hCall[d].who # who
        BY <2>2, <3>3
      <4>3. hCall[d].who \in Investors
        BY <3>1 DEF HomeSound, Home!TypeOK
      <4> QED BY <1>5, <2>1, <3>1, <4>1, <4>2, <4>3 DEF ChangesWait
    <3> QED BY <3>2, <3>3
  <2>5. FlagsAgree'
    <3> SUFFICES ASSUME hData = "Success", NEW i \in Investors \ meddled',
                        \A d \in Home!InFlight : hCall[d].who = i => hPc'[d] # "done"
                 PROVE  i \in flagged <=> i \in archived'
      BY <1>1, <1>8 DEF FlagsAgree
    <3>1. i # who
      BY <1>1, <1>2, <1>4, <1>13
    <3>2. \A d \in Home!InFlight : hCall[d].who = i => hPc[d] # "done"
      BY <1>4, <1>9, <3>1, InFlightAtHome
    <3> QED BY <1>5, <2>1, <3>1, <3>2 DEF FlagsAgree
  <2> QED BY <2>3, <2>4, <2>5
<1>15. Home!OneChangeAtATime'
  BY <1>1, <1>8 DEF HomeSound, Home!OneChangeAtATime
<1> QED BY <1>1, <1>7, <1>10, <1>11, <1>12, <1>14, <1>15 DEF HomeSound

\* What an answer does to the page: a list is shown, a change is marked, and an error
\* takes the spinner away.
LEMMA HomeApplyFacts ==
    ASSUME HomeSound, NEW c \in Home!InFlight, NEW result, Home!Apply(c, result)
    PROVE  \/ /\ ~hShows /\ UNCHANGED <<hData, flagged, busy>>
           \/ /\ hCall[c].op = "list" /\ result = "ok"
              /\ hData' = "Success" /\ flagged' = hGot[c] /\ busy' = {}
           \/ /\ hCall[c].op = "list" /\ result # "ok"
              /\ hData' = "Failure" /\ flagged' = {} /\ busy' = {}
           \/ /\ hCall[c].op \in Changes /\ hCall[c].who \in Investors
              /\ hData' = hData /\ busy' = busy \ {hCall[c].who}
              /\ flagged' = IF hData = "Success" /\ result = "ok"
                            THEN IF hCall[c].op = "archive" THEN flagged \cup {hCall[c].who}
                                                            ELSE flagged \ {hCall[c].who}
                            ELSE flagged
<1>1. c \in HomeCalls /\ hPc[c] # "new"
  BY InFlightAtHome
<1>2. HomeCallFits(c) /\ hCall[c] \in Home!Call \cup {Home!NoCall}
  BY <1>1 DEF HomeSound, Home!TypeOK
<1>3. hCall[c].op \in Changes \cup {"list"}
  BY <1>1, <1>2 DEF HomeCallFits, Home!Call, Home!NoCall, Changes
<1>4. hCall[c].op # "list" => hCall[c].op \in Changes /\ hCall[c].who \in Investors
  BY <1>2, <1>3 DEF HomeCallFits
<1>5. CASE ~hShows
  BY <1>5 DEF Home!Apply
<1>6. CASE hShows /\ hCall[c].op = "list" /\ Home!OnData(c, result)
  BY <1>6 DEF Home!OnData
<1>7. CASE hShows /\ hCall[c].op # "list" /\ Home!OnResponse(c, result)
  BY <1>4, <1>7 DEF Home!OnResponse, Home!Flag
<1> QED BY <1>5, <1>6, <1>7 DEF Home!Apply

\* An answer, good or bad; a call that is lost may be served all the same.
LEMMA HomeAnswerKeeps ==
    ASSUME HomeAssumption, HomeSound, NEW c \in Home!InFlight, NEW result, Home!Apply(c, result),
           result = "ok" => hPc[c] = "done" /\ hAnswer[c] = "ok" /\ archived' = archived,
           archived' \subseteq Investors, was' \in [Investors -> SUBSET BOOLEAN],
           \A i \in Investors : was[i] \subseteq was'[i] /\ (i \in archived') \in was'[i]
    PROVE  HomeSound'
<1>1. /\ hPc' = [hPc EXCEPT ![c] = "heard"] /\ hMarred' = (hMarred \/ result # "ok")
      /\ UNCHANGED <<hShows, hCall, hAnswer, hGot, meddled>>
  BY DEF Home!Apply
<1>2. /\ c \in HomeCalls
      /\ hPc \in [HomeCalls -> {"new", "authorise", "run", "done", "heard"}]
      /\ hGot \in [HomeCalls -> SUBSET Investors] /\ hMarred \in BOOLEAN
  BY InFlightAtHome DEF HomeSound, Home!TypeOK
<1>3. PICK op, who : op = hCall[c].op /\ who = hCall[c].who
  OBVIOUS
<1>4. \/ /\ ~hShows /\ UNCHANGED <<hData, flagged, busy>>
      \/ /\ op = "list" /\ result = "ok"
         /\ hData' = "Success" /\ flagged' = hGot[c] /\ busy' = {}
      \/ /\ op = "list" /\ result # "ok"
         /\ hData' = "Failure" /\ flagged' = {} /\ busy' = {}
      \/ /\ op \in Changes /\ who \in Investors
         /\ hData' = hData /\ busy' = busy \ {who}
         /\ flagged' = IF hData = "Success" /\ result = "ok"
                       THEN IF op = "archive" THEN flagged \cup {who} ELSE flagged \ {who}
                       ELSE flagged
  BY <1>3, HomeApplyFacts
<1>5. Home!InFlight' = Home!InFlight \ {c}
  BY <1>1, <1>2 DEF Home!InFlight
<1>6. \A d \in HomeCalls \ {c} : hPc'[d] = hPc[d]
  BY <1>1, <1>2
<1>7. /\ flagged' \subseteq Investors /\ busy' \subseteq Investors
      /\ hData' \in {"NotAsked", "Failure", "Success"}
      /\ hData' # "Success" => flagged' = {} /\ busy' = {}
  BY <1>2, <1>4 DEF HomeSound, Home!TypeOK
<1>8. Home!TypeOK'
  BY <1>1, <1>2, <1>7 DEF HomeSound, Home!TypeOK
<1>9. \A d \in HomeCalls : HomeCallFits(d)'
  <2>1. hCall[c].op # "none"
    BY InFlightAtHome DEF HomeSound, HomeCallFits
  <2> QED BY <1>1, <1>2, <2>1 DEF HomeSound, HomeCallFits
<1>10. ~hShows' => hData' = "NotAsked"
  BY <1>1, <1>4 DEF HomeSound, Home!Apply
<1>11. \A d \in HomeCalls : hPc'[d] = "done" => hPc[d] = "done"
  BY <1>1, <1>2
<1>12. \A i \in Investors : (i \in archived') \in was'[i]
  BY Zenon
<1>13. WasFits'
  <2>1. ASSUME NEW d \in HomeCalls, hPc'[d] = "done", hAnswer[d] = "ok"
        PROVE  /\ hCall[d].op = "list" => \A i \in Investors : (i \in hGot[d]) \in was'[i]
               /\ hCall[d].op = "archive" => TRUE \in was'[hCall[d].who]
               /\ hCall[d].op = "unarchive" => FALSE \in was'[hCall[d].who]
    <3>1. /\ hCall[d].op = "list" => \A i \in Investors : (i \in hGot[d]) \in was[i]
          /\ hCall[d].op = "archive" => TRUE \in was[hCall[d].who]
          /\ hCall[d].op = "unarchive" => FALSE \in was[hCall[d].who]
      BY <1>11, <2>1, Zenon DEF HomeSound, WasFits
    <3>2. hCall[d].op = "list" => \A i \in Investors : (i \in hGot[d]) \in was'[i]
      BY <3>1, Zenon
    <3>3. hCall[d].op \in Changes => hCall[d].who \in Investors
      BY DEF HomeSound, HomeCallFits
    <3>4. /\ hCall[d].op = "archive" => TRUE \in was'[hCall[d].who]
          /\ hCall[d].op = "unarchive" => FALSE \in was'[hCall[d].who]
      BY <3>1, <3>3 DEF Changes
    <3> QED BY <3>2, <3>4, Zenon
  <2>2. UNCHANGED <<hCall, hGot, hAnswer>>
    BY <1>1
  <2> QED BY <1>12, <2>1, <2>2, Zenon DEF WasFits
<1>14. Home!ShownFlagsHappened'
  <2> SUFFICES ASSUME hData' = "Success", NEW i \in Investors
               PROVE  (i \in flagged') \in was'[i]
    BY Zenon DEF Home!ShownFlagsHappened
  <2>1. ASSUME hData = "Success" PROVE (i \in flagged) \in was'[i]
    <3>1. (i \in flagged) \in was[i]
      BY <2>1, Zenon DEF HomeSound, Home!ShownFlagsHappened
    <3> QED BY <3>1, Zenon
  <2>2. CASE op = "list" /\ result = "ok" /\ flagged' = hGot[c]
    <3>1. (i \in hGot[c]) \in was[i]
      BY <1>2, <1>3, <2>2, Zenon DEF HomeSound, WasFits
    <3> QED BY <2>2, <3>1, Zenon
  <2>3. CASE hData = "Success" /\ ((i \in flagged') <=> (i \in flagged))
    <3>1. (i \in flagged') = (i \in flagged)
      BY <2>3
    <3> QED BY <2>1, <2>3, <3>1
  <2>4. CASE result = "ok" /\ i = who /\ op = "archive" /\ i \in flagged'
    <3>1. TRUE \in was[i]
      BY <1>2, <1>3, <2>4 DEF HomeSound, WasFits
    <3>2. TRUE \in was'[i]
      BY <3>1
    <3>3. (i \in flagged') = TRUE
      BY <2>4
    <3> QED BY <3>2, <3>3
  <2>5. CASE result = "ok" /\ i = who /\ op = "unarchive" /\ i \notin flagged'
    <3>1. FALSE \in was[i]
      BY <1>2, <1>3, <2>5 DEF HomeSound, WasFits
    <3>2. FALSE \in was'[i]
      BY <3>1
    <3>3. (i \in flagged') = FALSE
      BY <2>5
    <3> QED BY <3>2, <3>3
  <2>6. ~hShows => hData # "Success"
    BY DEF HomeSound
  <2> QED BY <1>4, <2>2, <2>3, <2>4, <2>5, <2>6 DEF Changes
<1>15. ASSUME ~hMarred' PROVE ListWaits' /\ ChangesWait' /\ FlagsAgree' /\ Home!OneChangeAtATime'
  <2>1. ~hMarred /\ result = "ok"
    BY <1>1, <1>15
  <2>2. ListWaits /\ ChangesWait /\ FlagsAgree /\ Home!OneChangeAtATime
    BY <2>1 DEF HomeSound
  <2>3. archived' = archived /\ hPc[c] = "done" /\ hAnswer[c] = "ok"
    BY <2>1
  <2>4. ListWaits'
    <3>1. \A d \in Home!InFlight' : hCall[d].op # "list"
      BY <1>5, <2>2 DEF ListWaits
    <3> QED BY <1>1, <3>1 DEF ListWaits
  <2>5. \A d \in Home!InFlight' : d \in Home!InFlight /\ d # c /\ hPc'[d] = hPc[d]
    BY <1>5, <1>6, InFlightAtHome
  <2>6. op = "list" => Home!InFlight' = {} /\ hData # "Success"
    BY <1>3, <1>5, <2>2 DEF ListWaits
  <2>7. op \in Changes /\ who \in Investors => \A d \in Home!InFlight' : hCall[d].who # who
    BY <1>3, <2>1, <2>2, <2>5 DEF Home!OneChangeAtATime, HomeAssumption, Home!HomePageAssumption
  <2>8. hData' = "Success" =>
          op = "list" \/ (op \in Changes /\ who \in Investors /\ hData = "Success")
    BY <1>4 DEF HomeSound
  <2>9. ChangesWait'
    <3>1. CASE op = "list"
      BY <2>6, <3>1 DEF ChangesWait
    <3>2. CASE op \in Changes /\ who \in Investors
      <4> SUFFICES ASSUME hData' = "Success", NEW d \in Home!InFlight'
                   PROVE  /\ hCall[d].who \in busy'
                          /\ hPc'[d] = "done" /\ hAnswer[d] = "ok" /\ hCall[d].who \notin meddled =>
                               (hCall[d].who \in archived' <=> hCall[d].op = "archive")
        BY <1>1 DEF ChangesWait
      <4>1. hData = "Success" /\ busy' = busy \ {who} /\ hCall[d].who # who
        BY <1>4, <2>7, <2>8, <3>2 DEF Changes, HomeSound
      <4> QED BY <2>2, <2>3, <2>5, <4>1 DEF ChangesWait
    <3> QED BY <2>8, <3>1, <3>2 DEF ChangesWait
  <2>10. FlagsAgree'
    <3> SUFFICES ASSUME hData' = "Success", NEW i \in Investors \ meddled,
                        \A d \in Home!InFlight' : hCall[d].who = i => hPc'[d] # "done"
                 PROVE  i \in flagged' <=> i \in archived
      BY <1>1, <2>3 DEF FlagsAgree
    <3>1. CASE op = "list"
      <4>1. flagged' = hGot[c]
        BY <1>4, <2>1, <3>1 DEF HomeSound, Changes
      <4>2. i \in hGot[c] <=> i \in archived
        BY <1>3, <2>2, <2>3, <3>1 DEF ListWaits
      <4> QED BY <4>1, <4>2
    <3>2. CASE op \in Changes /\ who \in Investors /\ hData = "Success"
      <4>1. flagged' = IF op = "archive" THEN flagged \cup {who} ELSE flagged \ {who}
        BY <1>4, <2>1, <3>2 DEF Changes, HomeSound
      <4>2. CASE i = who
        <5>1. who \in archived <=> op = "archive"
          BY <1>3, <2>2, <2>3, <3>2, <4>2 DEF ChangesWait
        <5> QED BY <4>1, <4>2, <5>1
      <4>3. CASE i # who
        <5>1. \A d \in Home!InFlight : hCall[d].who = i => hPc[d] # "done"
          BY <1>3, <1>5, <2>5, <4>3
        <5> QED BY <2>2, <3>2, <4>1, <4>3, <5>1 DEF FlagsAgree
      <4> QED BY <4>2, <4>3
    <3> QED BY <2>8, <3>1, <3>2
  <2>11. Home!OneChangeAtATime'
    BY <1>1, <1>5, <2>1, <2>2 DEF Home!OneChangeAtATime
  <2> QED BY <2>4, <2>9, <2>10, <2>11
<1>16. Home!OneChangeAtATime'
  BY <1>15 DEF Home!OneChangeAtATime
<1> QED BY <1>8, <1>9, <1>10, <1>13, <1>14, <1>15, <1>16 DEF HomeSound

LEMMA HomeHearKeeps ==
    ASSUME HomeAssumption, HomeSound, NEW c \in HomeCalls, Home!Hear(c)
    PROVE  HomeSound'
<1>1. /\ c \in Home!InFlight /\ hPc[c] = "done" /\ Home!Apply(c, hAnswer[c])
      /\ UNCHANGED <<archived, was>>
  BY DEF Home!Hear
<1>2. archived \subseteq Investors /\ was \in [Investors -> SUBSET BOOLEAN]
  BY DEF HomeSound, Home!TypeOK
<1>3. \A i \in Investors : (i \in archived') \in was'[i]
  BY <1>1, Zenon DEF HomeSound, WasFits
<1>4. \A i \in Investors : was[i] \subseteq was'[i]
  BY <1>1
<1>5. \A i \in Investors : was[i] \subseteq was'[i] /\ (i \in archived') \in was'[i]
  BY <1>3, <1>4, Zenon
<1> QED BY <1>1, <1>2, <1>5, HomeAnswerKeeps

LEMMA HomeLoseKeeps ==
    ASSUME HomeAssumption, HomeSound, NEW c \in HomeCalls, Home!Lose(c)
    PROVE  HomeSound'
<1>1. /\ c \in Home!InFlight /\ Home!Apply(c, "failed")
      /\ \/ archived' = archived
         \/ hCall[c].op # "list" /\ archived' = Home!SetArchived(c)
      /\ was' = [i \in Investors |-> was[i] \cup {(i \in archived')}]
  BY DEF Home!Lose
<1>2. archived' \subseteq Investors
  <2>1. archived \subseteq Investors /\ hCall[c] \in Home!Call \cup {Home!NoCall}
    BY DEF HomeSound, Home!TypeOK
  <2>2. HomeCallFits(c) /\ hPc[c] # "new"
    BY <1>1, InFlightAtHome DEF HomeSound
  <2>3. hCall[c].op # "list" => hCall[c].who \in Investors
    BY <2>1, <2>2 DEF HomeCallFits, Home!Call, Home!NoCall, Changes
  <2> QED BY <1>1, <2>1, <2>3 DEF Home!SetArchived
<1>3. /\ was' \in [Investors -> SUBSET BOOLEAN]
      /\ \A i \in Investors : was[i] \subseteq was'[i] /\ (i \in archived') \in was'[i]
  BY <1>1, WasGrows
<1> QED BY <1>1, <1>2, <1>3, HomeAnswerKeeps

\* Every step keeps the invariant.
LEMMA HomeStep == HomeAssumption /\ HomeSound /\ [Home!Next]_(Home!vars) => HomeSound'
<1> SUFFICES ASSUME HomeAssumption, HomeSound, [Home!Next]_(Home!vars) PROVE HomeSound'
  OBVIOUS
<1>1. CASE \E c \in HomeCalls : Home!Serve(c)
  BY <1>1, HomeRefuseKeeps, HomeListKeeps, HomeUpdateKeeps DEF Home!Serve
<1>2. CASE \E c \in HomeCalls : Home!Open(c)
  BY <1>2, HomeOpenKeeps
<1>3. CASE \E c \in HomeCalls : Home!Hear(c)
  BY <1>3, HomeHearKeeps
<1>4. CASE \E c \in HomeCalls : Home!Lose(c)
  BY <1>4, HomeLoseKeeps
<1>5. CASE \E c \in HomeCalls, i \in Investors : Home!Press(c, i)
  BY <1>5, HomePressKeeps
<1>6. CASE \E c \in HomeCalls, i \in Investors, op \in Changes : Home!Elsewhere(c, op, i)
  BY <1>6, HomeElsewhereKeeps
<1>7. CASE Home!Leave
  BY <1>7, HomeLeaveKeeps
<1>8. CASE UNCHANGED Home!vars
  <2>1. UNCHANGED <<archived, hCall, hPc, hAnswer, hGot, was, meddled, hShows, hData, flagged,
                    busy, hMarred>>
    BY <1>8 DEF Home!vars, Home!serverVars, Home!pageVars
  <2>2. Home!InFlight' = Home!InFlight
    BY <2>1 DEF Home!InFlight
  <2>3. Home!TypeOK' /\ \A c \in HomeCalls : HomeCallFits(c)'
    BY <2>1 DEF HomeSound, Home!TypeOK, HomeCallFits
  <2>4. WasFits'
    BY <2>1, Zenon DEF HomeSound, WasFits
  <2>5. Home!ShownFlagsHappened'
    BY <2>1, Zenon DEF HomeSound, Home!ShownFlagsHappened
  <2>6. /\ ~hMarred' => ListWaits' /\ ChangesWait' /\ FlagsAgree'
        /\ Home!OneChangeAtATime' /\ (~hShows' => hData' = "NotAsked")
    BY <2>1, <2>2 DEF HomeSound, ListWaits, ChangesWait, FlagsAgree, Home!OneChangeAtATime
  <2> QED BY <2>3, <2>4, <2>5, <2>6 DEF HomeSound
<1> QED BY <1>1, <1>2, <1>3, <1>4, <1>5, <1>6, <1>7, <1>8
        DEF Home!Next, Home!Quiescent, Changes

\* The invariant holds in every reachable state of the home page.
LEMMA HomeSoundness == ASSUME HomeAssumption PROVE Home!Spec => []HomeSound
<1>1. Home!Init => HomeSound
  BY HomeInit
<1>2. HomeSound /\ [Home!Next]_(Home!vars) => HomeSound'
  BY HomeStep
<1> QED BY <1>1, <1>2, PTL DEF Home!Spec

-----------------------------------------------------------------------------
(* The page of an account: the invariant.                                  *)

AccountAssumption == Account!AccountPageAssumption

AccountData ==
    [status : Account!RemoteData, account : PageAccounts \cup {None},
     calls : SUBSET Account!CallNumbers]

\* What is known of a call, and of a good answer.
AccountCallFits(c) ==
    /\ c <= made => aCall[c] \in Account!Call /\ aPc[c] # "new" /\ aCall[c].fill <= fills
    /\ c > made => aPc[c] = "new" /\ aAnswer[c] = "none"
    /\ aAnswer[c] = "ok" =>
          /\ aGot[c].status = "Success" /\ aGot[c].account = aCall[c].account
          /\ aCall[c].op # "query" => c \in committed /\ c \in aGot[c].calls

AccountCallsFit ==
    /\ \A c \in Account!CallNumbers : AccountCallFits(c)
    /\ form <= fills
    /\ committed \subseteq 1..made /\ aTold \subseteq committed

\* There is a call left for each submission whose success asks for the account.
AwaitedForms == {c \in Account!InFlight : aCall[c].op \in Account!Forms}
RoomToAsk == made + Cardinality(AwaitedForms) <= AccountCalls

\* What is awaited by an unmarred page is for it.  On the top page it is one call:
\* the query, before there is anything to edit, or a new rate under the spinner; a
\* good answer has every change the admin was told of.
AwaitedIsOwn(c) ==
    /\ page # None /\ aCall[c].account = page.account
    /\ \/ Account!OnTop /\ Account!InFlight = {c} /\ aCall[c].op \in {"query", "rate"}
       \/ Account!OnForm /\ aCall[c].op = page.sub
    /\ aCall[c].op = "query" => ~editing /\ aData.status # "Success"
    /\ aCall[c].op = "rate" => saving = "Loading"
    /\ Account!OnTop /\ aAnswer[c] = "ok" =>
          \A d \in aTold : aCall[d].account = page.account => d \in aGot[c].calls

OwnPageOnly == \A c \in Account!InFlight : AwaitedIsOwn(c)

\* What an unmarred page shows has every change the admin was told of.
HasTold ==
    Account!OnTop /\ aData.status = "Success" =>
        \A d \in aTold : aCall[d].account = page.account => d \in aData.calls

\* A fill that was sent, without an error so far, is under the spinner.
SentFillSpins ==
    form # 0 /\ form \notin excused /\ (\E c \in 1..made : aCall[c].fill = form)
        => response = "Loading"

\* As OneChangePerFill, of the calls that were sent.
FillSentOnce ==
    \A c, d \in 1..made :
        c # d /\ aCall[c].fill = aCall[d].fill /\ aCall[c].fill # 0 => aCall[c].fill \in excused

AccountSound ==
    /\ Account!TypeOK /\ AccountCallsFit /\ RoomToAsk
    /\ ~aMarred => OwnPageOnly /\ HasTold
    /\ Account!PageFollowsUrl /\ SentFillSpins /\ FillSentOnce

-----------------------------------------------------------------------------
(* The page of an account: what its operators yield.                       *)

\* The numbers.
LEMMA AccountNumbers ==
    ASSUME AccountAssumption, AccountSound
    PROVE  /\ AccountCalls \in Nat /\ AccountFills \in Nat
           /\ made \in Nat /\ made <= AccountCalls
           /\ fills \in 0..AccountFills /\ form \in 0..AccountFills /\ form <= fills
           /\ 1..made \subseteq Account!CallNumbers
           /\ IsFiniteSet(AwaitedForms) /\ Cardinality(AwaitedForms) \in Nat
           /\ made + Cardinality(AwaitedForms) <= AccountCalls
<1>1. /\ AccountCalls \in Nat /\ AccountFills \in Nat /\ made \in 0..AccountCalls
      /\ fills \in 0..AccountFills /\ form \in 0..AccountFills /\ form <= fills
  BY DEF AccountAssumption, Account!AccountPageAssumption, AccountSound, Account!TypeOK,
     AccountCallsFit
<1>2. 1..made \subseteq Account!CallNumbers
  BY <1>1 DEF Account!CallNumbers
<1>3. IsFiniteSet(1..made)
  BY <1>1, FS_Interval
<1>4. AwaitedForms \subseteq 1..made
  BY DEF AwaitedForms, Account!InFlight
<1>5. IsFiniteSet(AwaitedForms) /\ Cardinality(AwaitedForms) \in Nat
  BY <1>3, <1>4, FS_Subset, FS_CardinalityType
<1> QED BY <1>1, <1>2, <1>5 DEF AccountSound, RoomToAsk

\* A page that is shown, and the top page of the same account.
LEMMA PageFields ==
    ASSUME NEW p \in Account!Routes
    PROVE  /\ p.account \in PageAccounts /\ p.sub \in {"top"} \cup Account!Forms
           /\ [p EXCEPT !.sub = "top"] \in Account!Routes
           /\ [p EXCEPT !.sub = "top"].account = p.account
           /\ [p EXCEPT !.sub = "top"].sub = "top"
           /\ p.sub = "top" => [p EXCEPT !.sub = "top"] = p
           /\ [account |-> p.account, sub |-> "top"] \in Account!Routes
BY DEF Account!Routes

\* A call is one of the forms, or not.
LEMMA FormOps ==
    /\ "top" \notin Account!Forms /\ "query" \notin Account!Forms /\ "rate" \notin Account!Forms
    /\ "query" # "rate"
BY DEF Account!Forms

\* What is in flight is a call that was made.
LEMMA InFlightOfAccount ==
    ASSUME AccountAssumption, AccountSound, NEW c \in Account!InFlight
    PROVE  /\ c \in 1..made /\ c \in Account!CallNumbers /\ aPc[c] # "heard"
           /\ aCall[c] \in Account!Call /\ AccountCallFits(c)
           /\ aCall[c].op \in {"query", "rate"} \cup Account!Forms
           /\ aCall[c].account \in PageAccounts
           /\ aCall[c].fill \in 0..AccountFills /\ aCall[c].fill <= fills
<1>1. c \in 1..made /\ c \in Account!CallNumbers /\ aPc[c] # "heard"
  BY AccountNumbers DEF Account!InFlight
<1>2. AccountCallFits(c) /\ c <= made
  BY <1>1, AccountNumbers DEF AccountSound, AccountCallsFit
<1>3. aCall[c] \in Account!Call /\ aCall[c].fill <= fills
  BY <1>2 DEF AccountCallFits
<1> QED BY <1>1, <1>2, <1>3 DEF Account!Call

\* An account as it was found is one that can be shown.
LEMMA GotFields ==
    ASSUME AccountSound, NEW c \in Account!CallNumbers
    PROVE  aGot[c] \in AccountData
BY DEF AccountSound, Account!TypeOK, AccountData

LEMMA BlankFields ==
    ASSUME AccountAssumption
    PROVE  /\ Account!NoData \in AccountData /\ Account!Failure \in AccountData
           /\ Account!NoData.status = "NotAsked" /\ Account!Failure.status = "Failure"
BY DEF Account!NoData, Account!Failure, AccountData, Account!RemoteData

-----------------------------------------------------------------------------
(* The page of an account: the steps.                                      *)

\* Init establishes the invariant.
LEMMA AccountInit == AccountAssumption /\ Account!Init => AccountSound
<1> SUFFICES ASSUME AccountAssumption, Account!Init PROVE AccountSound
  OBVIOUS
<1>1. /\ AccountCalls \in Nat /\ AccountFills \in Nat
      /\ route = None /\ page = None /\ aData = Account!NoData
      /\ editing = FALSE /\ saving = "NotAsked" /\ form = 0 /\ response = "NotAsked"
      /\ made = 0 /\ fills = 0
      /\ aCall = [c \in Account!CallNumbers |-> Account!NoCall]
      /\ aPc = [c \in Account!CallNumbers |-> "new"]
      /\ aAnswer = [c \in Account!CallNumbers |-> "none"]
      /\ aGot = [c \in Account!CallNumbers |-> Account!NoData]
      /\ committed = {} /\ aTold = {} /\ excused = {} /\ aMarred = FALSE
  BY DEF AccountAssumption, Account!AccountPageAssumption, Account!Init
<1>2. ~Account!OnTop /\ ~Account!OnForm
  BY <1>1 DEF Account!OnTop, Account!OnForm
<1>3. aData \in AccountData /\ aGot \in [Account!CallNumbers -> AccountData]
  BY <1>1, BlankFields
<1>4. Account!TypeOK
  <2>1. /\ aCall \in [Account!CallNumbers -> Account!Call \cup {Account!NoCall}]
        /\ aPc \in [Account!CallNumbers -> {"new", "sent", "served", "heard"}]
        /\ aAnswer \in [Account!CallNumbers -> {"none", "ok", "failed"}]
    BY <1>1
  <2>2. /\ saving \in Account!RemoteData /\ response \in Account!RemoteData
        /\ editing \in BOOLEAN /\ aMarred \in BOOLEAN
    BY <1>1 DEF Account!RemoteData
  <2>4. form \in 0..AccountFills /\ fills \in 0..AccountFills /\ made \in 0..AccountCalls
    BY <1>1
  <2>3. /\ route \in Account!Routes \cup {None} /\ page \in Account!Routes \cup {None}
        /\ committed \subseteq Account!CallNumbers /\ aTold \subseteq Account!CallNumbers
        /\ excused \subseteq 1..AccountFills
    BY <1>1
  <2> QED BY <1>1, <1>2, <1>3, <2>1, <2>2, <2>3, <2>4 DEF Account!TypeOK, AccountData
<1>5. Account!InFlight = {}
  BY <1>1 DEF Account!InFlight
<1>6. RoomToAsk
  <2>1. AwaitedForms = {}
    BY <1>5 DEF AwaitedForms
  <2>2. Cardinality(AwaitedForms) = 0
    BY <2>1, FS_EmptySet
  <2> QED BY <1>1, <2>2 DEF RoomToAsk
<1>7. AccountCallsFit
  <2>1. \A c \in Account!CallNumbers : c \in Nat /\ c > 0
    BY <1>1 DEF Account!CallNumbers
  <2>2. \A c \in Account!CallNumbers : AccountCallFits(c)
    BY <1>1, <2>1 DEF AccountCallFits
  <2> QED BY <1>1, <2>2 DEF AccountCallsFit
<1>8. OwnPageOnly /\ HasTold
  BY <1>2, <1>5 DEF OwnPageOnly, HasTold
<1>9. Account!PageFollowsUrl
  BY <1>1, BlankFields DEF Account!PageFollowsUrl
<1>10. SentFillSpins /\ FillSentOnce
  BY <1>1 DEF SentFillSpins, FillSentOnce
<1> QED BY <1>4, <1>6, <1>7, <1>8, <1>9, <1>10 DEF AccountSound

\* The next call is sent.
LEMMA AccountSendFacts ==
    ASSUME AccountAssumption, AccountSound, NEW k \in Account!Call,
           made < AccountCalls, Account!Send(k),
           NEW rest, rest \in [Account!CallNumbers -> {"new", "sent", "served", "heard"}],
           aPc' = [rest EXCEPT ![made + 1] = "sent"]
    PROVE  /\ made' = made + 1 /\ made' \in 0..AccountCalls
           /\ made' \in Account!CallNumbers /\ made' \notin 1..made
           /\ aCall' \in [Account!CallNumbers -> Account!Call \cup {Account!NoCall}]
           /\ aPc' \in [Account!CallNumbers -> {"new", "sent", "served", "heard"}]
           /\ aCall'[made'] = k /\ aPc'[made'] = "sent" /\ aAnswer[made'] = "none"
           /\ \A c \in Account!CallNumbers \ {made'} : aCall'[c] = aCall[c] /\ aPc'[c] = rest[c]
           /\ 1..made' = 1..made \cup {made'}
<1>1. made \in Nat /\ AccountCalls \in Nat /\ made' = made + 1
  BY AccountNumbers DEF Account!Send
<1>2. made' \in 0..AccountCalls /\ made' \in Account!CallNumbers /\ made' \notin 1..made
      /\ 1..made' = 1..made \cup {made'}
  BY <1>1 DEF Account!CallNumbers
<1>3. aCall' = [aCall EXCEPT ![made'] = k]
  BY <1>1 DEF Account!Send
<1>4. aCall \in [Account!CallNumbers -> Account!Call \cup {Account!NoCall}]
  BY DEF AccountSound, Account!TypeOK
<1>5. aAnswer[made'] = "none"
  BY <1>1, <1>2 DEF AccountSound, AccountCallsFit, AccountCallFits
<1> QED BY <1>1, <1>2, <1>3, <1>4, <1>5

\* The types of the page, and of the calls.
PageTypes ==
    /\ route \in Account!Routes \cup {None} /\ page \in Account!Routes \cup {None}
    /\ aData \in AccountData
    /\ editing \in BOOLEAN /\ saving \in Account!RemoteData
    /\ form \in 0..AccountFills /\ response \in Account!RemoteData
    /\ ~Account!OnTop => aData = Account!NoData /\ ~editing /\ saving = "NotAsked"
    /\ ~Account!OnForm => form = 0 /\ response = "NotAsked"

CallTypes ==
    /\ made \in 0..AccountCalls /\ fills \in 0..AccountFills
    /\ aCall \in [Account!CallNumbers -> Account!Call \cup {Account!NoCall}]
    /\ aPc \in [Account!CallNumbers -> {"new", "sent", "served", "heard"}]
    /\ aAnswer \in [Account!CallNumbers -> {"none", "ok", "failed"}]
    /\ aGot \in [Account!CallNumbers -> AccountData]
    /\ committed \subseteq Account!CallNumbers /\ aTold \subseteq Account!CallNumbers
    /\ excused \subseteq 1..AccountFills /\ aMarred \in BOOLEAN

LEMMA TypesOfAccount == Account!TypeOK <=> PageTypes /\ CallTypes
BY DEF Account!TypeOK, PageTypes, CallTypes, AccountData

LEMMA AccountTyped ==
    ASSUME AccountSound
    PROVE  PageTypes /\ CallTypes
BY TypesOfAccount DEF AccountSound

\* A page that was opened.
LEMMA BlankPageTyped ==
    ASSUME AccountAssumption, NEW r \in Account!Routes \cup {None},
           route' = r, page' = r, aData' = Account!NoData, editing' = FALSE,
           saving' = "NotAsked", form' = 0, response' = "NotAsked"
    PROVE  PageTypes'
<1>1. 0 \in 0..AccountFills
  BY DEF AccountAssumption, Account!AccountPageAssumption
<1>2. aData' \in AccountData
  BY BlankFields
<1>3. saving' \in Account!RemoteData /\ response' \in Account!RemoteData
  BY DEF Account!RemoteData
<1> QED BY <1>1, <1>2, <1>3 DEF PageTypes

\* A call that is not of a form leaves the fills as they were sent.
LEMMA OtherSendKeepsFills ==
    ASSUME AccountAssumption, AccountSound, made' \in Account!CallNumbers, made' \notin 1..made,
           1..made' = 1..made \cup {made'}, aCall'[made'].fill = 0,
           \A c \in Account!CallNumbers \ {made'} : aCall'[c] = aCall[c],
           excused' = excused, form' = 0 \/ UNCHANGED <<form, response>>
    PROVE  SentFillSpins' /\ FillSentOnce'
<1>1. \A c \in 1..made : aCall'[c] = aCall[c]
  BY AccountNumbers
<1>2. SentFillSpins'
  <2> SUFFICES ASSUME form' # 0, form' \notin excused, NEW c \in 1..made', aCall'[c].fill = form'
               PROVE  response' = "Loading"
    BY DEF SentFillSpins
  <2>1. c \in 1..made /\ aCall[c].fill = form /\ UNCHANGED <<form, response>>
    BY <1>1
  <2> QED BY <2>1 DEF AccountSound, SentFillSpins
<1>3. FillSentOnce'
  <2> SUFFICES ASSUME NEW c \in 1..made', NEW d \in 1..made', c # d,
                      aCall'[c].fill = aCall'[d].fill, aCall'[c].fill # 0
               PROVE  aCall'[c].fill \in excused
    BY DEF FillSentOnce
  <2>1. c \in 1..made /\ d \in 1..made
    OBVIOUS
  <2> QED BY <1>1, <2>1 DEF AccountSound, FillSentOnce
<1> QED BY <1>2, <1>3

\* What was known of the calls holds after the next one is sent.
LEMMA SendKeepsCallsFit ==
    ASSUME AccountAssumption, AccountSound, made' = made + 1, aCall'[made'] \in Account!Call,
           aPc'[made'] = "sent", aCall'[made'].fill <= fills,
           \A c \in Account!CallNumbers \ {made'} : aCall'[c] = aCall[c],
           \A c \in Account!CallNumbers \ {made'} :
              aPc'[c] = aPc[c] \/ (aPc'[c] = "heard" /\ c <= made),
           \A c \in Account!CallNumbers : aAnswer'[c] = "none"
                                       \/ (aAnswer'[c] = aAnswer[c] /\ aGot'[c] = aGot[c]),
           UNCHANGED <<fills, committed>>, form' = 0 \/ form' = form, aTold' \subseteq committed
    PROVE  AccountCallsFit'
<1>1. made \in Nat /\ fills \in Nat /\ form <= fills
  BY AccountNumbers
<1>2. ASSUME NEW c \in Account!CallNumbers PROVE AccountCallFits(c)'
  <2>1. AccountCallFits(c) /\ c \in Nat
    BY DEF AccountSound, AccountCallsFit, Account!CallNumbers
  <2>2. CASE c = made'
    <3>1. c > made
      BY <1>1, <2>2
    <3>2. aAnswer'[c] = "none"
      BY <2>1, <3>1 DEF AccountCallFits
    <3> QED BY <1>1, <2>2, <3>2 DEF AccountCallFits
  <2>3. CASE c # made'
    <3>1. (c <= made' => c <= made) /\ (c > made' => c > made)
      BY <1>1, <2>1, <2>3
    <3>2. aCall'[c] = aCall[c] /\ (aPc'[c] = aPc[c] \/ (aPc'[c] = "heard" /\ c <= made))
      BY <2>3
    <3>3. c <= made' => aCall'[c] \in Account!Call /\ aPc'[c] # "new" /\ aCall'[c].fill <= fills'
      BY <2>1, <3>1, <3>2 DEF AccountCallFits
    <3>4. c > made' => aPc'[c] = "new" /\ aAnswer'[c] = "none"
      BY <1>1, <2>1, <3>1, <3>2 DEF AccountCallFits
    <3>5. aAnswer'[c] = "ok" =>
             /\ aGot'[c].status = "Success" /\ aGot'[c].account = aCall'[c].account
             /\ aCall'[c].op # "query" => c \in committed' /\ c \in aGot'[c].calls
      BY <2>1, <3>2 DEF AccountCallFits
    <3> QED BY <3>3, <3>4, <3>5 DEF AccountCallFits
  <2> QED BY <2>2, <2>3
<1>3. committed \subseteq 1..made'
  <2>1. committed \subseteq 1..made
    BY DEF AccountSound, AccountCallsFit
  <2> QED BY <1>1, <2>1
<1>4. form' <= fills'
  BY <1>1
<1> QED BY <1>2, <1>3, <1>4 DEF AccountCallsFit

\* Another page is opened, blank; the top page asks for its account.
LEMMA AccountGoKeeps ==
    ASSUME AccountAssumption, AccountSound, NEW r \in Account!Routes \cup {None}, Account!Go(r)
    PROVE  AccountSound'
<1>1. /\ route' = r /\ page' = r /\ aData' = Account!NoData /\ editing' = FALSE
      /\ saving' = "NotAsked" /\ form' = 0 /\ response' = "NotAsked"
      /\ aMarred' = (Account!InFlight # {})
      /\ UNCHANGED <<fills, aAnswer, aGot, committed, aTold, excused>>
  BY DEF Account!Go, Account!InitPage
<1>2. /\ AccountCalls \in Nat /\ AccountFills \in Nat /\ made \in Nat /\ fills \in Nat
      /\ fills >= 0 /\ Cardinality(AwaitedForms) \in Nat
      /\ made + Cardinality(AwaitedForms) <= AccountCalls /\ None \notin PageAccounts
  BY AccountNumbers DEF AccountAssumption, Account!AccountPageAssumption
<1>3. aData' \in AccountData /\ aData'.status = "NotAsked"
  BY <1>1, BlankFields
<1>4. HasTold' /\ Account!PageFollowsUrl'
  BY <1>1, <1>3 DEF HasTold, Account!PageFollowsUrl
<1>5. CASE UNCHANGED <<made, aCall, aPc>>
  <2>1. Account!TypeOK'
    <3>1. PageTypes'
      BY <1>1, BlankPageTyped
    <3>2. CallTypes'
      BY <1>1, <1>5, AccountTyped DEF CallTypes
    <3> QED BY <3>1, <3>2 DEF Account!TypeOK, PageTypes, CallTypes, AccountData
  <2>2. Account!InFlight' = Account!InFlight /\ AwaitedForms' = AwaitedForms
    BY <1>5 DEF Account!InFlight, AwaitedForms
  <2>3. RoomToAsk'
    BY <1>5, <2>2 DEF AccountSound, RoomToAsk
  <2>4. AccountCallsFit'
    <3>1. \A c \in Account!CallNumbers : AccountCallFits(c)'
      BY <1>1, <1>5 DEF AccountSound, AccountCallsFit, AccountCallFits
    <3> QED BY <1>1, <1>2, <1>5, <3>1 DEF AccountSound, AccountCallsFit
  <2>5. ~aMarred' => OwnPageOnly'
    BY <1>1, <2>2 DEF OwnPageOnly
  <2>6. SentFillSpins' /\ FillSentOnce'
    BY <1>1, <1>5 DEF AccountSound, SentFillSpins, FillSentOnce
  <2> QED BY <1>4, <2>1, <2>3, <2>4, <2>5, <2>6 DEF AccountSound
<1>6. CASE /\ r # None /\ r.sub = "top" /\ Account!Spare(1)
           /\ Account!Send([op |-> "query", account |-> r.account, fill |-> 0])
           /\ aPc' = [aPc EXCEPT ![made + 1] = "sent"]
  <2>1. PICK k : k = [op |-> "query", account |-> r.account, fill |-> 0]
    OBVIOUS
  <2>2. r \in Account!Routes /\ r.account \in PageAccounts
    BY <1>6, PageFields
  <2>3. k \in Account!Call /\ k.op = "query" /\ k.account = r.account /\ k.fill = 0
    BY <1>2, <2>1, <2>2 DEF Account!Call
  <2>4. Account!Cardinality(AwaitedForms) = Cardinality(AwaitedForms)
    BY SameFiniteSets
  <2>5. made + 1 + Cardinality(AwaitedForms) <= AccountCalls
    BY <1>6, <2>4 DEF Account!Spare, AwaitedForms
  <2>6. made < AccountCalls /\ Account!Send(k)
    BY <1>2, <1>6, <2>1, <2>5
  <2>7. aPc \in [Account!CallNumbers -> {"new", "sent", "served", "heard"}]
    BY DEF AccountSound, Account!TypeOK
  <2>8. /\ made' = made + 1 /\ made' \in 0..AccountCalls
        /\ made' \in Account!CallNumbers /\ made' \notin 1..made
        /\ aCall' \in [Account!CallNumbers -> Account!Call \cup {Account!NoCall}]
        /\ aPc' \in [Account!CallNumbers -> {"new", "sent", "served", "heard"}]
        /\ aCall'[made'] = k /\ aPc'[made'] = "sent" /\ aAnswer[made'] = "none"
        /\ \A c \in Account!CallNumbers \ {made'} : aCall'[c] = aCall[c] /\ aPc'[c] = aPc[c]
        /\ 1..made' = 1..made \cup {made'}
    BY <1>6, <2>3, <2>6, <2>7, AccountSendFacts
  <2>9. \A c \in 1..made : c # made' /\ c \in Account!CallNumbers
    BY <2>8, AccountNumbers
  <2>10. Account!TypeOK'
    <3>1. PageTypes'
      BY <1>1, BlankPageTyped
    <3>2. CallTypes'
      BY <1>1, <2>8, AccountTyped DEF CallTypes
    <3> QED BY <3>1, <3>2 DEF Account!TypeOK, PageTypes, CallTypes, AccountData
  <2>11. Account!InFlight' = Account!InFlight \cup {made'}
    BY <2>8, <2>9 DEF Account!InFlight
  <2>12. AwaitedForms' = AwaitedForms
    BY <2>3, <2>8, <2>9, <2>11, FormOps, InFlightOfAccount DEF AwaitedForms
  <2>13. RoomToAsk'
    BY <1>2, <2>5, <2>8, <2>12 DEF RoomToAsk
  <2>14. AccountCallsFit'
    <3>1. aTold' \subseteq committed
      BY <1>1 DEF AccountSound, AccountCallsFit
    <3>2. aCall'[made'] \in Account!Call /\ aCall'[made'].fill <= fills
      BY <1>2, <2>3, <2>8
    <3>3. \A c \in Account!CallNumbers : aAnswer'[c] = "none"
                                       \/ (aAnswer'[c] = aAnswer[c] /\ aGot'[c] = aGot[c])
      BY <1>1
    <3>4. \A c \in Account!CallNumbers \ {made'} :
             aPc'[c] = aPc[c] \/ (aPc'[c] = "heard" /\ c <= made)
      BY <2>8
    <3>5. UNCHANGED <<fills, committed>> /\ form' = 0
      BY <1>1
    <3> QED BY <2>8, <3>1, <3>2, <3>3, <3>4, <3>5, SendKeepsCallsFit
  <2>15. ~aMarred' => OwnPageOnly'
    <3> SUFFICES ASSUME Account!InFlight = {} PROVE OwnPageOnly'
      BY <1>1
    <3>1. Account!InFlight' = {made'}
      BY <2>11
    <3>2. Account!OnTop'
      BY <1>1, <1>6 DEF Account!OnTop
    <3>3. AwaitedIsOwn(made)'
      BY <1>1, <1>3, <1>6, <2>3, <2>8, <3>1, <3>2, FormOps DEF AwaitedIsOwn
    <3> QED BY <3>1, <3>3 DEF OwnPageOnly, AwaitedIsOwn
  <2>16. SentFillSpins' /\ FillSentOnce'
    BY <1>1, <2>3, <2>8, OtherSendKeepsFills
  <2> QED BY <1>4, <2>10, <2>13, <2>14, <2>15, <2>16 DEF AccountSound
<1> QED BY <1>5, <1>6 DEF Account!Go

\* A step that leaves the calls alone.
LEMMA CallsLeftAlone ==
    ASSUME AccountAssumption, AccountSound, PageTypes', fills' \in 0..AccountFills,
           fills <= fills', form' <= fills',
           UNCHANGED <<made, aCall, aPc, aAnswer, aGot, committed, aTold, excused, aMarred>>
    PROVE  /\ Account!TypeOK' /\ AccountCallsFit' /\ RoomToAsk' /\ FillSentOnce'
           /\ Account!InFlight' = Account!InFlight
<1>1. /\ fills \in Nat /\ fills' \in Nat
      /\ \A c \in Account!CallNumbers : AccountCallFits(c)
      /\ committed \subseteq 1..made /\ aTold \subseteq committed
  BY AccountNumbers DEF AccountSound, AccountCallsFit
<1>2. Account!TypeOK'
  <2>1. CallTypes'
    BY AccountTyped DEF CallTypes
  <2> QED BY <2>1 DEF Account!TypeOK, PageTypes, CallTypes, AccountData
<1>3. Account!InFlight' = Account!InFlight /\ AwaitedForms' = AwaitedForms
  BY DEF Account!InFlight, AwaitedForms
<1>4. RoomToAsk'
  BY <1>3 DEF AccountSound, RoomToAsk
<1>5. AccountCallsFit'
  <2>1. ASSUME NEW c \in Account!CallNumbers PROVE AccountCallFits(c)'
    <3>1. aCall[c] \in Account!Call => aCall[c].fill \in Nat
      BY AccountNumbers DEF Account!Call
    <3> QED BY <1>1, <3>1 DEF AccountCallFits
  <2> QED BY <1>1, <2>1 DEF AccountCallsFit
<1>6. FillSentOnce'
  BY DEF AccountSound, FillSentOnce
<1> QED BY <1>2, <1>3, <1>4, <1>5, <1>6

\* A form is filled in: no call has this fill yet.
LEMMA AccountFillKeeps ==
    ASSUME AccountAssumption, AccountSound, Account!Fill
    PROVE  AccountSound'
<1>1. /\ Account!OnForm /\ fills < AccountFills /\ fills' = fills + 1 /\ form' = fills + 1
      /\ UNCHANGED <<route, page, aData, editing, saving, response, aCall, aPc, aAnswer, aGot,
                     committed, made, aTold, excused, aMarred>>
  BY DEF Account!Fill, Account!serverVars
<1>2. fills \in Nat /\ AccountFills \in Nat
  BY AccountNumbers
<1>3. fills' \in 0..AccountFills /\ fills <= fills' /\ form' <= fills' /\ form' \in 0..AccountFills
  BY <1>1, <1>2
<1>4. PageTypes'
  <2>1. Account!OnForm' /\ (Account!OnTop' <=> Account!OnTop)
    BY <1>1 DEF Account!OnForm, Account!OnTop
  <2> QED BY <1>1, <1>3, <2>1, AccountTyped DEF PageTypes
<1>5. /\ Account!TypeOK' /\ AccountCallsFit' /\ RoomToAsk' /\ FillSentOnce'
      /\ Account!InFlight' = Account!InFlight
  BY <1>1, <1>3, <1>4, CallsLeftAlone
<1>6. ~aMarred' => OwnPageOnly' /\ HasTold'
  BY <1>1, <1>5 DEF AccountSound, OwnPageOnly, HasTold, AwaitedIsOwn, Account!OnTop,
     Account!OnForm
<1>7. Account!PageFollowsUrl'
  BY <1>1 DEF AccountSound, Account!PageFollowsUrl
<1>8. SentFillSpins'
  <2>1. ASSUME NEW c \in 1..made PROVE aCall[c].fill # fills + 1
    <3>1. AccountCallFits(c) /\ c <= made
      BY AccountNumbers DEF AccountSound, AccountCallsFit
    <3>2. aCall[c].fill \in Nat /\ aCall[c].fill <= fills
      BY <3>1, AccountNumbers DEF AccountCallFits, Account!Call
    <3> QED BY <1>2, <3>2
  <2> QED BY <1>1, <2>1 DEF SentFillSpins
<1> QED BY <1>5, <1>6, <1>7, <1>8 DEF AccountSound

\* The field for a new rate is there when the account is: no query is awaited.
LEMMA EditRateKeeps ==
    ASSUME AccountAssumption, AccountSound, Account!EditRate
    PROVE  AccountSound'
<1>1. /\ Account!OnTop /\ aData.status = "Success" /\ ~editing /\ editing' = TRUE
      /\ UNCHANGED <<route, page, aData, saving, form, response, aCall, aPc, aAnswer, aGot,
                     committed, made, fills, aTold, excused, aMarred>>
  BY DEF Account!EditRate, Account!serverVars
<1>2. fills' \in 0..AccountFills /\ fills <= fills' /\ form' <= fills'
  BY <1>1, AccountNumbers
<1>3. PageTypes'
  <2>1. Account!OnTop' /\ (Account!OnForm' <=> Account!OnForm)
    BY <1>1 DEF Account!OnForm, Account!OnTop
  <2> QED BY <1>1, <2>1, AccountTyped DEF PageTypes
<1>4. /\ Account!TypeOK' /\ AccountCallsFit' /\ RoomToAsk' /\ FillSentOnce'
      /\ Account!InFlight' = Account!InFlight
  BY <1>1, <1>2, <1>3, CallsLeftAlone
<1>5. ~aMarred' => OwnPageOnly' /\ HasTold'
  <2> SUFFICES ASSUME ~aMarred PROVE OwnPageOnly' /\ HasTold'
    BY <1>1
  <2>1. ASSUME NEW c \in Account!InFlight PROVE AwaitedIsOwn(c)'
    <3>1. AwaitedIsOwn(c)
      BY DEF AccountSound, OwnPageOnly
    <3>2. aCall[c].op # "query"
      BY <1>1, <3>1 DEF AwaitedIsOwn
    <3> QED BY <1>1, <1>4, <3>1, <3>2 DEF AwaitedIsOwn, Account!OnTop, Account!OnForm
  <2>2. HasTold'
    BY <1>1 DEF AccountSound, HasTold, Account!OnTop
  <2> QED BY <1>4, <2>1, <2>2 DEF OwnPageOnly
<1>6. Account!PageFollowsUrl' /\ SentFillSpins'
  BY <1>1 DEF AccountSound, Account!PageFollowsUrl, SentFillSpins
<1> QED BY <1>4, <1>5, <1>6 DEF AccountSound

\* It goes when no new rate is awaited.
LEMMA CancelRateKeeps ==
    ASSUME AccountAssumption, AccountSound, Account!CancelRate
    PROVE  AccountSound'
<1>1. /\ Account!OnTop /\ saving # "Loading" /\ editing' = FALSE /\ saving' = "NotAsked"
      /\ UNCHANGED <<route, page, aData, form, response, aCall, aPc, aAnswer, aGot,
                     committed, made, fills, aTold, excused, aMarred>>
  BY DEF Account!CancelRate, Account!serverVars
<1>2. fills' \in 0..AccountFills /\ fills <= fills' /\ form' <= fills'
  BY <1>1, AccountNumbers
<1>3. PageTypes'
  <2>1. Account!OnTop' /\ (Account!OnForm' <=> Account!OnForm)
    BY <1>1 DEF Account!OnForm, Account!OnTop
  <2>2. saving' \in Account!RemoteData
    BY <1>1 DEF Account!RemoteData
  <2> QED BY <1>1, <2>1, <2>2, AccountTyped DEF PageTypes
<1>4. /\ Account!TypeOK' /\ AccountCallsFit' /\ RoomToAsk' /\ FillSentOnce'
      /\ Account!InFlight' = Account!InFlight
  BY <1>1, <1>2, <1>3, CallsLeftAlone
<1>5. ~aMarred' => OwnPageOnly' /\ HasTold'
  <2> SUFFICES ASSUME ~aMarred PROVE OwnPageOnly' /\ HasTold'
    BY <1>1
  <2>1. ASSUME NEW c \in Account!InFlight PROVE AwaitedIsOwn(c)'
    <3>1. AwaitedIsOwn(c)
      BY DEF AccountSound, OwnPageOnly
    <3>2. aCall[c].op # "rate"
      BY <1>1, <3>1 DEF AwaitedIsOwn
    <3> QED BY <1>1, <1>4, <3>1, <3>2 DEF AwaitedIsOwn, Account!OnTop, Account!OnForm
  <2>2. HasTold'
    BY <1>1 DEF AccountSound, HasTold, Account!OnTop
  <2> QED BY <1>4, <2>1, <2>2 DEF OwnPageOnly
<1>6. Account!PageFollowsUrl' /\ SentFillSpins'
  BY <1>1 DEF AccountSound, Account!PageFollowsUrl, SentFillSpins
<1> QED BY <1>4, <1>5, <1>6 DEF AccountSound

\* A form is submitted, perhaps a second time; a call is left for what follows.
LEMMA AccountSubmitKeeps ==
    ASSUME AccountAssumption, AccountSound, Account!Submit
    PROVE  AccountSound'
<1>1. /\ Account!OnForm /\ form # 0 /\ Account!Spare(2) /\ response' = "Loading"
      /\ aPc' = [aPc EXCEPT ![made + 1] = "sent"]
      /\ excused' = IF response = "Loading" THEN excused \cup {form} ELSE excused
      /\ UNCHANGED <<route, page, aData, editing, saving, form, aAnswer, aGot, committed, fills,
                     aTold, aMarred>>
  BY DEF Account!Submit
<1>2. PICK k : k = [op |-> page.sub, account |-> page.account, fill |-> form]
  OBVIOUS
<1>3. Account!Send(k)
  BY <1>2 DEF Account!Submit, Account!Ask
<1>4. /\ AccountCalls \in Nat /\ AccountFills \in Nat /\ made \in Nat /\ fills \in Nat
      /\ form \in 1..AccountFills /\ form <= fills /\ IsFiniteSet(AwaitedForms)
      /\ Cardinality(AwaitedForms) \in Nat /\ None \notin PageAccounts
  BY <1>1, AccountNumbers DEF AccountAssumption, Account!AccountPageAssumption
<1>5. page # None /\ page \in Account!Routes /\ page.sub \in Account!Forms
  BY <1>1, AccountTyped DEF Account!OnForm, PageTypes
<1>6. k \in Account!Call /\ k.op = page.sub /\ k.account = page.account /\ k.fill = form
  <2>1. page.account \in PageAccounts
    BY <1>5, PageFields
  <2>2. form \in 0..AccountFills
    BY <1>4
  <2> QED BY <1>2, <1>5, <2>1, <2>2 DEF Account!Call
<1>7. Account!Cardinality(AwaitedForms) = Cardinality(AwaitedForms)
  BY SameFiniteSets
<1>8. made + 2 + Cardinality(AwaitedForms) <= AccountCalls
  BY <1>1, <1>7 DEF Account!Spare, AwaitedForms
<1>9. made < AccountCalls
  BY <1>4, <1>8
<1>10. aPc \in [Account!CallNumbers -> {"new", "sent", "served", "heard"}]
  BY DEF AccountSound, Account!TypeOK
<1>11. /\ made' = made + 1 /\ made' \in 0..AccountCalls
       /\ made' \in Account!CallNumbers /\ made' \notin 1..made
       /\ aCall' \in [Account!CallNumbers -> Account!Call \cup {Account!NoCall}]
       /\ aPc' \in [Account!CallNumbers -> {"new", "sent", "served", "heard"}]
       /\ aCall'[made'] = k /\ aPc'[made'] = "sent" /\ aAnswer[made'] = "none"
       /\ \A c \in Account!CallNumbers \ {made'} : aCall'[c] = aCall[c] /\ aPc'[c] = aPc[c]
       /\ 1..made' = 1..made \cup {made'}
  BY <1>1, <1>3, <1>6, <1>9, <1>10, AccountSendFacts
<1>12. \A c \in 1..made : c # made' /\ c \in Account!CallNumbers
  BY <1>11, AccountNumbers
<1>13. \A c \in 1..made : aCall'[c] = aCall[c]
  BY <1>11, <1>12
<1>14. Account!TypeOK'
  <2>1. Account!OnForm' /\ (Account!OnTop' <=> Account!OnTop)
    BY <1>1 DEF Account!OnForm, Account!OnTop
  <2>2. response' \in Account!RemoteData
    BY <1>1 DEF Account!RemoteData
  <2>3. PageTypes'
    BY <1>1, <2>1, <2>2, AccountTyped DEF PageTypes
  <2>4. excused' \subseteq 1..AccountFills
    BY <1>1, <1>4, AccountTyped DEF CallTypes
  <2>5. CallTypes'
    BY <1>1, <1>11, <2>4, AccountTyped DEF CallTypes
  <2> QED BY <2>3, <2>5 DEF Account!TypeOK, PageTypes, CallTypes, AccountData
<1>15. Account!InFlight' = Account!InFlight \cup {made'}
  BY <1>11, <1>12 DEF Account!InFlight
<1>16. RoomToAsk'
  <2>1. AwaitedForms' = AwaitedForms \cup {made'} /\ made' \notin AwaitedForms
    BY <1>5, <1>6, <1>11, <1>12, <1>13, <1>15 DEF AwaitedForms, Account!InFlight
  <2>2. Cardinality(AwaitedForms \cup {made'}) = Cardinality(AwaitedForms) + 1
    BY <1>4, <2>1, FS_AddElement
  <2>3. Cardinality(AwaitedForms') = Cardinality(AwaitedForms) + 1
    BY <2>1, <2>2
  <2> QED BY <1>4, <1>8, <1>11, <2>3 DEF RoomToAsk
<1>17. AccountCallsFit'
  <2>1. aTold' \subseteq committed
    BY <1>1 DEF AccountSound, AccountCallsFit
  <2>2. aCall'[made'] \in Account!Call /\ aCall'[made'].fill <= fills
    BY <1>4, <1>6, <1>11
  <2>3. \A c \in Account!CallNumbers : aAnswer'[c] = "none"
                                     \/ (aAnswer'[c] = aAnswer[c] /\ aGot'[c] = aGot[c])
    BY <1>1
  <2>4. \A c \in Account!CallNumbers \ {made'} :
           aPc'[c] = aPc[c] \/ (aPc'[c] = "heard" /\ c <= made)
    BY <1>11
  <2>5. UNCHANGED <<fills, committed>> /\ form' = form
    BY <1>1
  <2> QED BY <1>11, <2>1, <2>2, <2>3, <2>4, <2>5, SendKeepsCallsFit
<1>18. ~aMarred' => OwnPageOnly' /\ HasTold'
  <2> SUFFICES ASSUME ~aMarred PROVE OwnPageOnly' /\ HasTold'
    BY <1>1
  <2>1. Account!OnForm' /\ ~Account!OnTop'
    BY <1>1, FormOps DEF Account!OnForm, Account!OnTop
  <2>2. AwaitedIsOwn(made)'
    BY <1>1, <1>5, <1>6, <1>11, <2>1, FormOps DEF AwaitedIsOwn
  <2>3. ASSUME NEW c \in Account!InFlight PROVE AwaitedIsOwn(c)'
    <3>1. AwaitedIsOwn(c) /\ c \in 1..made
      BY DEF AccountSound, OwnPageOnly, Account!InFlight
    <3>2. aCall'[c] = aCall[c] /\ aCall[c].op = page.sub
      BY <1>1, <1>13, <3>1, FormOps DEF AwaitedIsOwn, Account!OnForm, Account!OnTop
    <3> QED BY <1>1, <2>1, <3>1, <3>2 DEF AwaitedIsOwn
  <2> QED BY <1>15, <2>1, <2>2, <2>3 DEF OwnPageOnly, HasTold, AwaitedIsOwn
<1>19. Account!PageFollowsUrl' /\ SentFillSpins'
  BY <1>1 DEF AccountSound, Account!PageFollowsUrl, SentFillSpins
<1>20. FillSentOnce'
  <2>1. ASSUME NEW c \in 1..made, aCall[c].fill = form PROVE form \in excused'
    BY <1>1, <2>1 DEF AccountSound, SentFillSpins
  <2> SUFFICES ASSUME NEW c \in 1..made', NEW d \in 1..made', c # d,
                      aCall'[c].fill = aCall'[d].fill, aCall'[c].fill # 0
               PROVE  aCall'[c].fill \in excused'
    BY DEF FillSentOnce
  <2>2. CASE c = made' \/ d = made'
    <3>1. aCall'[c].fill = form
      BY <1>6, <1>11, <2>2
    <3>2. PICK e \in 1..made : aCall[e].fill = form
      BY <1>11, <1>13, <2>2, <3>1
    <3> QED BY <2>1, <3>1, <3>2
  <2>3. CASE c # made' /\ d # made'
    <3>1. c \in 1..made /\ d \in 1..made
      BY <1>11, <2>3
    <3>2. aCall'[c] = aCall[c] /\ aCall'[d] = aCall[d]
      BY <1>13, <3>1
    <3>3. aCall[c].fill \in excused
      BY <3>1, <3>2 DEF AccountSound, FillSentOnce
    <3> QED BY <1>1, <3>2, <3>3
  <2> QED BY <2>2, <2>3
<1> QED BY <1>14, <1>16, <1>17, <1>18, <1>19, <1>20 DEF AccountSound

\* A new rate is sent: on an unmarred page nothing else is awaited.
LEMMA SaveRateKeeps ==
    ASSUME AccountAssumption, AccountSound, Account!SaveRate
    PROVE  AccountSound'
<1>1. /\ Account!OnTop /\ editing /\ saving # "Loading" /\ Account!Spare(1)
      /\ saving' = "Loading" /\ aPc' = [aPc EXCEPT ![made + 1] = "sent"]
      /\ UNCHANGED <<route, page, aData, editing, form, response, aAnswer, aGot, committed, fills,
                     aTold, excused, aMarred>>
  BY DEF Account!SaveRate
<1>2. PICK k : k = [op |-> "rate", account |-> page.account, fill |-> 0]
  OBVIOUS
<1>3. Account!Send(k)
  BY <1>2 DEF Account!SaveRate, Account!Ask
<1>4. /\ AccountCalls \in Nat /\ AccountFills \in Nat /\ made \in Nat /\ fills \in Nat
      /\ Cardinality(AwaitedForms) \in Nat /\ None \notin PageAccounts
  BY AccountNumbers DEF AccountAssumption, Account!AccountPageAssumption
<1>5. page # None /\ page \in Account!Routes /\ page.account \in PageAccounts
  BY <1>1, AccountTyped, PageFields DEF Account!OnTop, PageTypes
<1>6. k \in Account!Call /\ k.op = "rate" /\ k.account = page.account /\ k.fill = 0
  BY <1>2, <1>4, <1>5 DEF Account!Call
<1>7. Account!Cardinality(AwaitedForms) = Cardinality(AwaitedForms)
  BY SameFiniteSets
<1>8. made + 1 + Cardinality(AwaitedForms) <= AccountCalls
  BY <1>1, <1>7 DEF Account!Spare, AwaitedForms
<1>9. made < AccountCalls
  BY <1>4, <1>8
<1>10. aPc \in [Account!CallNumbers -> {"new", "sent", "served", "heard"}]
  BY DEF AccountSound, Account!TypeOK
<1>11. /\ made' = made + 1 /\ made' \in 0..AccountCalls
       /\ made' \in Account!CallNumbers /\ made' \notin 1..made
       /\ aCall' \in [Account!CallNumbers -> Account!Call \cup {Account!NoCall}]
       /\ aPc' \in [Account!CallNumbers -> {"new", "sent", "served", "heard"}]
       /\ aCall'[made'] = k /\ aPc'[made'] = "sent" /\ aAnswer[made'] = "none"
       /\ \A c \in Account!CallNumbers \ {made'} : aCall'[c] = aCall[c] /\ aPc'[c] = aPc[c]
       /\ 1..made' = 1..made \cup {made'}
  BY <1>1, <1>3, <1>6, <1>9, <1>10, AccountSendFacts
<1>12. \A c \in 1..made : c # made' /\ c \in Account!CallNumbers /\ aCall'[c] = aCall[c]
  BY <1>11, AccountNumbers
<1>13. Account!TypeOK'
  <2>1. Account!OnTop' /\ (Account!OnForm' <=> Account!OnForm)
    BY <1>1 DEF Account!OnForm, Account!OnTop
  <2>2. saving' \in Account!RemoteData
    BY <1>1 DEF Account!RemoteData
  <2>3. PageTypes'
    BY <1>1, <2>1, <2>2, AccountTyped DEF PageTypes
  <2>4. CallTypes'
    BY <1>1, <1>11, AccountTyped DEF CallTypes
  <2> QED BY <2>3, <2>4 DEF Account!TypeOK, PageTypes, CallTypes, AccountData
<1>14. Account!InFlight' = Account!InFlight \cup {made'}
  BY <1>11, <1>12 DEF Account!InFlight
<1>15. RoomToAsk'
  <2>1. AwaitedForms' = AwaitedForms
    BY <1>6, <1>11, <1>12, <1>14, FormOps DEF AwaitedForms, Account!InFlight
  <2> QED BY <1>4, <1>8, <1>11, <2>1 DEF RoomToAsk
<1>16. AccountCallsFit'
  <2>1. aTold' \subseteq committed
    BY <1>1 DEF AccountSound, AccountCallsFit
  <2>2. aCall'[made'] \in Account!Call /\ aCall'[made'].fill <= fills
    BY <1>4, <1>6, <1>11, AccountNumbers
  <2>3. \A c \in Account!CallNumbers : aAnswer'[c] = "none"
                                     \/ (aAnswer'[c] = aAnswer[c] /\ aGot'[c] = aGot[c])
    BY <1>1
  <2>4. \A c \in Account!CallNumbers \ {made'} :
           aPc'[c] = aPc[c] \/ (aPc'[c] = "heard" /\ c <= made)
    BY <1>11
  <2>5. UNCHANGED <<fills, committed>> /\ form' = form
    BY <1>1
  <2> QED BY <1>11, <2>1, <2>2, <2>3, <2>4, <2>5, SendKeepsCallsFit
<1>17. ~aMarred' => OwnPageOnly' /\ HasTold'
  <2> SUFFICES ASSUME ~aMarred PROVE OwnPageOnly' /\ HasTold'
    BY <1>1
  <2>1. Account!OnTop' /\ ~Account!OnForm
    BY <1>1, FormOps DEF Account!OnForm, Account!OnTop
  <2>2. Account!InFlight = {}
    <3> SUFFICES ASSUME NEW c \in Account!InFlight PROVE FALSE
      OBVIOUS
    <3>1. AwaitedIsOwn(c)
      BY DEF AccountSound, OwnPageOnly
    <3> QED BY <1>1, <2>1, <3>1 DEF AwaitedIsOwn
  <2>3. Account!InFlight' = {made'}
    BY <1>14, <2>2
  <2>4. AwaitedIsOwn(made)'
    BY <1>1, <1>5, <1>6, <1>11, <2>1, <2>3, FormOps DEF AwaitedIsOwn
  <2>5. OwnPageOnly'
    BY <2>3, <2>4 DEF OwnPageOnly, AwaitedIsOwn
  <2>6. \A d \in aTold : aCall'[d] = aCall[d]
    BY <1>12 DEF AccountSound, AccountCallsFit
  <2>7. HasTold
    BY DEF AccountSound
  <2>8. HasTold'
    BY <1>1, <2>6, <2>7 DEF HasTold
  <2> QED BY <2>5, <2>8
<1>18. Account!PageFollowsUrl'
  BY <1>1 DEF AccountSound, Account!PageFollowsUrl
<1>19. SentFillSpins' /\ FillSentOnce'
  <2>1. UNCHANGED <<excused, form, response>> /\ aCall'[made'].fill = 0
    BY <1>1, <1>6, <1>11
  <2> QED BY <1>11, <2>1, OtherSendKeepsFills
<1> QED BY <1>13, <1>15, <1>16, <1>17, <1>18, <1>19 DEF AccountSound

\* The server carries a call out: the account it answers with has every change so far.
LEMMA AccountExecuteKeeps ==
    ASSUME AccountAssumption, AccountSound, NEW c \in Account!CallNumbers, Account!Execute(c)
    PROVE  AccountSound'
<1>1. /\ c \in 1..made /\ aPc[c] = "sent" /\ aPc' = [aPc EXCEPT ![c] = "served"]
      /\ UNCHANGED <<route, page, aData, editing, saving, form, response, aCall, made, fills,
                     aTold, excused, aMarred>>
  BY DEF Account!Execute, Account!pageVars
<1>2. PICK result \in {"ok", "failed"}, commits \in BOOLEAN :
         /\ commits => aCall[c].op # "query"
         /\ result = "ok" /\ aCall[c].op # "query" => commits
         /\ committed' = IF commits THEN committed \cup {c} ELSE committed
         /\ aAnswer' = [aAnswer EXCEPT ![c] = result]
         /\ aGot' = [aGot EXCEPT ![c] = IF result = "ok"
                                        THEN Account!Snapshot(aCall[c].account, committed')
                                        ELSE Account!NoData]
  BY <1>1 DEF Account!Execute
<1>3. c \in Account!InFlight
  BY <1>1 DEF Account!InFlight
<1>4. /\ aCall[c] \in Account!Call /\ AccountCallFits(c) /\ aCall[c].account \in PageAccounts
  BY <1>3, InFlightOfAccount
<1>5. committed \subseteq committed' /\ committed' \subseteq 1..made
      /\ 1..made \subseteq Account!CallNumbers
  BY <1>1, <1>2, AccountNumbers DEF AccountSound, AccountCallsFit
<1>6. PICK s : s = Account!Snapshot(aCall[c].account, committed')
  OBVIOUS
<1>7. /\ s \in AccountData /\ s.status = "Success" /\ s.account = aCall[c].account
      /\ \A d \in committed' : aCall[d].account = aCall[c].account => d \in s.calls
  <2>1. {d \in committed' : aCall[d].account = aCall[c].account} \subseteq Account!CallNumbers
    BY <1>5
  <2> QED BY <1>4, <1>6, <2>1 DEF Account!Snapshot, AccountData, Account!RemoteData
<1>8. /\ aPc \in [Account!CallNumbers -> {"new", "sent", "served", "heard"}]
      /\ aAnswer \in [Account!CallNumbers -> {"none", "ok", "failed"}]
      /\ aGot \in [Account!CallNumbers -> AccountData]
  BY AccountTyped DEF CallTypes
<1>9. /\ aAnswer'[c] = result /\ (result = "ok" => aGot'[c] = s)
      /\ \A d \in Account!CallNumbers \ {c} :
            aAnswer'[d] = aAnswer[d] /\ aGot'[d] = aGot[d] /\ aPc'[d] = aPc[d]
  BY <1>1, <1>2, <1>6, <1>8
<1>10. Account!TypeOK'
  <2>1. PageTypes'
    BY <1>1, AccountTyped DEF PageTypes, Account!OnTop, Account!OnForm
  <2>2. aGot' \in [Account!CallNumbers -> AccountData]
    BY <1>2, <1>6, <1>7, <1>8, BlankFields
  <2>3. /\ aPc' \in [Account!CallNumbers -> {"new", "sent", "served", "heard"}]
        /\ aAnswer' \in [Account!CallNumbers -> {"none", "ok", "failed"}]
    BY <1>1, <1>2, <1>8
  <2>4. CallTypes'
    BY <1>1, <1>5, <2>2, <2>3, AccountTyped DEF CallTypes
  <2> QED BY <2>1, <2>4 DEF Account!TypeOK, PageTypes, CallTypes, AccountData
<1>11. Account!InFlight' = Account!InFlight /\ AwaitedForms' = AwaitedForms
  BY <1>1, <1>8 DEF Account!InFlight, AwaitedForms
<1>12. RoomToAsk'
  BY <1>1, <1>11 DEF AccountSound, RoomToAsk
<1>13. AccountCallsFit'
  <2>1. ASSUME NEW d \in Account!CallNumbers PROVE AccountCallFits(d)'
    <3>1. AccountCallFits(d)
      BY DEF AccountSound, AccountCallsFit
    <3>2. CASE d = c
      <4>1. c <= made /\ ~(c > made)
        BY <1>1, AccountNumbers
      <4>2. aPc'[c] = "served"
        BY <1>1, <1>8
      <4>3. aAnswer'[c] = "ok" =>
               /\ aGot'[c].status = "Success" /\ aGot'[c].account = aCall[c].account
               /\ aCall[c].op # "query" => c \in committed' /\ c \in aGot'[c].calls
        BY <1>2, <1>7, <1>9
      <4> QED BY <1>1, <1>4, <3>2, <4>1, <4>2, <4>3 DEF AccountCallFits
    <3>3. CASE d # c
      BY <1>1, <1>5, <1>9, <3>1, <3>3 DEF AccountCallFits
    <3> QED BY <3>2, <3>3
  <2> QED BY <1>1, <1>5, <2>1 DEF AccountSound, AccountCallsFit
<1>14. ~aMarred' => OwnPageOnly' /\ HasTold'
  <2> SUFFICES ASSUME ~aMarred PROVE OwnPageOnly' /\ HasTold'
    BY <1>1
  <2>1. ASSUME NEW d \in Account!InFlight PROVE AwaitedIsOwn(d)'
    <3>1. AwaitedIsOwn(d) /\ d \in Account!CallNumbers
      BY InFlightOfAccount DEF AccountSound, OwnPageOnly
    <3>2. Account!OnTop' /\ aAnswer'[d] = "ok" =>
             \A e \in aTold : aCall[e].account = page.account => e \in aGot'[d].calls
      <4>1. CASE d = c
        <5>1. aTold \subseteq committed'
          BY <1>5 DEF AccountSound, AccountCallsFit
        <5>2. page.account = aCall[c].account
          BY <3>1, <4>1 DEF AwaitedIsOwn
        <5> QED BY <1>7, <1>9, <4>1, <5>1, <5>2
      <4>2. CASE d # c
        BY <1>1, <1>9, <3>1, <4>2 DEF AwaitedIsOwn, Account!OnTop
      <4> QED BY <4>1, <4>2
    <3> QED BY <1>1, <1>11, <3>1, <3>2 DEF AwaitedIsOwn, Account!OnTop, Account!OnForm
  <2>2. HasTold'
    BY <1>1 DEF AccountSound, HasTold, Account!OnTop
  <2> QED BY <1>11, <2>1, <2>2 DEF OwnPageOnly
<1>15. Account!PageFollowsUrl' /\ SentFillSpins' /\ FillSentOnce'
  BY <1>1 DEF AccountSound, Account!PageFollowsUrl, SentFillSpins, FillSentOnce
<1> QED BY <1>10, <1>12, <1>13, <1>14, <1>15 DEF AccountSound

\* An answer takes its call out of what is awaited.
LEMMA AccountAnswerTaken ==
    ASSUME AccountAssumption, AccountSound, NEW c \in Account!InFlight, Account!Forget(c)
    PROVE  /\ aAnswer' \in [Account!CallNumbers -> {"none", "ok", "failed"}]
           /\ aGot' \in [Account!CallNumbers -> AccountData]
           /\ aAnswer'[c] = "none"
           /\ \A d \in Account!CallNumbers \ {c} : aAnswer'[d] = aAnswer[d] /\ aGot'[d] = aGot[d]
           /\ aPc \in [Account!CallNumbers -> {"new", "sent", "served", "heard"}]
           /\ [aPc EXCEPT ![c] = "heard"] \in
                 [Account!CallNumbers -> {"new", "sent", "served", "heard"}]
           /\ c <= made /\ aPc[c] # "new"
<1>1. c \in Account!CallNumbers /\ c \in 1..made /\ AccountCallFits(c)
  BY InFlightOfAccount
<1>2. /\ aAnswer \in [Account!CallNumbers -> {"none", "ok", "failed"}]
      /\ aGot \in [Account!CallNumbers -> AccountData]
      /\ aPc \in [Account!CallNumbers -> {"new", "sent", "served", "heard"}]
  BY AccountTyped DEF CallTypes
<1>3. aAnswer' = [aAnswer EXCEPT ![c] = "none"] /\ aGot' = [aGot EXCEPT ![c] = Account!NoData]
  BY DEF Account!Forget
<1>4. c <= made /\ aPc[c] # "new"
  BY <1>1, AccountNumbers DEF AccountCallFits
<1> QED BY <1>1, <1>2, <1>3, <1>4, BlankFields

\* A submission has succeeded: the top page asks for its account.
LEMMA AccountSucceedKeeps ==
    ASSUME AccountAssumption, AccountSound, NEW c \in Account!InFlight,
           Account!Reaches(c), aCall[c].op \in Account!Forms, aAnswer[c] = "ok",
           Account!Succeed(c), Account!Note(c, "ok"), Account!Forget(c),
           UNCHANGED <<fills, committed>>
    PROVE  AccountSound'
<1>1. /\ c \in 1..made /\ c \in Account!CallNumbers /\ aPc[c] # "heard"
      /\ aCall[c] \in Account!Call /\ AccountCallFits(c)
  BY InFlightOfAccount
<1>2. Account!OnForm /\ aCall[c].op = page.sub
  BY FormOps DEF Account!Reaches
<1>3. page # None /\ page \in Account!Routes /\ page.account \in PageAccounts
  BY <1>2, AccountTyped, PageFields DEF Account!OnForm, PageTypes
<1>4. PICK r : r = [account |-> page.account, sub |-> "top"]
  OBVIOUS
<1>5. r \in Account!Routes /\ r.account = page.account /\ r.sub = "top"
  BY <1>3, <1>4, PageFields
<1>6. /\ route' = r /\ page' = r /\ aData' = Account!NoData /\ editing' = FALSE
      /\ saving' = "NotAsked" /\ form' = 0 /\ response' = "NotAsked"
      /\ aMarred' = (Account!InFlight # {c})
  BY <1>4 DEF Account!Succeed, Account!InitPage
<1>7. PICK k : k = [op |-> "query", account |-> page.account, fill |-> 0]
  OBVIOUS
<1>8. Account!Send(k)
  BY <1>7 DEF Account!Succeed, Account!Ask
<1>9. /\ AccountCalls \in Nat /\ AccountFills \in Nat /\ made \in Nat /\ fills \in Nat
      /\ IsFiniteSet(AwaitedForms) /\ Cardinality(AwaitedForms) \in Nat
      /\ made + Cardinality(AwaitedForms) <= AccountCalls
      /\ None \notin PageAccounts /\ None \notin Account!Routes
  BY AccountNumbers DEF AccountAssumption, Account!AccountPageAssumption
<1>10. k \in Account!Call /\ k.op = "query" /\ k.account = page.account /\ k.fill = 0
  BY <1>3, <1>7, <1>9 DEF Account!Call
<1>11. /\ Cardinality(AwaitedForms \ {c}) \in Nat
       /\ Cardinality(AwaitedForms \ {c}) = Cardinality(AwaitedForms) - 1
  <2>1. c \in AwaitedForms
    BY DEF AwaitedForms
  <2> QED BY <1>9, <2>1, FS_RemoveElement, FS_CardinalityType
<1>12. made < AccountCalls
  BY <1>9, <1>11
<1>13. PICK rest : rest = [aPc EXCEPT ![c] = "heard"]
  OBVIOUS
<1>14. aPc' = [rest EXCEPT ![made + 1] = "sent"]
  BY <1>13 DEF Account!Succeed
<1>15. /\ aAnswer' \in [Account!CallNumbers -> {"none", "ok", "failed"}]
       /\ aGot' \in [Account!CallNumbers -> AccountData]
       /\ aAnswer'[c] = "none"
       /\ \A d \in Account!CallNumbers \ {c} : aAnswer'[d] = aAnswer[d] /\ aGot'[d] = aGot[d]
       /\ rest \in [Account!CallNumbers -> {"new", "sent", "served", "heard"}]
       /\ c <= made /\ aPc[c] # "new"
  BY <1>13, AccountAnswerTaken
<1>16. /\ made' = made + 1 /\ made' \in 0..AccountCalls
       /\ made' \in Account!CallNumbers /\ made' \notin 1..made
       /\ aCall' \in [Account!CallNumbers -> Account!Call \cup {Account!NoCall}]
       /\ aPc' \in [Account!CallNumbers -> {"new", "sent", "served", "heard"}]
       /\ aCall'[made'] = k /\ aPc'[made'] = "sent" /\ aAnswer[made'] = "none"
       /\ \A d \in Account!CallNumbers \ {made'} : aCall'[d] = aCall[d] /\ aPc'[d] = rest[d]
       /\ 1..made' = 1..made \cup {made'}
  BY <1>8, <1>10, <1>12, <1>14, <1>15, AccountSendFacts
<1>17. \A d \in Account!CallNumbers : rest[d] = IF d = c THEN "heard" ELSE aPc[d]
  BY <1>1, <1>13, AccountTyped DEF CallTypes
<1>18. \A d \in 1..made : d # made' /\ d \in Account!CallNumbers /\ aCall'[d] = aCall[d]
  BY <1>16, AccountNumbers
<1>19. /\ excused' = excused /\ aTold' = aTold \cup {c} /\ c \in committed
  <2>1. c \in committed
    BY <1>1, FormOps DEF AccountCallFits
  <2> QED BY <2>1, FormOps DEF Account!Note
<1>20. Account!TypeOK'
  <2>1. PageTypes'
    BY <1>5, <1>6, BlankPageTyped
  <2>2. aTold' \subseteq Account!CallNumbers /\ aMarred' \in BOOLEAN
    BY <1>1, <1>6, <1>19, AccountTyped DEF CallTypes
  <2>3. CallTypes'
    BY <1>15, <1>16, <1>19, <2>2, AccountTyped DEF CallTypes
  <2> QED BY <2>1, <2>3 DEF Account!TypeOK, PageTypes, CallTypes, AccountData
<1>21. Account!InFlight' = (Account!InFlight \ {c}) \cup {made'}
  BY <1>1, <1>16, <1>17, <1>18 DEF Account!InFlight
<1>22. RoomToAsk'
  <2>1. AwaitedForms' = AwaitedForms \ {c}
    BY <1>10, <1>16, <1>18, <1>21, FormOps DEF AwaitedForms, Account!InFlight
  <2> QED BY <1>9, <1>11, <1>16, <2>1 DEF RoomToAsk
<1>23. AccountCallsFit'
  <2>1. aTold' \subseteq committed
    BY <1>19 DEF AccountSound, AccountCallsFit
  <2>2. aCall'[made'] \in Account!Call /\ aCall'[made'].fill <= fills
    BY <1>9, <1>10, <1>16
  <2>3. \A d \in Account!CallNumbers : aAnswer'[d] = "none"
                                     \/ (aAnswer'[d] = aAnswer[d] /\ aGot'[d] = aGot[d])
    BY <1>15
  <2>4. \A d \in Account!CallNumbers \ {made'} :
           aPc'[d] = aPc[d] \/ (aPc'[d] = "heard" /\ d <= made)
    BY <1>15, <1>16, <1>17
  <2>5. UNCHANGED <<fills, committed>> /\ form' = 0
    BY <1>6
  <2>6. \A d \in Account!CallNumbers \ {made'} : aCall'[d] = aCall[d]
    BY <1>16
  <2> QED BY <1>16, <2>1, <2>2, <2>3, <2>4, <2>5, <2>6, SendKeepsCallsFit
<1>24. aData'.status = "NotAsked"
  BY <1>6, BlankFields
<1>25. HasTold' /\ Account!PageFollowsUrl'
  BY <1>6, <1>24 DEF HasTold, Account!PageFollowsUrl
<1>26. ~aMarred' => OwnPageOnly'
  <2> SUFFICES ASSUME Account!InFlight = {c} PROVE OwnPageOnly'
    BY <1>6
  <2>1. Account!InFlight' = {made'}
    BY <1>21
  <2>2. r # None /\ Account!OnTop'
    BY <1>5, <1>6, <1>9 DEF Account!OnTop
  <2>3. aAnswer'[made'] = "none"
    BY <1>15, <1>16
  <2>4. AwaitedIsOwn(made)'
    BY <1>5, <1>6, <1>10, <1>16, <1>24, <2>1, <2>2, <2>3, FormOps DEF AwaitedIsOwn
  <2> QED BY <2>1, <2>4 DEF OwnPageOnly, AwaitedIsOwn
<1>27. SentFillSpins' /\ FillSentOnce'
  <2>1. excused' = excused /\ form' = 0 /\ aCall'[made'].fill = 0
    BY <1>6, <1>10, <1>16, <1>19
  <2>2. \A d \in Account!CallNumbers \ {made'} : aCall'[d] = aCall[d]
    BY <1>16
  <2> QED BY <1>16, <2>1, <2>2, OtherSendKeepsFills
<1> QED BY <1>20, <1>22, <1>23, <1>25, <1>26, <1>27 DEF AccountSound

\* Every other answer: what it does to the page.
Heard(c, result) ==
    \/ page # None /\ aCall[c].op = "query" /\ Account!OnAccountData(c, result)
    \/ Account!OnTop /\ aCall[c].op = "rate" /\ Account!OnSaveRate(c, result)
    \/ /\ Account!OnForm /\ aCall[c].op = page.sub /\ result # "ok"
       /\ response' \in {"Failure", "Success"}
       /\ UNCHANGED <<page, aData, editing, saving, form>>
    \/ ~Account!Reaches(c) /\ UNCHANGED <<page, aData, editing, saving, form, response>>

LEMMA HeardTyped ==
    ASSUME AccountAssumption, AccountSound, NEW c \in Account!InFlight,
           NEW result \in {"ok", "errors", "Err"}, Heard(c, result), UNCHANGED route
    PROVE  PageTypes' /\ form' <= fills
<1>1. PageTypes /\ form <= fills /\ fills \in Nat /\ AccountFills \in Nat
      /\ None \notin Account!Routes
  BY AccountTyped, AccountNumbers DEF AccountAssumption, Account!AccountPageAssumption
<1>2. aGot[c] \in AccountData
  BY InFlightOfAccount, GotFields
<1>3. /\ {"NotAsked", "Success", "Failure"} \subseteq Account!RemoteData
      /\ Account!Failure \in AccountData
  BY BlankFields DEF Account!RemoteData
<1>4. CASE page # None /\ aCall[c].op = "query" /\ Account!OnAccountData(c, result)
  <2>1. /\ page' = [page EXCEPT !.sub = "top"]
        /\ aData' = IF result = "ok" THEN aGot[c] ELSE Account!Failure
        /\ editing' = FALSE /\ saving' = "NotAsked" /\ form' = 0 /\ response' = "NotAsked"
    BY <1>4 DEF Account!OnAccountData
  <2>2. page \in Account!Routes
    BY <1>1, <1>4 DEF PageTypes
  <2>3. page' \in Account!Routes /\ page'.sub = "top"
    BY <2>1, <2>2, PageFields
  <2>4. Account!OnTop'
    BY <1>1, <2>3 DEF Account!OnTop
  <2>5. aData' \in AccountData
    BY <1>2, <1>3, <2>1
  <2>6. 0 \in 0..AccountFills /\ form' <= fills
    BY <1>1, <2>1
  <2> QED BY <1>1, <1>3, <2>1, <2>3, <2>4, <2>5, <2>6 DEF PageTypes
<1>5. CASE Account!OnTop /\ aCall[c].op = "rate" /\ Account!OnSaveRate(c, result)
  <2>1. /\ saving' = IF result = "Err" THEN "Failure" ELSE "Success"
        /\ aData' = IF result = "ok" THEN aGot[c] ELSE aData
        /\ editing' = (editing /\ result # "ok")
        /\ UNCHANGED <<page, form, response>>
    BY <1>5 DEF Account!OnSaveRate
  <2>2. Account!OnTop' /\ (Account!OnForm' <=> Account!OnForm)
    BY <1>5, <2>1 DEF Account!OnTop, Account!OnForm
  <2>3. aData' \in AccountData
    BY <1>1, <1>2, <2>1 DEF PageTypes
  <2>4. saving' \in Account!RemoteData
    BY <1>3, <2>1
  <2>5. editing' \in BOOLEAN
    BY <2>1
  <2> QED BY <1>1, <2>1, <2>2, <2>3, <2>4, <2>5 DEF PageTypes
<1>6. CASE /\ Account!OnForm /\ response' \in {"Failure", "Success"}
           /\ UNCHANGED <<page, aData, editing, saving, form>>
  <2>1. Account!OnForm' /\ (Account!OnTop' <=> Account!OnTop)
    BY <1>6 DEF Account!OnTop, Account!OnForm
  <2>2. response' \in Account!RemoteData
    BY <1>3, <1>6
  <2> QED BY <1>1, <1>6, <2>1, <2>2 DEF PageTypes
<1>7. CASE UNCHANGED <<page, aData, editing, saving, form, response>>
  BY <1>1, <1>7 DEF PageTypes, Account!OnTop, Account!OnForm
<1> QED BY <1>4, <1>5, <1>6, <1>7 DEF Heard

\* On an unmarred page the answer is for the page that is shown.
LEMMA HeardIsOwn ==
    ASSUME AccountAssumption, AccountSound, ~aMarred, NEW c \in Account!InFlight,
           NEW result \in {"ok", "errors", "Err"}, Heard(c, result), Account!Note(c, result)
    PROVE  \/ /\ Account!OnTop /\ Account!InFlight = {c} /\ aCall[c].op = "query"
              /\ page' = page /\ aTold' = aTold
              /\ aData' = IF result = "ok" THEN aGot[c] ELSE Account!Failure
           \/ /\ Account!OnTop /\ Account!InFlight = {c} /\ aCall[c].op = "rate"
              /\ page' = page /\ aTold' = IF result = "ok" THEN aTold \cup {c} ELSE aTold
              /\ aData' = IF result = "ok" THEN aGot[c] ELSE aData
           \/ /\ Account!OnForm /\ result # "ok" /\ aTold' = aTold
              /\ UNCHANGED <<page, aData, editing, saving, form>>
<1>1. AwaitedIsOwn(c)
  BY DEF AccountSound, OwnPageOnly
<1>2. /\ page # None
      /\ \/ Account!OnTop /\ Account!InFlight = {c} /\ aCall[c].op \in {"query", "rate"}
         \/ Account!OnForm /\ aCall[c].op = page.sub
  BY <1>1 DEF AwaitedIsOwn
<1>3. Account!Reaches(c)
  BY <1>2 DEF Account!Reaches
<1>4. aTold' = IF result = "ok" /\ aCall[c].op # "query" THEN aTold \cup {c} ELSE aTold
  BY <1>3 DEF Account!Note
<1>5. ~(Account!OnTop /\ Account!OnForm)
  BY FormOps DEF Account!OnTop, Account!OnForm
<1>6. CASE Account!OnTop /\ Account!InFlight = {c} /\ aCall[c].op = "query"
  <2>1. Account!OnAccountData(c, result)
    BY <1>3, <1>5, <1>6, FormOps DEF Heard
  <2>2. /\ page' = [page EXCEPT !.sub = "top"]
        /\ aData' = IF result = "ok" THEN aGot[c] ELSE Account!Failure
    BY <2>1 DEF Account!OnAccountData
  <2>3. page \in Account!Routes /\ page.sub = "top"
    BY <1>6, AccountTyped DEF PageTypes, Account!OnTop
  <2>4. page' = page
    BY <2>2, <2>3, PageFields
  <2> QED BY <1>4, <1>6, <2>2, <2>4
<1>7. CASE Account!OnTop /\ Account!InFlight = {c} /\ aCall[c].op = "rate"
  <2>1. Account!OnSaveRate(c, result)
    BY <1>3, <1>5, <1>7, FormOps DEF Heard
  <2>2. /\ aData' = IF result = "ok" THEN aGot[c] ELSE aData
        /\ page' = page
    BY <2>1 DEF Account!OnSaveRate
  <2> QED BY <1>4, <1>7, <2>2, FormOps
<1>8. CASE Account!OnForm /\ aCall[c].op = page.sub
  <2>1. page.sub \in Account!Forms
    BY <1>8 DEF Account!OnForm
  <2>2. result # "ok" /\ UNCHANGED <<page, aData, editing, saving, form>>
    BY <1>3, <1>5, <1>8, <2>1, FormOps DEF Heard
  <2> QED BY <1>4, <1>8, <2>2
<1> QED BY <1>2, <1>6, <1>7, <1>8

LEMMA AccountHeardKeeps ==
    ASSUME AccountAssumption, AccountSound, NEW c \in Account!InFlight,
           NEW result \in {"ok", "errors", "Err"}, result = "ok" => aAnswer[c] = "ok",
           Heard(c, result), Account!Note(c, result), Account!Forget(c),
           aPc' = [aPc EXCEPT ![c] = "heard"],
           committed' \in {committed, committed \cup {c}},
           UNCHANGED <<route, made, aCall, aMarred, fills>>
    PROVE  AccountSound'
<1>1. /\ c \in 1..made /\ c \in Account!CallNumbers /\ aPc[c] # "heard"
      /\ aCall[c] \in Account!Call /\ AccountCallFits(c)
      /\ aCall[c].fill \in 0..AccountFills
  BY InFlightOfAccount
<1>2. /\ AccountCalls \in Nat /\ AccountFills \in Nat /\ made \in Nat /\ fills \in Nat
      /\ form \in 0..AccountFills
      /\ IsFiniteSet(AwaitedForms) /\ Cardinality(AwaitedForms) \in Nat
      /\ made + Cardinality(AwaitedForms) <= AccountCalls
      /\ 1..made \subseteq Account!CallNumbers
  BY AccountNumbers
<1>3. PageTypes' /\ form' <= fills
  BY HeardTyped
<1>4. /\ aAnswer' \in [Account!CallNumbers -> {"none", "ok", "failed"}]
      /\ aGot' \in [Account!CallNumbers -> AccountData]
      /\ aAnswer'[c] = "none"
      /\ \A d \in Account!CallNumbers \ {c} : aAnswer'[d] = aAnswer[d] /\ aGot'[d] = aGot[d]
      /\ aPc \in [Account!CallNumbers -> {"new", "sent", "served", "heard"}]
      /\ aPc' \in [Account!CallNumbers -> {"new", "sent", "served", "heard"}]
      /\ c <= made
  BY AccountAnswerTaken
<1>5. /\ aPc'[c] = "heard" /\ \A d \in Account!CallNumbers \ {c} : aPc'[d] = aPc[d]
  BY <1>1, <1>4
<1>6. committed \subseteq committed' /\ committed' \subseteq 1..made
  BY <1>1 DEF AccountSound, AccountCallsFit
<1>7. result = "ok" /\ aCall[c].op # "query" => c \in committed /\ c \in aGot[c].calls
  BY <1>1 DEF AccountCallFits
<1>8. aTold' \subseteq committed
  BY <1>7 DEF Account!Note, AccountSound, AccountCallsFit
<1>9. excused \subseteq excused' /\ excused' \subseteq 1..AccountFills
  <2>1. {aCall[c].fill, form} \ {0} \subseteq 1..AccountFills
    BY <1>1, <1>2
  <2>2. excused \subseteq 1..AccountFills
    BY AccountTyped DEF CallTypes
  <2> QED BY <2>1, <2>2 DEF Account!Note
<1>10. Account!TypeOK'
  <2>1. committed' \subseteq Account!CallNumbers /\ aTold' \subseteq Account!CallNumbers
    BY <1>2, <1>6, <1>8
  <2>2. CallTypes'
    BY <1>4, <1>9, <2>1, AccountTyped DEF CallTypes
  <2> QED BY <1>3, <2>2 DEF Account!TypeOK, PageTypes, CallTypes, AccountData
<1>11. Account!InFlight' = Account!InFlight \ {c}
  BY <1>2, <1>5 DEF Account!InFlight
<1>12. RoomToAsk'
  <2>1. AwaitedForms' \subseteq AwaitedForms
    BY <1>11 DEF AwaitedForms
  <2>2. PICK rest : rest = AwaitedForms'
    OBVIOUS
  <2>3. Cardinality(rest) \in Nat /\ Cardinality(rest) <= Cardinality(AwaitedForms)
    BY <1>2, <2>1, <2>2, FS_Subset, FS_CardinalityType
  <2> QED BY <1>2, <2>2, <2>3 DEF RoomToAsk
<1>13. AccountCallsFit'
  <2>1. ASSUME NEW d \in Account!CallNumbers PROVE AccountCallFits(d)'
    <3>1. AccountCallFits(d)
      BY DEF AccountSound, AccountCallsFit
    <3>2. CASE d = c
      BY <1>1, <1>2, <1>4, <1>5, <3>1, <3>2 DEF AccountCallFits
    <3>3. CASE d # c
      BY <1>4, <1>5, <1>6, <3>1, <3>3 DEF AccountCallFits
    <3> QED BY <3>2, <3>3
  <2> QED BY <1>3, <1>6, <1>8, <2>1 DEF AccountCallsFit
<1>14. ~aMarred' => OwnPageOnly' /\ HasTold' /\ Account!PageFollowsUrl'
  <2> SUFFICES ASSUME ~aMarred PROVE OwnPageOnly' /\ HasTold' /\ Account!PageFollowsUrl'
    OBVIOUS
  <2>1. AwaitedIsOwn(c) /\ HasTold /\ \A d \in Account!InFlight : AwaitedIsOwn(d)
    BY DEF AccountSound, OwnPageOnly
  <2>2. page # None /\ aCall[c].account = page.account /\ page = route
    BY <2>1 DEF AwaitedIsOwn, AccountSound, Account!PageFollowsUrl
  <2>3. aData.status = "Success" => aData.account = page.account
    BY DEF AccountSound, Account!PageFollowsUrl
  <2>4. result = "ok" => aGot[c].status = "Success" /\ aGot[c].account = page.account
    BY <1>1, <2>2 DEF AccountCallFits
  <2>5. Account!OnTop /\ result = "ok" =>
           \A d \in aTold : aCall[d].account = page.account => d \in aGot[c].calls
    BY <2>1 DEF AwaitedIsOwn
  <2>6. Account!Failure.status # "Success"
    BY BlankFields
  <2>7. CASE /\ Account!OnTop /\ Account!InFlight = {c} /\ aCall[c].op = "query"
             /\ page' = page /\ aTold' = aTold
             /\ aData' = IF result = "ok" THEN aGot[c] ELSE Account!Failure
    <3>1. OwnPageOnly'
      BY <1>11, <2>7 DEF OwnPageOnly
    <3> QED BY <2>2, <2>4, <2>5, <2>6, <2>7, <3>1 DEF HasTold, Account!PageFollowsUrl
  <2>8. CASE /\ Account!OnTop /\ Account!InFlight = {c} /\ aCall[c].op = "rate"
             /\ page' = page /\ aTold' = IF result = "ok" THEN aTold \cup {c} ELSE aTold
             /\ aData' = IF result = "ok" THEN aGot[c] ELSE aData
    <3>1. OwnPageOnly'
      BY <1>11, <2>8 DEF OwnPageOnly
    <3>2. result = "ok" => c \in aGot[c].calls
      BY <1>7, <2>8, FormOps
    <3>3. HasTold'
      BY <2>1, <2>5, <2>8, <3>2 DEF HasTold
    <3>4. Account!PageFollowsUrl'
      BY <2>2, <2>3, <2>4, <2>8 DEF Account!PageFollowsUrl
    <3> QED BY <3>1, <3>3, <3>4
  <2>9. CASE /\ Account!OnForm /\ result # "ok" /\ aTold' = aTold
             /\ UNCHANGED <<page, aData, editing, saving, form>>
    <3>1. Account!OnForm' /\ ~Account!OnTop' /\ ~Account!OnTop
      BY <2>9, FormOps DEF Account!OnForm, Account!OnTop
    <3>2. ASSUME NEW d \in Account!InFlight PROVE AwaitedIsOwn(d)'
      BY <2>1, <2>9, <3>1 DEF AwaitedIsOwn
    <3>3. OwnPageOnly'
      BY <1>11, <3>2 DEF OwnPageOnly
    <3> QED BY <2>2, <2>3, <2>9, <3>1, <3>3 DEF HasTold, Account!PageFollowsUrl
  <2> QED BY <2>7, <2>8, <2>9, HeardIsOwn
<1>15. Account!PageFollowsUrl'
  BY <1>14 DEF Account!PageFollowsUrl
<1>16. SentFillSpins'
  <2> SUFFICES ASSUME form' # 0, form' \notin excused', NEW d \in 1..made, aCall[d].fill = form'
               PROVE  response' = "Loading"
    BY DEF SentFillSpins
  <2>1. UNCHANGED <<form, response>>
    <3>1. CASE page # None /\ aCall[c].op = "query" /\ Account!OnAccountData(c, result)
      BY <3>1 DEF Account!OnAccountData
    <3>2. CASE Account!OnTop /\ aCall[c].op = "rate" /\ Account!OnSaveRate(c, result)
      BY <3>2 DEF Account!OnSaveRate
    <3>3. CASE Account!OnForm /\ aCall[c].op = page.sub /\ result # "ok" /\ form' = form
      <4>1. Account!Reaches(c) /\ aCall[c].op \in Account!Forms
        BY <3>3 DEF Account!Reaches, Account!OnForm
      <4> QED BY <3>3, <4>1 DEF Account!Note
    <3> QED BY <3>1, <3>2, <3>3 DEF Heard
  <2> QED BY <1>9, <2>1 DEF AccountSound, SentFillSpins
<1>17. FillSentOnce'
  BY <1>9 DEF AccountSound, FillSentOnce
<1> QED BY <1>10, <1>12, <1>13, <1>14, <1>15, <1>16, <1>17 DEF AccountSound

\* Every step keeps the invariant.
LEMMA AccountStep ==
    AccountAssumption /\ AccountSound /\ [Account!Next]_(Account!vars) => AccountSound'
<1> SUFFICES ASSUME AccountAssumption, AccountSound, [Account!Next]_(Account!vars)
             PROVE  AccountSound'
  OBVIOUS
<1>1. CASE \E r \in Account!Routes \cup {None} : Account!Go(r)
  BY <1>1, AccountGoKeeps
<1>2. CASE Account!Fill \/ Account!Submit
  BY <1>2, AccountFillKeeps, AccountSubmitKeeps
<1>3. CASE Account!EditRate \/ Account!CancelRate \/ Account!SaveRate
  BY <1>3, EditRateKeeps, CancelRateKeeps, SaveRateKeeps
<1>4. CASE \E c \in Account!CallNumbers : Account!Execute(c)
  BY <1>4, AccountExecuteKeeps
<1>5. ASSUME NEW c \in Account!InFlight, NEW result \in {"ok", "errors", "Err"},
             result = "ok" => aAnswer[c] = "ok" /\ committed' = committed,
             Account!Hears(c, result), Account!Note(c, result), Account!Forget(c),
             committed' \in {committed, committed \cup {c}}, UNCHANGED fills
      PROVE  AccountSound'
  <2>1. CASE /\ Account!Reaches(c) /\ aCall[c].op \in Account!Forms /\ result = "ok"
             /\ Account!Succeed(c)
    <3>1. aAnswer[c] = "ok" /\ UNCHANGED <<fills, committed>> /\ Account!Note(c, "ok")
      BY <1>5, <2>1
    <3> QED BY <1>5, <2>1, <3>1, AccountSucceedKeeps
  <2>2. CASE ~(/\ Account!Reaches(c) /\ aCall[c].op \in Account!Forms /\ result = "ok"
               /\ Account!Succeed(c))
    <3>1. /\ aPc' = [aPc EXCEPT ![c] = "heard"]
          /\ UNCHANGED <<route, made, aCall, aMarred>>
          /\ \/ Account!Reaches(c) /\ aCall[c].op = "query" /\ Account!OnAccountData(c, result)
             \/ Account!Reaches(c) /\ aCall[c].op = "rate" /\ Account!OnSaveRate(c, result)
             \/ /\ Account!Reaches(c) /\ aCall[c].op \in Account!Forms /\ result # "ok"
                /\ response' = IF result = "Err" THEN "Failure" ELSE "Success"
                /\ UNCHANGED <<page, aData, editing, saving, form>>
             \/ /\ ~Account!Reaches(c)
                /\ UNCHANGED <<page, aData, editing, saving, form, response>>
      BY <1>5, <2>2 DEF Account!Hears
    <3>2. /\ Account!Reaches(c) /\ aCall[c].op = "query" => page # None
          /\ Account!Reaches(c) /\ aCall[c].op = "rate" => Account!OnTop
          /\ Account!Reaches(c) /\ aCall[c].op \in Account!Forms =>
                Account!OnForm /\ aCall[c].op = page.sub
      BY FormOps DEF Account!Reaches, Account!OnForm
    <3>3. Heard(c, result)
      BY <3>1, <3>2 DEF Heard
    <3> QED BY <1>5, <3>1, <3>3, AccountHeardKeeps
  <2> QED BY <2>1, <2>2
<1>6. ASSUME NEW c \in Account!CallNumbers, Account!Hear(c) PROVE AccountSound'
  <2>1. c \in Account!InFlight /\ Account!Forget(c) /\ UNCHANGED <<committed, fills>>
    BY <1>6 DEF Account!Hear, Account!InFlight
  <2>2. PICK result \in Account!Results(c) : Account!Hears(c, result) /\ Account!Note(c, result)
    BY <1>6 DEF Account!Hear
  <2>3. result \in {"ok", "errors", "Err"} /\ (result = "ok" => aAnswer[c] = "ok")
    BY <2>2 DEF Account!Results
  <2> QED BY <1>5, <2>1, <2>2, <2>3
<1>7. ASSUME NEW c \in Account!CallNumbers, Account!Lose(c) PROVE AccountSound'
  <2>1. /\ c \in Account!InFlight /\ Account!Forget(c) /\ UNCHANGED fills
        /\ Account!Hears(c, "Err") /\ Account!Note(c, "Err")
        /\ committed' \in {committed, committed \cup {c}}
    BY <1>7 DEF Account!Lose
  <2> QED BY <1>5, <2>1
<1>8. CASE UNCHANGED Account!vars
  <2>1. UNCHANGED <<route, page, aData, editing, saving, form, response, aCall, aPc, aAnswer,
                    aGot, committed, made, fills, aTold, excused, aMarred>>
    BY <1>8 DEF Account!vars, Account!pageVars, Account!serverVars
  <2>2. PageTypes'
    BY <2>1, AccountTyped DEF PageTypes, Account!OnTop, Account!OnForm
  <2>3. fills' \in 0..AccountFills /\ fills <= fills' /\ form' <= fills'
    BY <2>1, AccountNumbers
  <2>4. /\ Account!TypeOK' /\ AccountCallsFit' /\ RoomToAsk' /\ FillSentOnce'
        /\ Account!InFlight' = Account!InFlight
    BY <2>1, <2>2, <2>3, CallsLeftAlone
  <2>5. ~aMarred' => OwnPageOnly' /\ HasTold'
    BY <2>1, <2>4 DEF AccountSound, OwnPageOnly, HasTold, AwaitedIsOwn, Account!OnTop,
       Account!OnForm
  <2>6. Account!PageFollowsUrl' /\ SentFillSpins'
    BY <2>1 DEF AccountSound, Account!PageFollowsUrl, SentFillSpins
  <2> QED BY <2>4, <2>5, <2>6 DEF AccountSound
<1>9. CASE Account!Quiescent
  BY <1>8, <1>9 DEF Account!Quiescent
<1> QED BY <1>1, <1>2, <1>3, <1>4, <1>6, <1>7, <1>8, <1>9 DEF Account!Next

\* The invariant holds in every reachable state of the page.
LEMMA AccountSoundness == ASSUME AccountAssumption PROVE Account!Spec => []AccountSound
<1>1. Account!Init => AccountSound
  BY AccountInit
<1>2. AccountSound /\ [Account!Next]_(Account!vars) => AccountSound'
  BY AccountStep
<1> QED BY <1>1, <1>2, PTL DEF Account!Spec

-----------------------------------------------------------------------------
(* The client.                                                             *)

\* What a filled-in form changes, and the changes that the admin was told of.
LEMMA AccountSoundSays ==
    ASSUME AccountSound
    PROVE  Account!ShowsOwnChanges /\ Account!OneChangePerFill
<1>1. Account!ShowsOwnChanges
  BY DEF AccountSound, HasTold, Account!ShowsOwnChanges
<1>2. Account!OneChangePerFill
  BY DEF AccountSound, AccountCallsFit, FillSentOnce, Account!OneChangePerFill
<1> QED BY <1>1, <1>2

\* What the list of investors shows when no answer is awaited.
LEMMA HomeSoundSays ==
    ASSUME HomeSound
    PROVE  Home!ListAgrees
BY DEF HomeSound, FlagsAgree, Home!ListAgrees

\* What a form that a success clears does.
LEMMA FormsSoundSays ==
    ASSUME FormsSound
    PROVE  Forms!OncePerFill
BY DEF FormsSound, FormCallsFit, SentOnce, Forms!OncePerFill

\* The parts of the client have their invariants.
LEMMA ClientSound == ClientSpec => [](AccountSound /\ HomeSound /\ FormsSound)
<1>1. AccountAssumption /\ HomeAssumption /\ FormsAssumption
  BY ClientAssumption DEF AccountAssumption, HomeAssumption, FormsAssumption
<1>2. Account!Spec => []AccountSound
  BY <1>1, AccountSoundness
<1>3. Home!Spec => []HomeSound
  BY <1>1, HomeSoundness
<1>4. Forms!Spec => []FormsSound
  BY <1>1, FormsSoundness
<1> QED BY <1>2, <1>3, <1>4, ClientRunsAccount, ClientRunsHome, ClientRunsForms, PTL

\* Every variable of the account page, the home page, the forms, the tab and the
\* corner has its type (Admin/Pages/Account.elm, Admin/Pages/Home.elm, Public/Pages,
\* App.elm, Notifications.elm): calls and put-off navigations stay within their
\* bounds, although a success sends a call of its own, and no sub-page holds the
\* model of another.
THEOREM ClientTypes == ClientSpec => []ClientTypeOK
<1>1. AccountSound => Account!TypeOK
  BY DEF AccountSound
<1>2. HomeSound => Home!TypeOK
  BY DEF HomeSound
<1>3. FormsSound => Forms!TypeOK
  BY DEF FormsSound
<1>4. Tab!Spec => []Tab!TypeOK
  BY ClientAssumption, SessionTypes
<1>5. Corner!Spec => []Corner!TypeOK
  <2>1. Corner!Spec => [](Corner!TypeOK /\ Corner!MessagesAreTimed)
    BY ClientAssumption, MessagesGoInTime
  <2> QED BY <2>1, PTL
<1>6. Account!TypeOK /\ Home!TypeOK /\ Forms!TypeOK /\ Tab!TypeOK /\ Corner!TypeOK
      => ClientTypeOK
  BY DEF ClientTypeOK
<1> QED BY <1>1, <1>2, <1>3, <1>4, <1>5, <1>6, ClientSound, ClientRunsTab, ClientRunsCorner, PTL

\* On an account page that was opened when no answer was awaited, the account and the
\* form are those of the URL, and the account shown has every change whose success
\* the admin saw (Admin/Pages/Account.elm); the home page shows no investor as
\* archived who never was, and agrees with the database once no answer is awaited
\* (Admin/Pages/Home.elm).  Any interleaving of answers, lost connections, links and
\* submissions is covered, for any number of calls, accounts and investors.
THEOREM ClientPagesShowTheirOwn == ClientSpec => []PagesShowTheirOwn
<1>1. AccountSound => Account!PageFollowsUrl /\ Account!ShowsOwnChanges
  BY AccountSoundSays DEF AccountSound
<1>2. HomeSound => Home!ShownFlagsHappened /\ Home!ListAgrees
  BY HomeSoundSays DEF HomeSound
<1>3. AccountSound /\ HomeSound => PagesShowTheirOwn
  BY <1>1, <1>2 DEF PagesShowTheirOwn
<1> QED BY <1>3, ClientSound, PTL

\* What is filled in or clicked once is carried out once, unless it was submitted
\* again under the spinner or beside an error: the forms of the account page, the
\* archive buttons of the home page and the public forms.  An investor is created
\* once however often the form is sent, and a form that was cleared was carried out.
THEOREM ClientFormsActOnce == ClientSpec => []FormsActOnce
<1>1. AccountSound => Account!OneChangePerFill
  BY AccountSoundSays
<1>2. HomeSound => Home!OneChangeAtATime
  BY DEF HomeSound
<1>3. FormsSound => Forms!OncePerFill /\ Forms!OneInvestorPerFill /\ Forms!ClearedWasDone
  BY FormsSoundSays DEF FormsSound
<1>4. AccountSound /\ HomeSound /\ FormsSound => FormsActOnce
  BY <1>1, <1>2, <1>3 DEF FormsActOnce
<1> QED BY <1>4, ClientSound, PTL

\* In the client too, a tab shows the area and the data of its session (App.elm).
THEOREM ClientTabsAreSessions == ClientSpec => []TabIsSessions
<1>1. Tab!Spec => []Tab!TabIsSessions
  BY ClientAssumption, TabShowsItsSession
<1>2. Tab!TabIsSessions => TabIsSessions
  BY DEF TabIsSessions
<1> QED BY <1>1, <1>2, ClientRunsTab, PTL

\* In the client too, a message has a number and a timer of its own, and stays for
\* its time at most (Notifications.elm).
THEOREM ClientMessagesAreTimed == ClientSpec => []MessagesAreTimed
<1>1. Corner!Spec => [](Corner!TypeOK /\ Corner!MessagesAreTimed)
  BY ClientAssumption, MessagesGoInTime
<1>2. Corner!MessagesAreTimed => MessagesAreTimed
  BY DEF MessagesAreTimed
<1> QED BY <1>1, <1>2, ClientRunsCorner, PTL

=============================================================================
