-------------------------- MODULE GattSessionsProofs --------------------------
(***************************************************************************)
(* Proofs about GattSessions, first part: the types, and with them what    *)
(* ties the three maps to each other and to the threads (Typed), and that  *)
(* no timer outlives its session.                                          *)
(*                                                                         *)
(* Typed is proved cluster by cluster: what the client and the stack may   *)
(* do is ClientMoves, what may become of the objects is ObjectsMove, and   *)
(* what the threads do is followed place by place.  The last sections say  *)
(* what one step may do to one connection id, one link, one session and    *)
(* one thread, for the invariants of GattSetupProofs.                      *)
(***************************************************************************)
EXTENDS GattSessions, SequenceTheorems, FiniteSetTheorems,
        WellFoundedInduction, TLAPS

ClientOK == ClientTypeOK /\ IsFiniteSet(Owed)

WsPlaces == {"idle", "suppress", "stop_scan", "connect", "handle", "disconnect",
             "cleanup", "empty", "lift", "rescan"}
HostPlaces == {"idle", "connected", "written", "init", "subscribe", "cleanup",
               "empty", "lift", "rescan", "tell", "erase"}

Work == [sid : Sids \cup {None}, object : 0..Len(objects),
         what : Peers \cup ConnIds \cup {None}]

\* Where the threads are, and what they hold there: a thread that works, works
\* for a session id; its pointer names an object made for that id; only the
\* host task has an entry to erase, and never together with a pointer.
ThreadsOK ==
    /\ DOMAIN at = Threads
    /\ at["ws"] \in WsPlaces /\ at["host"] \in HostPlaces
    /\ arg \in [Threads -> Work]
    /\ \A t \in Threads :
          IF at[t] = "idle" THEN arg[t] = Idle ELSE arg[t].sid \in Sids
    /\ \A t \in Threads :
          arg[t].object # 0 => objects[arg[t].object].sid = arg[t].sid
    /\ arg["ws"].object # 0 <=>
          at["ws"] \in {"suppress", "stop_scan", "connect", "handle"}
    /\ arg["ws"].what = None
    /\ at["host"] \in {"init", "subscribe", "tell"} => arg["host"].object # 0
    /\ at["host"] \in {"connected", "written", "cleanup", "empty", "erase"} =>
          arg["host"].object = 0
    /\ at["host"] = "erase" => arg["host"].what # None
    /\ arg["host"].what # None =>
          /\ at["host"] \in {"cleanup", "empty", "lift", "rescan", "erase"}
          /\ arg["host"].object = 0

\* gatt_sessions_ holds every object that has not been freed, and no other.
SessionsOK ==
    /\ objects \in Seq(Session) /\ Len(objects) <= MaxSubscribes
    /\ sessions \in [Sids -> 0..Len(objects)]
    /\ \A s \in Open : objects[sessions[s]].sid = s /\ ~objects[sessions[s]].freed
    /\ \A o \in 1..Len(objects) :
          ~objects[o].freed => sessions[objects[o].sid] = o

TimersOK == timers \subseteq Timer /\ \A m \in timers : m.object \in 1..Len(objects)

SeenOK ==
    /\ seen \in History
    /\ seen.dangling \subseteq 1..Len(objects) /\ seen.late \subseteq 1..Len(objects)

Typed ==
    /\ ClientOK
    /\ SessionsOK
    /\ TimersOK
    /\ suppressed \in BOOLEAN /\ resumed \in BOOLEAN
    /\ ThreadsOK
    /\ SeenOK

LEMMA TypedIsTyped == Typed => TypeOK
  BY DEF Typed, TypeOK, ClientOK, SessionsOK, TimersOK, ThreadsOK, SeenOK

-----------------------------------------------------------------------------
(* The client and the stack.                                               *)

\* connections_ is searched in the order of the connection ids, so that a
\* characteristic that some connection carries has a first carrier.
LEMMA LeastIsMember ==
    ASSUME NEW S \in SUBSET Nat, S # {}
    PROVE  Min(S) \in S
<1> DEFINE R == OpToRel(<, Nat)
<1>1. IsWellFoundedOn(R, Nat)
  BY NatLessThanWellFounded
<1>2. \A x, y \in Nat : x < y => <<x, y>> \in R
  BY DEF OpToRel
<1> HIDE DEF R
<1>3. PICK x \in S : \A y \in S : <<y, x>> \notin R
  BY <1>1, WFMin
<1>4. S \subseteq Nat /\ x \in S
  OBVIOUS
<1>5. \A y \in S : ~(y < x)
  BY <1>2, <1>3, <1>4
<1>6. \A y \in S : x =< y
  BY <1>4, <1>5
<1>7. QED
  BY <1>4, <1>6 DEF Min

LEMMA FirstCarrier ==
    ASSUME NEW ch, Carriers(ch) # {}
    PROVE  Min(Carriers(ch)) \in Carriers(ch)
<1>1. Carriers(ch) \in SUBSET Nat
  BY ClientAssumption DEF Carriers, Connected
<1>2. QED
  BY <1>1, LeastIsMember

\* What a step may do to the client and the stack.
ClientMoves ==
    \/ UNCHANGED <<clientVars, stackVars>>
    \/ \E s \in Sids, p \in Peers : Connects(s, p)
    \/ \E p \in Peers : \/ ConnectFails(p) \/ OpenFailed(p) \/ Unpend(p)
                        \/ \E c \in LinkIds(p) : OpenOk(p, c)
    \/ \E ch \in Chars, request \in Requests : Asks(ch, request)
    \/ Disconnects
    \/ \E c \in ConnIds : \/ MtuEvent(c) \/ Answers(c) \/ LinkDown(c) \/ Erase(c)
                          \/ \E found \in BOOLEAN : SearchComplete(c, found)

\* A link that answers, drops or is made owes no more than it did.
LEMMA OwesNoMore ==
    ASSUME ClientOK,
           \A c \in ConnIds : links'[c] # None =>
              \/ links'[c].owed = <<>>
              \/ links[c] # None /\ DOMAIN links'[c].owed \subseteq DOMAIN links[c].owed
    PROVE  IsFiniteSet(Owed') /\ Cardinality(Owed') <= MaxOwed
<1>1. DOMAIN <<>> = {}
  OBVIOUS
<1>2. Owed' \subseteq Owed
  BY <1>1 DEF Owed, Linked
<1>3. IsFiniteSet(Owed) /\ Cardinality(Owed) \in Nat /\ Cardinality(Owed) <= MaxOwed
  BY FS_CardinalityType DEF ClientOK, ClientTypeOK
<1>4. IsFiniteSet(Owed') /\ Cardinality(Owed') <= Cardinality(Owed)
  BY <1>2, <1>3, FS_Subset
<1>5. QED
  BY <1>3, <1>4, FS_CardinalityType, ClientAssumption

\* The requests that a link owes are a sequence of requests.
LEMMA LinkOwes ==
    ASSUME ClientOK, NEW c \in ConnIds, links[c] # None
    PROVE  links[c] \in Link /\ links[c].owed \in Seq(Requests)
  BY DEF ClientOK, ClientTypeOK, Link

\* A call of the client asks for one request more where there is room for it.
LEMMA AskingIsTyped ==
    ASSUME ClientOK, NEW ch, NEW request \in Requests, Asks(ch, request)
    PROVE  ClientOK'
<1>1. CASE ~Takes(ch)
  <2>1. UNCHANGED <<clientVars, stackVars>>
    BY <1>1 DEF Asks, stackVars
  <2>2. QED
    BY <2>1 DEF ClientOK, ClientTypeOK, clientVars, stackVars, Owed, Linked
<1>2. CASE Takes(ch)
  <2> DEFINE c == Min(Carriers(ch))
             n == Len(links[c].owed) + 1
  <2>1. c \in ConnIds /\ links[c] # None /\ Cardinality(Owed) < MaxOwed
    BY <1>2 DEF Takes, Linked
  <2>2. links' = [links EXCEPT ![c].owed = Append(@, request)]
    BY <1>2 DEF Asks
  <2> HIDE DEF c
  <2>3. links[c] \in Link /\ links[c].owed \in Seq(Requests)
    BY <2>1, LinkOwes
  <2>4. /\ Append(links[c].owed, request) \in Seq(Requests)
        /\ DOMAIN Append(links[c].owed, request) = DOMAIN links[c].owed \cup {n}
    BY <2>3
  <2>5. /\ links'[c] = [links[c] EXCEPT !.owed = Append(links[c].owed, request)]
        /\ \A d \in ConnIds \ {c} : links'[d] = links[d]
        /\ DOMAIN links' = ConnIds
    BY <2>1, <2>2 DEF ClientOK, ClientTypeOK
  <2>6. links'[c] \in Link /\ links'[c].owed = Append(links[c].owed, request)
    BY <2>3, <2>4, <2>5 DEF Link
  <2>7. links' \in [ConnIds -> Link \cup {None}]
    BY <2>1, <2>2, <2>5, <2>6 DEF ClientOK, ClientTypeOK
  <2>8. Owed' \subseteq Owed \cup {<<c, n>>}
    <3> SUFFICES ASSUME NEW d \in Linked', NEW i \in DOMAIN links'[d].owed
                 PROVE  <<d, i>> \in Owed \cup {<<c, n>>}
      BY DEF Owed
    <3>1. CASE d = c
      BY <2>1, <2>4, <2>6, <3>1 DEF Owed, Linked
    <3>2. CASE d # c
      BY <2>5, <3>2 DEF Owed, Linked
    <3>3. QED
      BY <3>1, <3>2
  <2>9. IsFiniteSet(Owed') /\ Cardinality(Owed') <= MaxOwed
    <3>1. IsFiniteSet(Owed) /\ Cardinality(Owed) \in Nat
      BY FS_CardinalityType DEF ClientOK
    <3>2. /\ IsFiniteSet(Owed \cup {<<c, n>>})
          /\ Cardinality(Owed \cup {<<c, n>>})
               \in {Cardinality(Owed), Cardinality(Owed) + 1}
      BY <3>1, FS_AddElement
    <3>3. /\ IsFiniteSet(Owed')
          /\ Cardinality(Owed') <= Cardinality(Owed \cup {<<c, n>>})
      BY <2>8, <3>2, FS_Subset
    <3>4. Cardinality(Owed') \in Nat
      BY <3>3, FS_CardinalityType
    <3>5. QED
      BY <2>1, <3>1, <3>2, <3>3, <3>4, ClientAssumption
  <2>10. QED
    BY <2>7, <2>9 DEF Asks, ClientOK, ClientTypeOK, clientVars
<1>3. QED
  BY <1>1, <1>2

\* A link that is made, changed or gone keeps the types.
LEMMA LinkChanges ==
    ASSUME ClientOK, NEW c \in ConnIds, NEW link \in Link \cup {None},
           links' = [links EXCEPT ![c] = link],
           \/ link = None \/ link.owed = <<>>
           \/ links[c] # None /\ DOMAIN link.owed \subseteq DOMAIN links[c].owed
    PROVE  /\ links' \in [ConnIds -> Link \cup {None}]
           /\ IsFiniteSet(Owed') /\ Cardinality(Owed') <= MaxOwed
<1>1. links' \in [ConnIds -> Link \cup {None}]
  BY DEF ClientOK, ClientTypeOK
<1>2. \A d \in ConnIds : links'[d] = IF d = c THEN link ELSE links[d]
  BY DEF ClientOK, ClientTypeOK
<1>3. QED
  BY <1>1, <1>2, OwesNoMore

\* What is left of the steps neither asks for more nor leaves its types.
LEMMA ClientStep ==
    ASSUME ClientOK, ClientMoves
    PROVE  ClientOK'
<1> USE DEF ClientOK, ClientTypeOK
<1>1. CASE UNCHANGED <<clientVars, stackVars>>
  BY <1>1 DEF clientVars, stackVars, Owed, Linked
<1>2. ASSUME NEW s \in Sids, NEW p \in Peers, Connects(s, p)
      PROVE  ClientOK'
  <2>1. UNCHANGED Owed
    BY <1>2 DEF Connects, Owed, Linked
  <2>2. opening[p] + 1 \in 0..MaxOpens
    BY <1>2, ClientAssumption DEF Connects
  <2>3. QED
    BY <1>2, <2>1, <2>2 DEF Connects
<1>3. ASSUME NEW p \in Peers, ConnectFails(p) \/ OpenFailed(p) \/ Unpend(p)
      PROVE  ClientOK'
  <2>1. UNCHANGED links
    BY <1>3 DEF ConnectFails, OpenFailed, Unpend, stackVars
  <2>2. UNCHANGED Owed
    BY <2>1 DEF Owed, Linked
  <2>3. CASE OpenFailed(p)
    <3>1. opening[p] - 1 \in 0..MaxOpens
      BY <2>3, ClientAssumption DEF OpenFailed
    <3>2. QED
      BY <2>3, <2>2, <3>1 DEF OpenFailed, clientVars
  <2>4. CASE ConnectFails(p) \/ Unpend(p)
    BY <2>4, <2>2 DEF ConnectFails, Unpend, stackVars
  <2>5. QED
    BY <1>3, <2>3, <2>4
<1>4. ASSUME NEW p \in Peers, NEW c \in LinkIds(p), OpenOk(p, c)
      PROVE  ClientOK'
  <2> DEFINE fresh == [peer |-> p, phase |-> "up", closing |-> FALSE, owed |-> <<>>]
             taken(phase) ==
                 [peer |-> p, phase |-> phase, closing |-> FALSE,
                  owed |-> IF links[c] = None THEN <<>> ELSE links[c].owed]
             conn == [peer |-> p, sid |-> pending[p], chars |-> {}]
  <2>1. c \in ConnIds
    BY DEF LinkIds
  <2>2. <<>> \in Seq(Requests) /\ (links[c] # None => links[c].owed \in Seq(Requests))
    BY <2>1, LinkOwes
  <2>3. fresh \in Link /\ \A phase \in {"mtu", "left"} : taken(phase) \in Link
    BY <2>2 DEF Link, Phases
  <2>4. /\ fresh.owed = <<>>
        /\ \A phase \in {"mtu", "left"} :
              taken(phase).owed = IF links[c] = None THEN <<>> ELSE links[c].owed
    OBVIOUS
  <2>5. opening[p] - 1 \in 0..MaxOpens
    BY <1>4, ClientAssumption DEF OpenOk
  <2>6. CASE pending[p] = None
    <3>1. /\ UNCHANGED clientVars
          /\ opening' = [opening EXCEPT ![p] = @ - 1]
          /\ links' = IF links[c] = None THEN [links EXCEPT ![c] = fresh] ELSE links
      BY <1>4, <2>6 DEF OpenOk
    <3> HIDE DEF fresh
    <3>2. CASE links[c] = None
      <4>1. links' = [links EXCEPT ![c] = fresh]
        BY <3>1, <3>2
      <4>2. QED
        BY <2>1, <2>3, <2>4, <2>5, <3>1, <4>1, LinkChanges DEF clientVars
    <3>3. CASE links[c] # None
      BY <2>5, <3>1, <3>3 DEF clientVars, Owed, Linked
    <3>4. QED
      BY <3>2, <3>3
  <2>7. CASE pending[p] # None
    <3>1. PICK phase \in {"mtu", "left"} :
             /\ opening' = [opening EXCEPT ![p] = @ - 1]
             /\ links' = [links EXCEPT ![c] = taken(phase)]
             /\ connections' = [connections EXCEPT ![c] = conn]
             /\ pending' = [pending EXCEPT ![p] = None]
      BY <1>4, <2>7 DEF OpenOk
    <3>2. conn \in Connection
      BY <2>7 DEF Connection
    <3> HIDE DEF taken, conn
    <3>3. /\ links' \in [ConnIds -> Link \cup {None}]
          /\ IsFiniteSet(Owed') /\ Cardinality(Owed') <= MaxOwed
      BY <2>1, <2>3, <2>4, <3>1, LinkChanges
    <3>4. QED
      BY <2>1, <2>5, <3>1, <3>2, <3>3
  <2>8. QED
    BY <2>6, <2>7
<1>5. ASSUME NEW ch \in Chars, NEW request \in Requests, Asks(ch, request)
      PROVE  ClientOK'
  BY <1>5, AskingIsTyped
<1>6. ASSUME NEW c \in ConnIds, NEW link \in Link \cup {None},
             UNCHANGED <<pending, opening>>,
             connections' \in [ConnIds -> Connection \cup {None}],
             links' = [links EXCEPT ![c] = link],
             \/ link = None \/ link.owed = <<>>
             \/ links[c] # None /\ DOMAIN link.owed \subseteq DOMAIN links[c].owed
      PROVE  ClientOK'
  BY <1>6, LinkChanges
<1>7. CASE Disconnects
  <2> DEFINE c == Min(Connected)
             link == [links[c] EXCEPT !.closing = TRUE]
  <2>1. CASE Connected # {} /\ links[c] # None
    <3>1. c \in ConnIds
      BY <2>1, LeastIsMember, ClientAssumption DEF Connected
    <3>2. links[c] \in Link
      BY <2>1, <3>1
    <3>3. link \in Link /\ link.owed = links[c].owed
      BY <3>2 DEF Link
    <3>4. links' = [links EXCEPT ![c] = link] /\ UNCHANGED <<clientVars, opening>>
      BY <1>7, <2>1 DEF Disconnects
    <3> HIDE DEF c, link
    <3>5. QED
      BY <1>6, <2>1, <3>1, <3>3, <3>4 DEF clientVars
  <2>2. CASE ~(Connected # {} /\ links[c] # None)
    BY <1>1, <1>7, <2>2 DEF Disconnects, stackVars
  <2>3. QED
    BY <2>1, <2>2
<1>8. ASSUME NEW c \in ConnIds, MtuEvent(c)
      PROVE  ClientOK'
  <2>0. PICK phase \in {"search", "left"} : links' = [links EXCEPT ![c].phase = phase]
    BY <1>8 DEF MtuEvent
  <2> DEFINE link == [links[c] EXCEPT !.phase = phase]
  <2>1. links[c] \in Link
    BY <1>8 DEF MtuEvent
  <2>2. link \in Link /\ link.owed = links[c].owed
    BY <2>1 DEF Link, Phases
  <2>3. /\ links' = [links EXCEPT ![c] = link] /\ links[c] # None
        /\ UNCHANGED <<clientVars, opening>>
    BY <1>8, <2>0 DEF MtuEvent
  <2> HIDE DEF link
  <2>4. QED
    BY <1>6, <2>2, <2>3 DEF clientVars
<1>9. ASSUME NEW c \in ConnIds, NEW found \in BOOLEAN, SearchComplete(c, found)
      PROVE  ClientOK'
  <2> DEFINE link == [links[c] EXCEPT !.phase = "up"]
  <2>1. links[c] \in Link /\ connections[c] \in Connection
    BY <1>9 DEF SearchComplete
  <2>2. link \in Link /\ link.owed = links[c].owed
    BY <2>1 DEF Link, Phases
  <2>3. /\ links' = [links EXCEPT ![c] = link] /\ links[c] # None
        /\ UNCHANGED <<pending, opening>>
    BY <1>9 DEF SearchComplete
  <2>4. connections' \in [ConnIds -> Connection \cup {None}]
    <3>1. \A chars \in SUBSET Chars : [connections[c] EXCEPT !.chars = chars] \in Connection
      BY <2>1 DEF Connection
    <3>2. Offers[connections[c].peer] \in SUBSET Chars
      BY <2>1, ClientAssumption DEF Connection
    <3>3. \/ UNCHANGED connections
          \/ \E chars \in {{}, Offers[connections[c].peer]} :
                connections' = [connections EXCEPT ![c] =
                                  [connections[c] EXCEPT !.chars = chars]]
      BY <1>9 DEF SearchComplete
    <3>4. connections \in [ConnIds -> Connection \cup {None}]
      BY DEF ClientOK, ClientTypeOK
    <3>5. CASE UNCHANGED connections
      BY <3>4, <3>5
    <3>6. ASSUME NEW chars \in {{}, Offers[connections[c].peer]},
                 connections' = [connections EXCEPT ![c] =
                                   [connections[c] EXCEPT !.chars = chars]]
          PROVE  connections' \in [ConnIds -> Connection \cup {None}]
      <4> DEFINE entry == [connections[c] EXCEPT !.chars = chars]
      <4>1. chars \in SUBSET Chars
        BY <3>2
      <4>2. entry \in Connection
        BY <3>1, <4>1
      <4>3. connections' = [connections EXCEPT ![c] = entry]
        BY <3>6
      <4> HIDE DEF entry
      <4>4. QED
        BY <3>4, <4>2, <4>3
    <3>7. QED
      BY <3>3, <3>5, <3>6
  <2> HIDE DEF link
  <2>5. QED
    BY <1>6, <2>2, <2>3, <2>4
<1>10. ASSUME NEW c \in ConnIds, Answers(c)
       PROVE  ClientOK'
  <2> DEFINE link == [links[c] EXCEPT !.owed = Tail(@)]
  <2>1. links[c] \in Link /\ links[c].owed \in Seq(Requests) /\ links[c].owed # <<>>
    BY <1>10, LinkOwes DEF Answers
  <2>2. /\ Tail(links[c].owed) \in Seq(Requests)
        /\ Len(Tail(links[c].owed)) = Len(links[c].owed) - 1
    BY <2>1, HeadTailProperties
  <2>3. DOMAIN Tail(links[c].owed) \subseteq DOMAIN links[c].owed
    BY <2>1, <2>2, LenProperties
  <2>4. link \in Link /\ link.owed = Tail(links[c].owed)
    BY <2>1, <2>2 DEF Link
  <2>5. /\ links' = [links EXCEPT ![c] = link] /\ links[c] # None
        /\ UNCHANGED <<clientVars, opening>>
    BY <1>10 DEF Answers
  <2> HIDE DEF link
  <2>6. QED
    BY <1>6, <2>3, <2>4, <2>5 DEF clientVars
<1>11. ASSUME NEW c \in ConnIds, LinkDown(c)
       PROVE  ClientOK'
  BY <1>6, <1>11 DEF LinkDown, clientVars
<1>12. ASSUME NEW c \in ConnIds, Erase(c)
       PROVE  ClientOK'
  BY <1>12 DEF Erase, stackVars, Owed, Linked
<1>13. QED
  BY <1>1, <1>2, <1>3, <1>4, <1>5, <1>7, <1>8, <1>9, <1>10, <1>11, <1>12
     DEF ClientMoves

-----------------------------------------------------------------------------
(* The sessions.                                                           *)

\* What a step may do to the sessions and their objects.
ObjectsMove ==
    \/ UNCHANGED <<objects, sessions>>
    \/ /\ \E o \in 1..Len(objects) : \E v \in Session :
             /\ v.sid = objects[o].sid /\ v.freed = objects[o].freed
             /\ objects' = [objects EXCEPT ![o] = v]
       /\ UNCHANGED sessions
    \/ \E t \in Threads : Cleanup(t)
    \/ \E s \in Sids : Subscribe(s)

\* Objects are never given to another session, nor back once freed.
ObjectsGrow ==
    /\ Len(objects') \in Nat /\ Len(objects) <= Len(objects')
    /\ \A o \in 1..Len(objects) :
          /\ objects'[o].sid = objects[o].sid
          /\ objects[o].freed => objects'[o].freed

LEMMA NewIsSession ==
    ASSUME NEW s \in Sids
    PROVE  New(s) \in Session /\ New(s).sid = s /\ ~New(s).freed
  BY DEF New, Session, States

LEMMA ObjectIsSession ==
    ASSUME SessionsOK
    PROVE  /\ objects \in Seq(Session) /\ Len(objects) \in Nat
           /\ \A o \in 1..Len(objects) :
                 objects[o] \in Session /\ objects[o].sid \in Sids
<1>1. objects \in Seq(Session) /\ Len(objects) \in Nat
  BY LenProperties DEF SessionsOK
<1>2. \A o \in 1..Len(objects) : objects[o] \in Session
  BY <1>1, ElementOfSeq
<1>3. \A o \in 1..Len(objects) : objects[o].sid \in Sids
  BY <1>2 DEF Session
<1>4. QED
  BY <1>1, <1>2, <1>3

\* Freeing an object marks it, and keeps its sid and the other objects.
LEMMA Freeing ==
    ASSUME SessionsOK, NEW o \in 1..Len(objects)
    PROVE  /\ Free(o) \in Seq(Session) /\ Len(Free(o)) = Len(objects)
           /\ \A i \in 1..Len(objects) \ {o} : Free(o)[i] = objects[i]
           /\ Free(o)[o].freed /\ Free(o)[o].sid = objects[o].sid
           /\ Free(o)[o] = [IF arg["host"].object = o THEN objects[o]
                            ELSE New(objects[o].sid) EXCEPT !.freed = TRUE]
<1> DEFINE kept == IF arg["host"].object = o THEN objects[o] ELSE New(objects[o].sid)
           v == [kept EXCEPT !.freed = TRUE]
<1>1. objects \in Seq(Session) /\ objects[o] \in Session
  BY ElementOfSeq DEF SessionsOK
<1>2. objects[o].sid \in Sids
  BY <1>1 DEF Session
<1>3. kept \in Session /\ kept.sid = objects[o].sid
  BY <1>1, <1>2, NewIsSession
<1>4. v \in Session /\ v.sid = objects[o].sid /\ v.freed
  BY <1>3 DEF Session
<1>5. Free(o) = [objects EXCEPT ![o] = v]
  BY DEF Free
<1>6. v = [IF arg["host"].object = o THEN objects[o]
           ELSE New(objects[o].sid) EXCEPT !.freed = TRUE]
  OBVIOUS
<1> HIDE DEF v
<1> DEFINE freed == [objects EXCEPT ![o] = v]
<1>7. /\ freed \in Seq(Session) /\ Len(freed) = Len(objects)
      /\ \A i \in 1..Len(objects) : freed[i] = IF i = o THEN v ELSE objects[i]
  BY <1>1, <1>4, ExceptSeq
<1>8. Free(o) = freed
  BY <1>5
<1> HIDE DEF freed
<1>9. QED
  BY <1>4, <1>6, <1>7, <1>8

LEMMA SessionsStep ==
    ASSUME SessionsOK, ThreadsOK, ObjectsMove
    PROVE  SessionsOK' /\ ObjectsGrow
<1>0. /\ objects \in Seq(Session) /\ Len(objects) \in Nat
      /\ \A o \in 1..Len(objects) : objects[o] \in Session /\ objects[o].sid \in Sids
  BY ObjectIsSession
<1>1. CASE UNCHANGED <<objects, sessions>>
  BY <1>0, <1>1 DEF SessionsOK, ObjectsGrow, Open
<1>2. CASE /\ \E o \in 1..Len(objects) : \E v \in Session :
                 /\ v.sid = objects[o].sid /\ v.freed = objects[o].freed
                 /\ objects' = [objects EXCEPT ![o] = v]
           /\ UNCHANGED sessions
  <2>1. PICK o \in 1..Len(objects), v \in Session :
                 /\ v.sid = objects[o].sid /\ v.freed = objects[o].freed
                 /\ objects' = [objects EXCEPT ![o] = v]
    BY <1>2
  <2>2. /\ objects' \in Seq(Session) /\ Len(objects') = Len(objects)
        /\ \A i \in 1..Len(objects) : /\ objects'[i].sid = objects[i].sid
                                      /\ objects'[i].freed = objects[i].freed
    BY <1>0, <2>1, ExceptSeq
  <2>3. QED
    BY <1>0, <1>2, <2>2 DEF SessionsOK, ObjectsGrow, Open
<1>3. ASSUME NEW t \in Threads, Cleanup(t)
      PROVE  SessionsOK' /\ ObjectsGrow
  <2> DEFINE s == arg[t].sid
             o == sessions[s]
  <2>1. s \in Sids
    BY <1>3 DEF ThreadsOK, Cleanup, Goes
  <2>2. /\ objects' = IF o = 0 THEN objects ELSE Free(o)
        /\ sessions' = [sessions EXCEPT ![s] = 0]
    BY <1>3 DEF Cleanup
  <2> HIDE DEF s
  <2>3. o \in 0..Len(objects) /\ (o # 0 => objects[o].sid = s)
    BY <2>1 DEF SessionsOK, Open
  <2>4. /\ objects' \in Seq(Session) /\ Len(objects') = Len(objects)
        /\ \A i \in 1..Len(objects) : /\ objects'[i].sid = objects[i].sid
                                      /\ i # o => objects'[i] = objects[i]
        /\ o # 0 => objects'[o].freed
    <3>1. CASE o = 0
      BY <1>0, <2>2, <3>1
    <3>2. CASE o # 0
      <4>1. o \in 1..Len(objects)
        BY <1>0, <2>3, <3>2
      <4>2. /\ Free(o) \in Seq(Session) /\ Len(Free(o)) = Len(objects)
            /\ \A i \in 1..Len(objects) \ {o} : Free(o)[i] = objects[i]
            /\ Free(o)[o].freed /\ Free(o)[o].sid = objects[o].sid
        BY <4>1, Freeing
      <4>3. objects' = Free(o)
        BY <2>2, <3>2
      <4>4. QED
        BY <4>1, <4>2, <4>3
    <3>3. QED
      BY <3>1, <3>2
  <2>5. sessions' \in [Sids -> 0..Len(objects)]
    BY <1>0, <2>1, <2>2 DEF SessionsOK
  <2>6. \A r \in Sids : sessions'[r] = IF r = s THEN 0 ELSE sessions[r]
    BY <2>1, <2>2 DEF SessionsOK
  <2> HIDE DEF o
  <2>7. \A r \in Open' : objects'[sessions'[r]].sid = r /\ ~objects'[sessions'[r]].freed
    BY <1>0, <2>1, <2>3, <2>4, <2>6 DEF SessionsOK, Open, o
  <2>8. \A i \in 1..Len(objects) : ~objects'[i].freed => sessions'[objects'[i].sid] = i
    <3> TAKE i \in 1..Len(objects)
    <3>1. SUFFICES ASSUME ~objects'[i].freed
                   PROVE  sessions'[objects'[i].sid] = i
      OBVIOUS
    <3>2. i # o
      BY <2>4, <3>1
    <3>3. objects'[i] = objects[i]
      BY <2>4, <3>2
    <3>4. objects[i].sid \in Sids /\ sessions[objects[i].sid] = i
      BY <1>0, <3>1, <3>3 DEF SessionsOK, Session
    <3>5. objects[i].sid # s
      BY <3>2, <3>4 DEF o
    <3>6. QED
      BY <2>6, <3>3, <3>4, <3>5
  <2>9. ObjectsGrow
    BY <1>0, <2>3, <2>4 DEF ObjectsGrow
  <2>10. QED
    BY <2>4, <2>5, <2>7, <2>8, <2>9 DEF SessionsOK
<1>4. ASSUME NEW s \in Sids, Subscribe(s)
      PROVE  SessionsOK' /\ ObjectsGrow
  <2> DEFINE old == sessions[s]
             kept == IF old = 0 THEN objects ELSE Free(old)
             o == Len(objects) + 1
  <2>1. /\ objects' = Append(kept, New(s)) /\ sessions' = [sessions EXCEPT ![s] = o]
        /\ o <= MaxSubscribes
    BY <1>4 DEF Subscribe
  <2>2. old \in 0..Len(objects) /\ (old # 0 => objects[old].sid = s)
    BY DEF SessionsOK, Open
  <2>3. /\ kept \in Seq(Session) /\ Len(kept) = Len(objects)
        /\ \A i \in 1..Len(objects) : /\ kept[i].sid = objects[i].sid
                                      /\ i # old => kept[i] = objects[i]
        /\ old # 0 => kept[old].freed
    <3>1. CASE old = 0
      BY <1>0, <3>1
    <3>2. CASE old # 0
      <4>1. old \in 1..Len(objects)
        BY <1>0, <2>2, <3>2
      <4>2. /\ Free(old) \in Seq(Session) /\ Len(Free(old)) = Len(objects)
            /\ \A i \in 1..Len(objects) \ {old} : Free(old)[i] = objects[i]
            /\ Free(old)[old].freed /\ Free(old)[old].sid = objects[old].sid
        BY <4>1, Freeing
      <4>3. kept = Free(old)
        BY <2>2, <3>2
      <4>4. QED
        BY <4>1, <4>2, <4>3
    <3>3. QED
      BY <3>1, <3>2
  <2> HIDE DEF kept
  <2>4. New(s) \in Session /\ New(s).sid = s /\ ~New(s).freed
    BY NewIsSession
  <2>5. /\ objects' \in Seq(Session) /\ Len(objects') = o
        /\ \A i \in 1..Len(objects) : objects'[i] = kept[i]
        /\ objects'[o] = New(s)
    BY <1>0, <2>1, <2>3, <2>4, AppendProperties
  <2>6. sessions' \in [Sids -> 0..Len(objects')]
    BY <1>0, <2>1, <2>5 DEF SessionsOK
  <2>7. \A r \in Sids : sessions'[r] = IF r = s THEN o ELSE sessions[r]
    BY <2>1 DEF SessionsOK
  <2>8. \A r \in Open' : objects'[sessions'[r]].sid = r /\ ~objects'[sessions'[r]].freed
    <3> SUFFICES ASSUME NEW r \in Open'
                 PROVE  objects'[sessions'[r]].sid = r /\ ~objects'[sessions'[r]].freed
      OBVIOUS
    <3>1. CASE r = s
      BY <2>4, <2>5, <2>7, <3>1
    <3>2. CASE r # s
      <4>1. r \in Open /\ sessions'[r] = sessions[r] /\ sessions[r] \in 1..Len(objects)
        BY <1>0, <2>7, <3>2 DEF Open, SessionsOK
      <4>2. objects[sessions[r]].sid = r /\ sessions[r] # old
        BY <2>2, <3>2, <4>1 DEF SessionsOK, Open
      <4>3. QED
        BY <2>3, <2>5, <4>1, <4>2 DEF SessionsOK
    <3>3. QED
      BY <3>1, <3>2
  <2>9. \A i \in 1..Len(objects') : ~objects'[i].freed => sessions'[objects'[i].sid] = i
    <3> SUFFICES ASSUME NEW i \in 1..Len(objects'), ~objects'[i].freed
                 PROVE  sessions'[objects'[i].sid] = i
      OBVIOUS
    <3>1. CASE i = o
      BY <2>4, <2>5, <2>7, <3>1
    <3>2. CASE i # o
      <4>1. i \in 1..Len(objects) /\ objects'[i] = kept[i]
        BY <1>0, <2>5, <3>2
      <4>2. i # old /\ objects'[i] = objects[i]
        BY <2>2, <2>3, <4>1
      <4>3. sessions[objects[i].sid] = i
        BY <4>1, <4>2 DEF SessionsOK
      <4>4. QED
        BY <1>0, <2>7, <4>1, <4>2, <4>3
    <3>3. QED
      BY <3>1, <3>2
  <2>10. ObjectsGrow
    <3>1. \A i \in 1..Len(objects) : objects[i].freed => kept[i].freed
      BY <1>0, <2>2, <2>3
    <3>2. QED
      BY <1>0, <2>3, <2>5, <3>1 DEF ObjectsGrow
  <2>11. QED
    BY <1>0, <2>1, <2>5, <2>6, <2>8, <2>9, <2>10 DEF SessionsOK
<1>5. QED
  BY <1>1, <1>2, <1>3, <1>4 DEF ObjectsMove

-----------------------------------------------------------------------------
(* The steps, one by one.                                                  *)

WsSteps ==
    \/ Suppress \/ StopScan \/ ConnectBegins \/ ConnectRefused \/ StoreHandle
    \/ CloseDisconnects
CleanupSteps ==
    \E t \in Threads : \/ Cleanup(t) \/ CleanupGivesUp(t) \/ LastOne(t)
                       \/ OthersRemain(t) \/ Lift(t) \/ Rescan(t)
EventSteps ==
    \/ \E p \in Peers : OpenSucceeds(p) \/ OpenFails(p)
    \/ \E c \in ConnIds : Mtu(c) \/ SearchDone(c) \/ Answered(c) \/ LinkLost(c)
\* The steps of gatt_run_init_writes() and gatt_run_subscribes().
SetupSteps ==
    \/ at["host"] = "init" /\ (NextInitWrite \/ InitWritesDone)
    \/ at["host"] = "subscribe" /\ (NextSubscribe \/ Activate)
    \/ Tell
CallbackSteps ==
    OnConnected \/ OnWriteComplete \/ CallbackGivesUp \/ SetupSteps \/ EraseEntry

\* Next again, in the order in which the proofs go through it.
LEMMA NextSteps ==
    ASSUME [Next]_vars
    PROVE  \/ Commands \/ WsSteps \/ CleanupSteps \/ EventSteps \/ CallbackSteps
           \/ \E m \in timers : TimerFires(m)
           \/ UNCHANGED vars
<1>1. CASE WebSocket \/ CleanupGivesUp("ws") \/ CleanupGivesUp("host") \/ Callback
  BY <1>1 DEF WebSocket, Callback, CleansUp, WsSteps, CleanupSteps, CallbackSteps,
     SetupSteps, Threads
<1>2. CASE \/ \E p \in Peers : Opens(p)
           \/ \E c \in ConnIds : LinkProgress(c) \/ LinkLost(c)
  BY <1>2 DEF Opens, LinkProgress, EventSteps
<1>3. CASE CallbackGivesUp
  BY <1>3 DEF CallbackSteps
<1>4. QED
  BY <1>1, <1>2, <1>3 DEF Next

\* The host task's object and its plan, where it has them.
LEMMA MineIsTyped ==
    ASSUME Typed, arg["host"].object # 0
    PROVE  /\ arg["host"].object \in 1..Len(objects)
           /\ Mine \in Session /\ Mine.sid \in Sids /\ Mine.sid = arg["host"].sid
           /\ MyPlan.init \in Seq(Chars) /\ MyPlan.notify \in Seq(Chars)
           /\ MyPlan.timers \subseteq Descriptors
<1>1. arg["host"].object \in 1..Len(objects)
  BY ObjectIsSession DEF Typed, ThreadsOK, Threads, Work
<1>2. Mine \in Session /\ Mine.sid \in Sids
  BY <1>1, ObjectIsSession DEF Typed, Mine
<1>3. Mine.sid = arg["host"].sid
  BY DEF Typed, ThreadsOK, Threads, Mine
<1>4. QED
  BY <1>1, <1>2, <1>3, SessionAssumption DEF MyPlan

LEMMA NextMovesClient ==
    ASSUME Typed, [Next]_vars
    PROVE  ClientMoves
<1> USE DEF ClientMoves
<1>1. CASE UNCHANGED <<clientVars, stackVars>>
  BY <1>1
<1>2. ASSUME NEW s \in Sids, NEW ch \in Chars, Write(s, ch)
      PROVE  ClientMoves
  BY <1>2 DEF Write, Requests
<1>3. CASE Commands
  BY <1>1, <1>2, <1>3 DEF Commands, Subscribe, Close
<1>4. CASE WsSteps
  <2>1. CASE ConnectBegins \/ ConnectRefused
    <3>1. arg["ws"].sid \in Sids
      BY <2>1 DEF ConnectBegins, ConnectRefused, Goes, Typed, ThreadsOK, Threads
    <3>2. QED
      BY <2>1, <3>1, SessionAssumption DEF ConnectBegins, ConnectRefused
  <2>2. CASE Suppress \/ StopScan \/ StoreHandle
    BY <1>1, <2>2 DEF Suppress, StopScan, StoreHandle
  <2>3. CASE CloseDisconnects
    BY <2>3 DEF CloseDisconnects
  <2>4. QED
    BY <1>4, <2>1, <2>2, <2>3 DEF WsSteps
<1>5. CASE CleanupSteps
  BY <1>1, <1>5 DEF CleanupSteps, Cleanup, CleanupGivesUp, GivesUp, LastOne,
     OthersRemain, Lift, Rescan
<1>6. CASE EventSteps
  BY <1>6 DEF EventSteps, OpenSucceeds, OpenFails, Mtu, SearchDone, Answered,
     LinkLost
<1>7. CASE EraseEntry
  <2>1. arg["host"].what \in Peers \cup ConnIds
    BY <1>7 DEF EraseEntry, Typed, ThreadsOK, Threads, Work
  <2>2. QED
    BY <1>7, <2>1 DEF EraseEntry
<1>8. CASE OnConnected \/ OnWriteComplete \/ CallbackGivesUp
  BY <1>1, <1>8 DEF OnConnected, OnWriteComplete, CallbackGivesUp, GivesUp
<1>9. CASE SetupSteps
  <2>1. CASE at["host"] = "init" /\ NextInitWrite
    <3> DEFINE i == Mine.index + 1
    <3>1. arg["host"].object # 0
      BY <2>1 DEF Typed, ThreadsOK
    <3>2. i \in 1..Len(MyPlan.init)
      BY <2>1, <3>1, MineIsTyped DEF NextInitWrite, Session
    <3>3. MyPlan.init[i] \in Chars
      BY <3>1, <3>2, MineIsTyped, ElementOfSeq
    <3>4. QED
      BY <2>1, <3>3 DEF NextInitWrite, Requests
  <2>2. CASE at["host"] = "subscribe" /\ NextSubscribe
    <3> DEFINE i == Mine.subscribe + 1
    <3>1. arg["host"].object # 0
      BY <2>2 DEF Typed, ThreadsOK
    <3>2. i \in 1..Len(MyPlan.notify)
      BY <2>2, <3>1, MineIsTyped DEF NextSubscribe, Session
    <3>3. MyPlan.notify[i] \in Chars
      BY <3>1, <3>2, MineIsTyped, ElementOfSeq
    <3>4. QED
      BY <2>2, <3>3 DEF NextSubscribe, Subscribes, Requests
  <2>3. CASE InitWritesDone \/ Activate \/ Tell
    BY <1>1, <2>3 DEF InitWritesDone, Activate, Tell
  <2>4. QED
    BY <1>9, <2>1, <2>2, <2>3 DEF SetupSteps
<1>10. ASSUME NEW m \in timers, TimerFires(m)
       PROVE  ClientMoves
  <2>1. m.char \in Chars /\ m.kind \in Requests
    BY DEF Typed, TimersOK, Timer, Requests
  <2>2. QED
    BY <1>10, <2>1 DEF TimerFires
<1>11. CASE UNCHANGED vars
  BY <1>1, <1>11 DEF vars, clientVars, stackVars
<1>12. QED
  BY <1>3, <1>4, <1>5, <1>6, <1>7, <1>8, <1>9, <1>10, <1>11, NextSteps
     DEF CallbackSteps

\* The fields of a session that the steps change, but for freed.
LEMMA FieldsChange ==
    ASSUME NEW r \in Session
    PROVE  /\ \A x \in States :
                 LET v == [r EXCEPT !.state = x]
                 IN  v \in Session /\ v.sid = r.sid /\ v.freed = r.freed
           /\ LET v == [r EXCEPT !.index = @ + 1]
              IN  v \in Session /\ v.sid = r.sid /\ v.freed = r.freed
           /\ LET v == [r EXCEPT !.subscribe = @ + 1]
              IN  v \in Session /\ v.sid = r.sid /\ v.freed = r.freed
           /\ LET v == [r EXCEPT !.stalled = TRUE]
              IN  v \in Session /\ v.sid = r.sid /\ v.freed = r.freed
           /\ LET v == [r EXCEPT !.intruded = TRUE]
              IN  v \in Session /\ v.sid = r.sid /\ v.freed = r.freed
           /\ LET v == [r EXCEPT !.told = TRUE]
              IN  v \in Session /\ v.sid = r.sid /\ v.freed = r.freed
           /\ LET v == [r EXCEPT !.state = "subscribing", !.subscribe = 0,
                                 !.stalled = FALSE]
              IN  v \in Session /\ v.sid = r.sid /\ v.freed = r.freed
<1> USE DEF Session, States
<1>1. \A x \in States : LET v == [r EXCEPT !.state = x]
                        IN  v \in Session /\ v.sid = r.sid /\ v.freed = r.freed
  OBVIOUS
<1>2. LET v == [r EXCEPT !.index = @ + 1]
      IN  v \in Session /\ v.sid = r.sid /\ v.freed = r.freed
  OBVIOUS
<1>3. LET v == [r EXCEPT !.subscribe = @ + 1]
      IN  v \in Session /\ v.sid = r.sid /\ v.freed = r.freed
  OBVIOUS
<1>4. LET v == [r EXCEPT !.stalled = TRUE]
      IN  v \in Session /\ v.sid = r.sid /\ v.freed = r.freed
  OBVIOUS
<1>5. LET v == [r EXCEPT !.intruded = TRUE]
      IN  v \in Session /\ v.sid = r.sid /\ v.freed = r.freed
  OBVIOUS
<1>6. LET v == [r EXCEPT !.told = TRUE]
      IN  v \in Session /\ v.sid = r.sid /\ v.freed = r.freed
  OBVIOUS
<1>7. LET v == [r EXCEPT !.state = "subscribing", !.subscribe = 0, !.stalled = FALSE]
      IN  v \in Session /\ v.sid = r.sid /\ v.freed = r.freed
  OBVIOUS
<1>8. QED
  BY <1>1, <1>2, <1>3, <1>4, <1>5, <1>6, <1>7, Zenon

LEMMA NextMovesObjects ==
    ASSUME Typed, [Next]_vars
    PROVE  ObjectsMove
<1> USE DEF ObjectsMove
<1>0. /\ \A o \in 1..Len(objects) : objects[o] \in Session
      /\ \A s \in Sids : sessions[s] # 0 => sessions[s] \in 1..Len(objects)
      /\ \A t \in Threads : /\ arg[t].object # 0 => arg[t].object \in 1..Len(objects)
                            /\ at[t] # "idle" => arg[t].sid \in Sids
  BY ObjectIsSession DEF Typed, SessionsOK, ThreadsOK, Work
<1>1. CASE UNCHANGED <<objects, sessions>>
  BY <1>1
\* Every other step but the two changes a field of one object.
<1>2. ASSUME NEW o \in 1..Len(objects), NEW v \in Session,
             v.sid = objects[o].sid, v.freed = objects[o].freed,
             objects' = [objects EXCEPT ![o] = v], UNCHANGED sessions
      PROVE  ObjectsMove
  BY <1>2
<1>3. CASE Commands
  <2>1. ASSUME NEW s \in Sids, Close(s)
        PROVE  ObjectsMove
    <3>1. /\ sessions[s] \in 1..Len(objects) /\ UNCHANGED sessions
          /\ objects' = [objects EXCEPT ![sessions[s]] =
                           [objects[sessions[s]] EXCEPT !.state = "disconnecting"]]
      BY <1>0, <2>1 DEF Close, Open
    <3>2. QED
      BY <1>0, <1>2, <3>1, FieldsChange DEF States
  <2>2. ASSUME NEW s \in Sids, NEW ch \in Chars, Write(s, ch)
        PROVE  ObjectsMove
    BY <1>1, <2>2 DEF Write, sessionVars
  <2>3. QED
    BY <1>3, <2>1, <2>2 DEF Commands
\* The thread lets go of its session, in StoreHandle and in Tell.
<1>4. ASSUME NEW t \in Threads, NEW other \in Threads, LetsGo(t, other),
             arg[t].object # 0, UNCHANGED sessions
      PROVE  ObjectsMove
  <2> DEFINE o == arg[t].object
  <2>1. \/ UNCHANGED objects
        \/ objects' = [objects EXCEPT ![o] = [objects[o] EXCEPT !.told = TRUE]]
    BY <1>4 DEF LetsGo
  <2>2. o \in 1..Len(objects)
    BY <1>0, <1>4
  <2>3. QED
    BY <1>0, <1>2, <1>4, <2>1, <2>2, FieldsChange
<1>5. CASE WsSteps
  <2>1. CASE StoreHandle
    <3>1. arg["ws"].object # 0
      BY <2>1 DEF StoreHandle, Ends, Typed, ThreadsOK
    <3>2. QED
      BY <1>4, <2>1, <3>1 DEF StoreHandle, Threads
  <2>2. CASE Suppress \/ StopScan \/ ConnectBegins \/ ConnectRefused
             \/ CloseDisconnects
    BY <1>1, <2>2 DEF Suppress, StopScan, ConnectBegins, ConnectRefused,
       CloseDisconnects, sessionVars
  <2>3. QED
    BY <1>5, <2>1, <2>2 DEF WsSteps
<1>6. CASE CleanupSteps
  BY <1>1, <1>6 DEF CleanupSteps, CleanupGivesUp, GivesUp, LastOne, OthersRemain,
     Lift, Rescan, sessionVars
<1>7. CASE EventSteps
  <2>1. ASSUME NEW c \in ConnIds, Answered(c)
        PROVE  ObjectsMove
    <3> DEFINE o == sessions[connections[c].sid]
    <3>1. connections[c].sid \in Sids
      BY <2>1 DEF Answered, Answers, Typed, ClientOK, ClientTypeOK, Connection
    <3>2. /\ UNCHANGED sessions
          /\ \/ UNCHANGED objects
             \/ /\ objects' = [objects EXCEPT ![o] = [objects[o] EXCEPT !.intruded = TRUE]]
                /\ o # 0
      BY <2>1 DEF Answered
    <3>3. o # 0 => o \in 1..Len(objects)
      BY <1>0, <3>1
    <3> HIDE DEF o
    <3>4. QED
      BY <1>0, <1>2, <3>2, <3>3, FieldsChange
  <2>2. CASE \/ \E p \in Peers : OpenSucceeds(p) \/ OpenFails(p)
             \/ \E c \in ConnIds : Mtu(c) \/ SearchDone(c) \/ LinkLost(c)
    BY <1>1, <2>2 DEF OpenSucceeds, OpenFails, Mtu, SearchDone, LinkLost,
       sessionVars
  <2>3. QED
    BY <1>7, <2>1, <2>2 DEF EventSteps
<1>8. CASE OnConnected \/ OnWriteComplete
  <2> DEFINE o == sessions[arg["host"].sid]
  <2>1. o # 0 => o \in 1..Len(objects)
    BY <1>0, <1>8 DEF OnConnected, OnWriteComplete, Threads
  <2>2. /\ UNCHANGED sessions
        /\ \/ UNCHANGED objects
           \/ /\ \/ objects' = [objects EXCEPT ![o] =
                                  [objects[o] EXCEPT !.state = "initializing"]]
                 \/ objects' = [objects EXCEPT ![o] = [objects[o] EXCEPT !.index = @ + 1]]
              /\ o # 0
    BY <1>8 DEF OnConnected, OnWriteComplete, InInit
  <2> HIDE DEF o
  <2>3. QED
    BY <1>0, <1>2, <2>1, <2>2, FieldsChange DEF States
<1>9. CASE CallbackGivesUp \/ EraseEntry
  BY <1>1, <1>9 DEF CallbackGivesUp, GivesUp, EraseEntry, sessionVars
<1>10. CASE SetupSteps
  <2> DEFINE o == arg["host"].object
  <2>1. o # 0
    BY <1>10 DEF SetupSteps, Tell, Ends, Typed, ThreadsOK
  <2>2. o \in 1..Len(objects) /\ objects[o] \in Session
    BY <1>0, <2>1 DEF Threads
  <2>3. CASE Tell
    BY <1>4, <2>1, <2>3 DEF Tell, Threads
  <2>4. CASE NextInitWrite
    <3>1. /\ UNCHANGED sessions
          /\ \/ UNCHANGED objects
             \/ objects' = [objects EXCEPT ![o] = [objects[o] EXCEPT !.stalled = TRUE]]
      BY <2>4 DEF NextInitWrite
    <3>2. QED
      BY <1>2, <2>2, <3>1, FieldsChange
  <2>5. CASE InitWritesDone
    <3>1. /\ UNCHANGED sessions
          /\ objects' = [objects EXCEPT ![o] =
                [objects[o] EXCEPT !.state = "subscribing", !.subscribe = 0,
                                   !.stalled = FALSE]]
      BY <2>5 DEF InitWritesDone
    <3>2. QED
      BY <1>2, <2>2, <3>1, FieldsChange
  <2>6. CASE NextSubscribe
    <3>1. /\ UNCHANGED sessions
          /\ objects' = [objects EXCEPT ![o] = [objects[o] EXCEPT !.subscribe = @ + 1]]
      BY <2>6 DEF NextSubscribe
    <3>2. QED
      BY <1>2, <2>2, <3>1, FieldsChange
  <2>7. CASE Activate
    <3>1. /\ UNCHANGED sessions
          /\ objects' = [objects EXCEPT ![o] = [objects[o] EXCEPT !.state = "active"]]
      BY <2>7 DEF Activate
    <3>2. QED
      BY <1>2, <2>2, <3>1, FieldsChange DEF States
  <2>8. QED
    BY <1>10, <2>3, <2>4, <2>5, <2>6, <2>7 DEF SetupSteps
<1>11. CASE \E m \in timers : TimerFires(m)
  BY <1>1, <1>11 DEF TimerFires, sessionVars
<1>12. CASE UNCHANGED vars
  BY <1>1, <1>12 DEF vars, sessionVars
<1>13. QED
  BY <1>3, <1>5, <1>6, <1>7, <1>8, <1>9, <1>10, <1>11, <1>12, NextSteps
     DEF CallbackSteps

-----------------------------------------------------------------------------
(* The threads.                                                            *)

\* What a thread holds stays what it was as the objects become more.
LEMMA WorkGrows ==
    ASSUME SessionsOK, ThreadsOK, ObjectsGrow
    PROVE  /\ Work \subseteq Work'
           /\ \A t \in Threads : arg[t].object # 0 =>
                 /\ arg[t].object \in 1..Len(objects)
                 /\ objects'[arg[t].object].sid = arg[t].sid
<1>1. 0..Len(objects) \subseteq 0..Len(objects')
  BY ObjectIsSession DEF ObjectsGrow
<1>2. Work \subseteq Work'
  BY <1>1 DEF Work
<1>3. \A t \in Threads : arg[t].object # 0 => arg[t].object \in 1..Len(objects)
  BY ObjectIsSession DEF ThreadsOK, Work
<1>4. QED
  BY <1>2, <1>3 DEF ThreadsOK, ObjectsGrow

LEMMA StaysOK ==
    ASSUME SessionsOK, ThreadsOK, ObjectsGrow, UNCHANGED <<at, arg>>
    PROVE  ThreadsOK'
<1>1. arg' \in [Threads -> Work']
  BY WorkGrows DEF ThreadsOK
<1>2. QED
  BY <1>1, WorkGrows DEF ThreadsOK

\* The places that follow each other while a thread holds what it holds.
Follows ==
    {<<"ws", "suppress", "stop_scan">>, <<"ws", "stop_scan", "connect">>,
     <<"ws", "connect", "handle">>, <<"ws", "disconnect", "cleanup">>,
     <<"host", "init", "subscribe">>, <<"host", "subscribe", "subscribe">>,
     <<"host", "subscribe", "lift">>}
    \cup Threads \X {"cleanup"} \X {"empty"}
    \cup Threads \X {"empty"} \X {"lift"}
    \cup Threads \X {"lift"} \X {"rescan"}

LEMMA GoesOK ==
    ASSUME SessionsOK, ThreadsOK, ObjectsGrow, NEW t \in Threads, NEW from, NEW to,
           Goes(t, from, to),
           \/ <<t, from, to>> \in Follows
           \/ from = "rescan" /\ to = "tell" /\ arg[t].object # 0
    PROVE  ThreadsOK'
<1>1. /\ at' = [at EXCEPT ![t] = to] /\ arg' = arg /\ at[t] = from
  BY DEF Goes
<1>2. arg' \in [Threads -> Work']
  BY <1>1, WorkGrows DEF ThreadsOK
<1>3. CASE t = "ws"
  BY <1>1, <1>2, <1>3, WorkGrows DEF ThreadsOK, Threads, Follows, WsPlaces
<1>4. CASE t = "host"
  BY <1>1, <1>2, <1>4, WorkGrows DEF ThreadsOK, Threads, Follows, HostPlaces
<1>5. QED
  BY <1>3, <1>4 DEF Threads

LEMMA EndsOK ==
    ASSUME SessionsOK, ThreadsOK, ObjectsGrow, NEW t \in Threads, NEW from,
           Ends(t, from), from # "idle"
    PROVE  ThreadsOK'
<1>1. Idle \in Work' /\ Idle.object = 0 /\ Idle.what = None
  BY DEF Idle, Work, ObjectsGrow
<1>2. CASE t = "host" /\ arg[t].what # None
  <2>1. /\ at' = [at EXCEPT !["host"] = "erase"]
        /\ arg' = [arg EXCEPT !["host"].object = 0]
        /\ at["host"] # "idle"
    BY <1>2 DEF Ends
  <2>2. arg["host"].object = 0
    BY <1>2 DEF ThreadsOK
  <2>3. arg' = arg
    BY <2>1, <2>2 DEF ThreadsOK, Threads, Work
  <2>4. arg' \in [Threads -> Work']
    BY <2>3, WorkGrows DEF ThreadsOK
  <2>5. QED
    BY <1>2, <2>1, <2>2, <2>3, <2>4, WorkGrows DEF ThreadsOK, Threads, HostPlaces
<1>3. CASE ~(t = "host" /\ arg[t].what # None)
  <2>1. /\ at' = [at EXCEPT ![t] = "idle"] /\ arg' = [arg EXCEPT ![t] = Idle]
    BY <1>3 DEF Ends
  <2>2. arg' \in [Threads -> Work']
    BY <1>1, <2>1, WorkGrows DEF ThreadsOK
  <2>3. CASE t = "ws"
    BY <1>1, <2>1, <2>2, <2>3, WorkGrows DEF ThreadsOK, Threads, WsPlaces
  <2>4. CASE t = "host"
    BY <1>1, <2>1, <2>2, <2>4, WorkGrows DEF ThreadsOK, Threads, HostPlaces
  <2>5. QED
    BY <2>3, <2>4 DEF Threads
<1>4. QED
  BY <1>2, <1>3

\* A callback begins: of a read or a write, or where an entry may go.
LEMMA CallsOK ==
    ASSUME SessionsOK, ThreadsOK, ObjectsGrow, NEW s \in Sids,
           NEW callback, NEW what \in Peers \cup ConnIds \cup {None},
           Calls(callback, s, what),
           callback \in {"connected", "written", "cleanup"},
           what = None \/ callback = "cleanup"
    PROVE  ThreadsOK'
<1> DEFINE work == [sid |-> s, object |-> 0, what |-> what]
<1>1. work \in Work' /\ work.sid = s /\ work.object = 0 /\ work.what = what
  BY DEF Work, ObjectsGrow
<1>2. /\ at' = [at EXCEPT !["host"] = callback]
      /\ arg' = [arg EXCEPT !["host"] = work]
  BY DEF Calls, Begins
<1> HIDE DEF work
<1>3. arg' \in [Threads -> Work']
  BY <1>1, <1>2, WorkGrows DEF ThreadsOK
<1>4. QED
  BY <1>1, <1>2, <1>3, WorkGrows DEF ThreadsOK, Threads, HostPlaces

LEMMA ThreadsStep ==
    ASSUME Typed, [Next]_vars, SessionsOK', ObjectsGrow
    PROVE  ThreadsOK'
<1>0. SessionsOK /\ ThreadsOK
  BY DEF Typed
<1>1. CASE UNCHANGED <<at, arg>>
  BY <1>0, <1>1, StaysOK
<1>2. CASE Commands
  <2>1. ASSUME NEW s \in Sids, Subscribe(s)
        PROVE  ThreadsOK'
    <3> DEFINE o == Len(objects) + 1
               work == [sid |-> s, object |-> o, what |-> None]
    <3>1. /\ at["ws"] = "idle" /\ at' = [at EXCEPT !["ws"] = "suppress"]
          /\ arg' = [arg EXCEPT !["ws"] = work]
          /\ sessions' = [sessions EXCEPT ![s] = o]
      BY <2>1 DEF Subscribe, Begins
    <3>2. o \in Nat /\ o # 0
      BY <1>0, ObjectIsSession
    <3>3. sessions'[s] = o /\ s \in Open' /\ objects'[o].sid = s
      BY <1>0, <3>1, <3>2 DEF SessionsOK, Open
    <3>4. o \in 0..Len(objects')
      BY <3>1, <3>3 DEF SessionsOK
    <3>5. work \in Work' /\ work.sid = s /\ work.object = o /\ work.what = None
      BY <3>4 DEF Work
    <3> HIDE DEF work, o
    <3>6. arg' \in [Threads -> Work']
      BY <1>0, <3>1, <3>5, WorkGrows DEF ThreadsOK
    <3>7. QED
      BY <1>0, <3>1, <3>2, <3>3, <3>5, <3>6, WorkGrows
         DEF ThreadsOK, Threads, WsPlaces
  <2>2. ASSUME NEW s \in Sids, Close(s)
        PROVE  ThreadsOK'
    <3> DEFINE work == [sid |-> s, object |-> 0, what |-> None]
    <3>1. /\ at["ws"] = "idle" /\ at' = [at EXCEPT !["ws"] = "disconnect"]
          /\ arg' = [arg EXCEPT !["ws"] = work]
      BY <2>2 DEF Close, Begins
    <3>2. work \in Work' /\ work.sid = s /\ work.object = 0 /\ work.what = None
      BY DEF Work, ObjectsGrow
    <3> HIDE DEF work
    <3>3. arg' \in [Threads -> Work']
      BY <1>0, <3>1, <3>2, WorkGrows DEF ThreadsOK
    <3>4. QED
      BY <1>0, <3>1, <3>2, <3>3, WorkGrows DEF ThreadsOK, Threads, WsPlaces
  <2>3. ASSUME NEW s \in Sids, NEW ch \in Chars, Write(s, ch)
        PROVE  ThreadsOK'
    BY <1>1, <2>3 DEF Write
  <2>4. QED
    BY <1>2, <2>1, <2>2, <2>3 DEF Commands
<1>3. CASE WsSteps
  <2>1. CASE Suppress \/ StopScan \/ ConnectBegins \/ CloseDisconnects
    <3>1. PICK from, to :
             /\ Goes("ws", from, to)
             /\ <<"ws", from, to>> \in
                  {<<"ws", "suppress", "stop_scan">>, <<"ws", "stop_scan", "connect">>,
                   <<"ws", "connect", "handle">>, <<"ws", "disconnect", "cleanup">>}
      BY <2>1 DEF Suppress, StopScan, ConnectBegins, CloseDisconnects
    <3>2. QED
      BY <1>0, <3>1, GoesOK DEF Follows, Threads
  <2>2. CASE ConnectRefused
    <3> DEFINE work == [arg["ws"] EXCEPT !.object = 0]
    <3>1. /\ at["ws"] = "connect" /\ at' = [at EXCEPT !["ws"] = "cleanup"]
          /\ arg' = [arg EXCEPT !["ws"] = work]
      BY <2>2 DEF ConnectRefused
    <3>2. arg["ws"] \in Work /\ arg["ws"].sid \in Sids /\ arg["ws"].what = None
      BY <1>0, <3>1 DEF ThreadsOK, Threads
    <3>3. work \in Work' /\ work.sid \in Sids /\ work.object = 0 /\ work.what = None
      BY <3>2 DEF Work, ObjectsGrow
    <3> HIDE DEF work
    <3>4. arg' \in [Threads -> Work']
      BY <1>0, <3>1, <3>3, WorkGrows DEF ThreadsOK
    <3>5. QED
      BY <1>0, <3>1, <3>3, <3>4, WorkGrows DEF ThreadsOK, Threads, WsPlaces
  <2>3. CASE StoreHandle
    BY <1>0, <2>3, EndsOK DEF StoreHandle, Threads
  <2>4. QED
    BY <1>3, <2>1, <2>2, <2>3 DEF WsSteps
<1>4. CASE CleanupSteps
  <2> SUFFICES ASSUME NEW t \in Threads,
                      \/ Cleanup(t) \/ CleanupGivesUp(t) \/ LastOne(t)
                      \/ OthersRemain(t) \/ Lift(t) \/ Rescan(t)
               PROVE  ThreadsOK'
    BY <1>4 DEF CleanupSteps
  <2>1. CASE Cleanup(t) \/ LastOne(t) \/ Lift(t)
    <3>1. \/ Goes(t, "cleanup", "empty")
          \/ Goes(t, "empty", "lift")
          \/ Goes(t, "lift", "rescan")
      BY <2>1 DEF Cleanup, LastOne, Lift
    <3>2. /\ <<t, "cleanup", "empty">> \in Follows
          /\ <<t, "empty", "lift">> \in Follows
          /\ <<t, "lift", "rescan">> \in Follows
      BY DEF Follows
    <3>3. QED
      BY <1>0, <3>1, <3>2, GoesOK
  <2>2. CASE CleanupGivesUp(t) \/ OthersRemain(t)
    BY <1>0, <2>2, EndsOK DEF CleanupGivesUp, GivesUp, OthersRemain
  <2>3. CASE Rescan(t)
    <3>1. CASE arg[t].object = 0
      BY <1>0, <2>3, <3>1, EndsOK DEF Rescan
    <3>2. CASE arg[t].object # 0
      BY <1>0, <2>3, <3>2, GoesOK DEF Rescan
    <3>3. QED
      BY <3>1, <3>2
  <2>4. QED
    BY <2>1, <2>2, <2>3
<1>5. CASE EventSteps
  <2>1. CASE \/ \E p \in Peers : OpenSucceeds(p)
             \/ \E c \in ConnIds : Mtu(c)
    BY <1>1, <2>1 DEF OpenSucceeds, Mtu
  <2>2. ASSUME NEW s, NEW callback, NEW what,
               \/ UNCHANGED <<at, arg>>
               \/ /\ s \in Sids
                  /\ callback \in {"connected", "written", "cleanup"}
                  /\ what \in Peers \cup ConnIds \cup {None}
                  /\ what = None \/ callback = "cleanup"
                  /\ Calls(callback, s, what)
        PROVE  ThreadsOK'
    BY <1>0, <1>1, <2>2, CallsOK
  <2>3. ASSUME NEW p \in Peers, OpenFails(p)
        PROVE  ThreadsOK'
    <3>1. pending[p] # None => pending[p] \in Sids
      BY DEF Typed, ClientOK, ClientTypeOK
    <3>2. QED
      BY <2>2, <2>3, <3>1 DEF OpenFails
  <2>4. ASSUME NEW c \in ConnIds, SearchDone(c) \/ Answered(c) \/ LinkLost(c)
        PROVE  ThreadsOK'
    <3>1. connections[c] # None => connections[c].sid \in Sids
      BY DEF Typed, ClientOK, ClientTypeOK, Connection
    <3>2. CASE SearchDone(c)
      BY <2>2, <3>1, <3>2 DEF SearchDone, SearchComplete
    <3>3. CASE Answered(c)
      BY <2>2, <3>1, <3>3 DEF Answered, Answers
    <3>4. CASE LinkLost(c)
      BY <2>2, <3>1, <3>4 DEF LinkLost
    <3>5. QED
      BY <2>4, <3>2, <3>3, <3>4
  <2>5. QED
    BY <1>5, <2>1, <2>3, <2>4 DEF EventSteps
<1>6. CASE OnConnected \/ OnWriteComplete
  <2> DEFINE s == arg["host"].sid
             o == sessions[s]
             work == [arg["host"] EXCEPT !.object = o]
  <2>1. at["host"] \in {"connected", "written"}
    BY <1>6 DEF OnConnected, OnWriteComplete, Ends
  <2>2. \/ Ends("host", "connected") \/ Ends("host", "written")
        \/ /\ o # 0
           /\ at' = [at EXCEPT !["host"] = "init"]
           /\ arg' = [arg EXCEPT !["host"] = work]
    BY <1>6 DEF OnConnected, OnWriteComplete, Continues, InInit
  <2>3. CASE Ends("host", "connected") \/ Ends("host", "written")
    BY <1>0, <2>3, EndsOK DEF Threads
  <2>4. CASE /\ o # 0
             /\ at' = [at EXCEPT !["host"] = "init"]
             /\ arg' = [arg EXCEPT !["host"] = work]
    <3>1. /\ s \in Sids /\ arg["host"] \in Work /\ arg["host"].what = None
          /\ arg["host"].object = 0
      BY <1>0, <2>1 DEF ThreadsOK, Threads
    <3>2. o \in 1..Len(objects) /\ objects[o].sid = s
      BY <1>0, <2>4, <3>1, ObjectIsSession DEF SessionsOK, Open
    <3>3. o \in 1..Len(objects') /\ objects'[o].sid = s
      BY <1>0, <3>2, ObjectIsSession DEF ObjectsGrow
    <3>4. work \in Work' /\ work.sid = s /\ work.object = o /\ work.what = None
      BY <3>1, <3>3 DEF Work
    <3> HIDE DEF work, o, s
    <3>5. arg' \in [Threads -> Work']
      BY <1>0, <2>4, <3>4, WorkGrows DEF ThreadsOK
    <3>6. QED
      BY <1>0, <2>1, <2>4, <3>1, <3>3, <3>4, <3>5, WorkGrows
         DEF ThreadsOK, Threads, HostPlaces
  <2>5. QED
    BY <2>2, <2>3, <2>4
<1>7. CASE CallbackGivesUp
  BY <1>0, <1>7, EndsOK DEF CallbackGivesUp, GivesUp, Threads
<1>8. CASE EraseEntry
  <2>1. /\ at' = [at EXCEPT !["host"] = "idle"]
        /\ arg' = [arg EXCEPT !["host"] = Idle]
    BY <1>8 DEF EraseEntry
  <2>2. Idle \in Work' /\ Idle.object = 0 /\ Idle.what = None
    BY DEF Idle, Work, ObjectsGrow
  <2>3. arg' \in [Threads -> Work']
    BY <1>0, <2>1, <2>2, WorkGrows DEF ThreadsOK
  <2>4. QED
    BY <1>0, <2>1, <2>2, <2>3, WorkGrows DEF ThreadsOK, Threads, HostPlaces
<1>9. CASE SetupSteps
  <2>1. CASE InitWritesDone \/ NextSubscribe \/ Activate
    <3>1. PICK from, to :
             /\ Goes("host", from, to)
             /\ <<"host", from, to>> \in
                  {<<"host", "init", "subscribe">>, <<"host", "subscribe", "subscribe">>,
                   <<"host", "subscribe", "lift">>}
      BY <2>1 DEF InitWritesDone, NextSubscribe, Activate
    <3>2. QED
      BY <1>0, <3>1, GoesOK DEF Follows, Threads
  <2>2. CASE NextInitWrite \/ Tell
    BY <1>0, <2>2, EndsOK DEF NextInitWrite, Tell, Threads
  <2>3. QED
    BY <1>9, <2>1, <2>2 DEF SetupSteps
<1>10. CASE \/ \E m \in timers : TimerFires(m)
            \/ UNCHANGED vars
  BY <1>1, <1>10 DEF TimerFires, vars
<1>11. QED
  BY <1>2, <1>3, <1>4, <1>5, <1>6, <1>7, <1>8, <1>9, <1>10, NextSteps
     DEF CallbackSteps

-----------------------------------------------------------------------------
(* The timers and the history.                                             *)

\* Timers are only made by gatt_start_timers(), for the host task's object.
LEMMA TimersMove ==
    ASSUME Typed, [Next]_vars
    PROVE  \/ timers' \subseteq timers
           \/ /\ at["host"] = "subscribe" /\ Activate
              /\ timers' \subseteq timers \cup
                    {m \in Timer : m.object = arg["host"].object}
<1>1. CASE UNCHANGED timers
  BY <1>1
<1>2. CASE Commands
  BY <1>1, <1>2 DEF Commands, Subscribe, Close, Write, sessionVars
<1>3. CASE WsSteps
  BY <1>1, <1>3 DEF WsSteps, Suppress, StopScan, ConnectBegins, ConnectRefused,
     StoreHandle, CloseDisconnects, sessionVars
<1>4. CASE CleanupSteps
  BY <1>1, <1>4 DEF CleanupSteps, Cleanup, CleanupGivesUp, GivesUp, LastOne,
     OthersRemain, Lift, Rescan, sessionVars
<1>5. CASE EventSteps
  BY <1>1, <1>5 DEF EventSteps, OpenSucceeds, OpenFails, Mtu, SearchDone,
     Answered, LinkLost, sessionVars
<1>6. CASE OnConnected \/ OnWriteComplete \/ CallbackGivesUp \/ EraseEntry
  BY <1>1, <1>6 DEF OnConnected, OnWriteComplete, CallbackGivesUp, GivesUp,
     EraseEntry, sessionVars
<1>7. CASE NextInitWrite \/ InitWritesDone \/ NextSubscribe \/ Tell
  BY <1>1, <1>7 DEF NextInitWrite, InitWritesDone, NextSubscribe, Tell
<1>8. CASE at["host"] = "subscribe" /\ Activate
  <2> DEFINE o == arg["host"].object
             timer(d) == [object |-> o, kind |-> d.kind, char |-> d.char]
  <2>1. o # 0
    BY <1>8 DEF Typed, ThreadsOK
  <2>2. o \in Objects /\ MyPlan.timers \subseteq Descriptors
    BY <2>1, MineIsTyped, ObjectIsSession, SessionAssumption
       DEF Typed, SessionsOK, Objects
  <2>3. PICK made \in SUBSET {d \in MyPlan.timers : d.interval >= MinInterval} :
           timers' = timers \cup {timer(d) : d \in made}
    BY <1>8 DEF Activate
  <2>4. \A d \in made : timer(d) \in Timer /\ timer(d).object = o
    BY <2>2 DEF Timer, Descriptors
  <2> HIDE DEF timer
  <2>5. QED
    BY <1>8, <2>3, <2>4
<1>9. CASE \/ \E m \in timers : TimerFires(m)
           \/ UNCHANGED vars
  BY <1>1, <1>9 DEF TimerFires, vars, sessionVars
<1>10. QED
  BY <1>2, <1>3, <1>4, <1>5, <1>6, <1>7, <1>8, <1>9, NextSteps
     DEF CallbackSteps, SetupSteps

\* What the history may gain in a step.
SeenGrows ==
    /\ seen' \in History
    /\ seen.gaveUp \subseteq seen'.gaveUp
    /\ seen.displaced \subseteq seen'.displaced
    /\ seen.late \subseteq seen'.late
    /\ seen'.late \subseteq seen.late \cup 1..Len(objects)
    /\ \A o \in seen'.dangling \ seen.dangling :
          /\ o \in 1..Len(objects) /\ objects[o].told
          /\ \E t \in Threads : arg[t].object = o

LEMMA DisplacingGrows ==
    ASSUME Typed, NEW some, some \subseteq Sids \cup {None}, Displace(some)
    PROVE  SeenGrows
  BY DEF Typed, SeenOK, History, Displace, SeenGrows

LEMMA TouchingGrows ==
    ASSUME Typed, NEW t \in Threads, arg[t].object # 0, Touch(t)
    PROVE  SeenGrows
<1> DEFINE o == arg[t].object
<1>1. o \in 1..Len(objects) /\ o \in Objects
  BY ObjectIsSession, SessionAssumption
     DEF Typed, ThreadsOK, SessionsOK, Work, Objects
<1>2. seen' = [seen EXCEPT !.dangling =
                  IF objects[o].freed /\ objects[o].told THEN @ \cup {o} ELSE @]
  BY DEF Touch
<1> HIDE DEF o
<1>3. seen' \in History
  BY <1>1, <1>2 DEF Typed, SeenOK, History
<1>4. /\ seen'.late = seen.late /\ seen'.gaveUp = seen.gaveUp
      /\ seen'.displaced = seen.displaced
      /\ \/ seen'.dangling = seen.dangling
         \/ seen'.dangling = seen.dangling \cup {o} /\ objects[o].told
  BY <1>2 DEF Typed, SeenOK, History
<1>5. QED
  BY <1>1, <1>3, <1>4 DEF SeenGrows, o

LEMMA GivingUpGrows ==
    ASSUME Typed, NEW t \in Threads, NEW from, from # "idle", GivesUp(t, from)
    PROVE  SeenGrows
<1>1. arg[t].sid \in Sids
  BY DEF Typed, ThreadsOK, GivesUp, Ends
<1>2. seen' = [seen EXCEPT !.gaveUp = @ \cup {arg[t].sid}]
  BY DEF GivesUp
<1>3. QED
  BY <1>1, <1>2 DEF Typed, SeenOK, History, SeenGrows

LEMMA SeenStep ==
    ASSUME Typed, [Next]_vars
    PROVE  SeenGrows
<1>1. CASE UNCHANGED seen
  BY <1>1 DEF Typed, SeenOK, SeenGrows
<1>2. pending \in [Peers -> Sids \cup {None}]
  BY DEF Typed, ClientOK, ClientTypeOK
<1>3. CASE Commands
  <2>1. ASSUME NEW s \in Sids, Subscribe(s)
        PROVE  SeenGrows
    BY <2>1, DisplacingGrows DEF Subscribe
  <2>2. QED
    BY <1>1, <1>3, <2>1 DEF Commands, Close, Write
<1>4. CASE WsSteps
  <2> DEFINE p == Plan[arg["ws"].sid].peer
  <2>1. CASE ConnectBegins \/ ConnectRefused
    <3>1. p \in Peers
      BY <2>1, SessionAssumption
         DEF ConnectBegins, ConnectRefused, Goes, Typed, ThreadsOK, Threads
    <3>2. QED
      BY <1>2, <2>1, <3>1, DisplacingGrows DEF ConnectBegins, ConnectRefused
  <2>2. CASE StoreHandle
    <3>1. arg["ws"].object # 0
      BY <2>2 DEF StoreHandle, Ends, Typed, ThreadsOK
    <3>2. QED
      BY <2>2, <3>1, TouchingGrows DEF StoreHandle, Threads
  <2>3. CASE Suppress \/ StopScan \/ CloseDisconnects
    BY <1>1, <2>3 DEF Suppress, StopScan, CloseDisconnects
  <2>4. QED
    BY <1>4, <2>1, <2>2, <2>3 DEF WsSteps
<1>5. CASE CleanupSteps
  <2>1. ASSUME NEW t \in Threads, CleanupGivesUp(t)
        PROVE  SeenGrows
    BY <2>1, GivingUpGrows DEF CleanupGivesUp
  <2>2. QED
    BY <1>1, <1>5, <2>1 DEF CleanupSteps, Cleanup, LastOne, OthersRemain, Lift,
       Rescan
<1>6. CASE EventSteps
  <2>1. ASSUME NEW p \in Peers, OpenSucceeds(p)
        PROVE  SeenGrows
    <3>1. \A c \in LinkIds(p) : connections[c] # None => connections[c].sid \in Sids
      BY DEF LinkIds, Typed, ClientOK, ClientTypeOK, Connection
    <3>2. QED
      BY <1>2, <2>1, <3>1, DisplacingGrows DEF OpenSucceeds
  <2>2. QED
    BY <1>1, <1>6, <2>1 DEF EventSteps, OpenFails, Mtu, SearchDone, Answered,
       LinkLost
<1>7. CASE OnConnected \/ OnWriteComplete
  BY <1>1, <1>7 DEF OnConnected, OnWriteComplete
<1>8. CASE CallbackGivesUp
  BY <1>8, GivingUpGrows DEF CallbackGivesUp, Threads
<1>9. CASE EraseEntry
  <2>1. arg["host"].what \in Peers \cup ConnIds
    BY <1>9 DEF EraseEntry, Typed, ThreadsOK, Threads, Work
  <2>2. CASE arg["host"].what \in ConnIds
    BY <1>1, <1>9, <2>2 DEF EraseEntry
  <2>3. CASE arg["host"].what \notin ConnIds
    BY <1>2, <1>9, <2>1, <2>3, DisplacingGrows DEF EraseEntry
  <2>4. QED
    BY <2>2, <2>3
<1>10. CASE SetupSteps
  <2>1. arg["host"].object # 0
    BY <1>10 DEF SetupSteps, Tell, Ends, Typed, ThreadsOK
  <2>2. CASE NextInitWrite \/ InitWritesDone \/ NextSubscribe \/ Tell
    BY <2>1, <2>2, TouchingGrows
       DEF NextInitWrite, InitWritesDone, NextSubscribe, Tell, Threads
  <2>3. CASE Activate
    <3> DEFINE o == arg["host"].object
    <3>1. o \in 1..Len(objects) /\ o \in Objects /\ Mine = objects[o]
      BY <2>1, MineIsTyped, ObjectIsSession, SessionAssumption
         DEF Typed, SessionsOK, Objects, Mine
    <3>2. \/ UNCHANGED seen
          \/ seen' = [seen EXCEPT !.late = @ \cup {o},
                        !.dangling = IF objects[o].told THEN @ \cup {o} ELSE @]
      BY <2>3, <3>1 DEF Activate
    <3>3. CASE seen' = [seen EXCEPT !.late = @ \cup {o},
                          !.dangling = IF objects[o].told THEN @ \cup {o} ELSE @]
      <4>1. /\ seen' \in History
            /\ seen'.late = seen.late \cup {o} /\ seen'.gaveUp = seen.gaveUp
            /\ seen'.displaced = seen.displaced
            /\ \/ seen'.dangling = seen.dangling
               \/ seen'.dangling = seen.dangling \cup {o} /\ objects[o].told
        BY <3>1, <3>3 DEF Typed, SeenOK, History
      <4>2. QED
        BY <3>1, <4>1 DEF SeenGrows, Threads
    <3>4. QED
      BY <1>1, <3>2, <3>3
  <2>4. QED
    BY <1>10, <2>2, <2>3 DEF SetupSteps
<1>11. CASE \/ \E m \in timers : TimerFires(m)
            \/ UNCHANGED vars
  BY <1>1, <1>11 DEF TimerFires, vars
<1>12. QED
  BY <1>3, <1>4, <1>5, <1>6, <1>7, <1>8, <1>9, <1>10, <1>11, NextSteps
     DEF CallbackSteps

-----------------------------------------------------------------------------
(* The types.                                                              *)

LEMMA ScanFlagsStep ==
    ASSUME Typed, [Next]_vars
    PROVE  suppressed' \in BOOLEAN /\ resumed' \in BOOLEAN
<1> USE DEF Typed
<1>1. CASE UNCHANGED scanVars
  BY <1>1 DEF scanVars
<1>2. CASE Commands \/ EventSteps \/ CallbackSteps \/ \E m \in timers : TimerFires(m)
  BY <1>1, <1>2 DEF Commands, Subscribe, Close, Write, EventSteps, OpenSucceeds,
     OpenFails, Mtu, SearchDone, Answered, LinkLost, CallbackSteps, OnConnected,
     OnWriteComplete, CallbackGivesUp, GivesUp, EraseEntry, SetupSteps,
     NextInitWrite, InitWritesDone, NextSubscribe, Activate, Tell, TimerFires
<1>3. CASE WsSteps
  BY <1>3 DEF WsSteps, Suppress, StopScan, ConnectBegins, ConnectRefused,
     StoreHandle, CloseDisconnects, scanVars
<1>4. CASE CleanupSteps
  BY <1>4 DEF CleanupSteps, Cleanup, CleanupGivesUp, GivesUp, LastOne,
     OthersRemain, Lift, Rescan, scanVars
<1>5. CASE UNCHANGED vars
  BY <1>1, <1>5 DEF vars, scanVars
<1>6. QED
  BY <1>2, <1>3, <1>4, <1>5, NextSteps

LEMMA TypedStep ==
    ASSUME Typed, [Next]_vars
    PROVE  Typed' /\ ObjectsGrow
<1>1. ClientOK'
  BY NextMovesClient, ClientStep DEF Typed
<1>2. SessionsOK' /\ ObjectsGrow
  BY NextMovesObjects, SessionsStep DEF Typed
<1>3. ThreadsOK'
  BY <1>2, ThreadsStep
<1>4. 1..Len(objects) \subseteq 1..Len(objects')
  BY <1>2, ObjectIsSession DEF Typed, ObjectsGrow
<1>5. TimersOK'
  <2>1. CASE timers' \subseteq timers
    BY <1>4, <2>1 DEF Typed, TimersOK, Timer
  <2>2. CASE /\ at["host"] = "subscribe" /\ Activate
             /\ timers' \subseteq timers \cup
                   {m \in Timer : m.object = arg["host"].object}
    <3>1. arg["host"].object \in 1..Len(objects)
      BY <2>2, MineIsTyped DEF Typed, ThreadsOK
    <3>2. QED
      BY <1>4, <2>2, <3>1 DEF Typed, TimersOK, Timer
  <2>3. QED
    BY <2>1, <2>2, TimersMove
<1>6. SeenOK'
  <2>1. SeenGrows
    BY SeenStep
  <2>2. seen'.dangling \subseteq 1..Len(objects')
    BY <1>4, <2>1 DEF SeenGrows, Typed, SeenOK
  <2>3. seen'.late \subseteq 1..Len(objects')
    BY <1>4, <2>1 DEF SeenGrows, Typed, SeenOK
  <2>4. QED
    BY <2>1, <2>2, <2>3 DEF SeenGrows, SeenOK
<1>7. QED
  BY <1>1, <1>2, <1>3, <1>5, <1>6, ScanFlagsStep DEF Typed

LEMMA TypedInit == ASSUME Init PROVE Typed
<1> USE DEF Init, ClientInit
<1>1. ClientOK
  <2>1. Linked = {} /\ Owed = {}
    BY DEF Linked, Owed
  <2>2. IsFiniteSet(Owed) /\ Cardinality(Owed) = 0
    BY <2>1, FS_EmptySet
  <2>3. QED
    BY <2>2, ClientAssumption DEF ClientOK, ClientTypeOK
<1>2. objects = <<>> /\ Len(objects) = 0 /\ objects \in Seq(Session)
  BY EmptySeq
<1>3. SessionsOK
  BY <1>2, SessionAssumption DEF SessionsOK, Open
<1>4. Idle \in Work
  BY <1>2 DEF Idle, Work
<1>5. ThreadsOK
  BY <1>4 DEF ThreadsOK, Threads, WsPlaces, HostPlaces, Idle
<1>6. TimersOK /\ SeenOK
  BY DEF TimersOK, SeenOK, History
<1>7. QED
  BY <1>1, <1>3, <1>5, <1>6 DEF Typed

LEMMA TypedAlways == Spec => []Typed
<1>1. Typed /\ [Next]_vars => Typed'
  BY TypedStep
<1>2. QED
  BY <1>1, TypedInit, PTL DEF Spec

\* The type invariant: in particular gatt_sessions_ holds no freed session,
\* and the stack never owes more than it takes.
THEOREM TypeCorrect == Spec => []TypeOK
  BY TypedAlways, TypedIsTyped, PTL

-----------------------------------------------------------------------------
(* Timers and their sessions.                                              *)

\* A session is freed by the cleanup that finds it, or by the gatt_subscribe
\* that replaces it.
LEMMA WhoFrees ==
    ASSUME Typed, [Next]_vars, NEW o \in 1..Len(objects),
           objects'[o].freed, ~objects[o].freed
    PROVE  \/ \E t \in Threads : Cleanup(t) /\ o = sessions[arg[t].sid]
           \/ Subscribe(objects[o].sid) /\ objects[o].sid \in Open
<1>0. /\ objects \in Seq(Session) /\ Len(objects) \in Nat
      /\ \A i \in 1..Len(objects) : objects[i] \in Session /\ objects[i].sid \in Sids
  BY ObjectIsSession DEF Typed
<1>1. CASE UNCHANGED <<objects, sessions>>
  BY <1>1
<1>2. CASE \E i \in 1..Len(objects) : \E v \in Session :
             /\ v.sid = objects[i].sid /\ v.freed = objects[i].freed
             /\ objects' = [objects EXCEPT ![i] = v]
  BY <1>0, <1>2, ExceptSeq
<1>3. ASSUME NEW t \in Threads, Cleanup(t)
      PROVE  o = sessions[arg[t].sid]
  <2> DEFINE i == sessions[arg[t].sid]
  <2>1. arg[t].sid \in Sids
    BY <1>3 DEF Typed, ThreadsOK, Cleanup, Goes
  <2>2. objects' = IF i = 0 THEN objects ELSE Free(i)
    BY <1>3 DEF Cleanup
  <2>3. i \in 0..Len(objects)
    BY <2>1 DEF Typed, SessionsOK
  <2> HIDE DEF i
  <2>4. i \in 1..Len(objects)
    BY <1>0, <2>2, <2>3
  <2>5. objects' = Free(i) /\ \A j \in 1..Len(objects) \ {i} : Free(i)[j] = objects[j]
    BY <1>0, <2>2, <2>4, Freeing DEF Typed
  <2>6. o = i
    BY <2>5
  <2>7. QED
    BY <2>6 DEF i
<1>4. ASSUME NEW s \in Sids, Subscribe(s)
      PROVE  s = objects[o].sid /\ s \in Open
  <2> DEFINE i == sessions[s]
             kept == IF i = 0 THEN objects ELSE Free(i)
  <2>1. objects' = Append(kept, New(s))
    BY <1>4 DEF Subscribe
  <2>2. i \in 0..Len(objects) /\ (i # 0 => objects[i].sid = s)
    BY DEF Typed, SessionsOK, Open
  <2> HIDE DEF i
  <2>3. CASE i = 0
    BY <1>0, <2>1, <2>3, NewIsSession, AppendProperties
  <2>4. CASE i # 0
    <3>1. i \in 1..Len(objects)
      BY <1>0, <2>2, <2>4
    <3>2. /\ kept \in Seq(Session) /\ Len(kept) = Len(objects)
          /\ \A j \in 1..Len(objects) \ {i} : kept[j] = objects[j]
      <4>1. kept = Free(i)
        BY <2>4, <3>1
      <4>2. /\ Free(i) \in Seq(Session) /\ Len(Free(i)) = Len(objects)
            /\ \A j \in 1..Len(objects) \ {i} : Free(i)[j] = objects[j]
        BY <3>1, Freeing DEF Typed
      <4> HIDE DEF kept
      <4>3. QED
        BY <4>1, <4>2
    <3> HIDE DEF kept
    <3>3. objects'[o] = kept[o]
      BY <1>0, <2>1, <3>2, NewIsSession, AppendProperties
    <3>4. o = i
      BY <3>2, <3>3
    <3>5. QED
      BY <2>2, <2>4, <3>4 DEF Open, i
  <2>5. QED
    BY <2>3, <2>4
<1>5. QED
  BY <1>1, <1>2, <1>3, <1>4, NextMovesObjects DEF ObjectsMove

LEMMA TimersFollowStep ==
    ASSUME Typed, TimersFollowSession, [Next]_vars
    PROVE  TimersFollowSession'
<1> SUFFICES ASSUME NEW m \in timers',
                    objects'[m.object].freed,
                    Undisturbed(objects[m.object].sid)'
             PROVE  m.object \in seen'.late
  BY DEF TimersFollowSession
<1> DEFINE o == m.object
<1>1. \/ m \in timers
      \/ /\ at["host"] = "subscribe" /\ Activate
         /\ o = arg["host"].object
  BY TimersMove
<1>2. o \in 1..Len(objects)
  BY <1>1, MineIsTyped DEF Typed, TimersOK, ThreadsOK
<1>3. objects'[o].sid = objects[o].sid /\ SeenGrows
  BY <1>2, TypedStep, SeenStep DEF ObjectsGrow
<1>4. Undisturbed(objects[o].sid) /\ objects[o].sid \notin seen'.displaced
  BY <1>3 DEF Undisturbed, SeenGrows
<1>5. CASE objects[o].freed
  <2>1. CASE m \in timers
    BY <1>3, <1>4, <1>5, <2>1 DEF TimersFollowSession, SeenGrows
  <2>2. CASE Activate /\ o = arg["host"].object
    <3>1. o \in Objects
      BY <1>2, ObjectIsSession, SessionAssumption DEF Typed, SessionsOK, Objects
    <3>2. seen' = [seen EXCEPT !.late = @ \cup {o},
                     !.dangling = IF Mine.told THEN @ \cup {o} ELSE @]
      BY <1>5, <2>2 DEF Activate, Mine
    <3>3. QED
      BY <3>2 DEF Typed, SeenOK, History
  <2>3. QED
    BY <1>1, <2>1, <2>2
<1>6. CASE ~objects[o].freed
  <2>1. ASSUME NEW t \in Threads, Cleanup(t), o = sessions[arg[t].sid]
        PROVE  FALSE
    BY <2>1 DEF Cleanup
  <2>2. ~(Subscribe(objects[o].sid) /\ objects[o].sid \in Open)
    <3>1. ASSUME Subscribe(objects[o].sid), objects[o].sid \in Open
          PROVE  objects[o].sid \in seen'.displaced
      <4>1. objects[o].sid # None /\ objects[o].sid \in Sids
        BY <3>1, ClientAssumption DEF Open
      <4>2. QED
        BY <3>1, <4>1 DEF Subscribe, Displace, Typed, SeenOK, History
    <3>2. QED
      BY <1>4, <3>1
  <2>3. QED
    BY <1>2, <1>6, <2>1, <2>2, WhoFrees
<1>7. QED
  BY <1>5, <1>6

\* No timer outlives its session: deleting the session deletes the timers
\* that were made for it, on whichever thread, and a gatt_start_timers() that
\* runs on a freed session is recorded.
THEOREM TimersFollowSessionAlways == Spec => []TimersFollowSession
<1>1. Init => TimersFollowSession
  BY DEF Init, TimersFollowSession
<1>2. Typed /\ TimersFollowSession /\ [Next]_vars => TimersFollowSession'
  BY TimersFollowStep
<1>3. QED
  BY <1>1, <1>2, TypedAlways, PTL DEF Spec

-----------------------------------------------------------------------------
(* What a step may do to the places a session can have in the client.      *)

\* The session id that a connection belongs to.
SidOf(c) == IF connections[c] = None THEN None ELSE connections[c].sid

Calling(s) == at["ws"] \in {"suppress", "stop_scan", "connect"} /\ arg["ws"].sid = s
Waits(s) == \E p \in Peers : pending[p] = s
Of(s) == {c \in ConnIds : SidOf(c) = s}

SamePlaces == UNCHANGED pending /\ \A c \in ConnIds : SidOf(c)' = SidOf(c)

LEMMA SidIsTyped ==
    ASSUME Typed, NEW c \in ConnIds
    PROVE  /\ SidOf(c) \in Sids \cup {None}
           /\ SidOf(c) # None <=> connections[c] # None
           /\ connections[c] # None => SidOf(c) = connections[c].sid
  BY ClientAssumption DEF SidOf, Typed, ClientOK, ClientTypeOK, Connection

LEMMA SearchKeepsSid ==
    ASSUME Typed, NEW d \in ConnIds, NEW found \in BOOLEAN, SearchComplete(d, found)
    PROVE  SamePlaces
<1>1. connections[d] \in Connection
  BY DEF SearchComplete, Typed, ClientOK, ClientTypeOK
<1>2. \A chars : /\ [connections[d] EXCEPT !.chars = chars].sid = connections[d].sid
                 /\ chars \in SUBSET Chars =>
                       [connections[d] EXCEPT !.chars = chars] \in Connection
  BY <1>1 DEF Connection
<1>3. Offers[connections[d].peer] \in SUBSET Chars
  BY <1>1, ClientAssumption DEF Connection
<1>4. /\ UNCHANGED pending
      /\ \/ UNCHANGED connections
         \/ \E chars \in SUBSET Chars : connections' = [connections EXCEPT ![d].chars = chars]
  BY <1>3 DEF SearchComplete
<1>5. \A c \in ConnIds : SidOf(c)' = SidOf(c)
  <2>1. CASE UNCHANGED connections
    BY <2>1 DEF SidOf
  <2>2. ASSUME NEW chars \in SUBSET Chars,
               connections' = [connections EXCEPT ![d].chars = chars]
        PROVE  \A c \in ConnIds : SidOf(c)' = SidOf(c)
    <3> DEFINE conn == [connections[d] EXCEPT !.chars = chars]
    <3>1. conn \in Connection /\ conn.sid = connections[d].sid
      BY <1>2
    <3>2. \A c \in ConnIds : connections'[c] = IF c = d THEN conn ELSE connections[c]
      BY <2>2 DEF Typed, ClientOK, ClientTypeOK
    <3> HIDE DEF conn
    <3>3. conn # None /\ connections[d] # None
      BY <1>1, <3>1, EntryAssumption
    <3>4. QED
      BY <3>1, <3>2, <3>3 DEF SidOf
  <2>3. QED
    BY <1>4, <2>1, <2>2
<1>6. QED
  BY <1>4, <1>5 DEF SamePlaces

LEMMA PlacesMove ==
    ASSUME Typed, [Next]_vars
    PROVE  \/ SamePlaces
           \/ ConnectBegins \/ ConnectRefused \/ EraseEntry
           \/ \E p \in Peers : OpenSucceeds(p)
<1>1. CASE UNCHANGED clientVars
  BY <1>1 DEF clientVars, SamePlaces, SidOf
<1>2. ASSUME NEW ch, NEW request, Asks(ch, request)
      PROVE  UNCHANGED clientVars
  BY <1>2 DEF Asks
<1>3. CASE Commands
  BY <1>1, <1>2, <1>3 DEF Commands, Subscribe, Close, Write
<1>4. CASE WsSteps
  BY <1>1, <1>4 DEF WsSteps, Suppress, StopScan, StoreHandle, CloseDisconnects,
     Disconnects
<1>5. CASE CleanupSteps
  BY <1>1, <1>5 DEF CleanupSteps, Cleanup, CleanupGivesUp, GivesUp, LastOne,
     OthersRemain, Lift, Rescan
<1>6. CASE EventSteps
  <2>1. ASSUME NEW c \in ConnIds, SearchDone(c)
        PROVE  SamePlaces
    BY <2>1, SearchKeepsSid DEF SearchDone
  <2>2. ASSUME NEW c \in ConnIds, Mtu(c) \/ Answered(c) \/ LinkLost(c)
        PROVE  UNCHANGED clientVars
    BY <2>2 DEF Mtu, MtuEvent, Answered, Answers, LinkLost, LinkDown
  <2>3. ASSUME NEW p \in Peers, OpenFails(p)
        PROVE  UNCHANGED clientVars
    BY <2>3 DEF OpenFails, OpenFailed
  <2>4. QED
    BY <1>1, <1>6, <2>1, <2>2, <2>3 DEF EventSteps
<1>7. CASE CallbackSteps
  BY <1>1, <1>2, <1>7 DEF CallbackSteps, OnConnected, OnWriteComplete,
     CallbackGivesUp, GivesUp, SetupSteps, NextInitWrite, InitWritesDone,
     NextSubscribe, Subscribes, Activate, Tell
<1>8. CASE \E m \in timers : TimerFires(m)
  BY <1>1, <1>2, <1>8 DEF TimerFires
<1>9. CASE UNCHANGED vars
  BY <1>1, <1>9 DEF vars
<1>10. QED
  BY <1>3, <1>4, <1>5, <1>6, <1>7, <1>8, <1>9, NextSteps

\* OPEN_EVT: a session that waits gets its connection, and where the
\* connection belonged to another, both are recorded.
LEMMA Opening ==
    ASSUME Typed, NEW p \in Peers, OpenSucceeds(p), ~SamePlaces
    PROVE  /\ pending[p] \in Sids
           /\ pending' = [pending EXCEPT ![p] = None]
           /\ \E c \in ConnIds :
                 /\ SidOf(c)' = pending[p]
                 /\ \A d \in ConnIds \ {c} : SidOf(d)' = SidOf(d)
                 /\ \/ SidOf(c) \in {None, pending[p]}
                    \/ {SidOf(c), pending[p]} \subseteq seen'.displaced
                 /\ links'[c] # None /\ links'[c].phase \in {"mtu", "left"}
                 /\ links'[c].owed = IF links[c] = None THEN <<>> ELSE links[c].owed
<1>1. PICK c \in LinkIds(p) :
         /\ OpenOk(p, c)
         /\ Displace(IF connections[c] # None /\ connections'[c] # connections[c]
                      THEN {connections[c].sid, pending[p]} ELSE {})
  BY DEF OpenSucceeds
<1> DEFINE took(phase) == [peer |-> p, phase |-> phase, closing |-> FALSE,
                    owed |-> IF links[c] = None THEN <<>> ELSE links[c].owed]
           conn == [peer |-> p, sid |-> pending[p], chars |-> {}]
<1>2. c \in ConnIds
  BY DEF LinkIds
<1>3. pending[p] # None
  BY <1>1 DEF OpenOk, SamePlaces, SidOf, clientVars
<1>4. pending[p] \in Sids
  BY <1>3 DEF Typed, ClientOK, ClientTypeOK
<1>5. PICK phase \in {"mtu", "left"} :
         /\ links' = [links EXCEPT ![c] = took(phase)]
         /\ connections' = [connections EXCEPT ![c] = conn]
         /\ pending' = [pending EXCEPT ![p] = None]
  BY <1>1, <1>3 DEF OpenOk
<1> DEFINE link == took(phase)
<1>15. links' = [links EXCEPT ![c] = link]
  BY <1>5
<1>6. conn \in Connection /\ conn.sid = pending[p]
  BY <1>4 DEF Connection
<1>7. /\ link.phase \in {"mtu", "left"}
      /\ link.owed = IF links[c] = None THEN <<>> ELSE links[c].owed
  OBVIOUS
<1>8. link \in Link
  <2>1. <<>> \in Seq(Requests) /\ (links[c] # None => links[c].owed \in Seq(Requests))
    BY <1>2, LinkOwes DEF Typed
  <2>2. QED
    BY <2>1 DEF Link, Phases
<1> HIDE DEF link, conn
<1>9. conn # None /\ link # None
  BY <1>6, <1>8, EntryAssumption
<1>10. links'[c] = link
  BY <1>2, <1>15 DEF Typed, ClientOK, ClientTypeOK
<1>11. \A d \in ConnIds : connections'[d] = IF d = c THEN conn ELSE connections[d]
  BY <1>5 DEF Typed, ClientOK, ClientTypeOK
<1>12. SidOf(c)' = pending[p] /\ \A d \in ConnIds \ {c} : SidOf(d)' = SidOf(d)
  BY <1>2, <1>6, <1>9, <1>11 DEF SidOf
<1>13. \/ SidOf(c) \in {None, pending[p]}
       \/ {SidOf(c), pending[p]} \subseteq seen'.displaced
  <2>1. CASE connections[c] # None /\ connections'[c] # connections[c]
    <3>1. SidOf(c) = connections[c].sid /\ SidOf(c) \in Sids
      BY <1>2, <2>1, SidIsTyped
    <3>2. seen' = [seen EXCEPT !.displaced = @ \cup ({SidOf(c), pending[p]} \ {None})]
      BY <1>1, <2>1, <3>1 DEF Displace
    <3>3. QED
      BY <1>4, <3>1, <3>2, ClientAssumption DEF Typed, SeenOK, History
  <2>2. CASE connections[c] # None /\ connections'[c] = connections[c]
    BY <1>2, <1>6, <1>11, <2>2 DEF SidOf
  <2>3. CASE connections[c] = None
    BY <2>3 DEF SidOf
  <2>4. QED
    BY <2>1, <2>2, <2>3
<1>14. QED
  BY <1>2, <1>4, <1>5, <1>7, <1>9, <1>10, <1>12, <1>13

-----------------------------------------------------------------------------
(* What a step may do to one link.                                         *)

SameLink(c) ==
    IF links[c] = None
      THEN links'[c] = None
      ELSE /\ links'[c] # None
           /\ links'[c].phase = links[c].phase /\ links'[c].owed = links[c].owed

\* A connection is asked for one thing more; an init write is asked for by
\* gatt_run_init_writes() only, of a connection of the session it runs for.
Gains(c, request) ==
    /\ connections[c] # None /\ links[c] # None /\ links'[c] # None
    /\ links'[c].phase = links[c].phase
    /\ links'[c].owed = Append(links[c].owed, request)
    /\ request = "init" =>
          at["host"] = "init" /\ NextInitWrite /\ SidOf(c) = arg["host"].sid

LEMMA AskingGains ==
    ASSUME Typed, NEW ch, NEW request \in Requests, Asks(ch, request),
           NEW c \in ConnIds,
           request = "init" => /\ at["host"] = "init" /\ NextInitWrite /\ Reaches(ch)
                               /\ arg["host"].object # 0
    PROVE  SameLink(c) \/ Gains(c, request)
<1> DEFINE d == Min(Carriers(ch))
<1>1. CASE ~Takes(ch)
  BY <1>1 DEF Asks, SameLink
<1>2. CASE Takes(ch)
  <2>1. d \in Carriers(ch) /\ d \in Linked
    BY <1>2, FirstCarrier DEF Takes
  <2>2. d \in ConnIds /\ links[d] # None /\ connections[d] # None
    BY <2>1 DEF Linked, Carriers, Connected
  <2>3. links' = [links EXCEPT ![d].owed = Append(@, request)]
    BY <1>2 DEF Asks
  <2>4. request = "init" => SidOf(d) = arg["host"].sid
    BY <2>2, MineIsTyped DEF Reaches, SidOf
  <2> HIDE DEF d
  <2>5. CASE c # d
    BY <2>2, <2>3, <2>5 DEF SameLink, Typed, ClientOK, ClientTypeOK
  <2>6. CASE c = d
    <3> DEFINE more == Append(links[d].owed, request)
               link == [links[d] EXCEPT !.owed = more]
    <3>0. links[d] \in Link /\ links[d].owed \in Seq(Requests)
      BY <2>2, LinkOwes DEF Typed
    <3>1. links[d] \in Link /\ more \in Seq(Requests)
      BY <3>0, AppendProperties
    <3> HIDE DEF more
    <3>2. /\ link \in Link /\ link.phase = links[d].phase
          /\ link.owed = more
      BY <3>1 DEF Link
    <3>3. links'[d] = link
      BY <2>2, <2>3 DEF Typed, ClientOK, ClientTypeOK, more
    <3> HIDE DEF link
    <3>4. links'[d] # None
      BY <3>2, <3>3, EntryAssumption
    <3>5. QED
      BY <2>2, <2>4, <2>6, <3>2, <3>3, <3>4 DEF Gains, more
  <2>7. QED
    BY <2>5, <2>6
<1>3. QED
  BY <1>1, <1>2

\* A link that nobody takes up is ready at once.
LEMMA OpeningLinks ==
    ASSUME Typed, NEW p \in Peers, OpenSucceeds(p), NEW c \in ConnIds
    PROVE  \/ SameLink(c)
           \/ /\ links[c] = None /\ connections[c] = None /\ links'[c] # None
              /\ links'[c].phase = "up" /\ links'[c].owed = <<>>
           \/ ~SamePlaces /\ SidOf(c)' = pending[p]
<1>1. PICK d \in LinkIds(p) : OpenOk(p, d)
  BY DEF OpenSucceeds
<1>2. d \in ConnIds
  BY DEF LinkIds
<1>3. CASE pending[p] = None
  <2> DEFINE link == [peer |-> p, phase |-> "up", closing |-> FALSE, owed |-> <<>>]
  <2>1. links' = IF links[d] = None THEN [links EXCEPT ![d] = link] ELSE links
    BY <1>1, <1>3 DEF OpenOk
  <2>2. link \in Link /\ link.phase = "up" /\ link.owed = <<>>
    BY DEF Link, Phases
  <2> HIDE DEF link
  <2>3. link # None
    BY <2>2, EntryAssumption
  <2>4. links[d] = None => connections[d] = None
    BY <1>2, <1>3 DEF LinkIds
  <2>5. \A e \in ConnIds : links'[e] = IF e = d /\ links[d] = None THEN link ELSE links[e]
    BY <1>2, <2>1 DEF Typed, ClientOK, ClientTypeOK
  <2>6. QED
    BY <1>2, <2>2, <2>3, <2>4, <2>5 DEF SameLink
<1>4. CASE pending[p] # None
  <2> DEFINE took(phase) == [peer |-> p, phase |-> phase, closing |-> FALSE,
                      owed |-> IF links[d] = None THEN <<>> ELSE links[d].owed]
             conn == [peer |-> p, sid |-> pending[p], chars |-> {}]
  <2>1. PICK phase \in {"mtu", "left"} :
           /\ links' = [links EXCEPT ![d] = took(phase)]
           /\ connections' = [connections EXCEPT ![d] = conn]
           /\ pending' = [pending EXCEPT ![p] = None]
    BY <1>1, <1>4 DEF OpenOk
  <2> HIDE DEF took
  <2>2. conn \in Connection /\ conn.sid = pending[p]
    BY <1>4 DEF Connection, Typed, ClientOK, ClientTypeOK
  <2> HIDE DEF conn
  <2>3. conn # None
    BY <2>2, EntryAssumption
  <2>4. connections'[d] = conn
    BY <1>2, <2>1 DEF Typed, ClientOK, ClientTypeOK
  <2>5. pending'[p] # pending[p]
    BY <1>4, <2>1 DEF Typed, ClientOK, ClientTypeOK
  <2>6. SidOf(d)' = pending[p] /\ ~SamePlaces
    BY <2>2, <2>3, <2>4, <2>5 DEF SidOf, SamePlaces
  <2>7. c # d => links'[c] = links[c]
    BY <2>1 DEF Typed, ClientOK, ClientTypeOK
  <2>8. QED
    BY <2>6, <2>7 DEF SameLink
<1>5. QED
  BY <1>3, <1>4

LEMMA LinksMove ==
    ASSUME Typed, [Next]_vars, NEW c \in ConnIds
    PROVE  \/ SameLink(c)
           \/ \E request \in Requests : Gains(c, request)
           \/ Mtu(c) \/ SearchDone(c) \/ Answered(c) \/ LinkLost(c)
           \/ \E p \in Peers : OpenSucceeds(p)
<1>1. CASE UNCHANGED links
  BY <1>1 DEF SameLink
<1>2. CASE Commands
  <2>1. ASSUME NEW s \in Sids, NEW ch \in Chars, Write(s, ch)
        PROVE  \E request \in Requests : SameLink(c) \/ Gains(c, request)
    BY <2>1, AskingGains DEF Write, Requests
  <2>2. QED
    BY <1>1, <1>2, <2>1 DEF Commands, Subscribe, Close, stackVars
<1>3. CASE WsSteps
  <2>1. CASE CloseDisconnects
    <3> DEFINE d == Min(Connected)
    <3>1. CASE Connected # {} /\ links[d] # None
      <4>1. d \in ConnIds
        BY <3>1, LeastIsMember, ClientAssumption DEF Connected
      <4> DEFINE link == [links[d] EXCEPT !.closing = TRUE]
      <4>2. links[d] \in Link
        BY <3>1, <4>1 DEF Typed, ClientOK, ClientTypeOK
      <4>3. /\ link \in Link /\ link.owed = links[d].owed
            /\ link.phase = links[d].phase
        BY <4>2 DEF Link
      <4>4. links' = [links EXCEPT ![d] = link]
        BY <2>1, <3>1 DEF CloseDisconnects, Disconnects
      <4> HIDE DEF link, d
      <4>5. /\ link # None
            /\ links'[c] = IF c = d THEN link ELSE links[c]
        BY <4>1, <4>3, <4>4, EntryAssumption DEF Typed, ClientOK, ClientTypeOK
      <4>6. QED
        BY <3>1, <4>3, <4>5 DEF SameLink
    <3>2. CASE ~(Connected # {} /\ links[d] # None)
      BY <1>1, <2>1, <3>2 DEF CloseDisconnects, Disconnects
    <3>3. QED
      BY <3>1, <3>2
  <2>2. QED
    BY <1>1, <1>3, <2>1 DEF WsSteps, Suppress, StopScan, StoreHandle, ConnectBegins,
       ConnectRefused, Connects, ConnectFails, stackVars
<1>4. CASE CleanupSteps
  BY <1>1, <1>4 DEF CleanupSteps, Cleanup, CleanupGivesUp, GivesUp, LastOne,
     OthersRemain, Lift, Rescan, stackVars
<1>5. CASE EventSteps
  <2>1. ASSUME NEW d \in ConnIds, d # c,
               Mtu(d) \/ SearchDone(d) \/ Answered(d) \/ LinkLost(d)
        PROVE  SameLink(c)
    <3>1. links'[c] = links[c]
      BY <2>1 DEF Mtu, MtuEvent, SearchDone, SearchComplete, Answered, Answers,
         LinkLost, LinkDown, Typed, ClientOK, ClientTypeOK
    <3>2. QED
      BY <3>1 DEF SameLink
  <2>2. ASSUME NEW p \in Peers, OpenFails(p)
        PROVE  UNCHANGED links
    BY <2>2 DEF OpenFails, OpenFailed
  <2>3. QED
    BY <1>1, <1>5, <2>1, <2>2 DEF EventSteps
<1>6. CASE SetupSteps
  <2>1. CASE at["host"] = "init" /\ NextInitWrite
    <3> DEFINE ch == MyPlan.init[Mine.index + 1]
               request == IF Reaches(ch) THEN "init" ELSE "write"
    <3>1. arg["host"].object # 0
      BY <2>1 DEF Typed, ThreadsOK
    <3>2. Asks(ch, request) /\ request \in Requests
      BY <2>1 DEF NextInitWrite, Requests
    <3>3. SameLink(c) \/ Gains(c, request)
      BY <2>1, <3>1, <3>2, AskingGains
    <3>4. QED
      BY <3>2, <3>3
  <2>2. CASE at["host"] = "subscribe" /\ NextSubscribe
    <3>1. CASE Asks(MyPlan.notify[Mine.subscribe + 1], "write")
      BY <2>2, <3>1, AskingGains DEF NextSubscribe, Requests
    <3>2. CASE UNCHANGED <<clientVars, stackVars>>
      BY <1>1, <3>2 DEF stackVars
    <3> QED
      BY <2>2, <3>1, <3>2 DEF NextSubscribe, Subscribes
  <2>3. CASE InitWritesDone \/ Activate \/ Tell
    BY <1>1, <2>3 DEF InitWritesDone, Activate, Tell, stackVars
  <2>4. QED
    BY <1>6, <2>1, <2>2, <2>3 DEF SetupSteps
<1>7. CASE OnConnected \/ OnWriteComplete \/ CallbackGivesUp \/ EraseEntry
  BY <1>1, <1>7 DEF OnConnected, OnWriteComplete, CallbackGivesUp, GivesUp,
     EraseEntry, Erase, Unpend, stackVars
<1>8. ASSUME NEW m \in timers, TimerFires(m)
      PROVE  \E request \in Requests : SameLink(c) \/ Gains(c, request)
  <2>1. m.kind \in Requests /\ m.kind # "init"
    BY DEF Typed, TimersOK, Timer, Requests
  <2>2. QED
    BY <1>8, <2>1, AskingGains DEF TimerFires
<1>9. CASE UNCHANGED vars
  BY <1>1, <1>9 DEF vars, stackVars
<1>10. QED
  BY <1>2, <1>3, <1>4, <1>5, <1>6, <1>7, <1>8, <1>9, NextSteps DEF CallbackSteps

-----------------------------------------------------------------------------
(* What a step may do to one session.                                      *)

LEMMA SessionsMove ==
    ASSUME Typed, [Next]_vars, NEW s \in Sids
    PROVE  \/ sessions'[s] = sessions[s]
           \/ sessions'[s] = 0 /\ \E t \in Threads : Cleanup(t) /\ arg[t].sid = s
           \/ Subscribe(s)
<1>1. sessions \in [Sids -> 0..Len(objects)]
  BY DEF Typed, SessionsOK
<1>2. ASSUME NEW t \in Threads, Cleanup(t)
      PROVE  sessions'[s] = IF arg[t].sid = s THEN 0 ELSE sessions[s]
  BY <1>1, <1>2 DEF Cleanup
<1>3. ASSUME NEW r \in Sids, Subscribe(r), r # s
      PROVE  sessions'[s] = sessions[s]
  BY <1>1, <1>3 DEF Subscribe
<1>4. QED
  BY <1>2, <1>3, NextMovesObjects DEF ObjectsMove

\* The changes of one object, but for its being freed.
StepsOn(o) ==
    \/ /\ \E s \in Sids : Close(s) /\ o = sessions[s]
       /\ objects'[o] = [objects[o] EXCEPT !.state = "disconnecting"]
    \/ /\ OnConnected /\ o = sessions[arg["host"].sid]
       /\ objects'[o] = [objects[o] EXCEPT !.state = "initializing"]
    \/ /\ OnWriteComplete
       /\ objects'[o] = [objects[o] EXCEPT !.index = @ + 1]
    \/ /\ \E c \in ConnIds : Answered(c)
       /\ objects'[o] = [objects[o] EXCEPT !.intruded = TRUE]
    \/ /\ \/ StoreHandle /\ o = arg["ws"].object /\ arg["host"].object # o
          \/ Tell /\ o = arg["host"].object /\ arg["ws"].object # o
       /\ ~objects[o].freed /\ objects[o].state = "active"
       /\ objects'[o] = [objects[o] EXCEPT !.told = TRUE]
    \/ /\ at["host"] = "init" /\ NextInitWrite /\ o = arg["host"].object
       /\ objects'[o] = [objects[o] EXCEPT !.stalled = TRUE]
    \/ /\ at["host"] = "init" /\ InitWritesDone /\ o = arg["host"].object
       /\ objects'[o] = [objects[o] EXCEPT !.state = "subscribing", !.subscribe = 0,
                                           !.stalled = FALSE]
    \/ /\ at["host"] = "subscribe" /\ NextSubscribe /\ o = arg["host"].object
       /\ objects'[o] = [objects[o] EXCEPT !.subscribe = @ + 1]
    \/ /\ at["host"] = "subscribe" /\ Activate /\ o = arg["host"].object
       /\ objects'[o] = [objects[o] EXCEPT !.state = "active"]

LEMMA ExceptAt ==
    ASSUME Typed, NEW i \in 1..Len(objects), NEW v, objects' = [objects EXCEPT ![i] = v],
           NEW o \in 1..Len(objects)
    PROVE  objects'[o] = IF o = i THEN v ELSE objects[o]
<1>1. objects \in Seq(Session)
  BY DEF Typed, SessionsOK
<1>2. DOMAIN objects = 1..Len(objects)
  BY <1>1
<1>3. QED
  BY <1>2

\* A freed object keeps what it held where the host task has a pointer to it.
LEMMA FreeingKeeps ==
    ASSUME Typed, NEW i \in 1..Len(objects), NEW o \in 1..Len(objects)
    PROVE  \/ Free(i)[o] = objects[o]
           \/ /\ Free(i)[o].freed
              /\ Free(i)[o].told => /\ objects[o].told
                                    /\ Free(i)[o].state = objects[o].state
<1>1. SessionsOK /\ objects[i] \in Session /\ objects[i].sid \in Sids
  BY ObjectIsSession DEF Typed
<1>2. CASE o # i
  <2>1. \A j \in 1..Len(objects) \ {i} : Free(i)[j] = objects[j]
    BY <1>1, Freeing
  <2>2. QED
    BY <1>2, <2>1
<1>3. CASE o = i
  <2> DEFINE kept == IF arg["host"].object = i THEN objects[i] ELSE New(objects[i].sid)
             v == [kept EXCEPT !.freed = TRUE]
  <2>1. Free(i)[i] = v
    BY <1>1, Freeing
  <2>2. kept \in Session
    BY <1>1, NewIsSession
  <2>3. v.freed /\ v.told = kept.told /\ v.state = kept.state
    BY <2>2 DEF Session
  <2>4. kept.told => kept = objects[i]
    BY DEF New
  <2>5. QED
    BY <1>3, <2>1, <2>3, <2>4
<1>4. QED
  BY <1>2, <1>3

LEMMA ObjectMoves ==
    ASSUME Typed, [Next]_vars, NEW o \in 1..Len(objects)
    PROVE  \/ objects'[o] = objects[o]
           \/ /\ objects'[o].freed
              /\ objects'[o].told => /\ objects[o].told
                                     /\ objects'[o].state = objects[o].state
           \/ StepsOn(o)
<1>0. /\ objects \in Seq(Session) /\ Len(objects) \in Nat
      /\ \A s \in Sids : sessions[s] # 0 => sessions[s] \in 1..Len(objects)
      /\ \A t \in Threads : /\ arg[t].object # 0 => arg[t].object \in 1..Len(objects)
                            /\ at[t] # "idle" => arg[t].sid \in Sids
  BY ObjectIsSession DEF Typed, SessionsOK, ThreadsOK, Work
<1>1. CASE UNCHANGED objects
  BY <1>1
<1>2. CASE Commands
  <2>1. ASSUME NEW s \in Sids, Close(s)
        PROVE  objects'[o] = objects[o] \/ StepsOn(o)
    <3>1. /\ sessions[s] \in 1..Len(objects)
          /\ objects' = [objects EXCEPT ![sessions[s]] =
                           [objects[sessions[s]] EXCEPT !.state = "disconnecting"]]
      BY <1>0, <2>1 DEF Close, Open
    <3>2. QED
      BY <2>1, <3>1, ExceptAt DEF StepsOn
  <2>2. ASSUME NEW s \in Sids, Subscribe(s)
        PROVE  objects'[o] = objects[o] \/
                  /\ objects'[o].freed
                  /\ objects'[o].told => /\ objects[o].told
                                         /\ objects'[o].state = objects[o].state
    <3> DEFINE i == sessions[s]
               kept == IF i = 0 THEN objects ELSE Free(i)
    <3>1. objects' = Append(kept, New(s))
      BY <2>2 DEF Subscribe
    <3>2. kept \in Seq(Session) /\ Len(kept) = Len(objects)
      BY <1>0, Freeing DEF Typed
    <3>3. objects'[o] = kept[o]
      <4> HIDE DEF kept
      <4>1. QED
        BY <1>0, <3>1, <3>2, NewIsSession, AppendProperties
    <3>4. CASE i = 0
      BY <3>3, <3>4
    <3>5. CASE i # 0
      <4>1. i \in 1..Len(objects) /\ objects'[o] = Free(i)[o]
        BY <1>0, <3>3, <3>5
      <4> HIDE DEF i
      <4>2. QED
        BY <4>1, FreeingKeeps
    <3>6. QED
      BY <3>4, <3>5
  <2>3. QED
    BY <1>1, <1>2, <2>1, <2>2 DEF Commands, Write, sessionVars
<1>3. CASE WsSteps
  <2>1. CASE StoreHandle
    <3> DEFINE i == arg["ws"].object
    <3>1. i \in 1..Len(objects)
      BY <1>0, <2>1 DEF StoreHandle, Ends, Typed, ThreadsOK, Threads
    <3>2. \/ UNCHANGED objects
          \/ /\ ~objects[i].freed /\ objects[i].state = "active"
             /\ arg["host"].object # i
             /\ objects' = [objects EXCEPT ![i] = [objects[i] EXCEPT !.told = TRUE]]
      BY <2>1 DEF StoreHandle, LetsGo
    <3>3. \/ objects'[o] = objects[o]
          \/ o = i /\ objects'[o] = [objects[o] EXCEPT !.told = TRUE]
      <4>1. CASE UNCHANGED objects
        BY <4>1
      <4>2. CASE objects' = [objects EXCEPT ![i] = [objects[i] EXCEPT !.told = TRUE]]
        <5> HIDE DEF i
        <5>1. objects'[o] = IF o = i THEN [objects[i] EXCEPT !.told = TRUE]
                                     ELSE objects[o]
          BY <3>1, <4>2, ExceptAt
        <5>2. QED
          BY <5>1
      <4>3. QED
        BY <3>2, <4>1, <4>2
    <3>4. QED
      BY <2>1, <3>2, <3>3 DEF StepsOn
  <2>2. QED
    BY <1>1, <1>3, <2>1 DEF WsSteps, Suppress, StopScan, ConnectBegins,
       ConnectRefused, CloseDisconnects, sessionVars
<1>4. CASE CleanupSteps
  <2>1. ASSUME NEW t \in Threads, Cleanup(t)
        PROVE  objects'[o] = objects[o] \/
                  /\ objects'[o].freed
                  /\ objects'[o].told => /\ objects[o].told
                                         /\ objects'[o].state = objects[o].state
    <3> DEFINE i == sessions[arg[t].sid]
    <3>1. objects' = IF i = 0 THEN objects ELSE Free(i)
      BY <2>1 DEF Cleanup
    <3>2. arg[t].sid \in Sids
      BY <1>0, <2>1 DEF Cleanup, Goes
    <3>3. i # 0 => i \in 1..Len(objects)
      BY <1>0, <3>2
    <3> HIDE DEF i
    <3>4. QED
      BY <3>1, <3>3, FreeingKeeps
  <2>2. QED
    BY <1>1, <1>4, <2>1 DEF CleanupSteps, CleanupGivesUp, GivesUp, LastOne,
       OthersRemain, Lift, Rescan, sessionVars
<1>5. CASE EventSteps
  <2>1. ASSUME NEW c \in ConnIds, Answered(c)
        PROVE  objects'[o] = objects[o] \/ StepsOn(o)
    <3> DEFINE i == sessions[connections[c].sid]
    <3>1. connections[c].sid \in Sids
      BY <2>1 DEF Answered, Answers, Typed, ClientOK, ClientTypeOK, Connection
    <3>2. \/ UNCHANGED objects
          \/ /\ objects' = [objects EXCEPT ![i] = [objects[i] EXCEPT !.intruded = TRUE]]
             /\ i # 0
      BY <2>1 DEF Answered
    <3>3. i # 0 => i \in 1..Len(objects)
      BY <1>0, <3>1
    <3> HIDE DEF i
    <3>4. \/ objects'[o] = objects[o]
          \/ objects'[o] = [objects[o] EXCEPT !.intruded = TRUE]
      BY <3>2, <3>3, ExceptAt
    <3>5. QED
      BY <2>1, <3>4 DEF StepsOn
  <2>2. QED
    BY <1>1, <1>5, <2>1 DEF EventSteps, OpenSucceeds, OpenFails, Mtu, SearchDone,
       LinkLost, sessionVars
<1>6. CASE OnConnected \/ OnWriteComplete
  <2> DEFINE i == sessions[arg["host"].sid]
  <2>1. i # 0 => i \in 1..Len(objects)
    BY <1>0, <1>6 DEF OnConnected, OnWriteComplete, Ends, Threads
  <2>2. \/ UNCHANGED objects
        \/ /\ OnConnected /\ i # 0
           /\ objects' = [objects EXCEPT ![i] =
                            [objects[i] EXCEPT !.state = "initializing"]]
        \/ /\ OnWriteComplete /\ i # 0
           /\ objects' = [objects EXCEPT ![i] = [objects[i] EXCEPT !.index = @ + 1]]
    BY <1>6 DEF OnConnected, OnWriteComplete, InInit
  <2>3. CASE OnConnected /\ i # 0
             /\ objects' = [objects EXCEPT ![i] =
                              [objects[i] EXCEPT !.state = "initializing"]]
    <3> DEFINE v == [objects[i] EXCEPT !.state = "initializing"]
    <3>1. objects'[o] = IF o = i THEN v ELSE objects[o]
      <4> HIDE DEF i
      <4>1. objects' = [objects EXCEPT ![i] = v] /\ i \in 1..Len(objects)
        BY <2>1, <2>3
      <4> HIDE DEF v
      <4>2. QED
        BY <4>1, ExceptAt
    <3>2. CASE o = i
      BY <2>3, <3>1, <3>2 DEF StepsOn
    <3>3. CASE o # i
      BY <3>1, <3>3
    <3>4. QED
      BY <3>2, <3>3
  <2>4. CASE OnWriteComplete /\ i # 0
             /\ objects' = [objects EXCEPT ![i] = [objects[i] EXCEPT !.index = @ + 1]]
    <3> DEFINE v == [objects[i] EXCEPT !.index = @ + 1]
    <3>1. objects'[o] = IF o = i THEN v ELSE objects[o]
      <4> HIDE DEF i
      <4>1. objects' = [objects EXCEPT ![i] = v] /\ i \in 1..Len(objects)
        BY <2>1, <2>4
      <4> HIDE DEF v
      <4>2. QED
        BY <4>1, ExceptAt
    <3>2. CASE o = i
      BY <2>4, <3>1, <3>2 DEF StepsOn
    <3>3. CASE o # i
      BY <3>1, <3>3
    <3>4. QED
      BY <3>2, <3>3
  <2>5. QED
    BY <1>1, <2>2, <2>3, <2>4
<1>7. CASE CallbackGivesUp \/ EraseEntry
  BY <1>1, <1>7 DEF CallbackGivesUp, GivesUp, EraseEntry, sessionVars
<1>8. CASE SetupSteps
  <2> DEFINE i == arg["host"].object
  <2>1. i \in 1..Len(objects)
    BY <1>0, <1>8 DEF SetupSteps, Tell, Ends, Typed, ThreadsOK, Threads
  <2>2. CASE Tell
    <3>1. \/ UNCHANGED objects
          \/ /\ ~objects[i].freed /\ objects[i].state = "active"
             /\ arg["ws"].object # i
             /\ objects' = [objects EXCEPT ![i] = [objects[i] EXCEPT !.told = TRUE]]
      BY <2>2 DEF Tell, LetsGo
    <3>2. \/ objects'[o] = objects[o]
          \/ o = i /\ objects'[o] = [objects[o] EXCEPT !.told = TRUE]
      <4>1. CASE UNCHANGED objects
        BY <4>1
      <4>2. CASE objects' = [objects EXCEPT ![i] = [objects[i] EXCEPT !.told = TRUE]]
        <5> HIDE DEF i
        <5>1. objects'[o] = IF o = i THEN [objects[i] EXCEPT !.told = TRUE]
                                     ELSE objects[o]
          BY <2>1, <4>2, ExceptAt
        <5>2. QED
          BY <5>1
      <4>3. QED
        BY <3>1, <4>1, <4>2
    <3>3. QED
      BY <2>2, <3>1, <3>2 DEF StepsOn
  <2>3. CASE at["host"] = "init" /\ NextInitWrite
    <3>1. \/ UNCHANGED objects
          \/ objects' = [objects EXCEPT ![i] = [objects[i] EXCEPT !.stalled = TRUE]]
      BY <2>3 DEF NextInitWrite
    <3>2. \/ objects'[o] = objects[o]
          \/ o = i /\ objects'[o] = [objects[o] EXCEPT !.stalled = TRUE]
      <4>1. CASE UNCHANGED objects
        BY <4>1
      <4>2. CASE objects' = [objects EXCEPT ![i] = [objects[i] EXCEPT !.stalled = TRUE]]
        <5> HIDE DEF i
        <5>1. objects'[o] = IF o = i THEN [objects[i] EXCEPT !.stalled = TRUE]
                                     ELSE objects[o]
          BY <2>1, <4>2, ExceptAt
        <5>2. QED
          BY <5>1
      <4>3. QED
        BY <3>1, <4>1, <4>2
    <3>3. QED
      BY <2>3, <3>2 DEF StepsOn
  <2>4. CASE at["host"] = "init" /\ InitWritesDone
    <3>1. objects' = [objects EXCEPT ![i] =
             [objects[i] EXCEPT !.state = "subscribing", !.subscribe = 0,
                                !.stalled = FALSE]]
      BY <2>4 DEF InitWritesDone
    <3>2. \/ objects'[o] = objects[o]
          \/ o = i /\ objects'[o] = [objects[o] EXCEPT !.state = "subscribing", !.subscribe = 0,
                                            !.stalled = FALSE]
      <4> DEFINE v == [objects[i] EXCEPT !.state = "subscribing", !.subscribe = 0,
                                         !.stalled = FALSE]
      <4>1. objects' = [objects EXCEPT ![i] = v]
        BY <3>1
      <4> HIDE DEF v, i
      <4>2. objects'[o] = IF o = i THEN v ELSE objects[o]
        BY <2>1, <4>1, ExceptAt
      <4>3. QED
        BY <4>2 DEF v
    <3>3. QED
      BY <2>4, <3>2 DEF StepsOn
  <2>5. CASE at["host"] = "subscribe" /\ NextSubscribe
    <3>1. objects' = [objects EXCEPT ![i] = [objects[i] EXCEPT !.subscribe = @ + 1]]
      BY <2>5 DEF NextSubscribe
    <3>2. \/ objects'[o] = objects[o]
          \/ o = i /\ objects'[o] = [objects[o] EXCEPT !.subscribe = @ + 1]
      BY <2>1, <3>1, ExceptAt
    <3>3. QED
      BY <2>5, <3>2 DEF StepsOn
  <2>6. CASE at["host"] = "subscribe" /\ Activate
    <3>1. objects' = [objects EXCEPT ![i] = [objects[i] EXCEPT !.state = "active"]]
      BY <2>6 DEF Activate
    <3>2. \/ objects'[o] = objects[o]
          \/ o = i /\ objects'[o] = [objects[o] EXCEPT !.state = "active"]
      BY <2>1, <3>1, ExceptAt
    <3>3. QED
      BY <2>6, <3>2 DEF StepsOn
  <2>7. QED
    BY <1>8, <2>2, <2>3, <2>4, <2>5, <2>6 DEF SetupSteps
<1>9. CASE \E m \in timers : TimerFires(m)
  BY <1>1, <1>9 DEF TimerFires, sessionVars
<1>10. CASE UNCHANGED vars
  BY <1>1, <1>10 DEF vars, sessionVars
<1>11. QED
  BY <1>2, <1>3, <1>4, <1>5, <1>6, <1>7, <1>8, <1>9, <1>10, NextSteps
     DEF CallbackSteps

\* The states in the order of a set-up; only a gatt_close leaves the order.
StateMoves(o) ==
    \/ objects'[o].state \in {objects[o].state, "disconnecting"}
    \/ OnConnected /\ o = sessions[arg["host"].sid] /\ objects'[o].state = "initializing"
    \/ /\ at["host"] = "init" /\ InitWritesDone /\ o = arg["host"].object
       /\ objects'[o].state = "subscribing"
    \/ /\ at["host"] = "subscribe" /\ Activate /\ o = arg["host"].object
       /\ objects'[o].state = "active"

BecomesTold(o) ==
    /\ ~objects[o].freed /\ objects[o].state = "active" /\ objects'[o].state = "active"
    /\ \/ StoreHandle /\ o = arg["ws"].object /\ arg["host"].object # o
       \/ Tell /\ o = arg["host"].object /\ arg["ws"].object # o

LEMMA FieldMoves ==
    ASSUME Typed, [Next]_vars, NEW o \in 1..Len(objects)
    PROVE  /\ objects'[o].told => objects[o].told \/ BecomesTold(o)
           /\ objects'[o].told \/ ~objects'[o].freed => StateMoves(o)
           /\ ~objects'[o].freed =>
                 /\ objects[o].stalled => \/ objects'[o].stalled
                                          \/ objects'[o].state = "subscribing"
                 /\ objects[o].intruded => objects'[o].intruded
<1>1. objects[o] \in Session
  BY ObjectIsSession DEF Typed
<1>2. CASE objects'[o] = objects[o]
  BY <1>1, <1>2 DEF StateMoves
<1>3. CASE /\ objects'[o].freed
           /\ objects'[o].told => /\ objects[o].told
                                  /\ objects'[o].state = objects[o].state
  BY <1>3 DEF StateMoves
<1>4. CASE StepsOn(o)
  BY <1>1, <1>4 DEF StepsOn, StateMoves, BecomesTold, Session
<1>5. QED
  BY <1>2, <1>3, <1>4, ObjectMoves

-----------------------------------------------------------------------------
(* What a step may do to a thread.                                         *)

\* The WebSocket's task takes a pointer in gatt_subscribe, and keeps it until
\* the handle is stored or the connection is refused.
LEMMA WsMove ==
    ASSUME Typed, [Next]_vars
    PROVE  \/ at'["ws"] = at["ws"] /\ arg'["ws"] = arg["ws"]
           \/ \E s \in Sids : Subscribe(s)
           \/ (Suppress \/ StopScan \/ ConnectBegins) /\ arg'["ws"] = arg["ws"]
           \/ at'["ws"] \notin {"suppress", "stop_scan", "connect", "handle"}
<1>0. /\ DOMAIN at = Threads /\ DOMAIN arg = Threads
      /\ "ws" \in Threads /\ "host" \in Threads
  BY DEF Typed, ThreadsOK, Threads
<1>1. CASE UNCHANGED <<at, arg>>
  BY <1>1
<1>2. ASSUME NEW from, Ends("ws", from)
      PROVE  at'["ws"] \notin {"suppress", "stop_scan", "connect", "handle"}
  BY <1>0, <1>2 DEF Ends
<1>3. CASE Commands
  BY <1>0, <1>1, <1>3 DEF Commands, Close, Begins, Write
<1>4. CASE WsSteps
  BY <1>0, <1>2, <1>4 DEF WsSteps, Suppress, StopScan, ConnectBegins,
     ConnectRefused, StoreHandle, CloseDisconnects, Goes
<1>5. CASE CleanupSteps
  <2>1. ASSUME NEW from, NEW to, Goes("ws", from, to),
               to \in {"empty", "lift", "rescan", "tell"}
        PROVE  at'["ws"] \notin {"suppress", "stop_scan", "connect", "handle"}
    BY <1>0, <2>1 DEF Goes
  <2>2. ASSUME NEW from, NEW to, Goes("host", from, to) \/ Ends("host", from)
        PROVE  at'["ws"] = at["ws"] /\ arg'["ws"] = arg["ws"]
    BY <1>0, <2>2 DEF Goes, Ends
  <2>3. QED
    BY <1>2, <1>5, <2>1, <2>2 DEF CleanupSteps, Cleanup, CleanupGivesUp, GivesUp,
       LastOne, OthersRemain, Lift, Rescan, Threads
<1>6. CASE EventSteps
  <2>1. ASSUME NEW s, NEW callback, NEW what, Calls(callback, s, what)
        PROVE  at'["ws"] = at["ws"] /\ arg'["ws"] = arg["ws"]
    BY <1>0, <2>1 DEF Calls, Begins
  <2>2. QED
    BY <1>1, <1>6, <2>1 DEF EventSteps, OpenSucceeds, OpenFails, Mtu, SearchDone,
       Answered, LinkLost
<1>7. CASE CallbackSteps
  BY <1>0, <1>7 DEF CallbackSteps, OnConnected, OnWriteComplete, Continues,
     CallbackGivesUp, GivesUp, SetupSteps, NextInitWrite, InitWritesDone,
     NextSubscribe, Activate, Tell, EraseEntry, Goes, Ends
<1>8. CASE \/ \E m \in timers : TimerFires(m)
           \/ UNCHANGED vars
  BY <1>1, <1>8 DEF TimerFires, vars
<1>9. QED
  BY <1>3, <1>4, <1>5, <1>6, <1>7, <1>8, NextSteps

\* An event whose callback the host task begins.
Event ==
    \/ \E p \in Peers :
          OpenFails(p) /\ pending[p] # None /\ Calls("cleanup", pending[p], p)
    \/ \E c \in ConnIds : connections[c] # None /\
          \/ SearchDone(c) /\ (\/ Calls("connected", connections[c].sid, None)
                               \/ Calls("cleanup", connections[c].sid, None))
          \/ Answered(c) /\ Calls("written", connections[c].sid, None)
          \/ LinkLost(c) /\ Calls("cleanup", connections[c].sid, c)

HostCleans ==
    \/ Cleanup("host") \/ CleanupGivesUp("host") \/ LastOne("host")
    \/ OthersRemain("host") \/ Lift("host") \/ Rescan("host")

LEMMA HostMove ==
    ASSUME Typed, [Next]_vars
    PROVE  \/ at'["host"] = at["host"] /\ arg'["host"] = arg["host"]
           \/ Event \/ CallbackSteps \/ HostCleans
<1>0. /\ DOMAIN at = Threads /\ DOMAIN arg = Threads
      /\ "ws" \in Threads /\ "host" \in Threads
  BY DEF Typed, ThreadsOK, Threads
<1>1. CASE UNCHANGED <<at, arg>>
  BY <1>1
<1>2. CASE Commands \/ WsSteps
  BY <1>0, <1>1, <1>2 DEF Commands, Subscribe, Close, Begins, Write, WsSteps,
     Suppress, StopScan, ConnectBegins, ConnectRefused, StoreHandle,
     CloseDisconnects, Goes, Ends
<1>3. CASE CleanupSteps
  <2>1. ASSUME NEW from, NEW to, Goes("ws", from, to) \/ Ends("ws", from)
        PROVE  at'["host"] = at["host"] /\ arg'["host"] = arg["host"]
    BY <1>0, <2>1 DEF Goes, Ends
  <2>2. ASSUME \/ Cleanup("ws") \/ CleanupGivesUp("ws") \/ LastOne("ws")
               \/ OthersRemain("ws") \/ Lift("ws") \/ Rescan("ws")
        PROVE  at'["host"] = at["host"] /\ arg'["host"] = arg["host"]
    BY <2>1, <2>2 DEF Cleanup, CleanupGivesUp, GivesUp, LastOne, OthersRemain,
       Lift, Rescan
  <2>3. QED
    BY <1>3, <2>2 DEF CleanupSteps, HostCleans, Threads
<1>4. CASE EventSteps
  BY <1>1, <1>4 DEF EventSteps, OpenSucceeds, OpenFails, Mtu, SearchDone,
     SearchComplete, Answered, Answers, LinkLost, Event
<1>5. CASE \/ \E m \in timers : TimerFires(m)
           \/ UNCHANGED vars
  BY <1>1, <1>5 DEF TimerFires, vars
<1>6. QED
  BY <1>2, <1>3, <1>4, <1>5, NextSteps

LEMMA CallsHold ==
    ASSUME Typed, NEW callback, NEW s, NEW what, Calls(callback, s, what)
    PROVE  /\ at["host"] = "idle" /\ at'["host"] = callback
           /\ arg'["host"].sid = s /\ arg'["host"].object = 0
           /\ arg'["host"].what = what
  BY DEF Calls, Begins, Typed, ThreadsOK, Threads

\* The host task works for who waited or had a connection when it began.
LEMMA HostSid ==
    ASSUME Typed, [Next]_vars, NEW s \in Sids, arg'["host"].sid = s
    PROVE  arg["host"].sid = s \/ Waits(s) \/ Of(s) # {}
<1>0. /\ DOMAIN arg = Threads /\ "host" \in Threads /\ arg["host"] \in Work
      /\ Idle.sid # s
  BY ClientAssumption DEF Typed, ThreadsOK, Threads, Idle
<1>1. \A o : [arg["host"] EXCEPT !.object = o].sid = arg["host"].sid
  BY <1>0 DEF Work
<1>2. ASSUME NEW from, NEW to, Goes("host", from, to) \/ Ends("host", from)
      PROVE  arg["host"].sid = s
  BY <1>0, <1>1, <1>2 DEF Goes, Ends
<1>3. CASE Event
  <2>1. ASSUME NEW callback, NEW r, NEW what, Calls(callback, r, what)
        PROVE  r = s
    BY <2>1, CallsHold
  <2>2. ASSUME NEW p \in Peers, NEW callback, NEW what,
               Calls(callback, pending[p], what)
        PROVE  Waits(s)
    BY <2>1, <2>2 DEF Waits
  <2>3. ASSUME NEW c \in ConnIds, connections[c] # None, NEW callback, NEW what,
               Calls(callback, connections[c].sid, what)
        PROVE  Of(s) # {}
    <3>1. SidOf(c) = s
      BY <2>1, <2>3, SidIsTyped
    <3>2. QED
      BY <3>1 DEF Of
  <2>4. QED
    BY <1>3, <2>2, <2>3 DEF Event
<1>4. CASE CallbackSteps
  <2>1. CASE OnConnected \/ OnWriteComplete
    <3>1. \/ arg' = [arg EXCEPT !["host"].object = sessions[arg["host"].sid]]
          \/ Ends("host", "connected") \/ Ends("host", "written")
      BY <2>1 DEF OnConnected, OnWriteComplete, Continues
    <3>2. QED
      BY <1>0, <1>1, <1>2, <3>1
  <2>2. CASE SetupSteps \/ CallbackGivesUp
    BY <1>2, <2>2 DEF SetupSteps, NextInitWrite, InitWritesDone, NextSubscribe,
       Activate, Tell, CallbackGivesUp, GivesUp
  <2>3. CASE EraseEntry
    BY <1>0, <2>3 DEF EraseEntry
  <2>4. QED
    BY <1>4, <2>1, <2>2, <2>3 DEF CallbackSteps
<1>5. CASE HostCleans
  BY <1>2, <1>5 DEF HostCleans, Cleanup, CleanupGivesUp, GivesUp, LastOne,
     OthersRemain, Lift, Rescan
<1>6. QED
  BY <1>3, <1>4, <1>5, HostMove
=============================================================================
