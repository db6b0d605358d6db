---------------------------- MODULE GattSetupProofs ----------------------------
(***************************************************************************)
(* Proofs about GattSessions, second part: what a session, the client and  *)
(* the two threads know of each other while it is set up and ended, and    *)
(* that no session is forgotten: what got past kConnecting has a           *)
(* connection, what is in kConnecting is awaited, what is in kInitializing *)
(* is waiting for an answer, and for one at a time.  The last section has  *)
(* it that each session lives the life that SessionLife promises.          *)
(*                                                                         *)
(* The invariants are followed through the moves of GattSessionsProofs     *)
(* instead of through every action of Next.                                *)
(***************************************************************************)
EXTENDS GattSessionsProofs

-----------------------------------------------------------------------------
(* The places of a session.                                                *)

LEMMA CallingMove ==
    ASSUME Typed, [Next]_vars, NEW s \in Sids, Calling(s)'
    PROVE  \/ Calling(s) /\ arg'["ws"] = arg["ws"] /\ ~ConnectBegins
           \/ Subscribe(s)
<1>0. DOMAIN at = Threads /\ DOMAIN arg = Threads /\ "ws" \in Threads
  BY DEF Typed, ThreadsOK, Threads
<1>1. ~ConnectBegins
  BY <1>0 DEF ConnectBegins, Goes, Calling
<1>2. ASSUME NEW r \in Sids, Subscribe(r)
      PROVE  r = s
  BY <1>0, <1>2 DEF Subscribe, Begins, Calling
<1>3. CASE Suppress \/ StopScan
  BY <1>1, <1>3 DEF Suppress, StopScan, Goes, Calling
<1>4. CASE at'["ws"] = at["ws"] /\ arg'["ws"] = arg["ws"]
  BY <1>1, <1>4 DEF Calling
<1>5. QED
  BY <1>1, <1>2, <1>3, <1>4, WsMove DEF Calling

LEMMA ErasePlaces ==
    ASSUME Typed, EraseEntry
    PROVE  \/ /\ arg["host"].what \in ConnIds /\ UNCHANGED pending
              /\ \A c \in ConnIds :
                    SidOf(c)' = IF c = arg["host"].what THEN None ELSE SidOf(c)
           \/ /\ arg["host"].what \in Peers
              /\ pending' = [pending EXCEPT ![arg["host"].what] = None]
              /\ UNCHANGED connections
<1>1. arg["host"].what \in Peers \cup ConnIds
  BY DEF EraseEntry, Typed, ThreadsOK, Threads, Work
<1>2. CASE arg["host"].what \in ConnIds
  <2>1. connections' = [connections EXCEPT ![arg["host"].what] = None]
    BY <1>2 DEF EraseEntry, Erase
  <2>2. UNCHANGED pending
    BY <1>2 DEF EraseEntry, Erase
  <2>3. QED
    BY <1>2, <2>1, <2>2 DEF SidOf, Typed, ClientOK, ClientTypeOK
<1>3. CASE arg["host"].what \notin ConnIds
  BY <1>1, <1>3 DEF EraseEntry, Unpend
<1>4. QED
  BY <1>2, <1>3

LEMMA WaitsMove ==
    ASSUME Typed, [Next]_vars, NEW s \in Sids, Waits(s)'
    PROVE  Waits(s) \/ (ConnectBegins /\ arg["ws"].sid = s)
<1>0. pending \in [Peers -> Sids \cup {None}] /\ s # None
  BY ClientAssumption DEF Typed, ClientOK, ClientTypeOK
<1>1. PICK p \in Peers : pending'[p] = s
  BY DEF Waits
<1>2. ASSUME NEW q \in Peers, pending' = [pending EXCEPT ![q] = None]
      PROVE  Waits(s)
  BY <1>0, <1>1, <1>2 DEF Waits
<1>3. CASE UNCHANGED pending
  BY <1>1, <1>3 DEF Waits
<1>4. CASE ConnectBegins
  BY <1>0, <1>1, <1>4 DEF ConnectBegins, Connects, Waits
<1>5. CASE ConnectRefused
  <2>1. arg["ws"].sid \in Sids
    BY <1>5 DEF ConnectRefused, Typed, ThreadsOK, Threads
  <2>2. QED
    BY <1>2, <1>3, <1>5, <2>1, SessionAssumption DEF ConnectRefused, ConnectFails
<1>6. CASE EraseEntry
  BY <1>2, <1>3, <1>6, ErasePlaces
<1>7. ASSUME NEW q \in Peers, OpenSucceeds(q), ~SamePlaces
      PROVE  Waits(s)
  BY <1>2, <1>7, Opening
<1>8. QED
  BY <1>3, <1>4, <1>5, <1>6, <1>7, PlacesMove DEF SamePlaces

LEMMA OfMove ==
    ASSUME Typed, [Next]_vars, NEW s \in Sids \ seen'.displaced
    PROVE  \/ Of(s)' = Of(s)
           \/ /\ EraseEntry /\ arg["host"].what \in ConnIds
              /\ Of(s)' = Of(s) \ {arg["host"].what}
           \/ \E p \in Peers, c \in ConnIds :
                 /\ OpenSucceeds(p) /\ ~SamePlaces /\ pending[p] = s
                 /\ SidOf(c)' = s
                 /\ pending' = [pending EXCEPT ![p] = None]
                 /\ Of(s)' = Of(s) \cup {c}
<1>0. s # None
  BY ClientAssumption
<1>1. CASE SamePlaces \/ UNCHANGED connections
  BY <1>1 DEF SamePlaces, Of, SidOf
<1>2. CASE ConnectBegins \/ ConnectRefused
  BY <1>1, <1>2 DEF ConnectBegins, ConnectRefused, Connects, ConnectFails
<1>3. CASE EraseEntry
  <2>1. CASE /\ arg["host"].what \in ConnIds
             /\ \A c \in ConnIds :
                   SidOf(c)' = IF c = arg["host"].what THEN None ELSE SidOf(c)
    BY <1>0, <1>3, <2>1 DEF Of
  <2>2. QED
    BY <1>1, <1>3, <2>1, ErasePlaces
<1>4. ASSUME NEW p \in Peers, OpenSucceeds(p), ~SamePlaces
      PROVE  \/ Of(s)' = Of(s)
             \/ \E c \in ConnIds :
                   /\ pending[p] = s /\ pending' = [pending EXCEPT ![p] = None]
                   /\ SidOf(c)' = s
                   /\ Of(s)' = Of(s) \cup {c}
  <2>1. PICK c \in ConnIds :
           /\ SidOf(c)' = pending[p]
           /\ \A d \in ConnIds \ {c} : SidOf(d)' = SidOf(d)
           /\ \/ SidOf(c) \in {None, pending[p]}
              \/ {SidOf(c), pending[p]} \subseteq seen'.displaced
    BY <1>4, Opening
  <2>2. CASE pending[p] = s
    <3>1. Of(s)' = Of(s) \cup {c}
      BY <2>1, <2>2 DEF Of
    <3>2. QED
      BY <1>4, <2>1, <2>2, <3>1, Opening
  <2>3. CASE pending[p] # s
    BY <1>0, <2>1, <2>3 DEF Of
  <2>4. QED
    BY <2>2, <2>3
<1>5. QED
  BY <1>1, <1>2, <1>3, <1>4, PlacesMove

PlanOK == \A p \in Peers : pending[p] # None => Plan[pending[p]].peer = p

\* A session is in one place: about to be connected, or waiting for the
\* answer to its open, or connected, once.
Placed(s) ==
    /\ Calling(s) => /\ ~Waits(s) /\ Of(s) = {}
                     /\ sessions[s] = arg["ws"].object
                     /\ arg["host"].sid # s
    /\ Waits(s) => Of(s) = {}
    /\ \A c, d \in Of(s) : c = d

\* The entry that the host task will erase has lost its link, and is still
\* that of the session it works for.
EntryOK ==
    arg["host"].what \in ConnIds =>
        /\ links[arg["host"].what] = None
        /\ SidOf(arg["host"].what) = arg["host"].sid

OnePlace == PlanOK /\ EntryOK /\ \A s \in Sids \ seen.displaced : Placed(s)

LEMMA EntryMove ==
    ASSUME Typed, [Next]_vars, NEW w \in ConnIds, arg'["host"].what = w
    PROVE  \/ /\ arg["host"].what = w /\ arg'["host"].sid = arg["host"].sid
              /\ ~EraseEntry
           \/ /\ LinkLost(w) /\ connections[w] # None
              /\ arg'["host"].sid = connections[w].sid
<1>0. /\ DOMAIN arg = Threads /\ "host" \in Threads /\ arg["host"] \in Work
      /\ w # None /\ w \notin Peers
  BY ClientAssumption DEF Typed, ThreadsOK, Threads
<1>1. ~EraseEntry
  BY <1>0 DEF EraseEntry, Idle
<1>2. \A o : LET work == [arg["host"] EXCEPT !.object = o]
             IN  work.sid = arg["host"].sid /\ work.what = arg["host"].what
  BY <1>0 DEF Work
<1>3. ASSUME NEW from, NEW to, Goes("host", from, to) \/ Ends("host", from)
      PROVE  arg["host"].what = w /\ arg'["host"].sid = arg["host"].sid
  <2>1. \/ arg' = arg
        \/ arg' = [arg EXCEPT !["host"].object = 0]
        \/ arg' = [arg EXCEPT !["host"] = Idle]
    BY <1>3 DEF Goes, Ends
  <2>2. arg' # [arg EXCEPT !["host"] = Idle]
    BY <1>0 DEF Idle
  <2>3. CASE arg' = [arg EXCEPT !["host"].object = 0]
    <3> DEFINE work == [arg["host"] EXCEPT !.object = 0]
    <3>1. work.sid = arg["host"].sid /\ work.what = arg["host"].what
      BY <1>2
    <3>2. arg'["host"] = work
      BY <1>0, <2>3
    <3>3. QED
      BY <3>1, <3>2
  <2>4. QED
    BY <2>1, <2>2, <2>3
<1>4. CASE Event
  BY <1>0, <1>4, CallsHold DEF Event
<1>5. CASE CallbackSteps
  <2>1. CASE OnConnected \/ OnWriteComplete
    <3>1. \/ arg' = [arg EXCEPT !["host"].object = sessions[arg["host"].sid]]
          \/ Ends("host", "connected") \/ Ends("host", "written")
      BY <2>1 DEF OnConnected, OnWriteComplete, Continues
    <3>2. CASE Ends("host", "connected") \/ Ends("host", "written")
      BY <1>1, <1>3, <3>2
    <3>3. CASE arg' = [arg EXCEPT !["host"].object = sessions[arg["host"].sid]]
      <4> DEFINE work == [arg["host"] EXCEPT !.object = sessions[arg["host"].sid]]
      <4>1. arg'["host"] = work
        BY <1>0, <3>3
      <4>2. work.sid = arg["host"].sid /\ work.what = arg["host"].what
        BY <1>2
      <4> HIDE DEF work
      <4>3. QED
        BY <1>1, <4>1, <4>2
    <3>4. QED
      BY <3>1, <3>2, <3>3
  <2>2. CASE SetupSteps \/ CallbackGivesUp
    BY <1>1, <1>3, <2>2 DEF SetupSteps, NextInitWrite, InitWritesDone,
       NextSubscribe, Activate, Tell, CallbackGivesUp, GivesUp
  <2>3. QED
    BY <1>1, <1>5, <2>1, <2>2 DEF CallbackSteps
<1>6. CASE HostCleans
  BY <1>1, <1>3, <1>6 DEF HostCleans, Cleanup, CleanupGivesUp, GivesUp, LastOne,
     OthersRemain, Lift, Rescan
<1>7. QED
  BY <1>1, <1>4, <1>5, <1>6, HostMove

LEMMA EntryStep ==
    ASSUME Typed, EntryOK, [Next]_vars
    PROVE  EntryOK'
<1> SUFFICES ASSUME NEW w \in ConnIds, arg'["host"].what = w
             PROVE  links'[w] = None /\ SidOf(w)' = arg'["host"].sid
  BY DEF EntryOK
<1>1. CASE LinkLost(w) /\ connections[w] # None
           /\ arg'["host"].sid = connections[w].sid
  <2>1. UNCHANGED clientVars /\ links'[w] = None
    BY <1>1 DEF LinkLost, LinkDown, Typed, ClientOK, ClientTypeOK
  <2>2. QED
    BY <1>1, <2>1 DEF SidOf, clientVars
<1>2. CASE /\ arg["host"].what = w /\ arg'["host"].sid = arg["host"].sid
           /\ ~EraseEntry
  <2>1. links[w] = None /\ SidOf(w) = arg["host"].sid
    BY <1>2 DEF EntryOK
  <2>2. at["host"] # "idle"
    BY <1>2, ClientAssumption DEF Typed, ThreadsOK, Threads, Idle
  <2>3. \A p \in Peers : ~OpenSucceeds(p)
    BY <2>2 DEF OpenSucceeds, HostIdle
  <2>4. links'[w] = None
    BY <2>1, <2>3, LinksMove
       DEF SameLink, Gains, Mtu, MtuEvent, SearchDone, SearchComplete, Answered,
           Answers, LinkLost, LinkDown
  <2>5. SidOf(w)' = SidOf(w)
    BY <1>2, <2>3, PlacesMove
       DEF SamePlaces, ConnectBegins, ConnectRefused, Connects, ConnectFails, SidOf
  <2>6. QED
    BY <1>2, <2>1, <2>4, <2>5
<1>3. QED
  BY <1>1, <1>2, EntryMove

LEMMA PlanStep ==
    ASSUME Typed, PlanOK, [Next]_vars
    PROVE  PlanOK'
<1>0. pending \in [Peers -> Sids \cup {None}]
  BY DEF Typed, ClientOK, ClientTypeOK
<1>1. CASE UNCHANGED pending
  BY <1>1 DEF PlanOK
<1>2. ASSUME NEW q \in Peers, pending' = [pending EXCEPT ![q] = None]
      PROVE  PlanOK'
  BY <1>0, <1>2 DEF PlanOK
<1>3. CASE ConnectBegins
  BY <1>0, <1>3 DEF ConnectBegins, Connects, PlanOK
<1>4. CASE ConnectRefused
  <2>1. arg["ws"].sid \in Sids
    BY <1>4 DEF ConnectRefused, Typed, ThreadsOK, Threads
  <2>2. QED
    BY <1>1, <1>2, <1>4, <2>1, SessionAssumption DEF ConnectRefused, ConnectFails
<1>5. CASE EraseEntry
  BY <1>1, <1>2, <1>5, ErasePlaces
<1>6. ASSUME NEW q \in Peers, OpenSucceeds(q), ~SamePlaces
      PROVE  PlanOK'
  BY <1>2, <1>6, Opening
<1>7. QED
  BY <1>1, <1>3, <1>4, <1>5, <1>6, PlacesMove DEF SamePlaces

\* A gatt_subscribe of a session that is somewhere already is recorded.
LEMMA SubscribesFresh ==
    ASSUME Typed, NEW s \in Sids, Subscribe(s), s \notin seen'.displaced
    PROVE  /\ s \notin Open /\ ~Waits(s) /\ Of(s) = {} /\ arg["host"].sid # s
           /\ ~Waits(s)' /\ Of(s)' = {} /\ arg'["host"].sid # s
           /\ sessions'[s] = arg'["ws"].object /\ sessions'[s] = Len(objects) + 1
           /\ objects'[sessions'[s]] = New(s)
<1>1. s \notin Open \cup Clients \cup {arg["host"].sid}
  BY ClientAssumption DEF Subscribe, Displace, Typed, SeenOK, History
<1>2. ~Waits(s)
  BY <1>1, ClientAssumption DEF Clients, Pending, Waits
<1>3. Of(s) = {}
  BY <1>1, ClientAssumption, SidIsTyped DEF Clients, Connected, Of
<1>4. UNCHANGED clientVars
  BY DEF Subscribe
<1>5. ~Waits(s)' /\ Of(s)' = {}
  BY <1>2, <1>3, <1>4 DEF Waits, Of, SidOf, clientVars
<1>6. arg'["host"] = arg["host"] /\ arg'["ws"].object = Len(objects) + 1
  BY DEF Subscribe, Begins, Typed, ThreadsOK, Threads
<1>7. sessions'[s] = Len(objects) + 1
  BY DEF Subscribe, Typed, SessionsOK
<1>8. objects' = Append(objects, New(s))
  BY <1>1 DEF Subscribe, Open
<1>9. objects'[Len(objects) + 1] = New(s)
  BY <1>8, NewIsSession, ObjectIsSession, AppendProperties DEF Typed
<1>10. QED
  BY <1>1, <1>2, <1>3, <1>5, <1>6, <1>7, <1>9

LEMMA PlacedStep ==
    ASSUME Typed, OnePlace, [Next]_vars, NEW s \in Sids \ seen'.displaced
    PROVE  Placed(s)'
<1>1. s \in Sids \ seen.displaced /\ Placed(s)
  BY SeenStep DEF SeenGrows, OnePlace
<1>2. Waits(s)' => Of(s)' = {}
  <2> SUFFICES ASSUME Waits(s)' PROVE Of(s)' = {}
    OBVIOUS
  <2>1. Waits(s) \/ (ConnectBegins /\ arg["ws"].sid = s)
    BY WaitsMove
  <2>2. Of(s) = {}
    BY <1>1, <2>1 DEF Placed, ConnectBegins, Goes, Calling
  <2>3. ASSUME NEW p \in Peers, pending[p] = s, pending' = [pending EXCEPT ![p] = None]
        PROVE  FALSE
    <3>1. PICK q \in Peers : pending'[q] = s
      BY DEF Waits
    <3>2. q # p /\ pending[q] = s
      BY <2>3, <3>1, ClientAssumption DEF Typed, ClientOK, ClientTypeOK
    <3>3. Plan[s].peer = p /\ Plan[s].peer = q
      BY <2>3, <3>2, ClientAssumption DEF OnePlace, PlanOK
    <3>4. QED
      BY <3>2, <3>3
  <2>4. QED
    BY <2>2, <2>3, OfMove
<1>3. \A c, d \in Of(s)' : c = d
  <2>1. ASSUME NEW p \in Peers, NEW c \in ConnIds, pending[p] = s,
               Of(s)' = Of(s) \cup {c}
        PROVE  Of(s)' = {c}
    BY <1>1, <2>1 DEF Placed, Waits
  <2>2. QED
    BY <1>1, <2>1, OfMove DEF Placed
<1>4. ASSUME Calling(s)'
      PROVE  /\ ~Waits(s)' /\ Of(s)' = {}
             /\ sessions'[s] = arg'["ws"].object
             /\ arg'["host"].sid # s
  <2>1. CASE Subscribe(s)
    BY <2>1, SubscribesFresh
  <2>2. CASE Calling(s) /\ arg'["ws"] = arg["ws"] /\ ~ConnectBegins /\ ~Subscribe(s)
    <3>1. ~Waits(s) /\ Of(s) = {} /\ sessions[s] = arg["ws"].object /\ arg["host"].sid # s
      BY <1>1, <2>2 DEF Placed
    <3>2. ~Waits(s)'
      BY <2>2, <3>1, WaitsMove
    <3>3. Of(s)' = {}
      BY <3>1, OfMove DEF Waits
    <3>4. arg'["host"].sid # s
      BY <3>1, HostSid
    <3>5. sessions'[s] = sessions[s]
      <4>1. ASSUME NEW t \in Threads, Cleanup(t), arg[t].sid = s
            PROVE  FALSE
        BY <2>2, <3>1, <4>1 DEF Cleanup, Goes, Calling, Threads
      <4>2. QED
        BY <2>2, <4>1, SessionsMove
    <3>6. QED
      BY <2>2, <3>1, <3>2, <3>3, <3>4, <3>5
  <2>3. QED
    BY <1>4, <2>1, <2>2, CallingMove
<1>5. QED
  BY <1>2, <1>3, <1>4 DEF Placed

LEMMA OnePlaceInit == ASSUME Init PROVE OnePlace
<1>1. PlanOK
  BY DEF Init, ClientInit, PlanOK
<1>2. arg["host"].what = None /\ at["ws"] = "idle"
  BY DEF Init, Idle, Threads
<1>3. EntryOK
  BY <1>2, ClientAssumption DEF EntryOK
<1>4. \A s \in Sids : ~Waits(s) /\ Of(s) = {}
  BY ClientAssumption DEF Init, ClientInit, Waits, Of, SidOf
<1>5. \A s \in Sids : Placed(s)
  BY <1>2, <1>4 DEF Placed, Calling
<1>6. QED
  BY <1>1, <1>3, <1>5 DEF OnePlace

LEMMA OnePlaceAlways == Spec => [](Typed /\ OnePlace)
<1>1. Typed /\ OnePlace /\ [Next]_vars => OnePlace'
  BY PlanStep, EntryStep, PlacedStep DEF OnePlace
<1>2. QED
  BY <1>1, OnePlaceInit, TypedAlways, PTL DEF Spec

-----------------------------------------------------------------------------
(* The set-up of a session.                                                *)

\* The client has done all it does to find the session's characteristics.
Found(s) ==
    /\ ~Calling(s) /\ ~Waits(s)
    /\ \A c \in Of(s) : links[c] # None => links[c].phase = "up"

Enters(s) == at["host"] = "connected" /\ arg["host"].sid = s
Holds(s) == arg["host"].object # 0 /\ arg["host"].sid = s

\* on_connected() comes once, when the client has done its part; a session
\* that got further will not see another.
SetUpOK(s) ==
    /\ Enters(s) \/ Holds(s) => Found(s)
    /\ /\ s \in Open
       /\ \/ StateOf(s) \in {"initializing", "subscribing", "active"}
          \/ objects[sessions[s]].told
       => Found(s) /\ ~Enters(s)

\* A session that has been set up on both threads is held by neither, and
\* its progress is over.
ToldOK ==
    \A o \in 1..Len(objects) :
        objects[o].told /\ objects[o].sid \notin seen.displaced =>
            /\ \A t \in Threads : arg[t].object # o
            /\ objects[o].state \in {"active", "disconnecting"}

SetUp == ToldOK /\ \A s \in Sids \ seen.displaced : SetUpOK(s)

LEMMA EventLinks ==
    ASSUME Typed, NEW c \in ConnIds
    PROVE  /\ Mtu(c) => /\ links[c] # None /\ links[c].phase = "mtu"
                        /\ links'[c].phase \in {"search", "left"}
                        /\ links'[c].owed = links[c].owed
           /\ SearchDone(c) => /\ links[c] # None /\ links[c].phase = "search"
                               /\ links'[c].phase = "up"
                               /\ links'[c].owed = links[c].owed
           /\ Answered(c) => /\ links[c] # None /\ links[c].owed # <<>>
                             /\ links'[c].phase = links[c].phase
                             /\ links'[c].owed = Tail(links[c].owed)
           /\ LinkLost(c) => links[c] # None /\ links'[c] = None
<1>0. links \in [ConnIds -> Link \cup {None}]
  BY DEF Typed, ClientOK, ClientTypeOK
<1>1. ASSUME links[c] # None
      PROVE  /\ \A x : LET link == [links[c] EXCEPT !.phase = x]
                       IN  link.phase = x /\ link.owed = links[c].owed
             /\ \A x : LET link == [links[c] EXCEPT !.owed = x]
                       IN  link.owed = x /\ link.phase = links[c].phase
  BY <1>0, <1>1 DEF Link
<1>2. ASSUME Mtu(c)
      PROVE  /\ links[c] # None /\ links[c].phase = "mtu"
             /\ links'[c].phase \in {"search", "left"}
             /\ links'[c].owed = links[c].owed
  <2>1. links[c] # None /\ links[c].phase = "mtu"
    BY <1>2 DEF Mtu, MtuEvent
  <2>2. PICK phase \in {"search", "left"} :
           links'[c] = [links[c] EXCEPT !.phase = phase]
    BY <1>0, <1>2 DEF Mtu, MtuEvent
  <2>3. QED
    BY <1>1, <2>1, <2>2
<1>3. ASSUME SearchDone(c)
      PROVE  /\ links[c] # None /\ links[c].phase = "search"
             /\ links'[c].phase = "up" /\ links'[c].owed = links[c].owed
  <2>1. links[c] # None /\ links[c].phase = "search"
    BY <1>3 DEF SearchDone, SearchComplete
  <2>2. links'[c] = [links[c] EXCEPT !.phase = "up"]
    BY <1>0, <1>3 DEF SearchDone, SearchComplete
  <2>3. QED
    BY <1>1, <2>1, <2>2
<1>4. ASSUME Answered(c)
      PROVE  /\ links[c] # None /\ links[c].owed # <<>>
             /\ links'[c].phase = links[c].phase
             /\ links'[c].owed = Tail(links[c].owed)
  <2>1. links[c] # None /\ links[c].owed # <<>>
    BY <1>4 DEF Answered, Answers
  <2>2. links'[c] = [links[c] EXCEPT !.owed = Tail(links[c].owed)]
    BY <1>0, <1>4 DEF Answered, Answers
  <2>3. QED
    BY <1>1, <2>1, <2>2
<1>5. ASSUME LinkLost(c)
      PROVE  links[c] # None /\ links'[c] = None
  BY <1>0, <1>5 DEF LinkLost, LinkDown
<1>6. QED
  BY <1>2, <1>3, <1>4, <1>5

LEMMA FoundStays ==
    ASSUME Typed, [Next]_vars, NEW s \in Sids \ seen'.displaced,
           Found(s), ~Subscribe(s)
    PROVE  Found(s)'
<1>1. ~Calling(s)'
  BY CallingMove DEF Found
<1>2. ~Waits(s)'
  BY WaitsMove DEF Found, ConnectBegins, Goes, Calling
<1>3. ASSUME NEW c \in Of(s)', links'[c] # None
      PROVE  links'[c].phase = "up"
  <2>1. c \in Of(s) /\ c \in ConnIds
    BY OfMove DEF Found, Waits, Of
  <2>2. links[c] # None => links[c].phase = "up"
    BY <2>1 DEF Found
  <2>3. SidOf(c) = s /\ SidOf(c)' = s /\ connections[c] # None
    BY <2>1, SidIsTyped, ClientAssumption DEF Of
  <2>4. CASE SameLink(c) \/ \E request \in Requests : Gains(c, request)
    BY <1>3, <2>2, <2>4 DEF SameLink, Gains
  <2>5. CASE Mtu(c) \/ SearchDone(c) \/ Answered(c) \/ LinkLost(c)
    BY <1>3, <2>1, <2>2, <2>5, EventLinks
  <2>6. ASSUME NEW p \in Peers, OpenSucceeds(p)
        PROVE  SameLink(c)
    BY <2>1, <2>3, <2>6, OpeningLinks DEF Found, Waits
  <2>7. QED
    BY <2>1, <2>4, <2>5, <2>6, LinksMove
<1>4. QED
  BY <1>1, <1>2, <1>3 DEF Found

\* The search is over: what is left to the client is nothing.
LEMMA SearchFinds ==
    ASSUME Typed, OnePlace, [Next]_vars, NEW s \in Sids \ seen'.displaced,
           NEW c \in ConnIds, SearchDone(c), SidOf(c) = s
    PROVE  Found(s)' /\ ~Found(s)
<1>1. s \in Sids \ seen.displaced /\ Placed(s)
  BY SeenStep DEF SeenGrows, OnePlace
<1>2. Of(s) = {c} /\ ~Waits(s) /\ ~Calling(s)
  BY <1>1 DEF Placed, Of
<1>3. ~Calling(s)'
  <2>1. ~Subscribe(s)
    BY <1>2, SubscribesFresh
  <2>2. QED
    BY <1>2, <2>1, CallingMove
<1>4. ~Waits(s)'
  BY <1>2, WaitsMove DEF ConnectBegins, Goes, Calling
<1>5. SamePlaces
  BY SearchKeepsSid DEF SearchDone
<1>6. Of(s)' = {c}
  BY <1>2, <1>5 DEF SamePlaces, Of
<1>7. /\ links[c] # None /\ links[c].phase = "search"
      /\ links'[c].phase = "up"
  BY EventLinks
<1>8. QED
  BY <1>2, <1>3, <1>4, <1>6, <1>7 DEF Found

LEMMA EntersMove ==
    ASSUME Typed, [Next]_vars, NEW s \in Sids, Enters(s)'
    PROVE  \/ Enters(s) /\ ~OnConnected
           \/ \E c \in ConnIds : SearchDone(c) /\ SidOf(c) = s
<1>0. DOMAIN at = Threads /\ DOMAIN arg = Threads /\ "host" \in Threads
  BY DEF Typed, ThreadsOK, Threads
<1>1. ~OnConnected
  BY <1>0 DEF OnConnected, Continues, Ends, Enters
<1>2. ASSUME NEW from, NEW to, to # "connected" , Goes("host", from, to)
      PROVE  FALSE
  BY <1>0, <1>2 DEF Goes, Enters
<1>3. ASSUME NEW from, Ends("host", from)
      PROVE  FALSE
  BY <1>0, <1>3 DEF Ends, Enters
<1>4. CASE at'["host"] = at["host"] /\ arg'["host"] = arg["host"]
  BY <1>1, <1>4 DEF Enters
<1>5. CASE Event
  <2>1. ASSUME NEW callback, NEW r, NEW what, Calls(callback, r, what)
        PROVE  callback = "connected" /\ r = s
    BY <2>1, CallsHold DEF Enters
  <2>2. PICK c \in ConnIds : SearchDone(c) /\ connections[c] # None
                             /\ connections[c].sid = s
    BY <1>5, <2>1 DEF Event
  <2>3. QED
    BY <2>2, SidIsTyped
<1>6. ~CallbackSteps
  <2>1. ~(OnWriteComplete \/ EraseEntry)
    BY <1>0, <1>3 DEF OnWriteComplete, Continues, EraseEntry, Enters
  <2>2. ~(SetupSteps \/ CallbackGivesUp)
    BY <1>2, <1>3 DEF SetupSteps, NextInitWrite, InitWritesDone, NextSubscribe,
       Activate, Tell, CallbackGivesUp, GivesUp
  <2>3. QED
    BY <1>1, <2>1, <2>2 DEF CallbackSteps
<1>7. ~HostCleans
  BY <1>2, <1>3 DEF HostCleans, Cleanup, CleanupGivesUp, GivesUp, LastOne,
     OthersRemain, Lift, Rescan
<1>8. QED
  BY <1>4, <1>5, <1>6, <1>7, HostMove

LEMMA HoldsMove ==
    ASSUME Typed, [Next]_vars, NEW s \in Sids, Holds(s)'
    PROVE  \/ Holds(s) /\ arg'["host"].object = arg["host"].object
           \/ /\ \/ OnConnected /\ Enters(s)
                 \/ OnWriteComplete /\ InInit(sessions[s])
              /\ arg["host"].sid = s
              /\ s \in Open /\ arg'["host"].object = sessions[s]
<1>0. /\ DOMAIN at = Threads /\ DOMAIN arg = Threads /\ "host" \in Threads
      /\ arg["host"] \in Work
  BY DEF Typed, ThreadsOK, Threads
<1>1. ASSUME NEW from, NEW to, Goes("host", from, to)
      PROVE  Holds(s) /\ arg'["host"].object = arg["host"].object
  BY <1>1 DEF Goes, Holds
<1>2. ASSUME NEW from, Ends("host", from)
      PROVE  FALSE
  BY <1>0, <1>2 DEF Ends, Holds, Idle, Work
<1>3. CASE at'["host"] = at["host"] /\ arg'["host"] = arg["host"]
  BY <1>3 DEF Holds
<1>4. ~Event
  BY CallsHold DEF Event, Holds
<1>5. CASE OnConnected \/ OnWriteComplete
  <2> DEFINE r == arg["host"].sid
  <2>1. /\ arg' = [arg EXCEPT !["host"].object = sessions[r]]
        /\ \/ OnConnected /\ at["host"] = "connected" /\ sessions[r] # 0
           \/ OnWriteComplete /\ InInit(sessions[r])
    BY <1>2, <1>5 DEF OnConnected, OnWriteComplete, Continues
  <2>2. arg'["host"].object = sessions[r] /\ arg'["host"].sid = r
    BY <1>0, <2>1 DEF Work
  <2>3. QED
    BY <2>1, <2>2 DEF Holds, Enters, Open, InInit
<1>6. CASE SetupSteps \/ CallbackGivesUp
  BY <1>1, <1>2, <1>6 DEF SetupSteps, NextInitWrite, InitWritesDone, NextSubscribe,
     Activate, Tell, CallbackGivesUp, GivesUp
<1>7. ~EraseEntry
  BY <1>0 DEF EraseEntry, Idle, Holds
<1>8. CASE HostCleans
  BY <1>1, <1>2, <1>8 DEF HostCleans, Cleanup, CleanupGivesUp, GivesUp, LastOne,
     OthersRemain, Lift, Rescan
<1>9. QED
  BY <1>3, <1>4, <1>5, <1>6, <1>7, <1>8, HostMove DEF CallbackSteps

\* A session that stays in gatt_sessions_ stays the same object.
LEMMA StaysOpen ==
    ASSUME Typed, [Next]_vars, NEW s \in Sids, s \in Open', ~Subscribe(s)
    PROVE  /\ s \in Open /\ sessions'[s] = sessions[s]
           /\ sessions[s] \in 1..Len(objects) /\ sessions[s] # 0
           /\ objects[sessions[s]].sid = s /\ ~objects'[sessions[s]].freed
           /\ ~objects[sessions[s]].freed
           /\ objects[sessions[s]] \in Session
<1>1. sessions'[s] # 0 /\ sessions'[s] = sessions[s]
  BY SessionsMove DEF Open
<1>2. s \in Open /\ sessions[s] \in 1..Len(objects)
  BY <1>1, ObjectIsSession DEF Open, Typed, SessionsOK
<1>3. Typed'
  BY TypedStep
<1>4. QED
  BY <1>1, <1>2, <1>3, ObjectIsSession DEF Typed, SessionsOK

\* The host task's pointer is to an object of the session it works for.
LEMMA HoldsMine ==
    ASSUME Typed, NEW o \in 1..Len(objects), NEW s \in Sids, objects[o].sid = s
    PROVE  /\ o = arg["host"].object => Holds(s)
           /\ o = sessions[arg["host"].sid] /\ OnConnected => Enters(s) /\ s \in Open
           /\ o # 0
<1>1. o # 0
  BY ObjectIsSession DEF Typed
<1>2. o = arg["host"].object => Holds(s)
  BY <1>1 DEF Holds, Typed, ThreadsOK, Threads
<1>3. ASSUME o = sessions[arg["host"].sid], OnConnected
      PROVE  Enters(s) /\ s \in Open
  <2>1. arg["host"].sid \in Sids /\ at["host"] = "connected"
    BY <1>3 DEF OnConnected, Typed, ThreadsOK, Threads
  <2>2. arg["host"].sid \in Open
    BY <1>1, <1>3, <2>1 DEF Open
  <2>3. arg["host"].sid = s
    BY <1>3, <2>2 DEF Typed, SessionsOK
  <2>4. QED
    BY <2>1, <2>2, <2>3 DEF Enters
<1>4. QED
  BY <1>1, <1>2, <1>3

LEMMA SetUpStep ==
    ASSUME Typed, OnePlace, SetUp, [Next]_vars, NEW s \in Sids \ seen'.displaced
    PROVE  SetUpOK(s)'
<1>1. s \in Sids \ seen.displaced /\ SetUpOK(s)
  BY SeenStep DEF SeenGrows, SetUp
<1>2. CASE Subscribe(s)
  <2>1. ~Enters(s)' /\ ~Holds(s)'
    BY <1>2, SubscribesFresh DEF Enters, Holds
  <2>2. objects'[sessions'[s]] = New(s)
    BY <1>2, SubscribesFresh
  <2>3. QED
    BY <2>1, <2>2 DEF SetUpOK, StateOf, New
<1>3. CASE ~Subscribe(s)
  <2>1. Enters(s)' => Found(s)'
    BY <1>1, <1>3, EntersMove, FoundStays, SearchFinds DEF SetUpOK
  <2>2. Holds(s)' => Found(s)
    BY <1>1, HoldsMove DEF SetUpOK, InInit, StateOf
  <2>3. ASSUME s \in Open',
               \/ StateOf(s)' \in {"initializing", "subscribing", "active"}
               \/ objects'[sessions'[s]].told
        PROVE  Found(s) /\ (Enters(s) => OnConnected)
    <3> DEFINE o == sessions[s]
    <3>1. /\ s \in Open /\ sessions'[s] = o /\ o \in 1..Len(objects)
          /\ objects[o].sid = s /\ ~objects'[o].freed
      BY <1>3, <2>3, StaysOpen
    <3>2. \/ objects'[o].state \in {"initializing", "subscribing", "active"}
          \/ objects'[o].told
      BY <2>3, <3>1 DEF StateOf
    <3>3. CASE \/ objects[o].state \in {"initializing", "subscribing", "active"}
               \/ objects[o].told
      BY <1>1, <3>1, <3>3 DEF SetUpOK, StateOf
    <3>4. CASE BecomesTold(o)
      BY <3>3, <3>4 DEF BecomesTold
    <3>5. CASE OnConnected /\ o = sessions[arg["host"].sid]
      BY <1>1, <3>1, <3>5, HoldsMine DEF SetUpOK
    <3>6. CASE at["host"] \in {"init", "subscribe"} /\ o = arg["host"].object
      <4>1. Holds(s)
        BY <3>1, <3>6, HoldsMine
      <4>2. QED
        BY <1>1, <3>6, <4>1 DEF SetUpOK, Enters
    <3> HIDE DEF o
    <3>7. QED
      BY <3>1, <3>2, <3>3, <3>4, <3>5, <3>6, FieldMoves DEF StateMoves
  <2>4. ASSUME Found(s), Enters(s)'
        PROVE  Enters(s) /\ ~OnConnected
    BY <2>4, EntersMove, SearchFinds
  <2>5. Found(s) => Found(s)'
    BY <1>3, FoundStays
  <2>6. QED
    BY <2>1, <2>2, <2>3, <2>4, <2>5 DEF SetUpOK
<1>4. QED
  BY <1>2, <1>3

LEMMA NewIsUntold ==
    ASSUME Typed, [Next]_vars, NEW o \in 1..Len(objects'), o \notin 1..Len(objects)
    PROVE  ~objects'[o].told
<1>0. /\ objects \in Seq(Session) /\ Len(objects) \in Nat
      /\ \A s \in Sids : sessions[s] # 0 => sessions[s] \in 1..Len(objects)
  BY ObjectIsSession DEF Typed, SessionsOK
<1>1. ASSUME Len(objects') = Len(objects)
      PROVE  FALSE
  BY <1>0, <1>1
<1>2. CASE \E i \in 1..Len(objects) : \E v \in Session :
             objects' = [objects EXCEPT ![i] = v]
  BY <1>0, <1>1, <1>2, ExceptSeq
<1>3. ASSUME NEW t \in Threads, Cleanup(t)
      PROVE  FALSE
  <2> DEFINE i == sessions[arg[t].sid]
  <2>1. objects' = IF i = 0 THEN objects ELSE Free(i)
    BY <1>3 DEF Cleanup
  <2>2. arg[t].sid \in Sids
    BY <1>3 DEF Cleanup, Goes, Typed, ThreadsOK
  <2>3. i # 0 => i \in 1..Len(objects)
    BY <1>0, <2>2
  <2> HIDE DEF i
  <2>4. Len(objects') = Len(objects)
    BY <2>1, <2>3, Freeing DEF Typed
  <2>5. QED
    BY <1>1, <2>4
<1>4. ASSUME NEW s \in Sids, Subscribe(s)
      PROVE  ~objects'[o].told
  <2> DEFINE i == sessions[s]
             kept == IF i = 0 THEN objects ELSE Free(i)
  <2>1. objects' = Append(kept, New(s))
    BY <1>4 DEF Subscribe
  <2>2. i # 0 => i \in 1..Len(objects)
    BY <1>0
  <2> HIDE DEF i
  <2>3. kept \in Seq(Session) /\ Len(kept) = Len(objects)
    BY <1>0, <2>2, Freeing DEF Typed
  <2> HIDE DEF kept
  <2>4. /\ Len(objects') = Len(objects) + 1
        /\ objects'[Len(objects) + 1] = New(s)
    BY <1>0, <2>1, <2>3, NewIsSession, AppendProperties
  <2>5. o = Len(objects) + 1
    BY <1>0, <2>4
  <2>6. QED
    BY <2>4, <2>5 DEF New
<1>5. QED
  BY <1>0, <1>2, <1>3, <1>4, NextMovesObjects DEF ObjectsMove

LEMMA ToldStep ==
    ASSUME Typed, SetUp, [Next]_vars
    PROVE  ToldOK'
<1> SUFFICES ASSUME NEW o \in 1..Len(objects'), objects'[o].told,
                    objects'[o].sid \notin seen'.displaced
             PROVE  /\ \A t \in Threads : arg'[t].object # o
                    /\ objects'[o].state \in {"active", "disconnecting"}
  BY DEF ToldOK
<1>1. o \in 1..Len(objects)
  BY NewIsUntold
<1>2. PICK s \in Sids : /\ s = objects[o].sid /\ objects'[o].sid = s /\ Typed'
                       /\ s \notin seen'.displaced /\ s \notin seen.displaced
  BY <1>1, TypedStep, SeenStep, ObjectIsSession
     DEF ObjectsGrow, SeenGrows, Typed
<1>3. StateMoves(o) /\ (objects[o].told \/ BecomesTold(o))
  BY <1>1, FieldMoves
<1>4. CASE objects[o].told
  <2>1. /\ \A t \in Threads : arg[t].object # o
        /\ objects[o].state \in {"active", "disconnecting"}
    BY <1>1, <1>2, <1>4 DEF SetUp, ToldOK
  <2>2. s \in Open /\ o = sessions[s] => ~Enters(s)
    BY <1>2, <1>4 DEF SetUp, SetUpOK
  <2>3. objects'[o].state \in {"active", "disconnecting"}
    <3>1. ~(OnConnected /\ o = sessions[arg["host"].sid])
      <4>1. ASSUME OnConnected, o = sessions[arg["host"].sid]
            PROVE  FALSE
        <5>1. Enters(s) /\ s \in Open
          BY <1>1, <1>2, <4>1, HoldsMine
        <5>2. QED
          BY <2>2, <4>1, <5>1 DEF Enters
      <4>2. QED
        BY <4>1
    <3>2. QED
      BY <1>3, <2>1, <3>1 DEF StateMoves, Threads
  <2>4. arg'["ws"].object # o
    <3>1. CASE arg'["ws"] = arg["ws"]
      BY <2>1, <3>1 DEF Threads
    <3>2. ASSUME NEW r \in Sids, Subscribe(r)
          PROVE  arg'["ws"].object # o
      <4>1. arg'["ws"].object = Len(objects) + 1
        BY <3>2 DEF Subscribe, Begins, Typed, ThreadsOK, Threads
      <4>2. QED
        BY <1>1, <4>1, ObjectIsSession DEF Typed
    <3>3. CASE at'["ws"] \notin {"suppress", "stop_scan", "connect", "handle"}
      <4>1. arg'["ws"].object = 0
        BY <1>2, <3>3 DEF Typed, ThreadsOK, Threads, Work
      <4>2. QED
        BY <1>1, <1>2, <4>1, HoldsMine
    <3>4. QED
      BY <3>1, <3>2, <3>3, WsMove
  <2>5. arg'["host"].object # o
    <3> SUFFICES ASSUME arg'["host"].object = o PROVE FALSE
      OBVIOUS
    <3>1. arg'["host"].sid = s /\ o # 0
      BY <1>1, <1>2, HoldsMine DEF Typed, ThreadsOK, Threads
    <3>2. Holds(s)'
      BY <3>1 DEF Holds
    <3>3. CASE arg'["host"].object = arg["host"].object
      BY <2>1, <3>3 DEF Threads
    <3>4. CASE /\ \/ OnConnected /\ Enters(s)
                  \/ OnWriteComplete /\ InInit(sessions[s])
               /\ s \in Open /\ arg'["host"].object = sessions[s]
      BY <2>1, <2>2, <3>4 DEF InInit
    <3>5. QED
      BY <1>2, <3>2, <3>3, <3>4, HoldsMove
  <2>6. QED
    BY <2>3, <2>4, <2>5 DEF Threads
<1>5. CASE BecomesTold(o)
  <2>1. o # 0 /\ objects'[o].state = "active"
    BY <1>1, <1>2, <1>5, HoldsMine DEF BecomesTold
  <2>2. CASE StoreHandle /\ o = arg["ws"].object /\ arg["host"].object # o
    BY <2>1, <2>2 DEF StoreHandle, Ends, Idle, Threads, Typed, ThreadsOK
  <2>3. CASE Tell /\ o = arg["host"].object /\ arg["ws"].object # o
    <3>1. /\ DOMAIN arg = Threads /\ arg["host"] \in Work
      BY DEF Typed, ThreadsOK, Threads
    <3>2. arg'["ws"] = arg["ws"] /\ arg'["host"].object = 0
      BY <2>3, <3>1 DEF Tell, Ends, Idle, Threads, Work
    <3>3. QED
      BY <2>1, <2>3, <3>2 DEF Threads
  <2>4. QED
    BY <1>5, <2>2, <2>3 DEF BecomesTold
<1>6. QED
  BY <1>3, <1>4, <1>5

LEMMA SetUpAlways == Spec => [](Typed /\ OnePlace /\ SetUp)
<1>1. Init => SetUp
  <2>1. ASSUME Init
        PROVE  SetUp
    <3>1. /\ objects = <<>> /\ Open = {} /\ at["host"] = "idle"
          /\ arg["host"].object = 0
      BY <2>1 DEF Init, Open, Idle, Threads
    <3>2. Len(objects) = 0
      BY <3>1
    <3>3. QED
      BY <3>1, <3>2 DEF SetUp, ToldOK, SetUpOK, Enters, Holds
  <2>2. QED
    BY <2>1
<1>2. Typed /\ OnePlace /\ SetUp /\ [Next]_vars => SetUp'
  BY ToldStep, SetUpStep DEF SetUp
<1>3. QED
  BY <1>1, <1>2, OnePlaceAlways, PTL DEF Spec

\* No thread uses a session that has been set up and then freed: by the time
\* gatt_connected is sent and gatt_subscribe has returned, both have let go
\* of the pointer, and nothing hands it out again.
THEOREM NeverDanglingAlways == Spec => []NeverDangling
<1>1. Init => NeverDangling
  BY DEF Init, NeverDangling
<1>2. Typed /\ SetUp /\ NeverDangling /\ [Next]_vars => NeverDangling'
  <2> SUFFICES ASSUME Typed, SetUp, NeverDangling, [Next]_vars, NEW o \in seen'.dangling
               PROVE  ~Undisturbed(objects[o].sid)'
    BY DEF NeverDangling
  <2>1. SeenGrows /\ ObjectsGrow
    BY SeenStep, TypedStep
  <2>2. o \in 1..Len(objects) /\ objects'[o].sid = objects[o].sid
    BY <2>1 DEF SeenGrows, ObjectsGrow, Typed, SeenOK
  <2>3. CASE o \in seen.dangling
    BY <2>1, <2>2, <2>3 DEF NeverDangling, Undisturbed, SeenGrows
  <2>4. CASE o \notin seen.dangling
    <3>1. objects[o].sid \in seen.displaced
      BY <2>1, <2>2, <2>4 DEF SeenGrows, SetUp, ToldOK
    <3>2. QED
      BY <2>1, <2>2, <3>1 DEF Undisturbed, SeenGrows
  <2>5. QED
    BY <2>3, <2>4
<1>3. QED
  BY <1>1, <1>2, SetUpAlways, PTL DEF Spec

-----------------------------------------------------------------------------
(* The scan.                                                               *)

\* While no session is left, what is still off will be put on by a thread
\* that is past its cleanup.
ScanComesBack ==
    seen.displaced = {} /\ Open = {} =>
        /\ suppressed => \E t \in Threads : at[t] \in {"empty", "lift"}
        /\ ~resumed => \E t \in Threads : at[t] \in {"empty", "lift", "rescan"}

\* A thread past its cleanup goes on there, and only it lifts and rescans.
LEMMA ScanMove ==
    ASSUME Typed, [Next]_vars
    PROVE  \/ /\ UNCHANGED scanVars
              /\ \A t \in Threads :
                    at[t] \in {"empty", "lift", "rescan"} => at'[t] = at[t]
           \/ Suppress \/ StopScan
           \/ \E t \in Threads : \/ Cleanup(t) \/ LastOne(t) \/ OthersRemain(t)
                                 \/ Lift(t) \/ Rescan(t)
<1> DEFINE Stays == \A t \in Threads :
                       at[t] \in {"empty", "lift", "rescan"} => at'[t] = at[t]
<1>0. DOMAIN at = Threads /\ "ws" \in Threads /\ "host" \in Threads
  BY DEF Typed, ThreadsOK, Threads
<1>1. ASSUME UNCHANGED at
      PROVE  Stays
  BY <1>1
<1>2. ASSUME NEW t \in Threads, NEW to, at[t] \notin {"empty", "lift", "rescan"},
             at' = [at EXCEPT ![t] = to]
      PROVE  Stays
  BY <1>0, <1>2
<1>3. ASSUME NEW t \in Threads, NEW from, Ends(t, from),
             from \notin {"empty", "lift", "rescan"}
      PROVE  Stays
  BY <1>2, <1>3 DEF Ends
<1>4. ASSUME NEW t \in Threads, NEW from, NEW to, Goes(t, from, to),
             from \notin {"empty", "lift", "rescan"}
      PROVE  Stays
  BY <1>2, <1>4 DEF Goes
<1> HIDE DEF Stays
<1>5. CASE Commands
  <2>1. UNCHANGED scanVars
    BY <1>5 DEF Commands, Subscribe, Close, Write
  <2>2. ASSUME NEW to, NEW work, Begins("ws", to, work)
        PROVE  Stays
    BY <1>0, <1>2, <2>2 DEF Begins
  <2>3. Stays
    BY <1>1, <1>5, <2>2 DEF Commands, Subscribe, Close, Write, Stays
  <2>4. QED
    BY <2>1, <2>3 DEF Stays
<1>6. CASE WsSteps
  <2>1. CASE ConnectBegins \/ StoreHandle \/ CloseDisconnects
    <3>1. Stays
      BY <1>0, <1>3, <1>4, <2>1 DEF ConnectBegins, StoreHandle, CloseDisconnects
    <3>2. QED
      BY <2>1, <3>1 DEF ConnectBegins, StoreHandle, CloseDisconnects, Stays
  <2>2. CASE ConnectRefused
    BY <1>0, <2>2 DEF ConnectRefused
  <2>3. QED
    BY <1>6, <2>1, <2>2 DEF WsSteps
<1>7. CASE CleanupSteps
  <2>1. ASSUME NEW t \in Threads, CleanupGivesUp(t)
        PROVE  UNCHANGED scanVars /\ Stays
    BY <1>3, <2>1 DEF CleanupGivesUp, GivesUp
  <2>2. QED
    BY <1>7, <2>1 DEF CleanupSteps, Stays
<1>8. CASE EventSteps
  <2>1. UNCHANGED scanVars
    BY <1>8 DEF EventSteps, OpenSucceeds, OpenFails, Mtu, SearchDone, Answered,
       LinkLost
  <2>2. ASSUME NEW callback, NEW s, NEW what, Calls(callback, s, what)
        PROVE  Stays
    BY <1>0, <1>2, <2>2 DEF Calls, Begins
  <2>3. Stays
    BY <1>1, <1>8, <2>2 DEF EventSteps, OpenSucceeds, OpenFails, Mtu, SearchDone,
       Answered, LinkLost, Stays
  <2>4. QED
    BY <2>1, <2>3 DEF Stays
<1>9. CASE CallbackSteps
  <2>1. UNCHANGED scanVars
    BY <1>9 DEF CallbackSteps, OnConnected, OnWriteComplete, CallbackGivesUp,
       GivesUp, SetupSteps, NextInitWrite, InitWritesDone, NextSubscribe,
       Activate, Tell, EraseEntry, scanVars
  <2>2. CASE OnConnected \/ OnWriteComplete
    <3>1. \/ Ends("host", "connected") \/ Ends("host", "written")
          \/ /\ at' = [at EXCEPT !["host"] = "init"]
             /\ at["host"] \in {"connected", "written"}
      BY <2>2 DEF OnConnected, OnWriteComplete, Continues, Ends
    <3>2. QED
      BY <1>0, <1>2, <1>3, <2>1, <3>1 DEF Stays
  <2>3. CASE SetupSteps \/ CallbackGivesUp
    <3>1. Stays
      BY <1>0, <1>3, <1>4, <2>3 DEF SetupSteps, NextInitWrite, InitWritesDone,
         NextSubscribe, Activate, Tell, CallbackGivesUp, GivesUp
    <3>2. QED
      BY <2>1, <3>1 DEF Stays
  <2>4. CASE EraseEntry
    BY <1>0, <2>1, <2>4 DEF EraseEntry
  <2>5. QED
    BY <1>9, <2>2, <2>3, <2>4 DEF CallbackSteps
<1>10. CASE \/ \E m \in timers : TimerFires(m)
            \/ UNCHANGED vars
  BY <1>10 DEF TimerFires, vars, scanVars
<1>11. QED
  BY <1>5, <1>6, <1>7, <1>8, <1>9, <1>10, NextSteps

LEMMA ScanStep ==
    ASSUME Typed, OnePlace, ScanComesBack, [Next]_vars
    PROVE  ScanComesBack'
<1> SUFFICES ASSUME seen'.displaced = {}, Open' = {}
             PROVE  /\ suppressed' => \E t \in Threads : at'[t] \in {"empty", "lift"}
                    /\ ~resumed' =>
                          \E t \in Threads : at'[t] \in {"empty", "lift", "rescan"}
  BY DEF ScanComesBack
<1>0. /\ DOMAIN at = Threads /\ "ws" \in Threads /\ "host" \in Threads
      /\ seen.displaced = {}
  BY SeenStep DEF Typed, ThreadsOK, Threads, SeenGrows
<1>1. CASE \E t \in Threads : Cleanup(t)
  BY <1>0, <1>1 DEF Cleanup, Goes
<1>2. CASE ~\E t \in Threads : Cleanup(t)
  <2>1. Open = {}
    <3> SUFFICES ASSUME NEW s \in Open PROVE FALSE
      OBVIOUS
    <3>1. s \in Sids /\ sessions[s] # 0 /\ sessions'[s] = 0
      BY DEF Open
    <3>2. Subscribe(s)
      BY <1>2, <3>1, SessionsMove
    <3>3. sessions'[s] = Len(objects) + 1
      BY <3>1, <3>2 DEF Subscribe, Typed, SessionsOK
    <3>4. QED
      BY <3>1, <3>3, ObjectIsSession DEF Typed
  <2>2. /\ suppressed => \E t \in Threads : at[t] \in {"empty", "lift"}
        /\ ~resumed => \E t \in Threads : at[t] \in {"empty", "lift", "rescan"}
    BY <1>0, <2>1 DEF ScanComesBack
  <2>3. ~(Suppress \/ StopScan)
    <3> SUFFICES ASSUME Suppress \/ StopScan PROVE FALSE
      OBVIOUS
    <3> DEFINE s == arg["ws"].sid
    <3>1. Calling(s) /\ s \in Sids /\ arg["ws"].object # 0
      BY DEF Suppress, StopScan, Goes, Calling, Typed, ThreadsOK, Threads
    <3>2. sessions[s] = arg["ws"].object
      BY <1>0, <3>1 DEF OnePlace, Placed
    <3>3. QED
      BY <2>1, <3>1, <3>2 DEF Open
  <2>4. CASE /\ UNCHANGED scanVars
             /\ \A t \in Threads :
                   at[t] \in {"empty", "lift", "rescan"} => at'[t] = at[t]
    BY <2>2, <2>4 DEF scanVars
  <2>5. ASSUME NEW t \in Threads, LastOne(t)
        PROVE  at'[t] = "lift"
    BY <1>0, <2>5 DEF LastOne, Goes
  <2>6. ASSUME NEW t \in Threads, OthersRemain(t)
        PROVE  FALSE
    BY <2>1, <2>6 DEF OthersRemain
  <2>7. ASSUME NEW t \in Threads, Lift(t)
        PROVE  ~suppressed' /\ at'[t] = "rescan"
    BY <1>0, <2>7 DEF Lift, Goes
  <2>8. ASSUME NEW t \in Threads, Rescan(t)
        PROVE  /\ resumed' /\ suppressed' = suppressed
               /\ at[t] = "rescan" /\ \A u \in Threads \ {t} : at'[u] = at[u]
    BY <1>0, <2>8 DEF Rescan, Goes, Ends
  <2>9. QED
    BY <1>2, <2>2, <2>3, <2>4, <2>5, <2>6, <2>7, <2>8, ScanMove
<1>3. QED
  BY <1>1, <1>2

\* When the last session is gone the scan is not left suppressed, and the last
\* word to the provisioner was to scan, whichever thread ended the session:
\* one that is about to stop the scan is in gatt_sessions_ by then.
THEOREM ScanIsResumedAlways == Spec => []ScanIsResumed
<1>1. Init => ScanComesBack
  BY DEF Init, ScanComesBack
<1>2. Typed /\ OnePlace /\ ScanComesBack /\ [Next]_vars => ScanComesBack'
  BY ScanStep
<1>3. Typed /\ ScanComesBack => ScanIsResumed
  BY DEF ScanComesBack, ScanIsResumed, Quiet, Threads, Typed
<1>4. QED
  BY <1>1, <1>2, <1>3, OnePlaceAlways, PTL DEF Spec

-----------------------------------------------------------------------------
(* More about the moves.                                                   *)

\* Nobody but its own thread moves the WebSocket's task once it is at work.
LEMMA WsActs ==
    ASSUME Typed, [Next]_vars
    PROVE  \/ at'["ws"] = at["ws"] /\ arg'["ws"] = arg["ws"]
           \/ at["ws"] = "idle" \/ WsSteps
           \/ Cleanup("ws") \/ CleanupGivesUp("ws")
           \/ at["ws"] \in {"empty", "lift", "rescan"}
<1>0. DOMAIN at = Threads /\ DOMAIN arg = Threads /\ "ws" \in Threads
  BY DEF Typed, ThreadsOK, Threads
<1>1. CASE UNCHANGED <<at, arg>>
  BY <1>1
<1>2. ASSUME NEW from, NEW to, Goes("host", from, to) \/ Ends("host", from)
      PROVE  at'["ws"] = at["ws"] /\ arg'["ws"] = arg["ws"]
  BY <1>0, <1>2 DEF Goes, Ends
<1>3. CASE Commands
  BY <1>1, <1>3 DEF Commands, Subscribe, Close, Write, Begins
<1>4. CASE CleanupSteps
  <2>1. ASSUME NEW t \in Threads, LastOne(t) \/ OthersRemain(t) \/ Lift(t) \/ Rescan(t)
        PROVE  at[t] \in {"empty", "lift", "rescan"}
    BY <2>1 DEF LastOne, OthersRemain, Lift, Rescan, Goes, Ends
  <2>2. ASSUME \/ Cleanup("host") \/ CleanupGivesUp("host") \/ LastOne("host")
               \/ OthersRemain("host") \/ Lift("host") \/ Rescan("host")
        PROVE  at'["ws"] = at["ws"] /\ arg'["ws"] = arg["ws"]
    BY <1>2, <2>2 DEF Cleanup, CleanupGivesUp, GivesUp, LastOne, OthersRemain,
       Lift, Rescan
  <2>3. QED
    BY <1>4, <2>1, <2>2 DEF CleanupSteps, Threads
<1>5. CASE EventSteps
  <2>1. ASSUME NEW s, NEW callback, NEW what, Calls(callback, s, what)
        PROVE  at'["ws"] = at["ws"] /\ arg'["ws"] = arg["ws"]
    BY <1>0, <2>1 DEF Calls, Begins
  <2>2. QED
    BY <1>1, <1>5, <2>1 DEF EventSteps, OpenSucceeds, OpenFails, Mtu, SearchDone,
       Answered, LinkLost
<1>6. CASE CallbackSteps
  BY <1>0, <1>2, <1>6 DEF CallbackSteps, OnConnected, OnWriteComplete, Continues,
     CallbackGivesUp, GivesUp, SetupSteps, NextInitWrite, InitWritesDone,
     NextSubscribe, Activate, Tell, EraseEntry
<1>7. CASE \/ \E m \in timers : TimerFires(m)
           \/ UNCHANGED vars
  BY <1>1, <1>7 DEF TimerFires, vars
<1>8. QED
  BY <1>3, <1>4, <1>5, <1>6, <1>7, NextSteps

\* Who gives up does so for the session it works for.
LEMMA GivingUp ==
    ASSUME Typed, NEW s \in Sids, NEW t \in Threads, arg[t].sid = s,
           Undisturbed(s)', CleanupGivesUp(t) \/ (t = "host" /\ CallbackGivesUp)
    PROVE  FALSE
<1>1. seen' = [seen EXCEPT !.gaveUp = @ \cup {s}]
  BY DEF CleanupGivesUp, CallbackGivesUp, GivesUp
<1>2. QED
  BY <1>1 DEF Undisturbed, Typed, SeenOK, History

LEMMA CleansUpAll ==
    ASSUME Typed, NEW t \in Threads, Cleanup(t), NEW s \in Sids, arg[t].sid = s
    PROVE  sessions'[s] = 0
  BY DEF Cleanup, Typed, SessionsOK

LEMMA StillUndisturbed ==
    ASSUME Typed, [Next]_vars, NEW s \in Sids, Undisturbed(s)'
    PROVE  Undisturbed(s) /\ s \in Sids \ seen'.displaced /\ s \in Sids \ seen.displaced
  BY SeenStep DEF Undisturbed, SeenGrows

\* How the state of a session changes.
LEMMA StateMove ==
    ASSUME Typed, [Next]_vars, NEW s \in Sids, s \in Open', ~Subscribe(s)
    PROVE  \/ StateOf(s)' \in {StateOf(s), "disconnecting"}
           \/ OnConnected /\ Enters(s) /\ StateOf(s)' = "initializing"
           \/ /\ Holds(s) /\ arg["host"].object = sessions[s]
              /\ \/ at["host"] = "init" /\ StateOf(s)' = "subscribing"
                 \/ at["host"] = "subscribe" /\ StateOf(s)' = "active"
<1> DEFINE o == sessions[s]
<1>1. /\ s \in Open /\ sessions'[s] = o /\ o \in 1..Len(objects)
      /\ objects[o].sid = s /\ ~objects'[o].freed
  BY StaysOpen
<1>2. StateOf(s)' = objects'[o].state /\ StateOf(s) = objects[o].state
  BY <1>1 DEF StateOf
<1>3. /\ o = arg["host"].object => Holds(s)
      /\ OnConnected /\ o = sessions[arg["host"].sid] => Enters(s)
  BY <1>1, HoldsMine
<1> HIDE DEF o
<1>4. StateMoves(o)
  BY <1>1, FieldMoves
<1>5. QED
  BY <1>2, <1>3, <1>4 DEF StateMoves, o

\* A connection of an undisturbed session that has its link is its own until
\* the link is lost.
LEMMA OfStays ==
    ASSUME Typed, OnePlace, [Next]_vars, NEW s \in Sids \ seen'.displaced,
           NEW c \in Of(s), links[c] # None
    PROVE  /\ c \in Of(s)'
           /\ \/ SameLink(c)
              \/ \E request \in Requests : Gains(c, request)
              \/ Mtu(c) \/ SearchDone(c) \/ Answered(c) \/ LinkLost(c)
<1>1. /\ s \in Sids \ seen.displaced /\ Placed(s)
      /\ c \in ConnIds /\ SidOf(c) = s /\ connections[c] # None
  BY SeenStep, SidIsTyped, ClientAssumption DEF SeenGrows, OnePlace, Of
<1>2. c \in Of(s)'
  <2>1. arg["host"].what = c => links[c] = None
    BY <1>1 DEF OnePlace, EntryOK
  <2>2. QED
    BY <1>1, <2>1, OfMove
<1>3. ASSUME NEW p \in Peers, OpenSucceeds(p)
      PROVE  SameLink(c)
  <2>1. CASE ~SamePlaces /\ SidOf(c)' = pending[p]
    <3>1. pending[p] = s
      BY <1>2, <2>1 DEF Of
    <3>2. QED
      BY <1>1, <3>1 DEF Placed, Waits
  <2>2. QED
    BY <1>1, <1>3, <2>1, OpeningLinks
<1>4. QED
  BY <1>1, <1>2, <1>3, LinksMove

\* A callback that an event begins, seen from the connection it comes from.
LEMMA EventCalls ==
    ASSUME Typed, NEW c \in ConnIds, NEW s \in Sids, SidOf(c) = s
    PROVE  /\ SearchDone(c) =>
                 /\ at'["host"] \in {"connected", "cleanup"} /\ arg'["host"].sid = s
                 /\ at["host"] = "idle"
           /\ LinkLost(c) => /\ at'["host"] = "cleanup" /\ arg'["host"].sid = s
                             /\ at["host"] = "idle"
           /\ Answered(c) /\ Head(links[c].owed) # "read" =>
                 at'["host"] = "written" /\ arg'["host"].sid = s /\ at["host"] = "idle"
<1>1. connections[c] # None /\ connections[c].sid = s
  BY SidIsTyped, ClientAssumption
<1>2. ASSUME SearchDone(c)
      PROVE  \E callback \in {"connected", "cleanup"} : Calls(callback, s, None)
  BY <1>1, <1>2 DEF SearchDone
<1>3. ASSUME LinkLost(c)
      PROVE  Calls("cleanup", s, c)
  BY <1>1, <1>3 DEF LinkLost
<1>4. ASSUME Answered(c), Head(links[c].owed) # "read"
      PROVE  Calls("written", s, None)
  BY <1>1, <1>4 DEF Answered
<1>5. QED
  BY <1>2, <1>3, <1>4, CallsHold

-----------------------------------------------------------------------------
(* Sessions and their connections.                                         *)

\* Once the host task is past the cleanup of a session, the session is gone.
EndedOK(s) ==
    /\ Undisturbed(s) /\ arg["host"].sid = s /\ arg["host"].object = 0
    /\ at["host"] \in {"empty", "lift", "rescan", "erase"}
    => sessions[s] = 0

\* Whoever has been connected, or is being told so, has a connection.
ConnectedOK(s) ==
    /\ Undisturbed(s)
    /\ \/ Enters(s) \/ Holds(s)
       \/ s \in Open /\ StateOf(s) \in {"initializing", "subscribing", "active"}
    => Of(s) # {}

HasConnection == \A s \in Sids : EndedOK(s) /\ ConnectedOK(s)

\* Only a cleanup has an entry to erase after it.
LEMMA EndsIdle ==
    ASSUME Typed, NEW from, Ends("host", from),
           from \in {"connected", "written", "init", "tell"}
    PROVE  at'["host"] = "idle" /\ arg'["host"] = Idle
<1>1. at["host"] = from /\ arg["host"].what = None
  BY DEF Ends, Typed, ThreadsOK
<1>2. QED
  BY <1>1 DEF Ends, Typed, ThreadsOK, Threads

LEMMA EndsAfterCleanup ==
    ASSUME Typed, NEW from, Ends("host", from), NEW s \in Sids, arg'["host"].sid = s
    PROVE  arg["host"].sid = s
<1>1. arg["host"] \in Work /\ DOMAIN arg = Threads /\ "host" \in Threads
  BY DEF Typed, ThreadsOK, Threads
<1>2. QED
  BY <1>1, ClientAssumption DEF Ends, Idle, Work

LEMMA EndedStep ==
    ASSUME Typed, HasConnection, [Next]_vars, NEW s \in Sids
    PROVE  EndedOK(s)'
<1> SUFFICES ASSUME Undisturbed(s)', arg'["host"].sid = s, arg'["host"].object = 0,
                    at'["host"] \in {"empty", "lift", "rescan", "erase"}
             PROVE  sessions'[s] = 0
  BY DEF EndedOK
<1>0. /\ DOMAIN at = Threads /\ DOMAIN arg = Threads /\ "host" \in Threads
      /\ Idle.sid # s
      /\ Undisturbed(s) /\ s \in Sids \ seen'.displaced /\ EndedOK(s)
  BY StillUndisturbed, ClientAssumption
     DEF Typed, ThreadsOK, Threads, Idle, HasConnection
<1>1. CASE sessions[s] = 0
  <2>1. ~Subscribe(s)
    BY <1>0, SubscribesFresh
  <2>2. QED
    BY <1>1, <2>1, SessionsMove
<1>2. CASE at'["host"] = at["host"] /\ arg'["host"] = arg["host"]
  BY <1>0, <1>1, <1>2 DEF EndedOK
<1>3. CASE Event
  BY <1>3, CallsHold DEF Event
<1>4. CASE CallbackSteps
  <2>1. ASSUME NEW from \in {"connected", "written", "init", "tell"}, Ends("host", from)
        PROVE  FALSE
    BY <1>0, <2>1, EndsIdle
  <2>2. ~(OnConnected \/ OnWriteComplete)
    BY <1>0, <2>1 DEF OnConnected, OnWriteComplete, Continues
  <2>3. ~(NextInitWrite \/ Tell \/ CallbackGivesUp \/ EraseEntry)
    BY <1>0, <2>1 DEF NextInitWrite, Tell, CallbackGivesUp, GivesUp, EraseEntry
  <2>4. ~(InitWritesDone \/ NextSubscribe)
    BY <1>0 DEF InitWritesDone, NextSubscribe, Goes
  <2>5. ~(at["host"] = "subscribe" /\ Activate)
    BY <1>0 DEF Activate, Goes, Typed, ThreadsOK
  <2>6. QED
    BY <1>4, <2>2, <2>3, <2>4, <2>5 DEF CallbackSteps, SetupSteps
<1>5. CASE HostCleans
  <2>1. ASSUME NEW from, NEW to, Goes("host", from, to)
        PROVE  arg'["host"] = arg["host"] /\ at["host"] = from /\ at'["host"] = to
    BY <1>0, <2>1 DEF Goes
  <2>2. ASSUME NEW from, Ends("host", from)
        PROVE  arg["host"].sid = s /\ at["host"] = from
    BY <2>2, EndsAfterCleanup DEF Ends
  <2>3. CASE Cleanup("host")
    <3>1. arg["host"].sid = s
      BY <2>1, <2>3 DEF Cleanup
    <3>2. QED
      BY <1>0, <2>3, <3>1, CleansUpAll
  <2>4. ~CleanupGivesUp("host")
    <3>1. ASSUME CleanupGivesUp("host")
          PROVE  arg["host"].sid = s
      BY <2>2, <3>1 DEF CleanupGivesUp, GivesUp
    <3>2. QED
      BY <1>0, <3>1, GivingUp
  <2>5. CASE LastOne("host") \/ Lift("host")
    BY <1>0, <1>1, <2>1, <2>5 DEF LastOne, Lift, EndedOK
  <2>6. CASE OthersRemain("host")
    <3>1. arg["host"].sid = s /\ at["host"] = "empty"
      BY <2>2, <2>6 DEF OthersRemain
    <3>2. arg["host"].object = 0
      BY <3>1 DEF Typed, ThreadsOK
    <3>3. QED
      BY <1>0, <1>1, <3>1, <3>2 DEF EndedOK
  <2>7. CASE Rescan("host")
    <3>1. CASE arg["host"].object = 0
      <4>1. arg["host"].sid = s /\ at["host"] = "rescan"
        BY <2>2, <2>7, <3>1 DEF Rescan
      <4>2. QED
        BY <1>0, <1>1, <3>1, <4>1 DEF EndedOK
    <3>2. CASE arg["host"].object # 0
      BY <2>1, <2>7, <3>2 DEF Rescan
    <3>3. QED
      BY <3>1, <3>2
  <2>8. QED
    BY <1>5, <2>3, <2>4, <2>5, <2>6, <2>7 DEF HostCleans
<1>6. QED
  BY <1>2, <1>3, <1>4, <1>5, HostMove

LEMMA ConnectedStep ==
    ASSUME Typed, OnePlace, HasConnection, [Next]_vars, NEW s \in Sids
    PROVE  ConnectedOK(s)'
<1> SUFFICES ASSUME Undisturbed(s)',
                    \/ Enters(s)' \/ Holds(s)'
                    \/ /\ s \in Open'
                       /\ StateOf(s)' \in {"initializing", "subscribing", "active"}
             PROVE  Of(s)' # {}
  BY DEF ConnectedOK
<1>0. /\ Undisturbed(s) /\ s \in Sids \ seen'.displaced /\ ConnectedOK(s) /\ EndedOK(s)
  BY StillUndisturbed DEF HasConnection
<1>1. ASSUME NEW c \in ConnIds, SidOf(c) = s
      PROVE  Of(s) # {}
  BY <1>1 DEF Of
<1>2. ASSUME Enters(s)'
      PROVE  Of(s) # {}
  BY <1>0, <1>1, <1>2, EntersMove DEF ConnectedOK
<1>3. ASSUME Holds(s)'
      PROVE  Of(s) # {}
  BY <1>0, <1>3, HoldsMove DEF ConnectedOK, InInit, StateOf
<1>4. ASSUME s \in Open', StateOf(s)' \in {"initializing", "subscribing", "active"}
      PROVE  Of(s) # {}
  <2>1. ~Subscribe(s)
    <3>1. ASSUME Subscribe(s)
          PROVE  StateOf(s)' = "connecting"
      <4>1. objects'[sessions'[s]] = New(s)
        BY <1>0, <3>1, SubscribesFresh
      <4>2. QED
        BY <4>1 DEF StateOf, New
    <3>2. QED
      BY <1>4, <3>1
  <2>2. s \in Open
    BY <1>4, <2>1, StaysOpen
  <2>3. QED
    BY <1>0, <1>4, <2>1, <2>2, StateMove DEF ConnectedOK
<1>5. Of(s) # {}
  BY <1>2, <1>3, <1>4
<1>6. CASE /\ EraseEntry /\ arg["host"].what \in Of(s)
           /\ Of(s)' = Of(s) \ {arg["host"].what}
  <2>1. arg["host"].sid = s
    BY <1>6 DEF OnePlace, EntryOK, Of
  <2>2. at["host"] = "erase" /\ arg["host"].object = 0
    BY <1>6 DEF EraseEntry, Typed, ThreadsOK
  <2>3. sessions'[s] = 0
    BY <1>0, <1>6, <2>1, <2>2 DEF EndedOK, EraseEntry, sessionVars
  <2>4. at'["host"] = "idle" /\ arg'["host"].object = 0
    BY <1>6 DEF EraseEntry, Idle, Typed, ThreadsOK, Threads
  <2>5. QED
    BY <2>3, <2>4 DEF Enters, Holds, Open
<1>7. QED
  BY <1>0, <1>5, <1>6, OfMove

LEMMA HasConnectionAlways == Spec => [](Typed /\ OnePlace /\ HasConnection)
<1>1. Init => HasConnection
  <2>1. ASSUME Init
        PROVE  HasConnection
    <3>1. /\ Open = {} /\ at["host"] = "idle" /\ arg["host"].object = 0
      BY <2>1 DEF Init, Open, Idle, Threads
    <3>2. QED
      BY <3>1 DEF HasConnection, EndedOK, ConnectedOK, Enters, Holds
  <2>2. QED
    BY <2>1
<1>2. Typed /\ OnePlace /\ HasConnection /\ [Next]_vars => HasConnection'
  BY EndedStep, ConnectedStep DEF HasConnection
<1>3. QED
  BY <1>1, <1>2, OnePlaceAlways, PTL DEF Spec

\* What got past kConnecting has a connection in the client for as long as it
\* is in gatt_sessions_: on_disconnected() and on_error() clean up before the
\* client erases the connection, in whatever order links drop and closes come.
THEOREM SessionHasConnectionAlways == Spec => []SessionHasConnection
<1>1. Typed /\ HasConnection => SessionHasConnection
  <2> SUFFICES ASSUME Typed, HasConnection, NEW s \in Open, Undisturbed(s),
                      StateOf(s) \in {"initializing", "subscribing", "active"}
               PROVE  \E c \in Connected : connections[c].sid = s
    BY DEF SessionHasConnection
  <2>1. s \in Sids /\ Of(s) # {}
    BY DEF HasConnection, ConnectedOK, Open
  <2>2. PICK c \in ConnIds : SidOf(c) = s
    BY <2>1 DEF Of
  <2>3. QED
    BY <2>1, <2>2, SidIsTyped, ClientAssumption DEF Connected
<1>2. QED
  BY <1>1, HasConnectionAlways, PTL

-----------------------------------------------------------------------------
(* A session that is being connected.                                      *)

\* A link that makes progress is still there.
LEMMA LinkStaysUp ==
    ASSUME Typed, NEW c \in ConnIds, Mtu(c) \/ SearchDone(c) \/ Answered(c)
    PROVE  links'[c] # None
<1>1. links[c] # None /\ links[c] \in Link /\ links[c].owed \in Seq(Requests)
      /\ DOMAIN links = ConnIds
  BY LinkOwes DEF Typed, ClientOK, ClientTypeOK, Mtu, MtuEvent, SearchDone,
     SearchComplete, Answered, Answers
<1>2. CASE Mtu(c) \/ SearchDone(c)
  <2>1. PICK phase \in Phases : links'[c] = [links[c] EXCEPT !.phase = phase]
    BY <1>1, <1>2 DEF Mtu, MtuEvent, SearchDone, SearchComplete, Phases
  <2>2. QED
    BY <1>1, <2>1, EntryAssumption DEF Link
<1>3. CASE Answered(c)
  <2>1. /\ links'[c] = [links[c] EXCEPT !.owed = Tail(links[c].owed)]
        /\ links[c].owed # <<>>
    BY <1>1, <1>3 DEF Answered, Answers
  <2>2. Tail(links[c].owed) \in Seq(Requests)
    BY <1>1, <2>1
  <2>3. QED
    BY <1>1, <2>1, <2>2, EntryAssumption DEF Link
<1>4. QED
  BY <1>2, <1>3

\* An open that the stack owes an answer to, for a session that waits for it.
LEMMA OpenIsAnswered ==
    ASSUME Typed, [Next]_vars, NEW s \in Sids \ seen'.displaced,
           NEW p \in Peers, pending[p] = s, opening[p] > 0
    PROVE  \/ pending'[p] = s /\ opening'[p] > 0
           \/ OpenSucceeds(p) /\ ~SamePlaces
           \/ OpenFails(p) /\ at'["host"] = "cleanup" /\ arg'["host"].sid = s
           \/ EraseEntry /\ arg["host"].sid = s
<1>0. /\ pending \in [Peers -> Sids \cup {None}] /\ opening \in [Peers -> 0..MaxOpens]
      /\ s # None /\ pending[p] # None /\ seen \in History
  BY ClientAssumption DEF Typed, ClientOK, ClientTypeOK, SeenOK
<1>1. CASE UNCHANGED <<pending, opening>>
  BY <1>1
<1>2. ASSUME NEW some, Displace(some), s \in some
      PROVE  FALSE
  BY <1>0, <1>2 DEF Displace, History
<1>3. CASE WsSteps
  <2>1. CASE ConnectBegins
    <3>1. Plan[arg["ws"].sid].peer # p
      BY <1>0, <1>2, <2>1 DEF ConnectBegins
    <3>2. QED
      BY <1>0, <2>1, <3>1 DEF ConnectBegins, Connects
  <2>2. CASE ConnectRefused
    <3>1. CASE pending' = pending
      BY <1>1, <2>2, <3>1 DEF ConnectRefused, ConnectFails, stackVars
    <3>2. CASE pending' # pending
      <4>1. Plan[arg["ws"].sid].peer # p
        BY <1>0, <1>2, <2>2, <3>2 DEF ConnectRefused
      <4>2. QED
        BY <1>0, <2>2, <3>2, <4>1 DEF ConnectRefused, ConnectFails, stackVars
    <3>3. QED
      BY <3>1, <3>2
  <2>3. CASE Suppress \/ StopScan \/ StoreHandle \/ CloseDisconnects
    BY <1>1, <2>3 DEF Suppress, StopScan, StoreHandle, CloseDisconnects, Disconnects,
       clientVars, stackVars
  <2>4. QED
    BY <1>3, <2>1, <2>2, <2>3 DEF WsSteps
<1>4. CASE EventSteps
  <2>1. CASE OpenSucceeds(p)
    <3>1. PICK c \in LinkIds(p) : OpenOk(p, c)
      BY <2>1 DEF OpenSucceeds
    <3>2. pending' = [pending EXCEPT ![p] = None]
      BY <1>0, <3>1 DEF OpenOk
    <3>3. pending'[p] = None
      BY <1>0, <3>2
    <3>4. ~ SamePlaces
      BY <1>0, <3>3 DEF SamePlaces
    <3>5. QED
      BY <2>1, <3>4
  <2>2. CASE OpenFails(p)
    <3>1. Calls("cleanup", s, p)
      BY <1>0, <2>2 DEF OpenFails
    <3>2. QED
      BY <2>2, <3>1, CallsHold
  <2>3. ASSUME NEW q \in Peers, q # p, OpenSucceeds(q)
        PROVE  pending'[p] = s /\ opening'[p] > 0
    BY <1>0, <2>3 DEF OpenSucceeds, OpenOk, clientVars
  <2>4. ASSUME NEW q \in Peers, q # p, OpenFails(q)
        PROVE  pending'[p] = s /\ opening'[p] > 0
    BY <1>0, <2>4 DEF OpenFails, OpenFailed, clientVars
  <2>5. ASSUME NEW c \in ConnIds, Mtu(c) \/ SearchDone(c) \/ Answered(c) \/ LinkLost(c)
        PROVE  UNCHANGED <<pending, opening>>
    BY <2>5 DEF Mtu, SearchDone, Answered, LinkLost, MtuEvent, SearchComplete,
       Answers, LinkDown, clientVars
  <2>6. QED
    BY <1>1, <1>4, <2>1, <2>2, <2>3, <2>4, <2>5 DEF EventSteps
<1>5. CASE EraseEntry
  <2>1. CASE arg["host"].what \in ConnIds
    BY <1>1, <1>5, <2>1 DEF EraseEntry, Erase, stackVars
  <2>2. CASE arg["host"].what \notin ConnIds /\ arg["host"].what # p
    BY <1>0, <1>5, <2>2 DEF EraseEntry, Unpend, stackVars
  <2>3. CASE arg["host"].what \notin ConnIds /\ arg["host"].what = p
    BY <1>0, <1>2, <1>5, <2>3 DEF EraseEntry
  <2>4. QED
    BY <2>1, <2>2, <2>3
<1>6. CASE Commands \/ CleanupSteps
  BY <1>1, <1>6 DEF Commands, Subscribe, Close, Write, Asks, CleanupSteps, Cleanup,
     CleanupGivesUp, GivesUp, LastOne, OthersRemain, Lift, Rescan, clientVars, stackVars
<1>7. CASE (CallbackSteps /\ ~EraseEntry) \/ (\E m \in timers : TimerFires(m))
           \/ UNCHANGED vars
  BY <1>1, <1>7 DEF CallbackSteps, OnConnected, OnWriteComplete, CallbackGivesUp,
     GivesUp, SetupSteps, NextInitWrite, InitWritesDone, NextSubscribe, Activate,
     Tell, TimerFires, Subscribes, Asks, vars, clientVars, stackVars
<1>8. QED
  BY <1>3, <1>4, <1>5, <1>6, <1>7, NextSteps

\* Where a session that is being connected is, more closely than
\* ConnectingIsAwaited says: the host task is at work for it in a callback
\* that will move it on or clean it up.
AtWs(s) ==
    /\ at["ws"] \in {"suppress", "stop_scan", "connect", "cleanup"}
    /\ arg["ws"].sid = s
AtOpen(s) == \E p \in Peers : pending[p] = s /\ opening[p] > 0
AtLink(s) ==
    \E c \in Of(s) : links[c] # None /\ links[c].phase \in {"mtu", "search", "left"}
AtHost(s) == at["host"] \in {"connected", "cleanup"} /\ arg["host"].sid = s

ConnectingOK(s) ==
    s \in Open /\ Undisturbed(s) /\ StateOf(s) = "connecting" =>
        AtWs(s) \/ AtOpen(s) \/ AtLink(s) \/ AtHost(s)

Connecting == \A s \in Sids : ConnectingOK(s)

LEMMA ConnectingStep ==
    ASSUME Typed, OnePlace, HasConnection, Connecting, [Next]_vars, NEW s \in Sids
    PROVE  ConnectingOK(s)'
<1> SUFFICES ASSUME s \in Open', Undisturbed(s)', StateOf(s)' = "connecting"
             PROVE  (AtWs(s) \/ AtOpen(s) \/ AtLink(s) \/ AtHost(s))'
  BY DEF ConnectingOK
<1>0. /\ Undisturbed(s) /\ s \in Sids \ seen'.displaced
      /\ ConnectingOK(s) /\ EndedOK(s)
      /\ DOMAIN at = Threads /\ DOMAIN arg = Threads
      /\ "ws" \in Threads /\ "host" \in Threads /\ sessions'[s] # 0
  BY StillUndisturbed DEF HasConnection, Connecting, Typed, ThreadsOK, Threads, Open
<1>1. CASE Subscribe(s)
  BY <1>0, <1>1 DEF Subscribe, Begins, AtWs
<1>2. CASE ~Subscribe(s)
  <2>1. s \in Open
    BY <1>2, StaysOpen
  <2>2. StateOf(s) = "connecting"
    BY <1>2, StateMove
  <2>3. ASSUME NEW t \in Threads, arg[t].sid = s
        PROVE  ~Cleanup(t) /\ ~CleanupGivesUp(t) /\ (t = "host" => ~CallbackGivesUp)
    BY <1>0, <2>3, CleansUpAll, GivingUp
  <2>4. CASE AtWs(s)
    <3>1. CASE ConnectBegins
      <4>1. at["ws"] = "connect" /\ Plan[s].peer \in Peers
        BY <2>4, <3>1, SessionAssumption DEF ConnectBegins, Goes
      <4>2. pending'[Plan[s].peer] = s /\ opening'[Plan[s].peer] > 0
        BY <2>4, <3>1, <4>1
           DEF AtWs, ConnectBegins, Connects, Typed, ClientOK, ClientTypeOK
      <4>3. QED
        BY <4>1, <4>2 DEF AtOpen
    <3>2. CASE ConnectRefused
      BY <1>0, <2>4, <3>2 DEF AtWs, ConnectRefused, Typed, ThreadsOK, Work
    <3>3. CASE Suppress \/ StopScan
      BY <1>0, <2>4, <3>3 DEF AtWs, Suppress, StopScan, Goes
    <3>4. ~StoreHandle /\ ~CloseDisconnects
      BY <2>4 DEF AtWs, StoreHandle, CloseDisconnects, Ends, Goes
    <3>5. ~Cleanup("ws") /\ ~CleanupGivesUp("ws")
      BY <1>0, <2>3, <2>4 DEF AtWs
    <3>6. CASE at'["ws"] = at["ws"] /\ arg'["ws"] = arg["ws"]
      BY <2>4, <3>6 DEF AtWs
    <3>7. QED
      BY <2>4, <3>1, <3>2, <3>3, <3>4, <3>5, <3>6, WsActs DEF AtWs, WsSteps
  <2>5. CASE AtOpen(s)
    <3>1. PICK p \in Peers : pending[p] = s /\ opening[p] > 0
      BY <2>5 DEF AtOpen
    <3>2. CASE OpenSucceeds(p) /\ ~SamePlaces
      <4>1. PICK c \in ConnIds : /\ SidOf(c)' = s /\ links'[c] # None
                                 /\ links'[c].phase \in {"mtu", "left"}
        BY <3>1, <3>2, Opening
      <4>2. QED
        BY <4>1 DEF AtLink, Of
    <3>3. ~(EraseEntry /\ arg["host"].sid = s)
      <4>1. ASSUME EraseEntry, arg["host"].sid = s
            PROVE  sessions[s] = 0
        BY <1>0, <4>1 DEF EraseEntry, EndedOK, Typed, ThreadsOK
      <4>2. QED
        BY <2>1, <4>1 DEF Open
    <3>4. QED
      BY <1>0, <3>1, <3>2, <3>3, OpenIsAnswered DEF AtOpen, AtHost
  <2>6. CASE AtLink(s)
    <3>1. PICK c \in Of(s) : links[c] # None /\ links[c].phase \in {"mtu", "search", "left"}
      BY <2>6 DEF AtLink
    <3>2. c \in ConnIds /\ SidOf(c) = s
      BY DEF Of
    <3>3. c \in Of(s)'
      BY <1>0, <3>1, OfStays
    <3>4. CASE SameLink(c) \/ \E request \in Requests : Gains(c, request)
      BY <3>1, <3>3, <3>4 DEF SameLink, Gains, AtLink
    <3>5. CASE Mtu(c) \/ Answered(c)
      BY <3>1, <3>2, <3>3, <3>5, EventLinks, LinkStaysUp DEF AtLink
    <3>6. CASE SearchDone(c) \/ LinkLost(c)
      BY <3>2, <3>6, EventCalls DEF AtHost
    <3>7. QED
      BY <1>0, <3>1, <3>4, <3>5, <3>6, OfStays
  <2>7. CASE AtHost(s)
    <3>1. CASE at'["host"] = at["host"] /\ arg'["host"] = arg["host"]
      BY <2>7, <3>1 DEF AtHost
    <3>2. ~Event
      BY <2>7, CallsHold DEF Event, AtHost
    <3>3. ~HostCleans
      <4>1. ~Cleanup("host") /\ ~CleanupGivesUp("host")
        BY <1>0, <2>3, <2>7 DEF AtHost
      <4>2. QED
        BY <2>7, <4>1 DEF AtHost, HostCleans, LastOne, OthersRemain, Lift, Rescan,
           Goes, Ends
    <3>4. ~CallbackSteps
      <4>1. ~OnConnected
        <5>1. ASSUME OnConnected
              PROVE  StateOf(s)' = "initializing"
          <6>1. sessions' = sessions /\ sessions[s] \in 1..Len(objects)
            BY <1>2, <5>1, StaysOpen DEF OnConnected
          <6>2. objects' = [objects EXCEPT ![sessions[s]].state = "initializing"]
            BY <2>1, <2>7, <5>1 DEF OnConnected, AtHost, Open
          <6>3. QED
            BY <6>1, <6>2, ObjectIsSession DEF StateOf, Typed, Session
        <5>2. QED
          BY <5>1
      <4>2. ~CallbackGivesUp
        BY <1>0, <2>3, <2>7 DEF AtHost
      <4>3. QED
        BY <2>7, <4>1, <4>2 DEF AtHost, CallbackSteps, OnWriteComplete, SetupSteps,
           Tell, EraseEntry, Ends
    <3>5. QED
      BY <3>1, <3>2, <3>3, <3>4, HostMove
  <2>8. QED
    BY <1>0, <2>1, <2>2, <2>4, <2>5, <2>6, <2>7 DEF ConnectingOK
<1>3. QED
  BY <1>1, <1>2

LEMMA ConnectingAlways == Spec => [](Typed /\ OnePlace /\ HasConnection /\ Connecting)
<1>1. Init => Connecting
  BY DEF Init, Connecting, ConnectingOK, Open
<1>2. Typed /\ OnePlace /\ HasConnection /\ Connecting /\ [Next]_vars => Connecting'
  BY ConnectingStep DEF Connecting
<1>3. QED
  BY <1>1, <1>2, HasConnectionAlways, PTL DEF Spec

\* No session is forgotten in kConnecting: until it is connected or cleaned
\* up, somebody owes it the next step, in whatever order the answer to its
\* open, a refusal and a link that drops come.
THEOREM ConnectingIsAwaitedAlways == Spec => []ConnectingIsAwaited
<1>1. Typed /\ Connecting => ConnectingIsAwaited
  <2> SUFFICES ASSUME Typed, Connecting, NEW s \in Open, Undisturbed(s),
                      StateOf(s) = "connecting"
               PROVE  \/ /\ at["ws"] \in {"suppress", "stop_scan", "connect", "cleanup"}
                         /\ arg["ws"].sid = s
                      \/ \E p \in Peers : pending[p] = s /\ opening[p] > 0
                      \/ \E c \in Connected : /\ connections[c].sid = s
                                              /\ links[c] # None
                                              /\ links[c].phase \in {"mtu", "search", "left"}
                      \/ HostWorksFor(s)
    BY DEF ConnectingIsAwaited
  <2>1. s \in Sids /\ (AtWs(s) \/ AtOpen(s) \/ AtLink(s) \/ AtHost(s))
    BY DEF Connecting, ConnectingOK, Open
  <2>2. CASE AtLink(s)
    <3>1. PICK c \in Of(s) : links[c] # None /\ links[c].phase \in {"mtu", "search", "left"}
      BY <2>2 DEF AtLink
    <3>2. c \in Connected /\ connections[c].sid = s
      BY <2>1, SidIsTyped, ClientAssumption DEF Of, Connected
    <3>3. QED
      BY <3>1, <3>2
  <2>3. QED
    BY <2>1, <2>2 DEF AtWs, AtOpen, AtHost, HostWorksFor
<1>2. QED
  BY <1>1, ConnectingAlways, PTL

-----------------------------------------------------------------------------
(* A session whose init writes are under way.                              *)

\* The host task's pointer is to the object that gatt_sessions_ has for the
\* session, for as long as it has one.
HoldsItsOwn(s) ==
    s \notin seen.displaced /\ s \in Open /\ Holds(s) =>
        arg["host"].object = sessions[s]

LEMMA HoldsItsOwnStep ==
    ASSUME Typed, [Next]_vars, NEW s \in Sids, HoldsItsOwn(s)
    PROVE  HoldsItsOwn(s)'
<1> SUFFICES ASSUME s \in Sids \ seen'.displaced, s \in Open', Holds(s)'
             PROVE  arg'["host"].object = sessions'[s]
  BY DEF HoldsItsOwn
<1>1. ~Subscribe(s)
  BY SubscribesFresh DEF Holds
<1>2. s \in Open /\ sessions'[s] = sessions[s] /\ s \notin seen.displaced
  BY <1>1, StaysOpen, SeenStep DEF SeenGrows
<1>3. QED
  BY <1>2, HoldsMove DEF HoldsItsOwn

\* The next init write is on its way to the session's own connection, or the
\* session is stalled.
LEMMA NextWriteAsks ==
    ASSUME Typed, at["host"] = "init", NextInitWrite
    PROVE  \/ \E c \in Of(arg["host"].sid) :
                 /\ links[c] # None /\ links'[c] # None
                 /\ links'[c].owed = Append(links[c].owed, "init")
           \/ objects' = [objects EXCEPT ![arg["host"].object].stalled = TRUE]
<1> DEFINE ch == MyPlan.init[Mine.index + 1]
           c == Min(Carriers(ch))
<1>1. CASE ~Reaches(ch)
  BY <1>1 DEF NextInitWrite
<1>2. CASE Reaches(ch)
  <2>1. Asks(ch, "init") /\ Takes(ch) /\ connections[c].sid = Mine.sid
    BY <1>2 DEF NextInitWrite, Reaches
  <2>2. arg["host"].object # 0 /\ Mine.sid = arg["host"].sid
    BY MineIsTyped DEF Typed, ThreadsOK
  <2>3. c \in Carriers(ch) /\ c \in Linked
    BY <2>1, FirstCarrier DEF Takes
  <2>4. c \in ConnIds /\ links[c] # None /\ connections[c] # None
    BY <2>3 DEF Linked, Carriers, Connected
  <2>5. links' = [links EXCEPT ![c].owed = Append(@, "init")]
    BY <2>1 DEF Asks
  <2>6. SameLink(c) \/ Gains(c, "init")
    BY <1>2, <2>1, <2>2, <2>4, AskingGains DEF Requests
  <2> HIDE DEF c
  <2>7. c \in Of(arg["host"].sid)
    BY <2>1, <2>2, <2>4 DEF Of, SidOf
  <2>8. links[c] \in Link /\ DOMAIN links = ConnIds /\ links[c].owed \in Seq(Requests)
    BY <2>4, LinkOwes DEF Typed, ClientOK, ClientTypeOK
  <2>9. links'[c] = [links[c] EXCEPT !.owed = Append(links[c].owed, "init")]
    BY <2>4, <2>5, <2>8
  <2>10. links'[c].owed = Append(links[c].owed, "init")
    BY <2>8, <2>9 DEF Link
  <2>11. links'[c] # None
    BY <2>4, <2>6 DEF SameLink, Gains
  <2>12. QED
    BY <2>4, <2>7, <2>10, <2>11
<1>3. QED
  BY <1>1, <1>2

AtWork(s) == at["host"] \in {"written", "init", "cleanup"} /\ arg["host"].sid = s
AtWrite(s) ==
    \E c \in Of(s) :
        links[c] # None /\ \E i \in DOMAIN links[c].owed : links[c].owed[i] # "read"

InitOK(s) ==
    /\ s \in Open /\ Undisturbed(s) /\ StateOf(s) = "initializing"
    /\ ~objects[sessions[s]].stalled
    => AtWork(s) \/ AtWrite(s)

Initializing == \A s \in Sids : HoldsItsOwn(s) /\ InitOK(s)

LEMMA InitStep ==
    ASSUME Typed, OnePlace, Initializing, [Next]_vars, NEW s \in Sids
    PROVE  InitOK(s)'
<1> SUFFICES ASSUME s \in Open', Undisturbed(s)', StateOf(s)' = "initializing",
                    ~objects'[sessions'[s]].stalled
             PROVE  (AtWork(s) \/ AtWrite(s))'
  BY DEF InitOK
<1>0. /\ Undisturbed(s) /\ s \in Sids \ seen'.displaced /\ s \notin seen.displaced
      /\ InitOK(s) /\ HoldsItsOwn(s)
      /\ DOMAIN at = Threads /\ DOMAIN arg = Threads /\ "host" \in Threads
  BY StillUndisturbed DEF Initializing, Typed, ThreadsOK, Threads
<1>1. ~Subscribe(s)
  <2>1. ASSUME Subscribe(s)
        PROVE  StateOf(s)' = "connecting"
    <3>1. objects'[sessions'[s]] = New(s)
      BY <1>0, <2>1, SubscribesFresh
    <3>2. QED
      BY <3>1 DEF StateOf, New
  <2>2. QED
    BY <2>1
<1>2. /\ s \in Open /\ sessions'[s] = sessions[s] /\ sessions[s] \in 1..Len(objects)
      /\ ~objects'[sessions[s]].freed /\ objects \in Seq(Session)
  BY <1>1, StaysOpen, ObjectIsSession DEF Typed
<1>3. ~objects[sessions[s]].stalled
  BY <1>2, FieldMoves DEF StateOf
<1>4. CASE OnConnected /\ Enters(s)
  <2>1. arg["host"].sid = s /\ sessions[arg["host"].sid] # 0
    BY <1>2, <1>4 DEF Enters, Open
  <2>2. at'["host"] = "init" /\ arg'["host"].sid = arg["host"].sid
    BY <1>0, <1>4, <2>1 DEF OnConnected, Continues, Typed, ThreadsOK, Work
  <2>3. QED
    BY <2>1, <2>2 DEF AtWork
<1>5. CASE StateOf(s) = "initializing"
  <2>1. CASE AtWork(s)
    <3>1. CASE at'["host"] = at["host"] /\ arg'["host"] = arg["host"]
      BY <2>1, <3>1 DEF AtWork
    <3>2. ~Event
      BY <2>1, CallsHold DEF Event, AtWork
    <3>3. ~HostCleans
      <4>1. ~Cleanup("host") /\ ~CleanupGivesUp("host")
        BY <1>0, <1>2, <2>1, CleansUpAll, GivingUp DEF AtWork, Open
      <4>2. QED
        BY <2>1, <4>1 DEF AtWork, HostCleans, LastOne, OthersRemain, Lift, Rescan,
           Goes, Ends
    <3>4. CASE OnWriteComplete
      <4>1. arg["host"].sid = s /\ InInit(sessions[arg["host"].sid])
        BY <1>2, <1>5, <2>1 DEF AtWork, InInit, StateOf, Open
      <4>2. at'["host"] = "init" /\ arg'["host"].sid = arg["host"].sid
        BY <1>0, <3>4, <4>1 DEF OnWriteComplete, Continues, Typed, ThreadsOK, Work
      <4>3. QED
        BY <4>1, <4>2 DEF AtWork
    <3>5. CASE at["host"] = "init" /\ (NextInitWrite \/ InitWritesDone)
      <4>1. arg["host"].object = sessions[s]
        BY <1>0, <1>2, <2>1, <3>5 DEF AtWork, HoldsItsOwn, Holds, Typed, ThreadsOK
      <4>2. ~InitWritesDone
        <5>1. ASSUME InitWritesDone
              PROVE  StateOf(s)' = "subscribing"
          BY <1>2, <4>1, <5>1 DEF InitWritesDone, StateOf, Session
        <5>2. QED
          BY <5>1
      <4>3. objects' # [objects EXCEPT ![arg["host"].object].stalled = TRUE]
        <5>1. ASSUME objects' = [objects EXCEPT ![sessions[s]].stalled = TRUE]
              PROVE  objects'[sessions[s]].stalled
          BY <1>2, <5>1, ObjectIsSession DEF Session, Typed
        <5>2. QED
          BY <1>2, <4>1, <5>1
      <4>4. PICK c \in Of(s) : /\ links[c] # None /\ links'[c] # None
                               /\ links'[c].owed = Append(links[c].owed, "init")
        BY <2>1, <3>5, <4>2, <4>3, NextWriteAsks DEF AtWork
      <4>5. c \in Of(s)'
        BY <1>0, <4>4, OfStays
      <4>6. \E i \in DOMAIN links'[c].owed : links'[c].owed[i] # "read"
        <5>1. c \in ConnIds /\ links[c].owed \in Seq(Requests)
          BY <4>4, LinkOwes DEF Of, Typed
        <5> DEFINE n == Len(links[c].owed) + 1
        <5>2. n \in DOMAIN links'[c].owed /\ links'[c].owed[n] = "init"
          BY <4>4, <5>1
        <5>3. QED
          BY <5>2
      <4>7. QED
        BY <4>4, <4>5, <4>6 DEF AtWrite
    <3>6. CASE CallbackSteps /\ ~OnWriteComplete
               /\ ~(at["host"] = "init" /\ (NextInitWrite \/ InitWritesDone))
      <4>1. ~CallbackGivesUp
        BY <1>0, <2>1, GivingUp DEF AtWork
      <4>2. QED
        BY <2>1, <3>6, <4>1 DEF AtWork, CallbackSteps, OnConnected, SetupSteps,
           Tell, EraseEntry, Ends
    <3>7. QED
      BY <3>1, <3>2, <3>3, <3>4, <3>5, <3>6, HostMove
  <2>2. CASE AtWrite(s)
    <3>1. PICK c \in Of(s) :
             links[c] # None /\ \E i \in DOMAIN links[c].owed : links[c].owed[i] # "read"
      BY <2>2 DEF AtWrite
    <3>2. c \in ConnIds /\ SidOf(c) = s /\ links[c].owed \in Seq(Requests)
      BY <3>1, LinkOwes DEF Of, Typed
    <3>3. PICK i \in DOMAIN links[c].owed : links[c].owed[i] # "read"
      BY <3>1
    <3>4. c \in Of(s)'
      BY <1>0, <3>1, OfStays
    <3>5. CASE SameLink(c) \/ Mtu(c) \/ SearchDone(c)
      BY <3>1, <3>3, <3>4, <3>5, <3>2, EventLinks, LinkStaysUp DEF SameLink, AtWrite
    <3>6. ASSUME NEW request \in Requests, Gains(c, request)
          PROVE  AtWrite(s)'
      <4>1. links'[c] # None /\ links'[c].owed = Append(links[c].owed, request)
        BY <3>6 DEF Gains
      <4>2. i \in DOMAIN links'[c].owed /\ links'[c].owed[i] = links[c].owed[i]
        BY <3>2, <3>3, <4>1
      <4>3. QED
        BY <3>3, <3>4, <4>1, <4>2 DEF AtWrite
    <3>7. CASE Answered(c)
      <4>1. /\ links'[c] # None /\ links[c].owed # <<>>
            /\ links'[c].owed = Tail(links[c].owed)
        BY <3>2, <3>7, EventLinks, LinkStaysUp
      <4>2. CASE Head(links[c].owed) # "read"
        BY <3>2, <3>7, <4>2, EventCalls DEF AtWork
      <4>3. CASE Head(links[c].owed) = "read"
        <5>1. i - 1 \in DOMAIN links'[c].owed /\ links'[c].owed[i - 1] = links[c].owed[i]
          BY <3>2, <3>3, <4>1, <4>3
        <5>2. QED
          BY <3>3, <3>4, <4>1, <5>1 DEF AtWrite
      <4>4. QED
        BY <4>2, <4>3
    <3>8. CASE LinkLost(c)
      BY <3>2, <3>8, EventCalls DEF AtWork
    <3>9. QED
      BY <1>0, <3>1, <3>5, <3>6, <3>7, <3>8, OfStays
  <2>3. QED
    BY <1>0, <1>2, <1>3, <1>5, <2>1, <2>2 DEF InitOK
<1>6. QED
  <2>1. \/ StateOf(s)' \in {StateOf(s), "disconnecting"}
        \/ OnConnected /\ Enters(s)
        \/ StateOf(s)' \in {"subscribing", "active"}
    BY <1>1, StateMove
  <2>2. QED
    BY <1>4, <1>5, <2>1

LEMMA InitializingAlways == Spec => [](Typed /\ OnePlace /\ Initializing)
<1>1. Init => Initializing
  BY DEF Init, Initializing, HoldsItsOwn, InitOK, Open
<1>2. Typed /\ OnePlace /\ Initializing /\ [Next]_vars => Initializing'
  BY InitStep, HoldsItsOwnStep DEF Initializing
<1>3. QED
  BY <1>1, <1>2, OnePlaceAlways, PTL DEF Spec

\* No init sequence is forgotten: a session in kInitializing whose write was
\* taken has the completion coming to it, or the host task is at it.
THEOREM InitIsAwaitedAlways == Spec => []InitIsAwaited
<1>1. Typed /\ Initializing => InitIsAwaited
  <2> SUFFICES ASSUME Typed, Initializing, NEW s \in Open, Undisturbed(s),
                      StateOf(s) = "initializing", ~objects[sessions[s]].stalled
               PROVE  \/ HostWorksFor(s)
                      \/ \E c \in Connected :
                            /\ connections[c].sid = s
                            /\ links[c] # None
                            /\ \E i \in DOMAIN links[c].owed : links[c].owed[i] # "read"
    BY DEF InitIsAwaited
  <2>1. s \in Sids /\ (AtWork(s) \/ AtWrite(s))
    BY DEF Initializing, InitOK, Open
  <2>2. CASE AtWrite(s)
    <3>1. PICK c \in Of(s) :
             links[c] # None /\ \E i \in DOMAIN links[c].owed : links[c].owed[i] # "read"
      BY <2>2 DEF AtWrite
    <3>2. c \in Connected /\ connections[c].sid = s
      BY <2>1, SidIsTyped, ClientAssumption DEF Of, Connected
    <3>3. QED
      BY <3>1, <3>2
  <2>3. QED
    BY <2>1, <2>2 DEF AtWork, HostWorksFor
<1>2. QED
  BY <1>1, InitializingAlways, PTL

-----------------------------------------------------------------------------
(* One init write at a time.                                               *)

\* A connection that the client has erased owes no answer: its link was lost.
OrphansOweNothing ==
    \A c \in ConnIds : links[c] # None /\ connections[c] = None => links[c].owed = <<>>

LEMMA OrphanStep ==
    ASSUME Typed, OnePlace, OrphansOweNothing, [Next]_vars
    PROVE  OrphansOweNothing'
<1> SUFFICES ASSUME NEW c \in ConnIds, links'[c] # None, connections'[c] = None
             PROVE  links'[c].owed = <<>>
  BY DEF OrphansOweNothing
<1>1. SidOf(c)' = None /\ (SidOf(c) = None => connections[c] = None)
  BY SidIsTyped DEF SidOf
<1>2. ASSUME NEW p \in Peers, OpenSucceeds(p), ~SamePlaces
      PROVE  pending[p] # None /\ SidOf(c) = SidOf(c)'
  BY <1>1, <1>2, Opening, ClientAssumption
<1>3. CASE connections[c] # None
  <2>1. EraseEntry
    <3>1. ~SamePlaces
      BY <1>1, <1>3 DEF SamePlaces
    <3>2. ~ConnectBegins /\ ~ConnectRefused
      BY <1>3 DEF ConnectBegins, Connects, ConnectRefused, ConnectFails
    <3>3. QED
      BY <1>1, <1>2, <1>3, <3>1, <3>2, PlacesMove
  <2>2. arg["host"].what = c
    BY <1>1, <1>3, <2>1, ErasePlaces
  <2>3. UNCHANGED links
    BY <2>1, <2>2 DEF EraseEntry, Erase, stackVars
  <2>4. QED
    BY <2>2, <2>3 DEF OnePlace, EntryOK
<1>4. CASE connections[c] = None
  <2>1. ~LinkLost(c) /\ ~Mtu(c) /\ ~SearchDone(c) /\ ~Answered(c)
    BY <1>4, EventLinks
       DEF Mtu, MtuEvent, SearchDone, SearchComplete, Answered, Answers
  <2>2. \A request \in Requests : ~Gains(c, request)
    BY <1>4 DEF Gains
  <2>3. CASE SameLink(c)
    BY <1>4, <2>3 DEF SameLink, OrphansOweNothing
  <2>4. ASSUME NEW p \in Peers, OpenSucceeds(p)
        PROVE  links'[c].owed = <<>>
    BY <1>1, <1>2, <2>3, <2>4, OpeningLinks
  <2>5. QED
    BY <2>1, <2>2, <2>3, <2>4, LinksMove
<1>5. QED
  BY <1>3, <1>4

\* The host task is about to make the next init write of the session.
NextWrite(s) ==
    /\ arg["host"].sid = s
    /\ \/ at["host"] \in {"connected", "init"}
       \/ at["host"] = "written" /\ InInit(sessions[s])

LEMMA NextWriteMove ==
    ASSUME Typed, [Next]_vars, NEW s \in Sids, s \in Open', ~Subscribe(s), NextWrite(s)'
    PROVE  \/ NextWrite(s) /\ ~(at["host"] = "init" /\ NextInitWrite)
           \/ \E c \in ConnIds : SidOf(c) = s /\ (SearchDone(c) \/ Answered(c))
<1>0. /\ DOMAIN at = Threads /\ DOMAIN arg = Threads /\ "host" \in Threads
      /\ Idle.sid # s /\ arg["host"] \in Work /\ arg'["host"].sid = s
      /\ at'["host"] \in {"connected", "init", "written"}
  BY ClientAssumption DEF Typed, ThreadsOK, Threads, Idle, NextWrite
<1>1. ASSUME NEW from, Ends("host", from)
      PROVE  FALSE
  BY <1>0, <1>1 DEF Ends
<1>2. ASSUME NEW from, NEW to, Goes("host", from, to)
      PROVE  at'["host"] = to
  BY <1>0, <1>2 DEF Goes
<1>3. CASE at'["host"] = at["host"] /\ arg'["host"] = arg["host"]
  <2>1. ~(at["host"] = "init" /\ NextInitWrite)
    BY <1>1 DEF NextInitWrite
  <2>2. CASE at["host"] = "written"
    <3>1. s \in Open /\ sessions'[s] = sessions[s] /\ sessions[s] # 0
      BY StaysOpen
    <3>2. StateOf(s)' = "initializing"
      BY <1>3, <2>2 DEF NextWrite, InInit, StateOf
    <3>3. ~OnConnected
      BY <2>2 DEF OnConnected
    <3>4. StateOf(s) = "initializing"
      BY <3>2, <3>3, StateMove
    <3>5. QED
      BY <1>0, <1>3, <2>1, <2>2, <3>1, <3>4 DEF NextWrite, InInit, StateOf
  <2>3. QED
    BY <1>0, <1>3, <2>1, <2>2 DEF NextWrite
<1>4. CASE Event
  <2>1. PICK c \in ConnIds : connections[c] # None /\
           \/ SearchDone(c) /\ Calls("connected", connections[c].sid, None)
           \/ Answered(c) /\ Calls("written", connections[c].sid, None)
    BY <1>0, <1>4, CallsHold DEF Event
  <2>2. SidOf(c) = s
    BY <1>0, <2>1, CallsHold, SidIsTyped
  <2>3. QED
    BY <2>1, <2>2
<1>5. CASE CallbackSteps
  <2>1. CASE OnConnected
    <3>1. arg'["host"].sid = arg["host"].sid /\ at["host"] = "connected"
      BY <1>0, <1>1, <2>1 DEF OnConnected, Continues, Work
    <3>2. QED
      BY <1>0, <3>1 DEF NextWrite
  <2>2. CASE OnWriteComplete
    <3>1. /\ arg'["host"].sid = arg["host"].sid /\ at["host"] = "written"
          /\ InInit(sessions[arg["host"].sid])
      BY <1>0, <1>1, <2>2 DEF OnWriteComplete, Continues, Work
    <3>2. QED
      BY <1>0, <3>1 DEF NextWrite
  <2>3. ~SetupSteps
    BY <1>0, <1>1, <1>2
       DEF SetupSteps, NextInitWrite, InitWritesDone, NextSubscribe, Activate, Tell
  <2>4. ~CallbackGivesUp /\ ~EraseEntry
    BY <1>0, <1>1 DEF CallbackGivesUp, GivesUp, EraseEntry
  <2>5. QED
    BY <1>5, <2>1, <2>2, <2>3, <2>4 DEF CallbackSteps
<1>6. ~HostCleans
  BY <1>0, <1>1, <1>2 DEF HostCleans, Cleanup, CleanupGivesUp, GivesUp, LastOne,
     OthersRemain, Lift, Rescan
<1>7. QED
  BY <1>3, <1>4, <1>5, <1>6, HostMove

Inits(c) == {i \in DOMAIN links[c].owed : links[c].owed[i] = "init"}

\* Of the connection of a session: no init write is asked of it while the
\* session is about to make one, or before its characteristics are known.
SequentialOn(s, c) ==
    /\ \A i, j \in Inits(c) : i = j
    /\ NextWrite(s) \/ links[c].phase \in {"mtu", "search", "left"} => Inits(c) = {}

SequentialOK(s) ==
    /\ s \in Open /\ Undisturbed(s) /\ ~objects[sessions[s]].intruded
    => \A c \in Of(s) : links[c] # None => SequentialOn(s, c)

Sequential == OrphansOweNothing /\ \A s \in Sids : SequentialOK(s)

\* The answers of a connection, seen from its session.
LEMMA AnswerKeepsSequence ==
    ASSUME Typed, [Next]_vars, NEW s \in Open, ~objects'[sessions'[s]].intruded,
           NEW c \in Of(s), SequentialOn(s, c), Answered(c), ~SearchDone(c)
    PROVE  SequentialOn(s, c)'
<1>0. /\ c \in ConnIds /\ s \in Sids /\ SidOf(c) = s /\ connections[c].sid = s
      /\ objects \in Seq(Session) /\ sessions[s] \in 1..Len(objects)
  <2>1. c \in ConnIds /\ s \in Sids /\ SidOf(c) = s
    BY DEF Of, Open
  <2>2. QED
    BY <2>1, SidIsTyped, ClientAssumption DEF Typed, SessionsOK, Open
<1>1. /\ links[c] # None /\ links[c].owed # <<>>
      /\ links'[c].owed = Tail(links[c].owed) /\ links'[c].phase = links[c].phase
      /\ links[c].owed \in Seq(Requests)
  BY <1>0, EventLinks, LinkOwes DEF Typed
<1>2. \A i \in Inits(c)' : i \in Nat /\ i >= 1 /\ i + 1 \in Inits(c)
  BY <1>1 DEF Inits
<1>3. \A i, j \in Inits(c)' : i = j
  <2> SUFFICES ASSUME NEW i \in Inits(c)', NEW j \in Inits(c)'
               PROVE  i = j
    OBVIOUS
  <2>1. i + 1 = j + 1
    BY <1>2 DEF SequentialOn
  <2>2. QED
    BY <1>2, <2>1
<1>4. CASE Inits(c) = {}
  BY <1>2, <1>4 DEF SequentialOn
<1>5. CASE Inits(c) # {} /\ Head(links[c].owed) = "init"
  <2>1. 1 \in Inits(c)
    BY <1>1, <1>5 DEF Inits
  <2>2. \A i \in Inits(c)' : FALSE
    <3> SUFFICES ASSUME NEW i \in Inits(c)'
                 PROVE  FALSE
      OBVIOUS
    <3>1. i + 1 = 1
      BY <1>2, <2>1 DEF SequentialOn
    <3>2. QED
      BY <1>2, <3>1
  <2>3. QED
    BY <2>2 DEF SequentialOn
<1>6. CASE Inits(c) # {} /\ Head(links[c].owed) # "init"
  <2>1. ~NextWrite(s) /\ links'[c].phase \notin {"mtu", "search", "left"}
    BY <1>1, <1>6 DEF SequentialOn
  <2>2. ~NextWrite(s)'
    <3>1. sessions' = sessions
      BY DEF Answered
    <3>2. CASE Head(links[c].owed) = "read"
      BY <1>0, <2>1, <3>1, <3>2 DEF Answered, NextWrite, InInit
    <3>3. CASE Head(links[c].owed) = "write"
      <4>1. objects[sessions[s]].state # "initializing"
        <5>1. ASSUME objects[sessions[s]].state = "initializing"
              PROVE  objects'[sessions[s]].intruded
          <6>1. objects' = [objects EXCEPT ![sessions[s]].intruded = TRUE]
            BY <1>0, <3>3, <5>1 DEF Answered
          <6>2. QED
            BY <1>0, <6>1, ObjectIsSession DEF Session, Typed
        <5>2. QED
          BY <3>1, <5>1
      <4>2. objects' = objects
        BY <1>0, <3>3, <4>1 DEF Answered
      <4>3. at'["host"] = "written"
        BY <1>0, <3>3, EventCalls
      <4>4. QED
        BY <3>1, <4>1, <4>2, <4>3 DEF NextWrite, InInit
    <3>4. QED
      <4>1. Head(links[c].owed) \in Requests
        BY <1>1
      <4>2. QED
        BY <1>6, <3>2, <3>3, <4>1 DEF Requests
  <2>3. QED
    BY <1>3, <2>1, <2>2 DEF SequentialOn
<1>7. QED
  BY <1>4, <1>5, <1>6

\* A connection that a session is given owes nothing; the one it had is the
\* only one it will have.
LEMMA FirstConnection ==
    ASSUME Typed, OnePlace, OrphansOweNothing, [Next]_vars,
           NEW s \in Sids \ seen'.displaced, NEW c \in Of(s)', links'[c] # None
    PROVE  links'[c].owed = <<>> \/ (c \in Of(s) /\ links[c] # None)
<1>0. c \in ConnIds /\ SidOf(c)' = s /\ s # None
      /\ s \in Sids \ seen.displaced /\ Placed(s)
  BY ClientAssumption, SeenStep DEF Of, SeenGrows, OnePlace
<1>1. CASE c \in Of(s)
  <2>1. connections[c] # None
    BY <1>0, <1>1, SidIsTyped DEF Of
  <2>2. ASSUME NEW p \in Peers, OpenSucceeds(p), ~SamePlaces
        PROVE  pending[p] # s
    BY <1>0, <1>1 DEF Placed, Waits
  <2>3. ASSUME links[c] = None
        PROVE  FALSE
    <3>1. ~SameLink(c) /\ (\A request \in Requests : ~Gains(c, request))
      BY <2>3 DEF SameLink, Gains
    <3>2. ~Mtu(c) /\ ~SearchDone(c) /\ ~Answered(c) /\ ~LinkLost(c)
      BY <1>0, <2>3, EventLinks
    <3>3. ASSUME NEW p \in Peers, OpenSucceeds(p)
          PROVE  FALSE
      BY <1>0, <2>1, <2>2, <3>1, <3>3, OpeningLinks
    <3>4. QED
      BY <1>0, <3>1, <3>2, <3>3, LinksMove
  <2>4. QED
    BY <1>1, <2>3
<1>2. CASE c \notin Of(s)
  <2>1. SidOf(c) # s
    BY <1>0, <1>2 DEF Of
  <2>2. PICK p \in Peers : OpenSucceeds(p) /\ ~SamePlaces /\ pending[p] = s
    BY <1>2, OfMove
  <2>3. PICK d \in ConnIds :
           /\ SidOf(d)' = s
           /\ \A e \in ConnIds \ {d} : SidOf(e)' = SidOf(e)
           /\ \/ SidOf(d) \in {None, s}
              \/ {SidOf(d), s} \subseteq seen'.displaced
           /\ links'[d].owed = IF links[d] = None THEN <<>> ELSE links[d].owed
    BY <2>2, Opening
  <2>4. c = d
    BY <1>0, <2>1, <2>3
  <2>5. connections[c] = None
    BY <1>0, <2>1, <2>3, <2>4, SidIsTyped
  <2>6. QED
    BY <1>0, <2>3, <2>4, <2>5 DEF OrphansOweNothing
<1>3. QED
  BY <1>1, <1>2

LEMMA SequentialStep ==
    ASSUME Typed, OnePlace, SetUp, Sequential, [Next]_vars, NEW s \in Sids
    PROVE  SequentialOK(s)'
<1> SUFFICES ASSUME s \in Open', Undisturbed(s)', ~objects'[sessions'[s]].intruded,
                    NEW c \in Of(s)', links'[c] # None
             PROVE  SequentialOn(s, c)'
  BY DEF SequentialOK
<1>0. /\ Undisturbed(s) /\ s \in Sids \ seen'.displaced /\ s \in Sids \ seen.displaced
      /\ SequentialOK(s) /\ Placed(s) /\ SetUpOK(s) /\ c \in ConnIds
  BY StillUndisturbed DEF OnePlace, SetUp, Sequential, Of
<1>1. ~Subscribe(s)
  <2>1. ASSUME Subscribe(s)
        PROVE  Of(s)' = {}
    BY <1>0, <2>1, SubscribesFresh
  <2>2. QED
    BY <2>1
<1>2. /\ s \in Open /\ sessions'[s] = sessions[s] /\ sessions[s] \in 1..Len(objects)
      /\ ~objects'[sessions[s]].freed
  BY <1>1, StaysOpen
<1>3. ~objects[sessions[s]].intruded
  BY <1>2, FieldMoves
<1>4. CASE links'[c].owed = <<>>
  BY <1>4 DEF SequentialOn, Inits
<1>5. CASE c \in Of(s) /\ links[c] # None
  <2>0. /\ SidOf(c) = s /\ SequentialOn(s, c)
        /\ links[c].owed \in Seq(Requests)
    BY <1>0, <1>2, <1>3, <1>5, LinkOwes DEF SequentialOK, Of, Typed
  <2>1. CASE SearchDone(c)
    BY <1>0, <2>0, <2>1, EventLinks DEF SequentialOn, Inits
  <2>2. CASE Answered(c) /\ ~SearchDone(c)
    BY <1>2, <1>5, <2>0, <2>2, AnswerKeepsSequence
  <2>3. CASE ~SearchDone(c) /\ ~Answered(c)
    <3>1. ASSUME NEW d \in ConnIds, SidOf(d) = s
          PROVE  d = c
      BY <1>0, <1>5, <3>1 DEF Placed, Of
    <3>2. NextWrite(s)' => NextWrite(s) /\ ~(at["host"] = "init" /\ NextInitWrite)
      BY <1>1, <2>3, <3>1, NextWriteMove
    <3>3. CASE SameLink(c)
      BY <1>5, <2>0, <3>2, <3>3 DEF SameLink, SequentialOn, Inits
    <3>4. CASE Mtu(c)
      BY <1>0, <2>0, <3>4, EventLinks DEF SequentialOn, Inits
    <3>5. ASSUME NEW request \in Requests, Gains(c, request)
          PROVE  SequentialOn(s, c)'
      <4>1. /\ links'[c].owed = Append(links[c].owed, request)
            /\ links'[c].phase = links[c].phase
        BY <3>5 DEF Gains
      <4>2. CASE request # "init"
        <5>1. Inits(c)' = Inits(c)
          BY <2>0, <4>1, <4>2 DEF Inits
        <5>2. QED
          BY <2>0, <3>2, <4>1, <5>1 DEF SequentialOn
      <4>3. CASE request = "init"
        <5>1. at["host"] = "init" /\ NextInitWrite /\ arg["host"].sid = s
          BY <2>0, <3>5, <4>3 DEF Gains
        <5>2. NextWrite(s) /\ ~NextWrite(s)'
          BY <3>2, <5>1 DEF NextWrite
        <5>3. Inits(c) = {}
          BY <2>0, <5>2 DEF SequentialOn
        <5>4. \A i \in Inits(c)' : i = Len(links[c].owed) + 1
          <6> SUFFICES ASSUME NEW i \in DOMAIN links'[c].owed,
                              links'[c].owed[i] = "init"
                       PROVE  i = Len(links[c].owed) + 1
            BY DEF Inits
          <6>1. i \notin DOMAIN links[c].owed
            BY <2>0, <4>1, <5>3 DEF Inits
          <6>2. QED
            BY <2>0, <4>1, <6>1
        <5>5. links[c].phase = "up"
          <6>1. Holds(s)
            BY <5>1 DEF Holds, Typed, ThreadsOK
          <6>2. QED
            BY <1>0, <1>5, <6>1 DEF SetUpOK, Found
        <5>6. QED
          BY <4>1, <5>2, <5>4, <5>5 DEF SequentialOn
      <4>4. QED
        BY <4>2, <4>3
    <3>6. ~LinkLost(c)
      BY <1>0, EventLinks
    <3>7. QED
      BY <1>0, <1>5, <2>3, <3>3, <3>4, <3>5, <3>6, OfStays
  <2>4. QED
    BY <2>1, <2>2, <2>3
<1>6. QED
  BY <1>0, <1>4, <1>5, FirstConnection DEF Sequential

LEMMA SequentialAlways == Spec => [](Typed /\ OnePlace /\ SetUp /\ Sequential)
<1>1. Init => Sequential
  <2>1. ASSUME Init
        PROVE  Sequential
    <3>1. Open = {} /\ \A c \in ConnIds : links[c] = None
      BY <2>1 DEF Init, ClientInit, Open
    <3>2. QED
      BY <3>1 DEF Sequential, OrphansOweNothing, SequentialOK
  <2>2. QED
    BY <2>1
<1>2. Typed /\ OnePlace /\ SetUp /\ Sequential /\ [Next]_vars => Sequential'
  BY OrphanStep, SequentialStep DEF Sequential
<1>3. QED
  BY <1>1, <1>2, SetUpAlways, PTL DEF Spec

\* The init writes of a session are made one at a time, over any number of
\* sessions that share the client and its congestion limit: the second is
\* asked for only when the first is answered.
THEOREM InitIsSequentialAlways == Spec => []InitIsSequential
<1>1. Typed /\ Sequential => InitIsSequential
  <2> SUFFICES ASSUME Typed, Sequential, NEW s \in Open, NEW c \in Connected,
                      Undisturbed(s), connections[c].sid = s,
                      ~objects[sessions[s]].intruded, links[c] # None
               PROVE  Cardinality(Inits(c)) <= 1
    BY DEF InitIsSequential, Inits
  <2>1. s \in Sids /\ c \in Of(s)
    BY DEF Open, Connected, Of, SidOf
  <2>2. \A i, j \in Inits(c) : i = j
    BY <2>1 DEF Sequential, SequentialOK, SequentialOn
  <2>3. CASE Inits(c) = {}
    BY <2>3, FS_EmptySet
  <2>4. CASE Inits(c) # {}
    <3>1. PICK i : i \in Inits(c)
      BY <2>4
    <3>2. Inits(c) = {i}
      BY <2>2, <3>1
    <3>3. Cardinality({i}) = 1
      BY FS_Singleton, Zenon
    <3>4. QED
      BY <3>2, <3>3
  <2>5. QED
    BY <2>3, <2>4
<1>2. QED
  BY <1>1, SequentialAlways, PTL

-----------------------------------------------------------------------------
(* The life of a session, which SessionLife states.                        *)

\* A step moves one thread at most, and a thread that is given other work is
\* somewhere else then.
OnlyMoves(t) ==
    /\ at'[t] = at[t] => arg'[t] = arg[t]
    /\ \A u \in Threads \ {t} : at'[u] = at[u] /\ arg'[u] = arg[u]

LEMMA ThreadMoves ==
    ASSUME Typed, NEW t \in Threads, NEW from, NEW to, NEW work
    PROVE  /\ Goes(t, from, to) => OnlyMoves(t)
           /\ Begins(t, to, work) /\ to # "idle" => OnlyMoves(t)
           /\ Ends(t, from) /\ from \notin {"idle", "erase"} => OnlyMoves(t)
<1>1. DOMAIN at = Threads /\ DOMAIN arg = Threads
  BY DEF Typed, ThreadsOK
<1>2. QED
  BY <1>1 DEF Goes, Begins, Ends, OnlyMoves

LEMMA OneThreadMoves ==
    ASSUME Typed, [Next]_vars
    PROVE  \E t \in Threads : OnlyMoves(t)
<1>0. /\ DOMAIN at = Threads /\ DOMAIN arg = Threads
      /\ "ws" \in Threads /\ "host" \in Threads
  BY DEF Typed, ThreadsOK, Threads
<1>1. CASE UNCHANGED <<at, arg>>
  BY <1>0, <1>1 DEF OnlyMoves
<1>2. CASE Commands
  <2>1. ASSUME NEW to, NEW work, Begins("ws", to, work), to # "idle"
        PROVE  OnlyMoves("ws")
    BY <1>0, <2>1, ThreadMoves
  <2>2. QED
    BY <1>0, <1>1, <1>2, <2>1 DEF Commands, Subscribe, Close, Write
<1>3. CASE WsSteps
  <2>1. CASE ConnectRefused
    BY <1>0, <2>1 DEF ConnectRefused, OnlyMoves
  <2>2. QED
    BY <1>0, <1>3, <2>1, ThreadMoves DEF WsSteps, Suppress, StopScan, ConnectBegins,
       StoreHandle, CloseDisconnects
<1>4. CASE CleanupSteps
  BY <1>4, ThreadMoves DEF CleanupSteps, Cleanup, CleanupGivesUp, GivesUp, LastOne,
     OthersRemain, Lift, Rescan
<1>5. CASE EventSteps
  <2>1. ASSUME NEW s, NEW callback, NEW what, Calls(callback, s, what),
               callback # "idle"
        PROVE  OnlyMoves("host")
    BY <1>0, <2>1, ThreadMoves DEF Calls
  <2>2. QED
    BY <1>0, <1>1, <1>5, <2>1 DEF EventSteps, OpenSucceeds, OpenFails, Mtu,
       SearchDone, Answered, LinkLost
<1>6. CASE CallbackSteps
  <2>1. CASE EraseEntry
    BY <1>0, <2>1 DEF EraseEntry, OnlyMoves
  <2>2. CASE OnConnected \/ OnWriteComplete
    <3>1. ASSUME NEW from \in {"connected", "written"}, NEW found \in BOOLEAN,
                 at["host"] = from, Continues(from, found)
          PROVE  OnlyMoves("host")
      <4>1. CASE found
        BY <1>0, <3>1, <4>1 DEF Continues, OnlyMoves
      <4>2. CASE ~found
        BY <1>0, <3>1, <4>2, ThreadMoves DEF Continues
      <4>3. QED
        BY <4>1, <4>2
    <3>2. \A o : InInit(o) \in BOOLEAN
      BY DEF InInit
    <3>3. QED
      BY <1>0, <2>2, <3>1, <3>2 DEF OnConnected, OnWriteComplete
  <2>3. QED
    BY <1>0, <1>6, <2>1, <2>2, ThreadMoves DEF CallbackSteps, CallbackGivesUp,
       GivesUp, SetupSteps, NextInitWrite, InitWritesDone, NextSubscribe, Activate,
       Tell
<1>7. CASE \/ \E m \in timers : TimerFires(m)
           \/ UNCHANGED vars
  BY <1>0, <1>1, <1>7 DEF TimerFires, vars
<1>8. QED
  BY <1>2, <1>3, <1>4, <1>5, <1>6, <1>7, NextSteps

\* A thread moves, and it is at work for the session then.
Acts(s) == \E t \in Threads : at'[t] # at[t] /\ arg'[t].sid = s

LEMMA OneActs ==
    ASSUME Typed, [Next]_vars, NEW s, NEW r, Acts(s), Acts(r)
    PROVE  s = r
  BY OneThreadMoves DEF Acts, OnlyMoves

\* The WebSocket's task ends a session to the end.
LEMMA EndingStays ==
    ASSUME Typed, [Next]_vars, NEW s \in Sids, Ending(s), s \in Open', Undisturbed(s)'
    PROVE  Ending(s)'
<1>0. DOMAIN at = Threads /\ "ws" \in Threads
  BY DEF Typed, ThreadsOK, Threads
<1>1. ~CleanupGivesUp("ws") /\ ~Cleanup("ws")
  BY <1>0, GivingUp, CleansUpAll DEF Ending, Open
<1>2. CASE WsSteps
  <2>1. CloseDisconnects
    BY <1>2 DEF WsSteps, Suppress, StopScan, ConnectBegins, ConnectRefused,
       StoreHandle, Goes, Ends, Ending
  <2>2. QED
    BY <1>0, <2>1 DEF CloseDisconnects, Goes, Ending
<1>3. QED
  BY <1>1, <1>2, WsActs DEF Ending

\* A gatt_close is under way for as long as its session is marked with it.
DisconnectingOK(s) ==
    s \in Open /\ Undisturbed(s) /\ StateOf(s) = "disconnecting" => Ending(s)

LEMMA DisconnectingStep ==
    ASSUME Typed, [Next]_vars, NEW s \in Sids, DisconnectingOK(s)
    PROVE  DisconnectingOK(s)'
<1> SUFFICES ASSUME s \in Open', Undisturbed(s)', StateOf(s)' = "disconnecting"
             PROVE  Ending(s)'
  BY DEF DisconnectingOK
<1>1. Undisturbed(s) /\ s \in Sids \ seen'.displaced
  BY StillUndisturbed
<1>2. ~Subscribe(s)
  <2>1. ASSUME Subscribe(s)
        PROVE  StateOf(s)' = "connecting"
    <3>1. objects'[sessions'[s]] = New(s)
      BY <1>1, <2>1, SubscribesFresh
    <3>2. New(s).state = "connecting"
      BY DEF New
    <3>3. QED
      BY <3>1, <3>2 DEF StateOf
  <2>2. QED
    BY <2>1
<1> DEFINE o == sessions[s]
<1>3. /\ s \in Open /\ sessions'[s] = o /\ o \in 1..Len(objects)
      /\ objects[o].sid = s /\ ~objects'[o].freed /\ objects[o] \in Session
  BY <1>2, StaysOpen
<1>4. StateOf(s)' = objects'[o].state /\ StateOf(s) = objects[o].state
  BY <1>3 DEF StateOf
<1> HIDE DEF o
<1>5. CASE StateOf(s) = "disconnecting"
  BY <1>1, <1>3, <1>5, EndingStays DEF DisconnectingOK
<1>6. CASE StateOf(s) # "disconnecting"
  <2>1. StepsOn(o)
    BY <1>3, <1>4, <1>6, ObjectMoves
  <2>2. PICK r \in Sids : Close(r) /\ o = sessions[r]
    BY <1>3, <1>4, <1>6, <2>1 DEF StepsOn, Session
  <2>3. r = s
    BY <1>3, <2>2 DEF Close, Typed, SessionsOK
  <2>4. QED
    BY <2>2, <2>3 DEF Close, Begins, Ending, Typed, ThreadsOK, Threads
<1>7. QED
  BY <1>5, <1>6

\* What the host task does next is what the session's state says.
StageOK(s) ==
    s \in Open /\ Undisturbed(s) /\ Holds(s) =>
        /\ at["host"] = "init" => StateOf(s) \in {"initializing", "disconnecting"}
        /\ at["host"] = "subscribe" => StateOf(s) \in {"subscribing", "disconnecting"}

LEMMA StageMove ==
    ASSUME Typed, [Next]_vars, arg["host"].object # 0,
           at'["host"] \in {"init", "subscribe"}
    PROVE  \/ at'["host"] = at["host"] /\ ~(at["host"] = "init" /\ InitWritesDone)
              /\ ~(at["host"] = "subscribe" /\ Activate)
           \/ at["host"] = "init" /\ at'["host"] = "subscribe" /\ InitWritesDone
<1>0. DOMAIN at = Threads /\ "host" \in Threads
      /\ at["host"] \notin {"connected", "written", "cleanup", "empty", "erase", "idle"}
  BY DEF Typed, ThreadsOK, Threads, Idle
<1>1. ASSUME NEW from, Ends("host", from)
      PROVE  FALSE
  BY <1>0, <1>1 DEF Ends
<1>2. ASSUME NEW from, NEW to, Goes("host", from, to)
      PROVE  at["host"] = from /\ at'["host"] = to
  BY <1>0, <1>2 DEF Goes
<1>3. at["host"] = "init" /\ InitWritesDone => at'["host"] = "subscribe"
  BY <1>2 DEF InitWritesDone
<1>4. ~(at["host"] = "subscribe" /\ Activate)
  BY <1>2 DEF Activate
<1>5. CASE at'["host"] = at["host"]
  BY <1>3, <1>4, <1>5
<1>6. ~HostCleans
  BY <1>0, <1>1, <1>2 DEF HostCleans, Cleanup, CleanupGivesUp, GivesUp, LastOne,
     OthersRemain, Lift, Rescan
<1>7. ~Event
  BY <1>0, CallsHold DEF Event
<1>8. CASE CallbackSteps
  <2>1. ~OnConnected /\ ~OnWriteComplete /\ ~EraseEntry
    BY <1>0 DEF OnConnected, OnWriteComplete, EraseEntry
  <2>2. ~CallbackGivesUp /\ ~NextInitWrite /\ ~Tell
    BY <1>1 DEF CallbackGivesUp, GivesUp, NextInitWrite, Tell
  <2>3. at["host"] = "subscribe" /\ NextSubscribe => at'["host"] = at["host"]
    BY <1>2 DEF NextSubscribe
  <2>4. QED
    BY <1>3, <1>4, <1>5, <1>8, <2>1, <2>2, <2>3 DEF CallbackSteps, SetupSteps
<1>9. QED
  BY <1>5, <1>6, <1>7, <1>8, HostMove

LEMMA StageStep ==
    ASSUME Typed, [Next]_vars, NEW s \in Sids, HoldsItsOwn(s), StageOK(s)
    PROVE  StageOK(s)'
<1> SUFFICES ASSUME s \in Open', Undisturbed(s)', Holds(s)'
             PROVE  /\ at'["host"] = "init" =>
                          StateOf(s)' \in {"initializing", "disconnecting"}
                    /\ at'["host"] = "subscribe" =>
                          StateOf(s)' \in {"subscribing", "disconnecting"}
  BY DEF StageOK
<1>1. Undisturbed(s) /\ s \in Sids \ seen'.displaced /\ s \in Sids \ seen.displaced
  BY StillUndisturbed
<1>2. ~Subscribe(s)
  BY <1>1, SubscribesFresh DEF Holds
<1> DEFINE o == sessions[s]
<1>3. /\ s \in Open /\ sessions'[s] = o /\ o \in 1..Len(objects)
      /\ objects[o] \in Session /\ ~objects'[o].freed
  BY <1>2, StaysOpen
<1>4. StateOf(s)' = objects'[o].state /\ StateOf(s) = objects[o].state
  BY <1>3 DEF StateOf
<1>5. StateMoves(o)
  BY <1>3, FieldMoves
<1>6. /\ DOMAIN at = Threads /\ DOMAIN arg = Threads /\ "host" \in Threads
      /\ objects \in Seq(Session)
  BY DEF Typed, ThreadsOK, SessionsOK, Threads
<1> HIDE DEF o
<1>7. CASE Holds(s) /\ arg'["host"].object = arg["host"].object
  <2>1. arg["host"].object = o /\ arg["host"].object # 0
    BY <1>1, <1>3, <1>7 DEF HoldsItsOwn, Holds, o
  <2>2. ~OnConnected
    BY <2>1 DEF OnConnected, Typed, ThreadsOK
  <2>3. CASE at["host"] = "init" /\ InitWritesDone
    <3>1. objects' = [objects EXCEPT ![o] =
                        [@ EXCEPT !.state = "subscribing", !.subscribe = 0, !.stalled = FALSE]]
      BY <2>1, <2>3 DEF InitWritesDone
    <3>2. objects'[o].state = "subscribing"
      BY <1>3, <1>6, <3>1 DEF Session
    <3>3. at'["host"] = "subscribe"
      BY <1>6, <2>3 DEF InitWritesDone, Goes
    <3>4. QED
      BY <1>4, <3>2, <3>3
  <2>4. CASE ~(at["host"] = "init" /\ InitWritesDone)
    BY <1>1, <1>3, <1>4, <1>5, <1>7, <2>1, <2>2, <2>4, StageMove
       DEF StageOK, StateMoves
  <2>5. QED
    BY <2>3, <2>4
<1>8. CASE OnConnected /\ arg["host"].sid = s
  <2>1. objects' = [objects EXCEPT ![o].state = "initializing"] /\ at'["host"] = "init"
    BY <1>3, <1>6, <1>8 DEF OnConnected, Continues, Open, o
  <2>2. objects'[o].state = "initializing"
    BY <1>3, <1>6, <2>1 DEF Session
  <2>3. QED
    BY <1>4, <2>1, <2>2
<1>9. CASE OnWriteComplete /\ InInit(sessions[s]) /\ arg["host"].sid = s
  <2>1. at["host"] = "written" /\ at'["host"] = "init"
    BY <1>6, <1>9 DEF OnWriteComplete, Continues
  <2>2. objects[o].state = "initializing"
    BY <1>9 DEF InInit, o
  <2>3. ~OnConnected
    BY <2>1 DEF OnConnected
  <2>4. QED
    BY <1>4, <1>5, <2>1, <2>2, <2>3 DEF StateMoves
<1>10. QED
  BY <1>7, <1>8, <1>9, HoldsMove

Staged == \A s \in Sids : HoldsItsOwn(s) /\ DisconnectingOK(s) /\ StageOK(s)

LEMMA StagedAlways == Spec => [](Typed /\ OnePlace /\ SetUp /\ Staged)
<1>1. Init => Staged
  BY DEF Init, Staged, HoldsItsOwn, DisconnectingOK, StageOK, Open
<1>2. Typed /\ Staged /\ [Next]_vars => Staged'
  BY HoldsItsOwnStep, DisconnectingStep, StageStep DEF Staged
<1>3. QED
  BY <1>1, <1>2, SetUpAlways, PTL DEF Spec

LEMMA PhaseMoves ==
    ASSUME Typed, OnePlace, SetUp, Staged, Staged', [Next]_vars, NEW s \in Sids
    PROVE  \/ PhaseOf(s)' \in Life!Rests(PhaseOf(s))
           \/ Acts(s) /\ PhaseOf(s)' \in Life!Moves(PhaseOf(s))
<1>1. CASE ~Undisturbed(s)'
  BY <1>1 DEF PhaseOf, Life!Rests
<1>2. CASE Undisturbed(s)' /\ Subscribe(s)
  <2>0. Undisturbed(s) /\ s \in Sids \ seen'.displaced
    BY <1>2, StillUndisturbed
  <2>1. /\ s \notin Open /\ objects'[sessions'[s]] = New(s)
        /\ sessions'[s] = Len(objects) + 1 /\ Len(objects) \in Nat
    BY <1>2, <2>0, SubscribesFresh, ObjectIsSession DEF Typed
  <2>2. s \in Open'
    BY <2>1 DEF Open
  <2>3. /\ at["ws"] = "idle" /\ at'["ws"] = "suppress" /\ arg'["ws"].sid = s
        /\ "ws" \in Threads
    BY <1>2 DEF Subscribe, Begins, Typed, ThreadsOK, Threads
  <2>4. StateOf(s)' = "connecting"
    <3>1. New(s).state = "connecting"
      BY DEF New
    <3>2. QED
      BY <2>1, <3>1 DEF StateOf
  <2>5. PhaseOf(s) = "none" /\ PhaseOf(s)' = "connecting"
    BY <1>2, <2>0, <2>1, <2>2, <2>3, <2>4 DEF PhaseOf, Ending
  <2>6. Acts(s)
    BY <2>3 DEF Acts
  <2>7. QED
    BY <2>5, <2>6 DEF Life!Moves, Life!Phases, Life!SetUp, Life!GoesOn
<1>3. CASE Undisturbed(s)' /\ ~Subscribe(s) /\ s \notin Open'
  <2>0. Undisturbed(s) /\ PhaseOf(s)' = "none"
    BY <1>3, StillUndisturbed DEF PhaseOf
  <2>1. CASE s \notin Open
    BY <2>0, <2>1 DEF PhaseOf, Life!Rests
  <2>2. CASE s \in Open
    <3>1. PICK t \in Threads : Cleanup(t) /\ arg[t].sid = s
      BY <1>3, <2>2, SessionsMove DEF Open
    <3>2. Acts(s)
      BY <3>1 DEF Acts, Cleanup, Goes, Typed, ThreadsOK
    <3>3. StateOf(s) \in States
      <4>1. sessions[s] \in 1..Len(objects)
        BY <2>2, ObjectIsSession DEF Open, Typed, SessionsOK
      <4>2. objects[sessions[s]] \in Session
        BY <4>1, ObjectIsSession DEF Typed
      <4>3. QED
        BY <4>2 DEF StateOf, Session
    <3>4. PhaseOf(s) \in Life!SetUp \cup {"ending"}
      BY <2>0, <2>2, <3>3 DEF PhaseOf, Staged, DisconnectingOK, States, Life!SetUp
    <3>5. QED
      BY <2>0, <3>2, <3>4 DEF Life!Moves, Life!Phases, Life!IsGone
  <2>3. QED
    BY <2>1, <2>2
<1>4. CASE Undisturbed(s)' /\ ~Subscribe(s) /\ s \in Open'
  <2>0. /\ Undisturbed(s) /\ s \in Sids \ seen.displaced
        /\ DOMAIN at = Threads /\ DOMAIN arg = Threads
        /\ "ws" \in Threads /\ "host" \in Threads
    BY <1>4, StillUndisturbed DEF Typed, ThreadsOK, Threads
  <2> DEFINE o == sessions[s]
  <2>1. /\ s \in Open /\ sessions'[s] = o /\ o \in 1..Len(objects)
        /\ objects[o].sid = s /\ ~objects'[o].freed /\ objects[o] \in Session
    BY <1>4, StaysOpen
  <2>2. StateOf(s)' = objects'[o].state /\ StateOf(s) = objects[o].state
    BY <2>1 DEF StateOf
  <2>3. CASE Ending(s)
    BY <1>4, <2>0, <2>1, <2>3, EndingStays DEF PhaseOf, Life!Rests
  <2>4. CASE ~Ending(s) /\ Ending(s)'
    <3>1. at'["ws"] # at["ws"]
      BY <2>0, <2>4, OneThreadMoves DEF Ending, OnlyMoves
    <3>2. Acts(s) /\ PhaseOf(s)' = "ending"
      BY <1>4, <2>0, <2>4, <3>1 DEF Acts, PhaseOf, Ending
    <3>3. PhaseOf(s) \in Life!SetUp
      BY <2>0, <2>1, <2>2, <2>4
         DEF PhaseOf, Staged, DisconnectingOK, Session, States, Life!SetUp
    <3>4. QED
      BY <3>2, <3>3 DEF Life!Moves, Life!Phases, Life!IsEnded
  <2>5. CASE ~Ending(s) /\ ~Ending(s)'
    <3>0. /\ PhaseOf(s) = StateOf(s) /\ PhaseOf(s)' = StateOf(s)'
          /\ StateOf(s) # "disconnecting" /\ StateOf(s)' # "disconnecting"
      BY <1>4, <2>0, <2>1, <2>5 DEF PhaseOf, Staged, DisconnectingOK
    <3>1. /\ o = arg["host"].object => Holds(s)
          /\ OnConnected /\ o = sessions[arg["host"].sid] => Enters(s)
      BY <2>1, HoldsMine
    <3>2. StateOf(s) \in States
      BY <2>1, <2>2 DEF Session
    <3> HIDE DEF o
    <3>3. CASE StateOf(s)' = StateOf(s)
      BY <3>0, <3>3 DEF Life!Rests
    <3>4. CASE /\ OnConnected /\ o = sessions[arg["host"].sid]
               /\ objects'[o].state = "initializing"
      <4>1. Enters(s) /\ SetUpOK(s)
        BY <2>0, <3>1, <3>4 DEF SetUp
      <4>2. StateOf(s) = "connecting"
        BY <2>1, <3>0, <3>2, <4>1 DEF SetUpOK, States
      <4>3. at["host"] = "connected" /\ at'["host"] = "init" /\ arg'["host"].sid = s
        <5>1. arg["host"].sid = s /\ sessions[s] # 0 /\ arg["host"] \in Work
          BY <2>0, <2>1, <4>1 DEF Enters, Open, Typed, ThreadsOK
        <5>2. QED
          BY <2>0, <3>4, <5>1 DEF OnConnected, Continues, Work
      <4>4. Acts(s)
        BY <2>0, <4>3 DEF Acts
      <4>5. QED
        BY <2>2, <3>0, <3>4, <4>2, <4>4
           DEF Life!Moves, Life!Phases, Life!SetUp, Life!GoesOn
    <3>5. CASE /\ at["host"] = "init" /\ InitWritesDone /\ o = arg["host"].object
               /\ objects'[o].state = "subscribing"
      <4>1. Holds(s) /\ StageOK(s)
        BY <3>1, <3>5 DEF Staged
      <4>2. StateOf(s) = "initializing"
        BY <2>0, <2>1, <3>0, <3>5, <4>1 DEF StageOK
      <4>3. Acts(s)
        BY <2>0, <3>5, <4>1 DEF Acts, InitWritesDone, Goes, Holds
      <4>4. QED
        BY <2>2, <3>0, <3>5, <4>2, <4>3
           DEF Life!Moves, Life!Phases, Life!SetUp, Life!GoesOn
    <3>6. CASE /\ at["host"] = "subscribe" /\ Activate /\ o = arg["host"].object
               /\ objects'[o].state = "active"
      <4>1. Holds(s) /\ StageOK(s)
        BY <3>1, <3>6 DEF Staged
      <4>2. StateOf(s) = "subscribing"
        BY <2>0, <2>1, <3>0, <3>6, <4>1 DEF StageOK
      <4>3. Acts(s)
        BY <2>0, <3>6, <4>1 DEF Acts, Activate, Goes, Holds
      <4>4. QED
        BY <2>2, <3>0, <3>6, <4>2, <4>3
           DEF Life!Moves, Life!Phases, Life!SetUp, Life!GoesOn
    <3>7. StateMoves(o)
      BY <2>1, FieldMoves
    <3>8. QED
      BY <2>2, <3>0, <3>3, <3>4, <3>5, <3>6, <3>7 DEF StateMoves
  <2>6. QED
    BY <2>3, <2>4, <2>5
<1>5. QED
  BY <1>1, <1>2, <1>3, <1>4

LEMMA PhasesAreTyped ==
    ASSUME Typed, Staged, NEW s \in Sids
    PROVE  PhaseOf(s) \in Life!Phases
<1>1. ASSUME s \in Open
      PROVE  StateOf(s) \in States
  <2>1. sessions[s] \in 1..Len(objects)
    BY <1>1, ObjectIsSession DEF Open, Typed, SessionsOK
  <2>2. objects[sessions[s]] \in Session
    BY <2>1, ObjectIsSession DEF Typed
  <2>3. QED
    BY <2>2 DEF StateOf, Session
<1>2. QED
  BY <1>1 DEF PhaseOf, Staged, DisconnectingOK, States, Life!Phases, Life!SetUp

\* One session at most does more than rest or be excused.
LEMMA LifeStep ==
    ASSUME Typed, OnePlace, SetUp, Staged, Staged', [Next]_vars,
           (\A s \in Sids : PhaseOf(s) \in Life!Phases)'
    PROVE  [Life!LifeNext]_[s \in Sids |-> PhaseOf(s)]
<1> DEFINE Mover(s) == PhaseOf(s)' \notin Life!Rests(PhaseOf(s))
           before == [s \in Sids |-> PhaseOf(s)]
           after == [s \in Sids |-> PhaseOf(s)']
<1>1. CASE Sids = {}
  BY <1>1
<1>2. ASSUME NEW s \in Sids, \A r \in Sids \ {s} : ~Mover(r)
      PROVE  Life!LifeNext
  <2>1. after[s] \in Life!Moves(before[s])
    BY PhaseMoves DEF Life!Moves
  <2>2. \A r \in Sids \ {s} : after[r] \in Life!Rests(before[r])
    BY <1>2
  <2>3. after \in [Sids -> Life!Phases]
    BY DEF Life!Phases, Life!SetUp
  <2>4. QED
    BY <2>1, <2>2, <2>3 DEF Life!LifeNext
<1>3. CASE \E s \in Sids : Mover(s)
  <2>1. PICK s \in Sids : Mover(s)
    BY <1>3
  <2>2. \A r \in Sids : Mover(r) => r = s
    BY <2>1, PhaseMoves, OneActs
  <2>3. QED
    BY <1>2, <2>2
<1>4. CASE Sids # {} /\ \A s \in Sids : ~Mover(s)
  BY <1>2, <1>4
<1>5. QED
  BY <1>1, <1>3, <1>4

\* The gateway keeps the promise of SessionLife for every session that is not
\* disturbed, over any number of sessions and for every plan: what the three
\* threads and the stack do to it, in whatever order, is one life.
THEOREM LifeImplemented == Spec => ImplementsLife
<1>1. Init => Life!LifeInit
  <2>1. ASSUME Init
        PROVE  \A s \in Sids : PhaseOf(s) = "none"
    BY <2>1 DEF Init, PhaseOf, Undisturbed, Open
  <2>2. QED
    BY <2>1 DEF Life!LifeInit
<1>2. Typed /\ Staged => \A s \in Sids : PhaseOf(s) \in Life!Phases
  BY PhasesAreTyped
<1>3. /\ Typed /\ OnePlace /\ SetUp /\ Staged /\ [Next]_vars /\ Staged'
      /\ (\A s \in Sids : PhaseOf(s) \in Life!Phases)'
      => [Life!LifeNext]_[s \in Sids |-> PhaseOf(s)]
  BY LifeStep
<1>4. QED
  BY <1>1, <1>2, <1>3, StagedAlways, PTL DEF Spec, ImplementsLife, Life!LifeSpec
=============================================================================
