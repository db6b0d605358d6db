---------------------------- MODULE GattSessions ----------------------------
(***************************************************************************)
(* The GATT sessions of a BLESignalKGateway over a BluedroidGattc: what    *)
(* gatt_subscribe, gatt_write and gatt_close commands, the callbacks of a  *)
(* connection and the timers of a session do to gatt_sessions_, to each    *)
(* other and to the scan.                                                  *)
(*                                                                         *)
(* Three threads run this code: the control WebSocket's task ("ws"), the   *)
(* Bluetooth host task ("host") and FreeRTOS's timer task ("timer").       *)
(* gatt_sessions_mutex_ is held only to look a session up; each stretch    *)
(* under it is one step here, and what follows it is further steps, on a   *)
(* pointer that another thread may have freed.  A freed session keeps its  *)
(* contents, which is what a use of it then finds.                         *)
(*                                                                         *)
(* A definition marked "Mutant" is a planted fault that no action uses.    *)
(***************************************************************************)
EXTENDS BluedroidGattc

CONSTANTS
    Plan,           \* what a gatt_subscribe of each session id asks for
    MinInterval,    \* kMinGattIntervalMs
    MaxSubscribes,  \* bound: sessions made in a behaviour
    MaxGiveUps      \* bound: sessions for which a wait for the mutex runs out

Descriptors == [kind : {"read", "write"}, char : Chars, interval : Nat]

ASSUME SessionAssumption ==
    /\ MinInterval \in Nat
    /\ MaxSubscribes \in Nat
    /\ MaxGiveUps \in Nat
    /\ \A s \in Sids :
          /\ Plan[s].peer \in Peers
          /\ Plan[s].init \in Seq(Chars)
          /\ Plan[s].notify \in Seq(Chars)
          /\ Plan[s].timers \subseteq Descriptors

VARIABLES
    sessions,   \* gatt_sessions_: per id, which object it holds; 0 for none
    objects,    \* the GATTSession objects made so far, freed ones included
    timers,     \* the running FreeRTOS timers
    suppressed, \* scan_suppressed_
    resumed,    \* whether the sessions' last word to the provisioner was to
                \* scan: the resumption, not the stop; what becomes of the
                \* two calls below it is ScanWatchdog's subject
    at,         \* where each thread is
    arg,        \* what it works on
    seen        \* history: see History

sessionVars == <<sessions, objects, timers>>
scanVars == <<suppressed, resumed>>
vars == <<clientVars, stackVars, sessionVars, scanVars, at, arg, seen>>

Threads == {"ws", "host"}
Objects == 1..MaxSubscribes
States == {"connecting", "initializing", "subscribing", "active", "disconnecting"}
Session == [sid : Sids, state : States, index : Nat, subscribe : Nat,
            freed : BOOLEAN, stalled : BOOLEAN, intruded : BOOLEAN,
            told : BOOLEAN]
Timer == [object : Objects, kind : {"read", "write"}, char : Chars]

\* Three more fields of a session are history.  stalled: an init write of it
\* was refused or went to another's connection.  intruded: a completion that
\* was not its init write's came while it was initializing.  told: its
\* gatt_connected has been sent, and gatt_subscribe has returned.
New(s) == [sid |-> s, state |-> "connecting", index |-> 0, subscribe |-> 0,
           freed |-> FALSE, stalled |-> FALSE, intruded |-> FALSE, told |-> FALSE]

\* More history.  dangling: the sessions that were used after they were freed
\* although they had been told.  late: those whose timers were made after they
\* were freed.  gaveUp: a wait for the mutex ran out on the session's behalf.
\* displaced: another attempt took the session's id or its place in the
\* client, or the session took over another's connection.
History == [dangling : SUBSET Objects, late : SUBSET Objects,
            gaveUp : SUBSET Sids, displaced : SUBSET Sids]

Idle == [sid |-> None, object |-> 0, what |-> None]

Init ==
    /\ ClientInit
    /\ sessions = [s \in Sids |-> 0]
    /\ objects = <<>>
    /\ timers = {}
    /\ suppressed = FALSE
    /\ resumed = TRUE
    /\ at = [t \in Threads |-> "idle"]
    /\ arg = [t \in Threads |-> Idle]
    /\ seen = [dangling |-> {}, late |-> {}, gaveUp |-> {}, displaced |-> {}]

Open == {s \in Sids : sessions[s] # 0}
Clients == {connections[c].sid : c \in Connected} \cup {pending[p] : p \in Pending}

-----------------------------------------------------------------------------
(* Threads.                                                                *)

Goes(t, from, to) ==
    /\ at[t] = from
    /\ at' = [at EXCEPT ![t] = to]
    /\ UNCHANGED arg

Begins(t, to, work) ==
    /\ at[t] = "idle"
    /\ at' = [at EXCEPT ![t] = to]
    /\ arg' = [arg EXCEPT ![t] = work]

\* The thread is done; the host task still has an entry to erase where "what"
\* names one.
Ends(t, from) ==
    /\ at[t] = from
    /\ IF t = "host" /\ arg[t].what # None
         THEN /\ at' = [at EXCEPT ![t] = "erase"]
              /\ arg' = [arg EXCEPT ![t].object = 0]
         ELSE /\ at' = [at EXCEPT ![t] = "idle"]
              /\ arg' = [arg EXCEPT ![t] = Idle]

\* xSemaphoreTake() runs out of patience: the function returns.
GivesUp(t, from) ==
    /\ Ends(t, from)
    /\ seen' = [seen EXCEPT !.gaveUp = @ \cup {arg[t].sid}]
    /\ Cardinality(seen'.gaveUp) <= MaxGiveUps
    /\ UNCHANGED <<clientVars, stackVars, sessionVars, scanVars>>

Displace(some) == seen' = [seen EXCEPT !.displaced = @ \cup (some \ {None})]

\* The thread is done with its session, which is set up once both are.
LetsGo(t, other) ==
    LET o == arg[t].object
    IN  objects' =
          IF \/ objects[o].freed
             \/ objects[o].state # "active"
             \/ arg[other].object = o
            THEN objects
            ELSE [objects EXCEPT ![o].told = TRUE]

\* The thread uses the session its pointer names.
Touch(t) ==
    LET o == arg[t].object
    IN  seen' = [seen EXCEPT !.dangling =
                    IF objects[o].freed /\ objects[o].told THEN @ \cup {o} ELSE @]

-----------------------------------------------------------------------------
(* gatt_cleanup_session(), on either thread.                               *)

\* The contents stay where the host task still has a pointer to them, and are
\* not read again otherwise.
Free(o) ==
    [objects EXCEPT ![o] = [IF arg["host"].object = o THEN @ ELSE New(@.sid)
                            EXCEPT !.freed = TRUE]]

\* Mutant: the timers of the session are left running.
CleanupKeepingTimers(t) ==
    /\ Goes(t, "cleanup", "empty")
    /\ LET o == sessions[arg[t].sid]
       IN  /\ objects' = IF o = 0 THEN objects ELSE Free(o)
           /\ sessions' = [sessions EXCEPT ![arg[t].sid] = 0]
    /\ UNCHANGED <<clientVars, stackVars, timers, scanVars, seen>>
\* Mutant: the session is freed and its entry stays.
CleanupKeepingEntry(t) ==
    /\ Goes(t, "cleanup", "empty")
    /\ LET o == sessions[arg[t].sid]
       IN  /\ timers' = {m \in timers : m.object # o}
           /\ objects' = IF o = 0 THEN objects ELSE Free(o)
    /\ UNCHANGED <<clientVars, stackVars, sessions, scanVars, seen>>
\* Under the mutex: the timers and their contexts go, then the session.
Cleanup(t) ==
    /\ Goes(t, "cleanup", "empty")
    /\ LET o == sessions[arg[t].sid]
       IN  /\ timers' = {m \in timers : m.object # o}
           /\ objects' = IF o = 0 THEN objects ELSE Free(o)
           /\ sessions' = [sessions EXCEPT ![arg[t].sid] = 0]
    /\ UNCHANGED <<clientVars, stackVars, scanVars, seen>>

CleanupGivesUp(t) == GivesUp(t, "cleanup")

\* gatt_sessions_.empty(), outside the mutex.
LastOne(t) ==
    /\ Open = {}
    /\ Goes(t, "empty", "lift")
    /\ UNCHANGED <<clientVars, stackVars, sessionVars, scanVars, seen>>

OthersRemain(t) ==
    /\ Open # {}
    /\ Ends(t, "empty")
    /\ UNCHANGED <<clientVars, stackVars, sessionVars, scanVars, seen>>

\* scan_suppressed_.store(false), here and in gatt_run_subscribes()
Lift(t) ==
    /\ Goes(t, "lift", "rescan")
    /\ suppressed' = FALSE
    /\ UNCHANGED <<clientVars, stackVars, sessionVars, resumed, seen>>

\* Mutant: the scan waits for the watchdog.
RescanNothing(t) ==
    /\ IF arg[t].object = 0 THEN Ends(t, "rescan") ELSE Goes(t, "rescan", "tell")
    /\ UNCHANGED <<clientVars, stackVars, sessionVars, scanVars, seen>>
\* The resumption: is_scanning() is asked and, unless it says yes, start_scan()
\* called, which starts nothing before its events come; a session that became
\* active has its gatt_connected yet to send.
Rescan(t) ==
    /\ IF arg[t].object = 0 THEN Ends(t, "rescan") ELSE Goes(t, "rescan", "tell")
    /\ resumed' = TRUE
    /\ UNCHANGED <<clientVars, stackVars, sessionVars, suppressed, seen>>

CleansUp(t) == Cleanup(t) \/ LastOne(t) \/ OthersRemain(t) \/ Lift(t) \/ Rescan(t)

-----------------------------------------------------------------------------
(* Commands of the server.                                                 *)

\* gatt_subscribe, up to where the mutex is given back.  Where there is no
\* slot the server is told so, and nothing changes.  A session that holds the
\* id is replaced: its object is freed, its timers are not deleted.
Subscribe(s) ==
    LET o == Len(objects) + 1
        old == sessions[s]
    IN  /\ Cardinality(Open) < MaxConnections
        /\ o <= MaxSubscribes
        /\ Begins("ws", "suppress", [sid |-> s, object |-> o, what |-> None])
        /\ objects' = Append(IF old = 0 THEN objects ELSE Free(old), New(s))
        /\ sessions' = [sessions EXCEPT ![s] = o]
        /\ Displace({s} \cap (Open \cup Clients \cup {arg["host"].sid}))
        /\ UNCHANGED <<clientVars, stackVars, timers, scanVars>>

\* scan_suppressed_.store(true)
Suppress ==
    /\ Goes("ws", "suppress", "stop_scan")
    /\ suppressed' = TRUE
    /\ UNCHANGED <<clientVars, stackVars, sessionVars, resumed, seen>>

\* stop_scan(), which clears no flag before its event comes.
StopScan ==
    /\ Goes("ws", "stop_scan", "connect")
    /\ resumed' = FALSE
    /\ UNCHANGED <<clientVars, stackVars, sessionVars, suppressed, seen>>

ConnectBegins ==
    /\ Goes("ws", "connect", "handle")
    /\ Connects(arg["ws"].sid, Plan[arg["ws"].sid].peer)
    /\ Displace({pending[Plan[arg["ws"].sid].peer]})
    /\ UNCHANGED <<sessionVars, scanVars>>

\* gatt_connect() returns -1; the server is told, the session is cleaned up.
ConnectRefused ==
    LET p == Plan[arg["ws"].sid].peer
    IN  /\ at["ws"] = "connect"
        /\ at' = [at EXCEPT !["ws"] = "cleanup"]
        /\ arg' = [arg EXCEPT !["ws"].object = 0]
        /\ ConnectFails(p)
        /\ Displace(IF pending' = pending THEN {} ELSE {pending[p]})
        /\ UNCHANGED <<sessionVars, scanVars>>

\* raw_session->conn_handle = handle, which nothing reads: see Asks.
StoreHandle ==
    /\ Ends("ws", "handle")
    /\ LetsGo("ws", "host")
    /\ Touch("ws")
    /\ UNCHANGED <<clientVars, stackVars, sessions, timers, scanVars>>

\* gatt_write: the session must exist, in whatever state.  The client ignores
\* the handle that is read under the mutex, so the write is the same step.
Write(s, ch) ==
    /\ s \in Open
    /\ at["ws"] = "idle"
    /\ Asks(ch, "write")
    /\ UNCHANGED <<sessionVars, scanVars, at, arg, seen>>

\* gatt_close, up to where the mutex is given back.
Close(s) ==
    /\ s \in Open
    /\ Begins("ws", "disconnect", [sid |-> s, object |-> 0, what |-> None])
    /\ objects' = [objects EXCEPT ![sessions[s]].state = "disconnecting"]
    /\ UNCHANGED <<clientVars, stackVars, sessions, timers, scanVars, seen>>

CloseDisconnects ==
    /\ Goes("ws", "disconnect", "cleanup")
    /\ Disconnects
    /\ UNCHANGED <<sessionVars, scanVars, seen>>

Commands ==
    \/ \E s \in Sids : Subscribe(s) \/ Close(s)
    \/ \E s \in Sids, ch \in Chars : Write(s, ch)

WebSocket ==
    \/ Suppress \/ StopScan \/ ConnectBegins \/ ConnectRefused \/ StoreHandle
    \/ CloseDisconnects
    \/ CleansUp("ws")

-----------------------------------------------------------------------------
(* Events of the stack and the callbacks they run on the host task.        *)

\* The callback of a session runs, and then an entry is erased.
Calls(callback, s, what) ==
    Begins("host", callback, [sid |-> s, object |-> 0, what |-> what])

HostIdle == at["host"] = "idle"

OpenSucceeds(p) ==
    \E c \in LinkIds(p) :
        /\ HostIdle
        /\ OpenOk(p, c)
        /\ Displace(IF connections[c] # None /\ connections'[c] # connections[c]
                      THEN {connections[c].sid, pending[p]} ELSE {})
        /\ UNCHANGED <<sessionVars, scanVars, at, arg>>

\* Mutant: the entry is erased, and its session is not told.
OpenFailsUnreported(p) ==
    /\ OpenFailed(p)
    /\ HostIdle
    /\ IF pending[p] = None THEN UNCHANGED <<at, arg>>
                            ELSE Calls("erase", pending[p], p)
    /\ UNCHANGED <<sessionVars, scanVars, seen>>
\* on_error() sends gatt_error and cleans up.
OpenFails(p) ==
    /\ OpenFailed(p)
    /\ HostIdle
    /\ IF pending[p] = None THEN UNCHANGED <<at, arg>>
                            ELSE Calls("cleanup", pending[p], p)
    /\ UNCHANGED <<sessionVars, scanVars, seen>>

Mtu(c) ==
    /\ HostIdle
    /\ MtuEvent(c)
    /\ UNCHANGED <<sessionVars, scanVars, at, arg, seen>>

SearchDone(c) ==
    \E found \in BOOLEAN :
        /\ SearchComplete(c, found)
        /\ Calls(IF found THEN "connected" ELSE "cleanup", connections[c].sid, None)
        /\ UNCHANGED <<sessionVars, scanVars, seen>>

\* on_read() only sends gatt_data.
Answered(c) ==
    /\ Answers(c)
    /\ LET request == Head(links[c].owed)
           s == connections[c].sid
           o == sessions[s]
       IN  /\ IF request = "read" THEN HostIdle /\ UNCHANGED <<at, arg>>
                                  ELSE Calls("written", s, None)
           /\ objects' = IF /\ request = "write"
                            /\ o # 0
                            /\ objects[o].state = "initializing"
                            THEN [objects EXCEPT ![o].intruded = TRUE] ELSE objects
    /\ UNCHANGED <<sessions, timers, scanVars, seen>>

\* Mutant: the entry is erased, and its session is not told.
LinkLostUnreported(c) ==
    /\ LinkDown(c)
    /\ IF connections[c] = None THEN HostIdle /\ UNCHANGED <<at, arg>>
                                ELSE Calls("erase", connections[c].sid, c)
    /\ UNCHANGED <<sessionVars, scanVars, seen>>
\* on_disconnected() sends gatt_disconnected and cleans up.
LinkLost(c) ==
    /\ LinkDown(c)
    /\ IF connections[c] = None THEN HostIdle /\ UNCHANGED <<at, arg>>
                                ELSE Calls("cleanup", connections[c].sid, c)
    /\ UNCHANGED <<sessionVars, scanVars, seen>>

\* The entry is erased when its callback has returned, whatever it holds now.
EraseEntry ==
    LET what == arg["host"].what
    IN  /\ at["host"] = "erase"
        /\ at' = [at EXCEPT !["host"] = "idle"]
        /\ arg' = [arg EXCEPT !["host"] = Idle]
        /\ IF what \in ConnIds
             THEN Erase(what) /\ UNCHANGED seen
             ELSE Unpend(what) /\ Displace({pending[what]} \ {arg["host"].sid})
        /\ UNCHANGED <<sessionVars, scanVars>>

-----------------------------------------------------------------------------
(* The session's progress, in on_connected() and on_write_complete().      *)

\* The callback goes on with the object it found, if it found one.
Continues(callback, found) ==
    IF found
      THEN /\ at' = [at EXCEPT !["host"] = "init"]
           /\ arg' = [arg EXCEPT !["host"].object = sessions[arg["host"].sid]]
      ELSE Ends("host", callback)

OnConnected ==
    /\ at["host"] = "connected"
    /\ LET o == sessions[arg["host"].sid]
       IN  /\ Continues("connected", o # 0)
           /\ objects' = IF o # 0 THEN [objects EXCEPT ![o].state = "initializing"]
                                 ELSE objects
    /\ UNCHANGED <<clientVars, stackVars, sessions, timers, scanVars, seen>>

\* Mutant: a completion is taken for one of the init sequence in any state.
InInitAlways(o) == o # 0
InInit(o) == o # 0 /\ objects[o].state = "initializing"

\* Mutant: the write is counted, and the next one is not made.
OnWriteCompleteStopping ==
    /\ Ends("host", "written")
    /\ LET o == sessions[arg["host"].sid]
       IN  objects' = IF InInit(o) THEN [objects EXCEPT ![o].index = @ + 1]
                                   ELSE objects
    /\ UNCHANGED <<clientVars, stackVars, sessions, timers, scanVars, seen>>
\* Whichever write has completed.
OnWriteComplete ==
    /\ at["host"] = "written"
    /\ LET o == sessions[arg["host"].sid]
       IN  /\ Continues("written", InInit(o))
           /\ objects' = IF InInit(o) THEN [objects EXCEPT ![o].index = @ + 1]
                                   ELSE objects
    /\ UNCHANGED <<clientVars, stackVars, sessions, timers, scanVars, seen>>

\* The object and the plan that gatt_run_init_writes() and
\* gatt_run_subscribes() work on, on a pointer.
Mine == objects[arg["host"].object]
MyPlan == Plan[Mine.sid]

\* The write is taken, by the session's own connection.
Reaches(ch) == Takes(ch) /\ connections[Min(Carriers(ch))].sid = Mine.sid

\* Mutant: the next write is made without waiting for this one.
NextInitWriteAtOnce ==
    LET ch == MyPlan.init[Mine.index + 1]
    IN  /\ Mine.index < Len(MyPlan.init)
        /\ Goes("host", "init", "init")
        /\ Asks(ch, IF Reaches(ch) THEN "init" ELSE "write")
        /\ objects' = [objects EXCEPT ![arg["host"].object].index = @ + 1]
        /\ Touch("host")
        /\ UNCHANGED <<sessions, timers, scanVars>>
\* gatt_run_init_writes(): the next one, to be continued by its completion.
NextInitWrite ==
    LET ch == MyPlan.init[Mine.index + 1]
    IN  /\ Mine.index < Len(MyPlan.init)
        /\ Ends("host", "init")
        /\ Asks(ch, IF Reaches(ch) THEN "init" ELSE "write")
        /\ objects' = IF Reaches(ch) THEN objects
                      ELSE [objects EXCEPT ![arg["host"].object].stalled = TRUE]
        /\ Touch("host")
        /\ UNCHANGED <<sessions, timers, scanVars>>

InitWritesDone ==
    /\ Mine.index >= Len(MyPlan.init)
    /\ Goes("host", "init", "subscribe")
    /\ objects' = [objects EXCEPT ![arg["host"].object] =
           [@ EXCEPT !.state = "subscribing", !.subscribe = 0, !.stalled = FALSE]]
    /\ Touch("host")
    /\ UNCHANGED <<clientVars, stackVars, sessions, timers, scanVars>>

\* gatt_run_subscribes(): one after the other, without waiting.
NextSubscribe ==
    /\ Mine.subscribe < Len(MyPlan.notify)
    /\ Goes("host", "subscribe", "subscribe")
    /\ Subscribes(MyPlan.notify[Mine.subscribe + 1])
    /\ objects' = [objects EXCEPT ![arg["host"].object].subscribe = @ + 1]
    /\ Touch("host")
    /\ UNCHANGED <<sessions, timers, scanVars>>

\* kActive and gatt_start_timers(): a descriptor with too short an interval
\* is ignored, and a timer may not be had.
Activate ==
    /\ Mine.subscribe >= Len(MyPlan.notify)
    /\ Goes("host", "subscribe", "lift")
    /\ objects' = [objects EXCEPT ![arg["host"].object].state = "active"]
    /\ \E made \in SUBSET {d \in MyPlan.timers : d.interval >= MinInterval} :
          timers' = timers \cup
              {[object |-> arg["host"].object, kind |-> d.kind, char |-> d.char] :
                 d \in made}
    /\ seen' = IF ~Mine.freed THEN seen
               ELSE [seen EXCEPT
                       !.late = @ \cup {arg["host"].object},
                       !.dangling = IF Mine.told THEN @ \cup {arg["host"].object} ELSE @]
    /\ UNCHANGED <<clientVars, stackVars, sessions, scanVars>>

\* gatt_connected is sent.
Tell ==
    /\ Ends("host", "tell")
    /\ LetsGo("host", "ws")
    /\ Touch("host")
    /\ UNCHANGED <<clientVars, stackVars, sessions, timers, scanVars>>

CallbackGivesUp == GivesUp("host", "connected") \/ GivesUp("host", "written")

Callback ==
    \/ OnConnected \/ OnWriteComplete
    \/ at["host"] = "init" /\ (NextInitWrite \/ InitWritesDone)
    \/ at["host"] = "subscribe" /\ (NextSubscribe \/ Activate)
    \/ Tell \/ EraseEntry
    \/ CleansUp("host")

-----------------------------------------------------------------------------
(* poll_timer_cb() and periodic_write_timer_cb().                          *)

\* The session is looked up and must be active; as in Write, the call is made
\* in the same step.
TimerFires(m) ==
    LET s == objects[m.object].sid
    IN  /\ s \in Open
        /\ objects[sessions[s]].state = "active"
        /\ Asks(m.char, m.kind)
        /\ UNCHANGED <<sessionVars, scanVars, at, arg, seen>>

-----------------------------------------------------------------------------
Opens(p) == OpenSucceeds(p) \/ OpenFails(p)
LinkProgress(c) == Mtu(c) \/ SearchDone(c) \/ Answered(c)
Closes(c) == links[c] # None /\ links[c].closing /\ LinkLost(c)

Next ==
    \/ Commands
    \/ WebSocket
    \/ CleanupGivesUp("ws")
    \/ \E p \in Peers : Opens(p)
    \/ \E c \in ConnIds : LinkProgress(c) \/ LinkLost(c)
    \/ Callback
    \/ CleanupGivesUp("host")
    \/ CallbackGivesUp
    \/ \E m \in timers : TimerFires(m)

Spec == Init /\ [][Next]_vars

\* Threads run, and the stack answers every open, link and request in the
\* end, however busy its task is with others.  No peripheral has to be found,
\* nothing makes the server command or a link drop.
FairSpec ==
    /\ Spec
    /\ WF_vars(WebSocket)
    /\ WF_vars(Callback)
    /\ \A p \in Peers : SF_vars(Opens(p))
    /\ \A c \in ConnIds : SF_vars(LinkProgress(c)) /\ SF_vars(Closes(c))

-----------------------------------------------------------------------------
(* Properties.                                                             *)

\* Every variable has its type, and what the maps hold is not freed.
TypeOK ==
    /\ ClientTypeOK
    /\ objects \in Seq(Session) /\ Len(objects) <= MaxSubscribes
    /\ sessions \in [Sids -> 0..Len(objects)]
    /\ \A s \in Open : objects[sessions[s]].sid = s /\ ~objects[sessions[s]].freed
    /\ timers \subseteq Timer
    /\ suppressed \in BOOLEAN /\ resumed \in BOOLEAN
    /\ DOMAIN at = Threads /\ DOMAIN arg = Threads
    /\ seen \in History

Undisturbed(s) == s \notin seen.gaveUp \cup seen.displaced
StateOf(s) == objects[sessions[s]].state
HostWorksFor(s) == at["host"] # "idle" /\ arg["host"].sid = s

\* A session that got past kConnecting has a connection for as long as it
\* is in gatt_sessions_: the two maps, kept by two objects on two threads,
\* agree, whichever connection a close hits and however links drop.
SessionHasConnection ==
    \A s \in Open :
        /\ Undisturbed(s)
        /\ StateOf(s) \in {"initializing", "subscribing", "active"}
        => \E c \in Connected : connections[c].sid = s

\* A session in kConnecting is never forgotten: the WebSocket's task is about
\* to connect it or to give it up, the stack owes the answer to its open, its
\* service is being discovered, or the host task is at work for it.  The only
\* way to be left is that the stack refuses an MTU or search request.
ConnectingIsAwaited ==
    \A s \in Open :
        Undisturbed(s) /\ StateOf(s) = "connecting" =>
            \/ at["ws"] \in {"suppress", "stop_scan", "connect", "cleanup"}
               /\ arg["ws"].sid = s
            \/ \E p \in Peers : pending[p] = s /\ opening[p] > 0
            \/ \E c \in Connected : /\ connections[c].sid = s
                                    /\ links[c] # None
                                    /\ links[c].phase \in {"mtu", "search", "left"}
            \/ HostWorksFor(s)

\* A session in kInitializing whose init writes were taken is waiting for a
\* completion that is on its way to it, and to no other session.
InitIsAwaited ==
    \A s \in Open :
        /\ Undisturbed(s)
        /\ StateOf(s) = "initializing"
        /\ ~objects[sessions[s]].stalled
        => \/ HostWorksFor(s)
           \/ \E c \in Connected :
                 /\ connections[c].sid = s
                 /\ links[c] # None
                 /\ \E i \in DOMAIN links[c].owed : links[c].owed[i] # "read"

\* Init writes are made one at a time: a second is asked for only when the
\* first is answered, unless some other write's completion came between.
InitIsSequential ==
    \A s \in Open : \A c \in Connected :
        /\ Undisturbed(s)
        /\ connections[c].sid = s
        /\ ~objects[sessions[s]].intruded
        /\ links[c] # None
        => Cardinality({i \in DOMAIN links[c].owed : links[c].owed[i] = "init"}) <= 1

Quiet(t) == at[t] = "idle"

\* When the last session is gone and both threads have finished with it, the
\* watchdog is no longer held off, and the sessions' last word was to resume
\* the scan and not to stop it, whichever thread ended the session and whatever
\* the other did meanwhile.
ScanIsResumed ==
    Open = {} /\ Quiet("ws") /\ Quiet("host") /\ seen.displaced = {} =>
        ~suppressed /\ resumed

\* A session that has been set up, on both threads, is never used once it is
\* freed, however its close, its callbacks and a link that drops interleave.
NeverDangling == \A o \in seen.dangling : ~Undisturbed(objects[o].sid)

\* No timer outlives its session, unless it was made for a session that had
\* been freed while its set-up was under way.
TimersFollowSession ==
    \A m \in timers :
        /\ objects[m.object].freed
        /\ Undisturbed(objects[m.object].sid)
        => m.object \in seen.late

\* No command of the server is left hanging: a session that is being set up
\* becomes active or ends, unless one of its init writes was refused, or the
\* client goes on without an MTU or search request that was.
Settling(o) ==
    /\ o \in DOMAIN objects
    /\ ~objects[o].freed
    /\ objects[o].state \in {"connecting", "initializing", "subscribing"}
Excused(o) ==
    \/ objects[o].stalled
    \/ ~Undisturbed(objects[o].sid)
    \/ \E c \in Connected : connections[c].sid = objects[o].sid /\ IsLeft(c)
SessionSettles ==
    \A o \in Objects : Settling(o) ~> (~Settling(o) \/ Excused(o))

\* The WebSocket's task is ending the session, at the server's command or
\* because it could not be connected.
Ending(s) == at["ws"] \in {"disconnect", "cleanup"} /\ arg["ws"].sid = s

\* Where a session is in its life; one that is disturbed is excused.
PhaseOf(s) == IF ~Undisturbed(s) THEN "excused"
              ELSE IF s \notin Open THEN "none"
              ELSE IF Ending(s) THEN "ending"
              ELSE StateOf(s)

Life == INSTANCE SessionLife WITH life <- [s \in Sids |-> PhaseOf(s)]

\* The three threads, the client under them and the stack implement the life
\* of a session: its set-up goes forward and is made once, whichever write
\* completes and however often the service is found, a session that is being
\* ended is not revived, and no step moves two.
ImplementsLife == Life!LifeSpec

\* gatt_close of a session disconnects that session's connection and no
\* other (what gatt_disconnect(int conn_handle) is documented to do).
ClosesItsOwn ==
    [][CloseDisconnects =>
         \A c \in Connected : links'[c] # links[c] =>
             connections[c].sid = arg["ws"].sid]_vars
=============================================================================
