-------------------------- MODULE GatewayLifecycle --------------------------
(***************************************************************************)
(* start() and stop() of BLESignalKGateway, and what they start and stop:  *)
(* the POST task, the observers attached to the provisioner and to the     *)
(* Signal K client, and the control WebSocket.                             *)
(*                                                                         *)
(* Four threads take part.  The application calls start() and stop(); the  *)
(* Signal K client runs the attached observers when its connection comes   *)
(* or goes; each start() creates a POST task, which looks at               *)
(* post_task_should_run_ between its turns; and the WebSocket client's own *)
(* task connects and loses its connection.  The first two both create the  *)
(* control channel, under control_ws_mutex_.                               *)
(*                                                                         *)
(* enable_control_ws is set.  What the tasks do with the scan is in        *)
(* ScanWatchdog, with the advertisements in AdvertisementBuffer, and with  *)
(* the HTTP handle in PostChannel.  A definition marked "Mutant" is a      *)
(* planted fault that no action uses.                                      *)
(***************************************************************************)
EXTENDS Naturals, FiniteSets

CONSTANTS
    MaxStarts,  \* bound: how often start() is called
    Clients,    \* WebSocket clients; one that is destroyed may be made again
    None        \* control_ws_ when it is nullptr

ASSUME LifecycleAssumption ==
    /\ MaxStarts \in Nat
    /\ None \notin Clients

VARIABLES
    started,        \* started_
    appPc,          \* where the application is in start() or stop()
    seen,           \* the state of the connection as start() has read it
    crossed,        \* the last change of it fell between such a reading and its store
    shouldRun,      \* post_task_should_run_
    exited,         \* post_task_exited_
    starts,         \* how many calls of start() have got to the POST task
    taskPc,         \* where the POST task of each start() is
    handle,         \* the client a task's send_status() is about to use
    gaveUp,         \* stop() has once run into a time limit
    skUp,           \* whether the Signal K client is connected
    skConnected,    \* sk_connected_
    observers,      \* how many observers of the connection are attached
    skPc,           \* where the Signal K client is among them
    left,           \* how many it still has to run
    mutex,          \* who holds control_ws_mutex_: "free", "app" or "sk"
    control,        \* control_ws_: None or a client
    live,           \* the clients made and not destroyed
    wsRuns,         \* whether the client control_ws_ has been started
    wsConnected     \* ws_connected_

appVars == <<started, appPc, gaveUp, seen>>
taskVars == <<shouldRun, exited, starts, taskPc, handle>>
skVars == <<skUp, skConnected, observers, skPc, left, crossed>>
wsVars == <<mutex, control, live, wsRuns, wsConnected>>
vars == <<appVars, taskVars, skVars, wsVars>>

Tasks == 1..MaxStarts
AppPcs == {"idle", "seed", "spawn", "hook", "reseed", "store", "init", "build", "launch",
           "wait", "destroy", "teardown"}
SkPcs == {"idle", "observe", "init", "build", "launch"}
TaskPcs == {"none", "turn", "post", "status", "send", "leave", "gone"}

Running(t) == taskPc[t] \notin {"none", "gone"}

-----------------------------------------------------------------------------
\* The gateway as constructed.
Init ==
    /\ started = FALSE
    /\ appPc = "idle"
    /\ gaveUp = FALSE
    /\ seen = FALSE
    /\ crossed = FALSE
    /\ shouldRun = FALSE
    /\ exited = TRUE
    /\ starts = 0
    /\ taskPc = [t \in Tasks |-> "none"]
    /\ handle = [t \in Tasks |-> None]
    /\ skUp \in BOOLEAN
    /\ skConnected = FALSE
    /\ observers = 0
    /\ skPc = "idle"
    /\ left = 0
    /\ mutex = "free"
    /\ control = None
    /\ live = {}
    /\ wsRuns = FALSE
    /\ wsConnected = FALSE

-----------------------------------------------------------------------------
(* start().                                                                *)

App(from, to) == appPc = from /\ appPc' = to

\* The application reads the state of the connection, to store it next.
ReadsConnection ==
    /\ seen' = skUp
    /\ crossed' = FALSE
    /\ UNCHANGED <<skUp, skConnected, observers, skPc, left>>

StoresConnection ==
    /\ skConnected' = seen
    /\ seen' = FALSE
    /\ UNCHANGED <<skUp, crossed, observers, skPc, left>>

\* started_ is set and the provisioner's observer attached.
StartCall ==
    /\ ~started
    /\ starts < MaxStarts
    /\ App("idle", "seed")
    /\ started' = TRUE
    /\ ReadsConnection
    /\ UNCHANGED <<gaveUp, taskVars, wsVars>>

Seed ==
    /\ App("seed", "spawn")
    /\ StoresConnection
    /\ UNCHANGED <<started, gaveUp, taskVars, wsVars>>

Spawn ==
    /\ App("spawn", "hook")
    /\ shouldRun' = TRUE
    /\ exited' = FALSE
    /\ starts' = starts + 1
    /\ taskPc' = [taskPc EXCEPT ![starts'] = "turn"]
    /\ UNCHANGED <<started, gaveUp, seen, handle, skVars, wsVars>>

\* xTaskCreate() fails: the scan is started without a task.
SpawnFails ==
    /\ App("spawn", "idle")
    /\ shouldRun' = FALSE
    /\ exited' = TRUE
    /\ starts' = starts + 1
    /\ UNCHANGED <<started, gaveUp, seen, taskPc, handle, skVars, wsVars>>

Hook ==
    /\ App("hook", "reseed")
    /\ observers' = observers + 1
    /\ UNCHANGED <<started, gaveUp, seen, taskVars, skUp, skConnected, skPc, left,
                   crossed, wsVars>>

\* The state of the connection is read once more, now that nothing is missed.
Reseed ==
    /\ App("reseed", "store")
    /\ ReadsConnection
    /\ UNCHANGED <<started, gaveUp, taskVars, wsVars>>

\* Mutant: the second reading is not kept.
StoreNothing ==
    /\ App("store", IF seen THEN "init" ELSE "idle")
    /\ seen' = FALSE
    /\ UNCHANGED <<started, gaveUp, taskVars, skVars, wsVars>>
Store ==
    /\ App("store", IF seen THEN "init" ELSE "idle")
    /\ StoresConnection
    /\ UNCHANGED <<started, gaveUp, taskVars, wsVars>>

-----------------------------------------------------------------------------
(* init_control_ws(), called by "app" (start) and by "sk" (the observer).  *)

\* The caller goes on: who else moves is not this caller.
Caller(who, from, to) ==
    \/ /\ who = "app"
       /\ App(from, IF to = "done" THEN "idle" ELSE to)
       /\ UNCHANGED <<started, gaveUp, seen, skVars>>
    \/ /\ who = "sk"
       /\ skPc = from
       /\ IF to = "done"
            THEN left' = left - 1 /\ skPc' = IF left = 1 THEN "idle" ELSE "observe"
            ELSE UNCHANGED left /\ skPc' = to
       /\ UNCHANGED <<appVars, skUp, skConnected, observers, crossed>>

\* Mutant: the absence of a client is tested without the mutex.
InitTestsUnlocked(who) ==
    /\ control = None
    /\ mutex' = who
    /\ Caller(who, "init", "build")
    /\ UNCHANGED <<taskVars, control, live, wsRuns, wsConnected>>
\* The mutex is taken and there is no client yet.
InitTake(who) ==
    /\ mutex = "free"
    /\ control = None
    /\ mutex' = who
    /\ Caller(who, "init", "build")
    /\ UNCHANGED <<taskVars, control, live, wsRuns, wsConnected>>

\* The mutex is taken and given back: there is one.
InitPresent(who) ==
    /\ mutex = "free"
    /\ control # None
    /\ Caller(who, "init", "done")
    /\ UNCHANGED <<taskVars, wsVars>>

\* The other thread kept the mutex for 100 ms.
InitTimesOut(who) ==
    /\ mutex # "free"
    /\ Caller(who, "init", "done")
    /\ UNCHANGED <<taskVars, wsVars>>

Build(who) ==
    /\ \E client \in Clients \ live :
          /\ control' = client
          /\ live' = live \cup {client}
    /\ Caller(who, "build", "launch")
    /\ UNCHANGED <<taskVars, mutex, wsRuns, wsConnected>>

\* No address, nothing to verify the server with, or no memory for a client.
BuildNothing(who) ==
    /\ mutex' = "free"
    /\ Caller(who, "build", "done")
    /\ UNCHANGED <<taskVars, control, live, wsRuns, wsConnected>>

Launch(who) ==
    /\ wsRuns' = TRUE
    /\ mutex' = "free"
    /\ Caller(who, "launch", "done")
    /\ UNCHANGED <<taskVars, control, live, wsConnected>>

\* Mutant: a client that could not be started is kept.
LaunchFailsKeepingClient(who) ==
    /\ mutex' = "free"
    /\ Caller(who, "launch", "done")
    /\ UNCHANGED <<taskVars, control, live, wsRuns, wsConnected>>
\* esp_websocket_client_start() fails.
LaunchFails(who) ==
    /\ live' = live \ {control}
    /\ control' = None
    /\ mutex' = "free"
    /\ Caller(who, "launch", "done")
    /\ UNCHANGED <<taskVars, wsRuns, wsConnected>>

InitControlWs(who) ==
    \/ InitTake(who)
    \/ InitPresent(who)
    \/ InitTimesOut(who)
    \/ Build(who)
    \/ BuildNothing(who)
    \/ Launch(who)
    \/ LaunchFails(who)

-----------------------------------------------------------------------------
(* stop().                                                                 *)

StopCall ==
    /\ started
    /\ App("idle", "wait")
    /\ started' = FALSE
    /\ shouldRun' = FALSE
    /\ UNCHANGED <<gaveUp, seen, exited, starts, taskPc, handle, skVars, wsVars>>

\* Mutant: stop() does not wait for the task.
StopWaitsForNothing ==
    /\ App("wait", "destroy")
    /\ UNCHANGED <<started, gaveUp, seen, taskVars, skVars, wsVars>>
StopWaited ==
    /\ exited
    /\ App("wait", "destroy")
    /\ UNCHANGED <<started, gaveUp, seen, taskVars, skVars, wsVars>>

\* The task did not exit within ten seconds.
StopGivesUp ==
    /\ ~exited
    /\ App("wait", "destroy")
    /\ gaveUp' = TRUE
    /\ UNCHANGED <<started, seen, taskVars, skVars, wsVars>>

DestroyTake ==
    /\ mutex = "free"
    /\ mutex' = "app"
    /\ App("destroy", "teardown")
    /\ UNCHANGED <<started, gaveUp, seen, taskVars, skVars, control, live,
                   wsRuns, wsConnected>>

\* An observer kept the mutex for 200 ms: the client stays.
DestroyTimesOut ==
    /\ mutex # "free"
    /\ App("destroy", "idle")
    /\ gaveUp' = TRUE
    /\ UNCHANGED <<started, seen, taskVars, skVars, wsVars>>

\* The client's task is stopped, the client destroyed, the flag cleared.
Teardown ==
    /\ App("teardown", "idle")
    /\ live' = live \ {control}
    /\ control' = None
    /\ wsRuns' = FALSE
    /\ wsConnected' = FALSE
    /\ mutex' = "free"
    /\ UNCHANGED <<started, gaveUp, seen, taskVars, skVars>>

-----------------------------------------------------------------------------
(* The Signal K client and the observers it runs.                          *)

\* The connection comes or goes: every observer is run.
SkChanges ==
    /\ skPc = "idle"
    /\ skUp' = ~skUp
    /\ left' = observers
    /\ skPc' = IF observers = 0 THEN "idle" ELSE "observe"
    /\ crossed' = (appPc \in {"seed", "store"})
    /\ UNCHANGED <<appVars, taskVars, skConnected, observers, wsVars>>

\* Mutant: one observer more than are attached.
ObserveOneTooMany ==
    /\ skPc = "observe"
    /\ skConnected' = skUp
    /\ IF skUp /\ control = None
         THEN skPc' = "init" /\ UNCHANGED left
         ELSE left' = left - 1 /\ skPc' = IF left = 0 THEN "idle" ELSE "observe"
    /\ UNCHANGED <<appVars, taskVars, skUp, observers, crossed, wsVars>>
\* One observer: it makes sure of the channel when the connection has come,
\* and leaves it alone when it has gone.
Observe ==
    /\ skPc = "observe"
    /\ skConnected' = skUp
    /\ IF skUp /\ control = None
         THEN skPc' = "init" /\ UNCHANGED left
         ELSE left' = left - 1 /\ skPc' = IF left = 1 THEN "idle" ELSE "observe"
    /\ UNCHANGED <<appVars, taskVars, skUp, observers, crossed, wsVars>>

-----------------------------------------------------------------------------
(* The POST tasks: turns of the priming loop or of the main one.           *)

Moves(t, from, to) ==
    /\ taskPc[t] = from
    /\ taskPc' = [taskPc EXCEPT ![t] = to]
    /\ UNCHANGED <<appVars, starts, skVars, wsVars>>

\* Mutant: the exit is published before the last of the work.
TurnPublishesExit(t) ==
    /\ Moves(t, "turn", IF shouldRun THEN "post" ELSE "leave")
    /\ exited' = (exited \/ ~shouldRun)
    /\ UNCHANGED <<shouldRun, handle>>
Turn(t) ==
    /\ Moves(t, "turn", IF shouldRun THEN "post" ELSE "leave")
    /\ UNCHANGED <<shouldRun, exited, handle>>

Post(t) ==
    /\ Moves(t, "post", "status")
    /\ UNCHANGED <<shouldRun, exited, handle>>

\* send_status(): when it is due and there is a connected client.
StatusDue(t) ==
    /\ wsConnected
    /\ control # None
    /\ Moves(t, "status", "send")
    /\ handle' = [handle EXCEPT ![t] = control]
    /\ UNCHANGED <<shouldRun, exited>>

NoStatus(t) ==
    /\ Moves(t, "status", "turn")
    /\ UNCHANGED <<shouldRun, exited, handle>>

StatusSent(t) ==
    /\ Moves(t, "send", "turn")
    /\ handle' = [handle EXCEPT ![t] = None]
    /\ UNCHANGED <<shouldRun, exited>>

\* destroy_post_client(), then the exit is published.
Exit(t) ==
    /\ Moves(t, "leave", "gone")
    /\ exited' = TRUE
    /\ UNCHANGED <<shouldRun, handle>>

TaskStep(t) ==
    \/ Turn(t)
    \/ Post(t)
    \/ StatusDue(t)
    \/ NoStatus(t)
    \/ StatusSent(t)
    \/ Exit(t)

-----------------------------------------------------------------------------
\* The WebSocket client's task: connected, or disconnected, closed, in error.
WsEvent ==
    /\ wsRuns
    /\ wsConnected' = ~wsConnected
    /\ UNCHANGED <<appVars, taskVars, skVars, mutex, control, live, wsRuns>>

AppStep ==
    \/ Seed
    \/ Spawn
    \/ SpawnFails
    \/ Hook
    \/ Reseed
    \/ Store
    \/ InitControlWs("app")
    \/ StopWaited
    \/ StopGivesUp
    \/ DestroyTake
    \/ DestroyTimesOut
    \/ Teardown

ObserverStep == Observe \/ InitControlWs("sk")

Next ==
    \/ StartCall
    \/ StopCall
    \/ AppStep
    \/ SkChanges
    \/ ObserverStep
    \/ \E t \in Tasks : TaskStep(t)
    \/ WsEvent

Spec == Init /\ [][Next]_vars

\* The threads are scheduled, a call of start() or stop() once begun goes on,
\* and a client that can be made is made and started now and then.
FairSpec ==
    /\ Spec
    /\ WF_vars(AppStep)
    /\ WF_vars(ObserverStep)
    /\ \A t \in Tasks : WF_vars(TaskStep(t))
    /\ SF_vars(Build("sk"))
    /\ SF_vars(Launch("sk"))

-----------------------------------------------------------------------------
(* Properties.                                                             *)

\* Every variable has its type.
TypeOK ==
    /\ started \in BOOLEAN
    /\ appPc \in AppPcs
    /\ gaveUp \in BOOLEAN
    /\ seen \in BOOLEAN
    /\ crossed \in BOOLEAN
    /\ shouldRun \in BOOLEAN
    /\ exited \in BOOLEAN
    /\ starts \in 0..MaxStarts
    /\ taskPc \in [Tasks -> TaskPcs]
    /\ handle \in [Tasks -> Clients \cup {None}]
    /\ skUp \in BOOLEAN
    /\ skConnected \in BOOLEAN
    /\ observers \in 0..MaxStarts
    /\ skPc \in SkPcs
    /\ left \in 0..MaxStarts
    /\ mutex \in {"free", "app", "sk"}
    /\ control \in Clients \cup {None}
    /\ live \subseteq Clients
    /\ wsRuns \in BOOLEAN
    /\ wsConnected \in BOOLEAN

\* However start(), stop() and the observers race, there is at most one
\* control client, and it is the one control_ws_ names: none is leaked.
OneClient == live = {control} \ {None}

\* However often the gateway is stopped and started, two POST tasks never run
\* against the one HTTP handle, unless stop() gave up waiting for one.
OnePostTask ==
    gaveUp \/ \A s, t \in Tasks : Running(s) /\ Running(t) => s = t

\* A POST task never sends its status over a client that has been destroyed,
\* and none runs once stop() has returned, unless stop() gave up.
TaskEndsBeforeStop ==
    gaveUp \/ /\ \A t \in Tasks : taskPc[t] = "send" => handle[t] \in live
              /\ ~started /\ appPc = "idle" => \A t \in Tasks : ~Running(t)

\* A gateway that has been started knows the state of the connection, although
\* it may have changed before the observer was attached; unless the last
\* change fell between start()'s reading of it and the store.
ServerStateKnown ==
    /\ observers > 0
    /\ appPc \notin {"seed", "reseed", "store"}
    /\ skPc # "observe"
    /\ ~crossed
    => skConnected = skUp

\* A failed attempt to create the channel is not for ever: where the server
\* comes back again and again, a client runs in the end.
ChannelComesUp == []<>(skPc = "observe" /\ skUp) => []<>wsRuns

\* When stop() has returned without giving up, nothing of the gateway runs:
\* no POST task and no control channel, and none comes back.
StoppedGatewayIsQuiet ==
    ~started /\ appPc = "idle" /\ ~gaveUp =>
        control = None /\ \A t \in Tasks : ~Running(t)
=============================================================================
