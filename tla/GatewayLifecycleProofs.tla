------------------------ MODULE GatewayLifecycleProofs ------------------------
(***************************************************************************)
(* Proofs about GatewayLifecycle, for every number of starts and every set *)
(* of clients.                                                             *)
(*                                                                         *)
(* One control client: the property is not inductive, since Build creates  *)
(* one without a look.  What it rests on is who holds control_ws_mutex_,   *)
(* and that a caller about to create holds it and has seen no client.      *)
(***************************************************************************)
EXTENDS GatewayLifecycle, TLAPS

AppHolds == appPc \in {"build", "launch", "teardown"}
SkHolds == skPc \in {"build", "launch"}

\* The mutex is held by the thread that is in its critical section.
Holder ==
    /\ mutex = "app" <=> AppHolds
    /\ mutex = "sk" <=> SkHolds

\* Whoever is about to create a client has seen that there is none.
SeenAbsent == appPc = "build" \/ skPc = "build" => control = None

ClientInv == Holder /\ SeenAbsent /\ OneClient

-----------------------------------------------------------------------------
(* The critical sections.                                                  *)

\* A step of init_control_ws() in the application preserves the invariant.
LEMMA AppInit ==
    ASSUME ClientInv, InitControlWs("app")
    PROVE  ClientInv'
<1> USE LifecycleAssumption DEF ClientInv, Holder, AppHolds, SkHolds, SeenAbsent,
        OneClient, Caller, App, skVars, wsVars
<1>1. CASE InitTake("app")
  BY <1>1 DEF InitTake
<1>2. CASE InitPresent("app")
  BY <1>2 DEF InitPresent
<1>3. CASE InitTimesOut("app")
  BY <1>3 DEF InitTimesOut
<1>4. CASE Build("app")
  BY <1>4 DEF Build
<1>5. CASE BuildNothing("app")
  BY <1>5 DEF BuildNothing
<1>6. CASE Launch("app")
  BY <1>6 DEF Launch
<1>7. CASE LaunchFails("app")
  BY <1>7 DEF LaunchFails
<1>8. QED
  BY <1>1, <1>2, <1>3, <1>4, <1>5, <1>6, <1>7 DEF InitControlWs

\* So does one in an observer.
LEMMA SkInit ==
    ASSUME ClientInv, InitControlWs("sk")
    PROVE  ClientInv'
<1> USE LifecycleAssumption DEF ClientInv, Holder, AppHolds, SkHolds, SeenAbsent,
        OneClient, Caller, App, appVars, wsVars
<1>1. CASE InitTake("sk")
  BY <1>1 DEF InitTake
<1>2. CASE InitPresent("sk")
  BY <1>2 DEF InitPresent
<1>3. CASE InitTimesOut("sk")
  BY <1>3 DEF InitTimesOut
<1>4. CASE Build("sk")
  BY <1>4 DEF Build
<1>5. CASE BuildNothing("sk")
  BY <1>5 DEF BuildNothing
<1>6. CASE Launch("sk")
  BY <1>6 DEF Launch
<1>7. CASE LaunchFails("sk")
  BY <1>7 DEF LaunchFails
<1>8. QED
  BY <1>1, <1>2, <1>3, <1>4, <1>5, <1>6, <1>7 DEF InitControlWs

-----------------------------------------------------------------------------
\* Every step preserves the invariant.
LEMMA ClientInvStep ==
    ASSUME ClientInv, [Next]_vars
    PROVE  ClientInv'
<1>1. CASE InitControlWs("app")
  BY <1>1, AppInit
<1>2. CASE InitControlWs("sk")
  BY <1>2, SkInit
<1> USE LifecycleAssumption DEF ClientInv, Holder, AppHolds, SkHolds, SeenAbsent,
        OneClient, App, appVars, taskVars, skVars, wsVars
<1>3. CASE DestroyTake
  BY <1>3 DEF DestroyTake
<1>4. CASE Teardown
  BY <1>4 DEF Teardown
<1>5. CASE DestroyTimesOut
  BY <1>5 DEF DestroyTimesOut
<1>6. CASE StartCall \/ Seed \/ Reseed \/ Store
  BY <1>6 DEF StartCall, Seed, Reseed, Store, ReadsConnection, StoresConnection
<1>7. CASE Spawn \/ SpawnFails \/ Hook
  BY <1>7 DEF Spawn, SpawnFails, Hook
<1>8. CASE StopCall \/ StopWaited \/ StopGivesUp
  BY <1>8 DEF StopCall, StopWaited, StopGivesUp
<1>9. CASE SkChanges \/ Observe
  BY <1>9 DEF SkChanges, Observe
<1>10. ASSUME NEW t \in Tasks, TaskStep(t)
       PROVE  ClientInv'
  BY <1>10 DEF TaskStep, Turn, Post, StatusDue, NoStatus, StatusSent, Exit, Moves
<1>11. CASE WsEvent
  BY <1>11 DEF WsEvent
<1>12. CASE UNCHANGED vars
  BY <1>12 DEF vars
<1>13. QED
  BY <1>1, <1>2, <1>3, <1>4, <1>5, <1>6, <1>7, <1>8, <1>9, <1>10, <1>11, <1>12
  DEF Next, AppStep, ObserverStep

\* However start(), stop() and the observers race, and whatever fails, there is
\* at most one control client and control_ws_ names it.
THEOREM OneClientAlways == Spec => []OneClient
<1>1. Init => ClientInv
  BY LifecycleAssumption
  DEF Init, ClientInv, Holder, AppHolds, SkHolds, SeenAbsent, OneClient
<1>2. ClientInv /\ [Next]_vars => ClientInv'
  BY ClientInvStep
<1>3. ClientInv => OneClient
  BY DEF ClientInv
<1>4. QED
  BY <1>1, <1>2, <1>3, PTL DEF Spec

-----------------------------------------------------------------------------
(* The state of the connection.                                            *)

\* What start() has read is so until it is stored, unless a change crosses.
SeenTrue == appPc \in {"seed", "store"} /\ ~crossed => seen = skUp

StateInv == observers \in Nat /\ SeenTrue /\ ServerStateKnown

LEMMA StateInvStep ==
    ASSUME StateInv, [Next]_vars
    PROVE  StateInv'
<1> USE DEF StateInv, SeenTrue, ServerStateKnown, App, appVars, taskVars, skVars,
        wsVars
<1>1. CASE StartCall \/ Reseed
  BY <1>1 DEF StartCall, Reseed, ReadsConnection
<1>2. CASE Seed \/ Store
  BY <1>2 DEF Seed, Store, StoresConnection
<1>3. CASE Spawn \/ SpawnFails \/ Hook
  BY <1>3 DEF Spawn, SpawnFails, Hook
<1>4. CASE StopCall \/ StopWaited \/ StopGivesUp
  BY <1>4 DEF StopCall, StopWaited, StopGivesUp
<1>5. CASE DestroyTake \/ DestroyTimesOut \/ Teardown
  BY <1>5 DEF DestroyTake, DestroyTimesOut, Teardown
<1>6. CASE InitControlWs("app")
  BY <1>6 DEF InitControlWs, InitTake, InitPresent, InitTimesOut, Build,
     BuildNothing, Launch, LaunchFails, Caller
<1>7. CASE InitControlWs("sk")
  BY <1>7 DEF InitControlWs, InitTake, InitPresent, InitTimesOut, Build,
     BuildNothing, Launch, LaunchFails, Caller
<1>8. CASE SkChanges
  <2>1. observers > 0 => skPc' = "observe"
    BY <1>8 DEF SkChanges
  <2>2. observers' = observers /\ appPc' = appPc /\ seen' = seen
    BY <1>8 DEF SkChanges
  <2>3. appPc \in {"seed", "store"} => crossed'
    BY <1>8 DEF SkChanges
  <2>4. QED
    BY <2>1, <2>2, <2>3
<1>9. CASE Observe
  BY <1>9 DEF Observe
<1>10. ASSUME NEW t \in Tasks, TaskStep(t)
       PROVE  StateInv'
  BY <1>10 DEF TaskStep, Turn, Post, StatusDue, NoStatus, StatusSent, Exit, Moves
<1>11. CASE WsEvent
  BY <1>11 DEF WsEvent
<1>12. CASE UNCHANGED vars
  BY <1>12 DEF vars
<1>13. QED
  BY <1>1, <1>2, <1>3, <1>4, <1>5, <1>6, <1>7, <1>8, <1>9, <1>10, <1>11, <1>12
  DEF Next, AppStep, ObserverStep

\* A gateway that has been started knows the state of the connection, unless
\* its last change fell between start()'s reading and the store.
THEOREM ServerStateKnownAlways == Spec => []ServerStateKnown
<1>1. Init => StateInv
  BY DEF Init, StateInv, SeenTrue, ServerStateKnown
<1>2. StateInv /\ [Next]_vars => StateInv'
  BY StateInvStep
<1>3. StateInv => ServerStateKnown
  BY DEF StateInv
<1>4. QED
  BY <1>1, <1>2, <1>3, PTL DEF Spec

-----------------------------------------------------------------------------
(* Types, and one POST task that ends before stop() does.                  *)

\* What bounds the counters: start() gets no further than MaxStarts times, and
\* there are observers left to run while one of them runs.
Counts ==
    /\ observers <= starts
    /\ appPc \in {"seed", "spawn"} => starts < MaxStarts
    /\ appPc = "hook" => observers < starts
    /\ skPc # "idle" => left > 0

TypeInv == TypeOK /\ Counts

\* TypeOK in four parts.
Flags ==
    /\ started \in BOOLEAN /\ gaveUp \in BOOLEAN /\ seen \in BOOLEAN
    /\ crossed \in BOOLEAN /\ shouldRun \in BOOLEAN /\ exited \in BOOLEAN
    /\ skUp \in BOOLEAN /\ skConnected \in BOOLEAN
    /\ wsRuns \in BOOLEAN /\ wsConnected \in BOOLEAN

Places ==
    /\ appPc \in AppPcs
    /\ skPc \in SkPcs
    /\ taskPc \in [Tasks -> TaskPcs]
    /\ mutex \in {"free", "app", "sk"}

Wires ==
    /\ handle \in [Tasks -> Clients \cup {None}]
    /\ control \in Clients \cup {None}
    /\ live \subseteq Clients

Counters ==
    /\ starts \in 0..MaxStarts
    /\ observers \in 0..MaxStarts
    /\ left \in 0..MaxStarts
    /\ Counts

\* Each step keeps the types of the Boolean variables,
LEMMA FlagsStep ==
    ASSUME TypeInv, [Next]_vars
    PROVE  Flags'
<1> USE LifecycleAssumption DEF TypeInv, TypeOK, Flags, App,
        appVars, taskVars, skVars, wsVars
<1>1. CASE StartCall \/ Reseed
  BY <1>1, ZenonT(30) DEF StartCall, Reseed, ReadsConnection
<1>2. CASE Seed \/ Store
  BY <1>2, ZenonT(30) DEF Seed, Store, StoresConnection
<1>3. CASE Spawn \/ SpawnFails \/ Hook
  BY <1>3, ZenonT(30) DEF Spawn, SpawnFails, Hook
<1>4. CASE StopCall \/ StopWaited \/ StopGivesUp
  BY <1>4, ZenonT(30) DEF StopCall, StopWaited, StopGivesUp
<1>5. CASE DestroyTake \/ DestroyTimesOut \/ Teardown
  BY <1>5, ZenonT(30) DEF DestroyTake, DestroyTimesOut, Teardown
<1>6. CASE InitControlWs("app")
  <2>1. UNCHANGED <<started, gaveUp, seen, crossed, shouldRun, exited, skUp,
                    skConnected, wsConnected>>
    BY <1>6 DEF InitControlWs, InitTake, InitPresent, InitTimesOut, Build,
       BuildNothing, Launch, LaunchFails, Caller
  <2>2. wsRuns' = wsRuns \/ wsRuns' = TRUE
    BY <1>6 DEF InitControlWs, InitTake, InitPresent, InitTimesOut, Build,
       BuildNothing, Launch, LaunchFails, Caller
  <2>3. QED
    BY <2>1, <2>2
<1>7. CASE InitControlWs("sk")
  <2>1. UNCHANGED <<started, gaveUp, seen, crossed, shouldRun, exited, skUp,
                    skConnected, wsConnected>>
    BY <1>7 DEF InitControlWs, InitTake, InitPresent, InitTimesOut, Build,
       BuildNothing, Launch, LaunchFails, Caller
  <2>2. wsRuns' = wsRuns \/ wsRuns' = TRUE
    BY <1>7 DEF InitControlWs, InitTake, InitPresent, InitTimesOut, Build,
       BuildNothing, Launch, LaunchFails, Caller
  <2>3. QED
    BY <2>1, <2>2
<1>8. CASE SkChanges
  BY <1>8 DEF SkChanges
<1>9. CASE Observe
  BY <1>9 DEF Observe
<1>10. ASSUME NEW t \in Tasks, TaskStep(t)
       PROVE  Flags'
  <2>1. UNCHANGED <<started, gaveUp, seen, crossed, shouldRun, skUp, skConnected,
                    wsRuns, wsConnected>>
    BY <1>10 DEF TaskStep, Turn, Post, StatusDue, NoStatus, StatusSent, Exit, Moves
  <2>2. exited' = exited \/ exited' = TRUE
    BY <1>10 DEF TaskStep, Turn, Post, StatusDue,
       NoStatus, StatusSent, Exit, Moves
  <2>3. QED
    BY <2>1, <2>2
<1>11. CASE WsEvent
  BY <1>11 DEF WsEvent
<1>12. CASE UNCHANGED vars
  BY <1>12 DEF vars
<1>13. QED
  BY <1>1, <1>2, <1>3, <1>4, <1>5, <1>6, <1>7, <1>8, <1>9, <1>10, <1>11, <1>12
  DEF Next, AppStep, ObserverStep

\* of the program counters and the mutex,
LEMMA PlacesStep ==
    ASSUME TypeInv, [Next]_vars
    PROVE  Places'
<1> USE LifecycleAssumption DEF TypeInv, TypeOK, Places,
        AppPcs, SkPcs, TaskPcs, Tasks, App,
        appVars, taskVars, skVars, wsVars
<1>1. CASE StartCall \/ Reseed
  BY <1>1 DEF StartCall, Reseed, ReadsConnection
<1>2. CASE Seed \/ Store
  BY <1>2 DEF Seed, Store, StoresConnection
<1>3. CASE Spawn \/ SpawnFails \/ Hook
  BY <1>3 DEF Spawn, SpawnFails, Hook
<1>4. CASE StopCall \/ StopWaited \/ StopGivesUp
  BY <1>4 DEF StopCall, StopWaited, StopGivesUp
<1>5. CASE DestroyTake \/ DestroyTimesOut \/ Teardown
  BY <1>5 DEF DestroyTake, DestroyTimesOut, Teardown
<1>6. CASE InitControlWs("app")
  BY <1>6 DEF InitControlWs, InitTake, InitPresent, InitTimesOut, Build,
     BuildNothing, Launch, LaunchFails, Caller
<1>7. CASE InitControlWs("sk")
  BY <1>7 DEF InitControlWs, InitTake, InitPresent, InitTimesOut, Build,
     BuildNothing, Launch, LaunchFails, Caller
<1>8. CASE SkChanges
  BY <1>8 DEF SkChanges
<1>9. CASE Observe
  BY <1>9 DEF Observe
<1>10. ASSUME NEW t \in Tasks, TaskStep(t)
       PROVE  Places'
  BY <1>10 DEF TaskStep, Turn, Post, StatusDue, NoStatus, StatusSent, Exit, Moves
<1>11. CASE WsEvent
  BY <1>11 DEF WsEvent
<1>12. CASE UNCHANGED vars
  BY <1>12 DEF vars
<1>13. QED
  BY <1>1, <1>2, <1>3, <1>4, <1>5, <1>6, <1>7, <1>8, <1>9, <1>10, <1>11, <1>12
  DEF Next, AppStep, ObserverStep

\* of the variables that name clients,
LEMMA WiresStep ==
    ASSUME TypeInv, [Next]_vars
    PROVE  Wires'
<1> USE LifecycleAssumption DEF TypeInv, TypeOK, Wires, Tasks, App,
        appVars, taskVars, skVars, wsVars
<1>1. CASE StartCall \/ Reseed
  BY <1>1 DEF StartCall, Reseed, ReadsConnection
<1>2. CASE Seed \/ Store
  BY <1>2 DEF Seed, Store, StoresConnection
<1>3. CASE Spawn \/ SpawnFails \/ Hook
  BY <1>3 DEF Spawn, SpawnFails, Hook
<1>4. CASE StopCall \/ StopWaited \/ StopGivesUp
  BY <1>4 DEF StopCall, StopWaited, StopGivesUp
<1>5. CASE DestroyTake \/ DestroyTimesOut \/ Teardown
  BY <1>5 DEF DestroyTake, DestroyTimesOut, Teardown
<1>6. CASE InitControlWs("app")
  BY <1>6 DEF InitControlWs, InitTake, InitPresent, InitTimesOut, Build,
     BuildNothing, Launch, LaunchFails, Caller
<1>7. CASE InitControlWs("sk")
  BY <1>7 DEF InitControlWs, InitTake, InitPresent, InitTimesOut, Build,
     BuildNothing, Launch, LaunchFails, Caller
<1>8. CASE SkChanges
  BY <1>8 DEF SkChanges
<1>9. CASE Observe
  BY <1>9 DEF Observe
<1>10. ASSUME NEW t \in Tasks, TaskStep(t)
       PROVE  Wires'
  BY <1>10 DEF TaskStep, Turn, Post, StatusDue, NoStatus, StatusSent, Exit, Moves
<1>11. CASE WsEvent
  BY <1>11 DEF WsEvent
<1>12. CASE UNCHANGED vars
  BY <1>12 DEF vars
<1>13. QED
  BY <1>1, <1>2, <1>3, <1>4, <1>5, <1>6, <1>7, <1>8, <1>9, <1>10, <1>11, <1>12
  DEF Next, AppStep, ObserverStep

\* and of the counters, with what bounds them.
LEMMA CountersStep ==
    ASSUME TypeInv, [Next]_vars
    PROVE  Counters'
<1> USE LifecycleAssumption DEF TypeInv, TypeOK, Counts, Counters, Tasks, App,
        appVars, taskVars, skVars, wsVars
<1>1. CASE StartCall \/ Reseed
  BY <1>1 DEF StartCall, Reseed, ReadsConnection
<1>2. CASE Seed \/ Store
  BY <1>2 DEF Seed, Store, StoresConnection
<1>3. CASE Spawn \/ SpawnFails \/ Hook
  BY <1>3 DEF Spawn, SpawnFails, Hook
<1>4. CASE StopCall \/ StopWaited \/ StopGivesUp
  BY <1>4 DEF StopCall, StopWaited, StopGivesUp
<1>5. CASE DestroyTake \/ DestroyTimesOut \/ Teardown
  BY <1>5 DEF DestroyTake, DestroyTimesOut, Teardown
<1>6. CASE InitControlWs("app")
  BY <1>6 DEF InitControlWs, InitTake, InitPresent, InitTimesOut, Build,
     BuildNothing, Launch, LaunchFails, Caller
<1>7. CASE InitControlWs("sk")
  BY <1>7 DEF InitControlWs, InitTake, InitPresent, InitTimesOut, Build,
     BuildNothing, Launch, LaunchFails, Caller
<1>8. CASE SkChanges
  BY <1>8 DEF SkChanges
<1>9. CASE Observe
  BY <1>9 DEF Observe
<1>10. ASSUME NEW t \in Tasks, TaskStep(t)
       PROVE  Counters'
  BY <1>10 DEF TaskStep, Turn, Post, StatusDue, NoStatus, StatusSent, Exit, Moves
<1>11. CASE WsEvent
  BY <1>11 DEF WsEvent
<1>12. CASE UNCHANGED vars
  BY <1>12 DEF vars
<1>13. QED
  BY <1>1, <1>2, <1>3, <1>4, <1>5, <1>6, <1>7, <1>8, <1>9, <1>10, <1>11, <1>12
  DEF Next, AppStep, ObserverStep

LEMMA TypeInvStep ==
    ASSUME TypeInv, [Next]_vars
    PROVE  TypeInv'
BY FlagsStep, PlacesStep, WiresStep, CountersStep
DEF TypeInv, TypeOK, Flags, Places, Wires, Counters

LEMMA TypeInvInit == ASSUME Init PROVE TypeInv
<1>1. Flags
  BY DEF Init, Flags
<1>2. Places
  BY DEF Init, Places, AppPcs, SkPcs, TaskPcs
<1>3. Wires
  BY DEF Init, Wires
<1>4. Counters
  BY LifecycleAssumption DEF Init, Counters, Counts
<1>5. QED
  BY <1>1, <1>2, <1>3, <1>4
  DEF TypeInv, TypeOK, Flags, Places, Wires, Counters

\* Every variable of the lifecycle keeps its type.
THEOREM TypeCorrect == Spec => []TypeOK
<1>1. Init => TypeInv
  BY TypeInvInit
<1>2. TypeInv /\ [Next]_vars => TypeInv'
  BY TypeInvStep
<1>3. TypeInv => TypeOK
  BY DEF TypeInv
<1>4. QED
  BY <1>1, <1>2, <1>3, PTL DEF Spec

-----------------------------------------------------------------------------
(* The tasks.                                                              *)

\* started_ is set through start() and clear through stop().
Phase ==
    /\ appPc \in {"wait", "destroy", "teardown"} => ~started
    /\ appPc \in {"seed", "spawn", "hook", "reseed", "store", "init", "build",
                  "launch"} => started

\* A client that runs is the one control_ws_ names, and it is not being made.
Wired ==
    /\ appPc = "launch" \/ skPc = "launch" => control # None
    /\ wsRuns => control # None /\ appPc # "launch" /\ skPc # "launch"
    /\ wsConnected => wsRuns

\* As long as stop() has not given up, post_task_exited_ tells the truth: no
\* task runs when it is set, and it is set before start() creates a task and
\* after stop() has waited for one.
ExitIsHonest ==
    ~gaveUp =>
        /\ exited => \A t \in Tasks : ~Running(t)
        /\ appPc \in {"seed", "spawn", "destroy", "teardown"} => exited
        /\ ~started /\ appPc = "idle" => exited

\* A task about to send its status does so over the client that runs.
SendsOverLive ==
    ~gaveUp => \A t \in Tasks : taskPc[t] = "send" => handle[t] = control /\ wsRuns

TaskInv == Phase /\ Wired /\ ExitIsHonest /\ OnePostTask /\ SendsOverLive

\* Each step keeps started_ in step with start() and stop(),
LEMMA PhaseStep ==
    ASSUME Phase, [Next]_vars
    PROVE  Phase'
<1> USE LifecycleAssumption DEF Phase, App,
        appVars, taskVars, skVars, wsVars
<1>1. CASE StartCall
  BY <1>1 DEF StartCall, ReadsConnection
<1>2. CASE Seed \/ Reseed \/ Store
  BY <1>2 DEF Seed, Reseed, Store, ReadsConnection, StoresConnection
<1>3. CASE Spawn
  BY <1>3 DEF Spawn
<1>4. CASE SpawnFails \/ Hook
  BY <1>4 DEF SpawnFails, Hook
<1>5. CASE StopCall \/ StopWaited \/ StopGivesUp
  BY <1>5 DEF StopCall, StopWaited, StopGivesUp
<1>6. CASE DestroyTake \/ DestroyTimesOut
  BY <1>6 DEF DestroyTake, DestroyTimesOut
<1>7. CASE Teardown
  BY <1>7 DEF Teardown
<1>8. CASE InitControlWs("app")
  BY <1>8 DEF InitControlWs, InitTake, InitPresent, InitTimesOut, Build,
     BuildNothing, Launch, LaunchFails, Caller
<1>9. CASE InitControlWs("sk")
  BY <1>9 DEF InitControlWs, InitTake, InitPresent, InitTimesOut, Build,
     BuildNothing, Launch, LaunchFails, Caller
<1>10. CASE SkChanges \/ Observe
  BY <1>10 DEF SkChanges, Observe
<1>11. ASSUME NEW t \in Tasks, TaskStep(t)
       PROVE  Phase'
  BY <1>11 DEF TaskStep, Turn, Post, StatusDue, NoStatus, StatusSent, Exit, Moves
<1>12. CASE WsEvent
  BY <1>12 DEF WsEvent
<1>13. CASE UNCHANGED vars
  BY <1>13 DEF vars
<1>14. QED
  BY <1>1, <1>2, <1>3, <1>4, <1>5, <1>6, <1>7, <1>8, <1>9, <1>10, <1>11, <1>12,
     <1>13
  DEF Next, AppStep, ObserverStep

\* keeps the client that runs the one that is named,
LEMMA WiredStep ==
    ASSUME ClientInv, Wired, [Next]_vars
    PROVE  Wired'
<1> USE LifecycleAssumption DEF ClientInv, Holder, AppHolds, SkHolds,
        SeenAbsent, Wired, App,
        appVars, taskVars, skVars, wsVars
<1>1. CASE StartCall
  BY <1>1 DEF StartCall, ReadsConnection
<1>2. CASE Seed \/ Reseed \/ Store
  BY <1>2 DEF Seed, Reseed, Store, ReadsConnection, StoresConnection
<1>3. CASE Spawn
  BY <1>3 DEF Spawn
<1>4. CASE SpawnFails \/ Hook
  BY <1>4 DEF SpawnFails, Hook
<1>5. CASE StopCall \/ StopWaited \/ StopGivesUp
  BY <1>5 DEF StopCall, StopWaited, StopGivesUp
<1>6. CASE DestroyTake \/ DestroyTimesOut
  BY <1>6 DEF DestroyTake, DestroyTimesOut
<1>7. CASE Teardown
  BY <1>7 DEF Teardown
<1>8. CASE InitControlWs("app")
  BY <1>8 DEF InitControlWs, InitTake, InitPresent, InitTimesOut, Build,
     BuildNothing, Launch, LaunchFails, Caller
<1>9. CASE InitControlWs("sk")
  BY <1>9 DEF InitControlWs, InitTake, InitPresent, InitTimesOut, Build,
     BuildNothing, Launch, LaunchFails, Caller
<1>10. CASE SkChanges \/ Observe
  BY <1>10 DEF SkChanges, Observe
<1>11. ASSUME NEW t \in Tasks, TaskStep(t)
       PROVE  Wired'
  BY <1>11 DEF TaskStep, Turn, Post, StatusDue, NoStatus, StatusSent, Exit, Moves
<1>12. CASE WsEvent
  BY <1>12 DEF WsEvent
<1>13. CASE UNCHANGED vars
  BY <1>13 DEF vars
<1>14. QED
  BY <1>1, <1>2, <1>3, <1>4, <1>5, <1>6, <1>7, <1>8, <1>9, <1>10, <1>11, <1>12,
     <1>13
  DEF Next, AppStep, ObserverStep

\* keeps post_task_exited_ honest and the task alone,
LEMMA ExitStep ==
    ASSUME TypeInv, Phase, ExitIsHonest, OnePostTask, [Next]_vars
    PROVE  (ExitIsHonest /\ OnePostTask)'
<1> USE LifecycleAssumption DEF TypeInv, TypeOK, Phase, ExitIsHonest,
        OnePostTask, Running, App,
        appVars, taskVars, skVars, wsVars
<1>1. CASE StartCall
  BY <1>1 DEF StartCall, ReadsConnection
<1>2. CASE Seed \/ Reseed \/ Store
  BY <1>2 DEF Seed, Reseed, Store, ReadsConnection, StoresConnection
<1>3. CASE Spawn
  BY <1>3 DEF Spawn
<1>4. CASE SpawnFails \/ Hook
  BY <1>4 DEF SpawnFails, Hook
<1>5. CASE StopCall \/ StopWaited \/ StopGivesUp
  BY <1>5 DEF StopCall, StopWaited, StopGivesUp
<1>6. CASE DestroyTake \/ DestroyTimesOut
  BY <1>6 DEF DestroyTake, DestroyTimesOut
<1>7. CASE Teardown
  BY <1>7 DEF Teardown
<1>8. CASE InitControlWs("app")
  BY <1>8 DEF InitControlWs, InitTake, InitPresent, InitTimesOut, Build,
     BuildNothing, Launch, LaunchFails, Caller
<1>9. CASE InitControlWs("sk")
  BY <1>9 DEF InitControlWs, InitTake, InitPresent, InitTimesOut, Build,
     BuildNothing, Launch, LaunchFails, Caller
<1>10. CASE SkChanges \/ Observe
  BY <1>10 DEF SkChanges, Observe
<1>11. ASSUME NEW t \in Tasks, TaskStep(t)
       PROVE  (ExitIsHonest /\ OnePostTask)'
  BY <1>11 DEF TaskStep, Turn, Post, StatusDue, NoStatus, StatusSent, Exit, Moves
<1>12. CASE WsEvent
  BY <1>12 DEF WsEvent
<1>13. CASE UNCHANGED vars
  BY <1>13 DEF vars
<1>14. QED
  BY <1>1, <1>2, <1>3, <1>4, <1>5, <1>6, <1>7, <1>8, <1>9, <1>10, <1>11, <1>12,
     <1>13
  DEF Next, AppStep, ObserverStep

\* and keeps the client a task is sending over.
LEMMA SendsStep ==
    ASSUME TypeInv, ClientInv, Wired, ExitIsHonest, SendsOverLive, [Next]_vars
    PROVE  SendsOverLive'
<1> USE LifecycleAssumption DEF TypeInv, TypeOK, ClientInv, Holder, AppHolds,
        SkHolds, SeenAbsent, Wired, ExitIsHonest, Running, SendsOverLive, App,
        appVars, taskVars, skVars, wsVars
<1>1. CASE StartCall
  BY <1>1 DEF StartCall, ReadsConnection
<1>2. CASE Seed \/ Reseed \/ Store
  BY <1>2 DEF Seed, Reseed, Store, ReadsConnection, StoresConnection
<1>3. CASE Spawn
  BY <1>3 DEF Spawn
<1>4. CASE SpawnFails \/ Hook
  BY <1>4 DEF SpawnFails, Hook
<1>5. CASE StopCall \/ StopWaited \/ StopGivesUp
  BY <1>5 DEF StopCall, StopWaited, StopGivesUp
<1>6. CASE DestroyTake \/ DestroyTimesOut
  BY <1>6 DEF DestroyTake, DestroyTimesOut
<1>7. CASE Teardown
  BY <1>7 DEF Teardown
<1>8. CASE InitControlWs("app")
  BY <1>8 DEF InitControlWs, InitTake, InitPresent, InitTimesOut, Build,
     BuildNothing, Launch, LaunchFails, Caller
<1>9. CASE InitControlWs("sk")
  BY <1>9 DEF InitControlWs, InitTake, InitPresent, InitTimesOut, Build,
     BuildNothing, Launch, LaunchFails, Caller
<1>10. CASE SkChanges \/ Observe
  BY <1>10 DEF SkChanges, Observe
<1>11. ASSUME NEW t \in Tasks, TaskStep(t)
       PROVE  SendsOverLive'
  BY <1>11 DEF TaskStep, Turn, Post, StatusDue, NoStatus, StatusSent, Exit, Moves
<1>12. CASE WsEvent
  BY <1>12 DEF WsEvent
<1>13. CASE UNCHANGED vars
  BY <1>13 DEF vars
<1>14. QED
  BY <1>1, <1>2, <1>3, <1>4, <1>5, <1>6, <1>7, <1>8, <1>9, <1>10, <1>11, <1>12,
     <1>13
  DEF Next, AppStep, ObserverStep

\* The three invariants together are preserved.
LEMMA TaskInvStep ==
    ASSUME TypeInv, ClientInv, TaskInv, [Next]_vars
    PROVE  TaskInv'
BY PhaseStep, WiredStep, ExitStep, SendsStep DEF TaskInv

\* TaskInv holds of every reachable state, with the invariants it rests on.
LEMMA TaskInvAlways == Spec => [](TypeInv /\ ClientInv /\ TaskInv)
<1>1. ASSUME Init
      PROVE  TypeInv /\ ClientInv /\ TaskInv
  <2>1. TypeInv
    BY <1>1, TypeInvInit
  <2>2. ClientInv
    BY <1>1, LifecycleAssumption
    DEF Init, ClientInv, Holder, AppHolds, SkHolds, SeenAbsent, OneClient
  <2>3. TaskInv
    BY <1>1
    DEF Init, TaskInv, Phase, Wired, ExitIsHonest, OnePostTask, SendsOverLive, Running
  <2>4. QED
    BY <2>1, <2>2, <2>3
<1>2. TypeInv /\ ClientInv /\ TaskInv /\ [Next]_vars => (TypeInv /\ ClientInv /\ TaskInv)'
  BY TypeInvStep, ClientInvStep, TaskInvStep
<1>3. QED
  BY <1>1, <1>2, PTL DEF Spec

\* Two POST tasks never run at once, unless stop() gave up waiting for one.
THEOREM OnePostTaskAlways == Spec => []OnePostTask
<1>1. TaskInv => OnePostTask
  BY DEF TaskInv
<1>2. QED
  BY <1>1, TaskInvAlways, PTL

\* No POST task sends over a client that is gone, nor runs once stop() has
\* returned, unless stop() gave up.
THEOREM TaskEndsBeforeStopAlways == Spec => []TaskEndsBeforeStop
<1>1. TypeInv /\ ClientInv /\ TaskInv => TaskEndsBeforeStop
  BY DEF TypeInv, TypeOK, ClientInv, OneClient, TaskInv, Wired, ExitIsHonest,
     SendsOverLive, TaskEndsBeforeStop
<1>2. QED
  BY <1>1, TaskInvAlways, PTL
=============================================================================
