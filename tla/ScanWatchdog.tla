---------------------------- MODULE ScanWatchdog ----------------------------
(***************************************************************************)
(* Who starts, stops and restarts the scan of a BLESignalKGateway: the     *)
(* POST task (first start and the four-level watchdog of post_task_loop),  *)
(* the GATT sessions, which suspend it while they connect, and stop().     *)
(* All of them act on a ScanProvisioner, whose host task runs beside them. *)
(*                                                                         *)
(* A definition marked "Mutant" is a planted fault that no action uses.    *)
(***************************************************************************)
EXTENDS ScanProvisioner

CONSTANTS
    MaxSessions,    \* bound: GATT sessions open at once (0: no GATT)
    WithStop,       \* whether stop() is called
    MayOutwait      \* whether a request or a reset may keep the POST task
                    \* for longer than the ten seconds stop() waits

ASSUME WatchdogAssumption ==
    /\ MaxSessions \in Nat
    /\ WithStop \in BOOLEAN
    /\ MayOutwait \in BOOLEAN

VARIABLES
    shouldRun,  \* post_task_should_run_
    pc,         \* where the POST task is in post_task_loop()
    level,      \* consecutive_restarts
    canReboot,  \* provisioner_can_reset
    heard,      \* scan_hit_count() # last_known_hits
    overdue,    \* now - last_hit_change_ms > kScanWatchdogMs
    tried,      \* the levels tried since an advertisement was last seen
    suppressed, \* scan_suppressed_
    gattPc,     \* where the session that connects is
    active,     \* how many sessions are in gatt_sessions_ besides that one
    stopPc,     \* where stop() is
    outwaited,  \* history: whether stop() gave up waiting for the POST task
    slipped     \* history: whether the flag was set for a scan that had ended
                \* meanwhile, or whose stack was being torn down

watchdogVars == <<level, canReboot, heard, overdue, tried>>
gattVars == <<suppressed, gattPc, active>>
stopVars == <<shouldRun, stopPc, outwaited>>
vars == <<stackVars, watchdogVars, gattVars, stopVars, pc, slipped>>

\* "cancel" and "unflag" are inside NimBLE's stop_scan(), "disc" and "flag"
\* inside its start_scan(), behind the test of the flag.
Pcs == {"prime", "first", "loop", "work", "stop", "cancel", "unflag", "delay",
        "reset", "down", "bringup", "start", "disc", "flag", "reboot", "exited"}
GattPcs == {"none", "stop", "busy", "start"}
StopPcs == {"running", "waiting", "check", "stop", "cancel", "unflag", "done"}

-----------------------------------------------------------------------------
\* The gateway has been started on a fresh boot.
Init ==
    /\ StackInit
    /\ shouldRun = TRUE
    /\ pc = "prime"
    /\ level = 0
    /\ canReboot = FALSE
    /\ heard = FALSE
    /\ overdue = FALSE
    /\ tried = {}
    /\ suppressed = FALSE
    /\ gattPc = "none"
    /\ active = 0
    /\ stopPc = "running"
    /\ outwaited = FALSE
    /\ slipped = FALSE

-----------------------------------------------------------------------------
(* The world: the host task, advertisements, and time.                     *)

HostTask ==
    /\ StackEvent
    /\ UNCHANGED <<stopVars, pc, watchdogVars, gattVars>>

HostGivesUp ==
    /\ DiscEnds
    /\ UNCHANGED <<stopVars, pc, watchdogVars, gattVars>>

\* An advertisement arrives and scan_hit_count_ moves.
Hit ==
    /\ radio
    /\ heard' = TRUE
    /\ UNCHANGED <<stackVars, stopVars, pc, level, canReboot, overdue, tried,
                   gattVars>>

\* Thirty seconds have passed since the count last moved.
SilenceGrows ==
    /\ pc \in {"loop", "work"}
    /\ ~overdue
    /\ overdue' = TRUE
    /\ UNCHANGED <<stackVars, stopVars, pc, level, canReboot, heard, tried,
                   gattVars>>

-----------------------------------------------------------------------------
(* The POST task.                                                          *)

\* A step of the POST task that leaves everything else as it is.
Goes(from, to) ==
    /\ pc = from
    /\ pc' = to
    /\ UNCHANGED <<stopVars, gattVars>>

\* The priming loop ends: delivered, twenty attempts, or stop().
PrimeEnds == Goes("prime", "first") /\ UNCHANGED <<stackVars, watchdogVars>>

First ==
    /\ Goes("first", IF shouldRun /\ ~scanning THEN "start" ELSE "loop")
    /\ UNCHANGED <<stackVars, watchdogVars>>

\* start_scan(), the first one and the last step of levels 1 to 3.
Start ==
    /\ kind # "nimble"
    /\ Goes("start", "loop")
    /\ BluedroidStart
    /\ UNCHANGED watchdogVars

StartOnNimble ==
    /\ kind = "nimble"
    /\ Goes("start", IF scanning THEN "loop" ELSE "disc")
    /\ NothingToDo
    /\ UNCHANGED watchdogVars

Disc ==
    /\ \/ Goes("disc", "flag") /\ NimbleDisc
       \/ Goes("disc", "loop") /\ NimbleDiscRefused
    /\ UNCHANGED watchdogVars

Flag == Goes("flag", "loop") /\ NimbleStore(TRUE) /\ UNCHANGED watchdogVars

Loop ==
    /\ Goes("loop", IF shouldRun THEN "work" ELSE "exited")
    /\ UNCHANGED <<stackVars, watchdogVars>>

\* Mutant: the level outlives the silence it was reached in.
HeardAgainKeepingLevel ==
    /\ heard
    /\ Goes("work", "loop")
    /\ heard' = FALSE
    /\ overdue' = FALSE
    /\ tried' = {}
    /\ UNCHANGED <<stackVars, level, canReboot>>
HeardAgain ==
    /\ heard
    /\ Goes("work", "loop")
    /\ heard' = FALSE
    /\ overdue' = FALSE
    /\ level' = 0
    /\ tried' = {}
    /\ UNCHANGED <<stackVars, canReboot>>

Silent == ~heard /\ overdue /\ scanning /\ ~suppressed

Nothing ==
    /\ ~heard
    /\ ~Silent
    /\ Goes("work", "loop")
    /\ UNCHANGED <<stackVars, watchdogVars>>

\* Mutant: the escalation does not end at level 3.
EscalateBeyond ==
    /\ Silent
    /\ Goes("work", IF level >= 2 THEN "reset" ELSE "stop")
    /\ level' = level + 1
    /\ tried' = tried \union {level'}
    /\ overdue' = FALSE
    /\ UNCHANGED <<stackVars, canReboot, heard>>
\* consecutive_restarts++, levels 1 to 3.
Escalate ==
    /\ Silent
    /\ level < 3
    /\ Goes("work", IF level = 2 THEN "reset" ELSE "stop")
    /\ level' = level + 1
    /\ tried' = tried \union {level'}
    /\ overdue' = FALSE
    /\ UNCHANGED <<stackVars, canReboot, heard>>

\* Level 4: reboot, or start over where no reset ever worked.
LastResort ==
    /\ Silent
    /\ level = 3
    /\ Goes("work", IF canReboot THEN "reboot" ELSE "loop")
    /\ level' = IF canReboot THEN 4 ELSE 0
    /\ tried' = IF canReboot THEN tried ELSE {}
    /\ overdue' = FALSE
    /\ UNCHANGED <<stackVars, canReboot, heard>>

\* Levels 1 and 2: stop_scan(), then a delay.
Stop ==
    /\ kind # "nimble"
    /\ Goes("stop", "delay")
    /\ BluedroidStop
    /\ UNCHANGED watchdogVars

StopOnNimble ==
    /\ kind = "nimble"
    /\ Goes("stop", IF scanning THEN "cancel" ELSE "delay")
    /\ NothingToDo
    /\ UNCHANGED watchdogVars

Cancel ==
    /\ \/ Goes("cancel", "unflag") /\ NimbleCancel
       \/ Goes("cancel", "delay") /\ Refused
    /\ UNCHANGED watchdogVars

Unflag == Goes("unflag", "delay") /\ NimbleStore(FALSE) /\ UNCHANGED watchdogVars

\* The fixed delay waits for no event.
Delay ==
    /\ Goes("delay", IF level = 1 THEN "start" ELSE "reset")
    /\ UNCHANGED <<stackVars, watchdogVars>>

\* Levels 2 and 3 on a provisioner without the reset: it returns false.
NoReset ==
    /\ ~CanReset
    /\ Goes("reset", "start")
    /\ UNCHANGED <<stackVars, watchdogVars>>

\* Levels 2 and 3 on esp_hosted.
Reset == CanReset /\ Goes("reset", "down") /\ Teardown /\ UNCHANGED watchdogVars

Down == Goes("down", "bringup") /\ StackDown /\ UNCHANGED watchdogVars

\* Mutant: a reset that worked does not open the way to the reboot.
ResetWorksUnnoted ==
    /\ Goes("bringup", "start")
    /\ BringUp
    /\ UNCHANGED watchdogVars
ResetWorks ==
    /\ Goes("bringup", "start")
    /\ BringUp
    /\ canReboot' = TRUE
    /\ UNCHANGED <<level, heard, overdue, tried>>

\* The controller's RPCs or bringup_bluedroid() fail.
ResetFails ==
    /\ Goes("bringup", "start")
    /\ BringUpFails
    /\ UNCHANGED watchdogVars

\* ESP.restart(): the gateway is started on a fresh boot.
Reboot ==
    /\ pc = "reboot"
    /\ stackUp' = TRUE
    /\ scanning' = FALSE
    /\ queue' = <<>>
    /\ radio' = FALSE
    /\ mishap' = FALSE
    /\ shouldRun' = TRUE
    /\ pc' = "prime"
    /\ level' = 0
    /\ canReboot' = FALSE
    /\ heard' = FALSE
    /\ overdue' = FALSE
    /\ tried' = {}
    /\ suppressed' = FALSE
    /\ gattPc' = "none"
    /\ active' = 0
    /\ stopPc' = "running"
    /\ outwaited' = FALSE
    /\ UNCHANGED kind

Watchdog == HeardAgain \/ Nothing \/ Escalate \/ LastResort
Starting == Start \/ StartOnNimble \/ Disc \/ Flag
StoppingScan == Stop \/ StopOnNimble \/ Cancel \/ Unflag
Recovery == StoppingScan \/ Delay \/ NoReset \/ Reset \/ Down \/ ResetWorks \/ ResetFails
PostTask == PrimeEnds \/ First \/ Starting \/ Loop \/ Watchdog \/ Recovery \/ Reboot

-----------------------------------------------------------------------------
(* GATT sessions, one of them connecting at a time.                        *)

GattStep(from, to) ==
    /\ gattPc = from
    /\ gattPc' = to
    /\ UNCHANGED <<stopVars, pc, watchdogVars>>

\* handle_gatt_subscribe(), which NimBLE has no connections for;
\* destroy_control_ws() ends the commands.
GattBegins ==
    /\ kind # "nimble"
    /\ active < MaxSessions
    /\ stopPc \in {"running", "waiting"}
    /\ GattStep("none", "stop")
    /\ suppressed' = TRUE
    /\ UNCHANGED <<stackVars, active>>

GattStops ==
    /\ GattStep("stop", "busy")
    /\ BluedroidStop
    /\ UNCHANGED <<suppressed, active>>

\* Mutant: a session that ends leaves the scan as it is.
ResumeNothing(from) == GattStep(from, "none") /\ UNCHANGED stackVars
\* A resume: start_scan() only when the flag is down.
Resume(from) ==
    IF scanning THEN GattStep(from, "none") /\ StartLeftOut
                ELSE GattStep(from, "start") /\ NothingToDo

\* The last subscription is done: the session is active, the scan resumes.
GattActive ==
    /\ Resume("busy")
    /\ suppressed' = FALSE
    /\ active' = active + 1

\* gatt_cleanup_session() of a session that never became active, however soon
\* after the stop was asked for.  While another one is active the scan stays
\* suppressed.
GattFails ==
    /\ IF active = 0
         THEN Resume("busy") /\ suppressed' = FALSE
         ELSE GattStep("busy", "none") /\ NothingToDo /\ UNCHANGED suppressed
    /\ UNCHANGED active

\* gatt_cleanup_session() of an active one; the scan resumes with the last.
\* Where another session's resume is on its way, one start is enough.
GattCloses ==
    /\ active > 0
    /\ active' = active - 1
    /\ IF active = 1 /\ gattPc = "none"
         THEN Resume("none") /\ suppressed' = FALSE
         ELSE GattStep(gattPc, gattPc) /\ NothingToDo /\ UNCHANGED suppressed

GattStarts ==
    /\ GattStep("start", "none")
    /\ BluedroidStart
    /\ UNCHANGED <<suppressed, active>>

Gatt == GattBegins \/ GattStops \/ GattActive \/ GattFails \/ GattCloses \/ GattStarts

-----------------------------------------------------------------------------
(* stop().                                                                 *)

StopStep(from, to) ==
    /\ stopPc = from
    /\ stopPc' = to
    /\ UNCHANGED <<pc, watchdogVars, gattVars>>

StopBegins ==
    /\ WithStop
    /\ StopStep("running", "waiting")
    /\ shouldRun' = FALSE
    /\ UNCHANGED <<stackVars, outwaited>>

\* The task has exited, or the ten seconds are over.
StopWaited ==
    /\ \/ pc = "exited" /\ UNCHANGED outwaited
       \/ MayOutwait /\ pc \in {"prime", "work", "down", "bringup"} /\ outwaited' = TRUE
    /\ StopStep("waiting", "check")
    /\ UNCHANGED <<stackVars, shouldRun>>

\* Mutant: the scan is left to the task that has exited.
StopCheckSkipped ==
    /\ StopStep("check", "done")
    /\ UNCHANGED <<stackVars, shouldRun, outwaited>>
StopCheck ==
    /\ StopStep("check", IF scanning THEN "stop" ELSE "done")
    /\ UNCHANGED <<stackVars, shouldRun, outwaited>>

\* stop_scan().
StopStops ==
    /\ kind # "nimble"
    /\ StopStep("stop", "done")
    /\ BluedroidStop
    /\ UNCHANGED <<shouldRun, outwaited>>

StopStopsOnNimble ==
    /\ kind = "nimble"
    /\ StopStep("stop", IF scanning THEN "cancel" ELSE "done")
    /\ NothingToDo
    /\ UNCHANGED <<shouldRun, outwaited>>

StopCancels ==
    /\ \/ StopStep("cancel", "unflag") /\ NimbleCancel
       \/ StopStep("cancel", "done") /\ Refused
    /\ UNCHANGED <<shouldRun, outwaited>>

StopUnflags ==
    /\ StopStep("unflag", "done")
    /\ NimbleStore(FALSE)
    /\ UNCHANGED <<shouldRun, outwaited>>

Stopping ==
    \/ StopBegins \/ StopWaited \/ StopCheck
    \/ StopStops \/ StopStopsOnNimble \/ StopCancels \/ StopUnflags

-----------------------------------------------------------------------------
\* The end of it all: stopped, exited, and no session left to end.
Stopped ==
    /\ stopPc = "done"
    /\ pc = "exited"
    /\ UNCHANGED vars

Step ==
    \/ HostTask
    \/ HostGivesUp
    \/ Hit
    \/ SilenceGrows
    \/ PostTask
    \/ Gatt
    \/ Stopping
    \/ Stopped

\* The history of the flag: the radio goes off between a start and the store
\* that reports it, or a start is reported of a stack whose flags have been
\* cleared; until the flag comes down.
Slips ==
    slipped' = /\ \/ slipped
                  \/ pc = "flag" /\ radio /\ ~radio'
                  \/ ~stackUp /\ ~scanning /\ scanning'
               /\ scanning' \/ pc' = "flag"

Next == Step /\ Slips

Spec == Init /\ [][Next]_vars

\* Every task runs and time passes: a stop of the scan before a connection and
\* a start after it are calls that get made.  Nothing makes a connection
\* attempt end, an advertisement arrive or a session begin or close.  Each
\* subscript is what every step of that task changes.
FairSpec ==
    /\ Spec
    /\ WF_queue(HostTask)
    /\ WF_pc(PostTask)
    /\ WF_gattPc(GattStops \/ GattStarts)
    /\ WF_overdue(SilenceGrows)

-----------------------------------------------------------------------------
(* Properties.                                                             *)

\* The type invariant of the scanner and of everyone who drives it.
TypeOK ==
    /\ StackTypeOK
    /\ shouldRun \in BOOLEAN
    /\ pc \in Pcs
    /\ level \in 0..4
    /\ canReboot \in BOOLEAN
    /\ heard \in BOOLEAN
    /\ overdue \in BOOLEAN
    /\ tried \in SUBSET (1..3)
    /\ suppressed \in BOOLEAN
    /\ gattPc \in GattPcs
    /\ active \in 0..MaxSessions
    /\ stopPc \in StopPcs
    /\ outwaited \in BOOLEAN
    /\ slipped \in BOOLEAN

\* The watchdog reboots the device only after it has tried levels 1, 2 and 3
\* in one silence, and only where a controller reset has worked.
RebootIsLast ==
    pc = "reboot" => CanReset /\ canReboot /\ tried = 1..3

\* The flag of every provisioner, which the watchdog and the sessions act on,
\* claims no scan that the controller does not run, whatever the stack refuses
\* and however late its events come.  The exceptions are all there are: while
\* NimBLE's stop_scan() is between its call and its store, or its host is about
\* to tell that the scan has ended; and after a scan that ended between the two
\* of start_scan(), or a start reported to an esp_hosted stack being torn down,
\* until the flag comes down.
FlagIsHonest ==
    scanning =>
        \/ radio
        \/ slipped
        \/ "unflag" \in {pc, stopPc}
        \/ EndUntold

\* As long as the gateway runs and no session holds it off, its scan comes
\* back, whatever stopped it (a session that connects, a level of the
\* watchdog, a reset), unless the stack failed or was overtaken: a mishap.
ScanReturns == []<>(radio \/ ~shouldRun \/ suppressed \/ mishap)

\* Silence never goes unanswered.  Until an advertisement is heard again, a
\* gateway whose controller can be reset climbs to a reboot, and every other
\* gateway starts the scan over and over; with the same exceptions.
SilenceIsAnswered ==
    []<>(\/ heard
         \/ suppressed
         \/ ~shouldRun
         \/ mishap
         \/ pc = IF CanReset THEN "reboot" ELSE "start")

\* The watchdog is not left behind by its own resets: after one, whether it
\* worked or not, the scan is back or the next level follows.
ResetIsFollowed ==
    pc = "bringup" ~> (radio \/ ~shouldRun \/ suppressed \/ pc \in {"reset", "reboot"})

\* When stop() is done and the host task has nothing left to do, the radio is
\* off.
NoRadioBehindStop == stopPc = "done" /\ queue = <<>> => ~radio

\* On NimBLE, where a call takes effect at once, stop() keeps that promise
\* unless the host refused or stop() gave up waiting: whoever could start the
\* scan has finished before stop() looks at the flag.
StopIsFinalOnNimble ==
    kind = "nimble" /\ ~outwaited /\ ~mishap => NoRadioBehindStop
=============================================================================
