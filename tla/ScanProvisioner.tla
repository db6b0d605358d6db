-------------------------- MODULE ScanProvisioner --------------------------
(***************************************************************************)
(* The scanning half of the three BLE provisioners, with the Bluetooth     *)
(* host under them.  On the two Bluedroid provisioners a call only queues  *)
(* a command; the host task completes the commands in order and the events *)
(* it raises move the scan on (parameters set, then started, or stopped).  *)
(* On NimBLE a call takes effect at once, and the caller moves the flag in *)
(* a step of its own, so that the host may end the scan in between.        *)
(* is_scanning() is a flag that events and callers keep, not the state of  *)
(* the radio.  The test of the flag and the request of a Bluedroid call    *)
(* are one step: the queue keeps the order, so an event that falls between *)
(* them leads where the same event leads after them.                       *)
(*                                                                         *)
(* Each definition is a step some thread takes inside the provisioner;     *)
(* ScanWatchdog says who takes it when.  A definition marked "Mutant" is a *)
(* planted fault that no action uses.                                      *)
(***************************************************************************)
EXTENDS Naturals, Sequences

CONSTANTS
    Kinds,          \* the provisioners to consider, some of "hosted", "native"
                    \* and "nimble"
    MayRefuse,      \* whether the stack may refuse a request or a start
    MayFailReset,   \* whether a controller reset may fail half way
    MayGiveUp,      \* whether the NimBLE host may end a scan by itself
    MaxQueue        \* bound: commands waiting in the host task's queue

ASSUME ProvisionerAssumption ==
    /\ Kinds \subseteq {"hosted", "native", "nimble"}
    /\ MayRefuse \in BOOLEAN
    /\ MayFailReset \in BOOLEAN
    /\ MayGiveUp \in BOOLEAN
    /\ MaxQueue \in Nat \ {0}

VARIABLES
    kind,       \* the provisioner this gateway was given; never changes
    stackUp,    \* bt_stack_up_
    scanning,   \* scanning_, what is_scanning() returns
    queue,      \* what the host task has yet to do: complete a "params",
                \* "start" or "stop" command, or raise NimBLE's "complete"
    radio,      \* whether the host has a scan under way
    mishap      \* history: whether, since the radio last came on for good,
                \* the stack refused something, ended the scan by itself or did
                \* not come up, or a start was left out on a flag that a
                \* requested stop had yet to clear

stackVars == <<kind, stackUp, scanning, queue, radio, mishap>>

StackTypeOK ==
    /\ kind \in Kinds
    /\ stackUp \in BOOLEAN
    /\ scanning \in BOOLEAN
    /\ queue \in Seq({"params", "start", "stop", "complete"})
    /\ Len(queue) <= MaxQueue
    /\ radio \in BOOLEAN
    /\ mishap \in BOOLEAN

\* The constructor brings the stack up and starts no scan.
StackInit ==
    /\ kind \in Kinds
    /\ stackUp = TRUE
    /\ scanning = FALSE
    /\ queue = <<>>
    /\ radio = FALSE
    /\ mishap = FALSE

Request(command) ==
    /\ Len(queue) < MaxQueue
    /\ queue' = Append(queue, command)
    /\ UNCHANGED <<kind, stackUp, scanning, radio, mishap>>

Refused ==
    /\ MayRefuse
    /\ mishap' = TRUE
    /\ UNCHANGED <<kind, stackUp, scanning, queue, radio>>

\* A call that finds nothing to do.
NothingToDo == UNCHANGED stackVars

OnItsWay(command) == \E i \in 1..Len(queue) : queue[i] = command
EndUntold == OnItsWay("complete")

\* No start, for the flag is up; whether a stop is on its way nobody asks.
StartLeftOut ==
    /\ mishap' = (mishap \/ OnItsWay("stop"))
    /\ UNCHANGED <<kind, stackUp, scanning, queue, radio>>

\* The radio comes on, and unless a stop is yet to come what went wrong before
\* is over.
RadioOn ==
    /\ radio' = TRUE
    /\ mishap' = (mishap /\ (radio \/ OnItsWay("stop")))

-----------------------------------------------------------------------------
(* start_scan() and stop_scan() on Bluedroid: one step.                    *)

BluedroidStart ==
    IF ~stackUp THEN NothingToDo
    ELSE IF scanning THEN StartLeftOut
    ELSE Request("params") \/ Refused

BluedroidStop ==
    IF scanning THEN Request("stop") \/ Refused ELSE NothingToDo

-----------------------------------------------------------------------------
(* The same on NimBLE: the flag is tested, the host is called, and only if *)
(* it agrees the flag is moved.                                            *)

\* ble_gap_disc(); the host refuses a second scan.
NimbleDisc ==
    /\ ~radio
    /\ RadioOn
    /\ UNCHANGED <<kind, stackUp, scanning, queue>>

NimbleDiscRefused ==
    /\ radio \/ MayRefuse
    /\ mishap' = TRUE
    /\ UNCHANGED <<kind, stackUp, scanning, queue, radio>>

\* ble_gap_disc_cancel(); that there is no scan to cancel is no failure.
NimbleCancel ==
    /\ radio' = FALSE
    /\ UNCHANGED <<kind, stackUp, scanning, queue, mishap>>

\* scanning_.store().
NimbleStore(value) ==
    /\ scanning' = value
    /\ UNCHANGED <<kind, stackUp, queue, radio, mishap>>

-----------------------------------------------------------------------------
(* The host task does the oldest thing it has to do and raises its event.  *)

Completes(command) == queue # <<>> /\ Head(queue) = command

\* SCAN_PARAM_SET_COMPLETE: on success the handler asks for the start.
ParamsComplete ==
    /\ Completes("params")
    /\ \/ queue' = Append(Tail(queue), "start") /\ UNCHANGED mishap
       \/ MayRefuse /\ queue' = Tail(queue) /\ mishap' = TRUE
    /\ UNCHANGED <<kind, stackUp, scanning, radio>>

\* Mutant: the flag is set although the start was refused.
StartCompleteUnchecked ==
    /\ Completes("start")
    /\ queue' = Tail(queue)
    /\ scanning' = TRUE
    /\ \/ RadioOn
       \/ MayRefuse /\ mishap' = TRUE /\ UNCHANGED radio
    /\ UNCHANGED <<kind, stackUp>>
\* SCAN_START_COMPLETE: only a successful start sets the flag.
StartComplete ==
    /\ Completes("start")
    /\ queue' = Tail(queue)
    /\ \/ RadioOn /\ scanning' = TRUE
       \/ MayRefuse /\ mishap' = TRUE /\ UNCHANGED <<radio, scanning>>
    /\ UNCHANGED <<kind, stackUp>>

\* SCAN_STOP_COMPLETE: the handler does not look at the status.
StopComplete ==
    /\ Completes("stop")
    /\ queue' = Tail(queue)
    /\ scanning' = FALSE
    /\ \/ radio' = FALSE /\ UNCHANGED mishap
       \/ MayRefuse /\ mishap' = TRUE /\ UNCHANGED radio
    /\ UNCHANGED <<kind, stackUp>>

\* The NimBLE host gives a scan up by itself, and will say so.
DiscEnds ==
    /\ kind = "nimble"
    /\ MayGiveUp
    /\ radio
    /\ Len(queue) < MaxQueue
    /\ queue' = Append(queue, "complete")
    /\ radio' = FALSE
    /\ mishap' = TRUE
    /\ UNCHANGED <<kind, stackUp, scanning>>

\* DISC_COMPLETE: the handler clears the flag, whichever scan it is now for.
DiscComplete ==
    /\ Completes("complete")
    /\ queue' = Tail(queue)
    /\ scanning' = FALSE
    /\ mishap' = TRUE
    /\ UNCHANGED <<kind, stackUp, radio>>

StackEvent == ParamsComplete \/ StartComplete \/ StopComplete \/ DiscComplete

-----------------------------------------------------------------------------
(* reset_bt_controller() and hard_reset_c6(): the base class returns false *)
(* without doing anything; EspHostedBluedroidBLE tears the host stack down,*)
(* resets the controller and brings the stack back up.                     *)

CanReset == kind = "hosted"

\* teardown_bluedroid() up to esp_bluedroid_disable(): the flags.
Teardown ==
    /\ stackUp' = FALSE
    /\ scanning' = FALSE
    /\ UNCHANGED <<kind, queue, radio, mishap>>

\* The rest of teardown_bluedroid(): nothing the old stack had queued will
\* complete.
StackDown ==
    /\ queue' = <<>>
    /\ radio' = FALSE
    /\ UNCHANGED <<kind, stackUp, scanning, mishap>>

\* The controller answers and bringup_bluedroid() succeeds ...
BringUp ==
    /\ stackUp' = TRUE
    /\ UNCHANGED <<kind, scanning, queue, radio, mishap>>

\* ... or one of the two does not.
BringUpFails ==
    /\ MayFailReset
    /\ mishap' = TRUE
    /\ UNCHANGED <<kind, stackUp, scanning, queue, radio>>
=============================================================================
