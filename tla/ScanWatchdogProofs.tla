------------------------- MODULE ScanWatchdogProofs -------------------------
(***************************************************************************)
(* Proofs about ScanWatchdog, for every provisioner, every number of GATT  *)
(* sessions and every combination of the faults its constants allow.       *)
(***************************************************************************)
EXTENDS ScanWatchdog, SequenceTheorems, TLAPS

\* The steps a thread or the host task may take inside the provisioner: those
\* that leave what the host task has yet to do in its queue, but for the command
\* that is completed, and the rest.
QueueingStep ==
    \/ BluedroidStart \/ BluedroidStop \/ StartLeftOut \/ Refused
    \/ NimbleDisc \/ NimbleDiscRefused \/ NimbleCancel
    \/ NimbleStore(TRUE) \/ NimbleStore(FALSE)
    \/ ParamsComplete \/ StartComplete \/ StopComplete \/ DiscEnds
    \/ Teardown \/ BringUp \/ BringUpFails
    \/ UNCHANGED stackVars

StackStep == QueueingStep \/ DiscComplete \/ StackDown

\* The types outside the stack, apart for the provers' sake: the flags ...
FlagTypes ==
    /\ shouldRun \in BOOLEAN
    /\ canReboot \in BOOLEAN
    /\ heard \in BOOLEAN
    /\ overdue \in BOOLEAN
    /\ suppressed \in BOOLEAN
    /\ outwaited \in BOOLEAN

SlippedType == slipped \in BOOLEAN

\* ... and the rest.
TaskTypes ==
    /\ pc \in Pcs
    /\ level \in 0..4
    /\ tried \in SUBSET (1..3)
    /\ gattPc \in GattPcs
    /\ active \in 0..MaxSessions
    /\ stopPc \in StopPcs

\* The levels tried are the ones up to consecutive_restarts, the fourth is the
\* reboot, and only a provisioner with resets comes near one.
Ladder ==
    /\ level <= 3 => tried = 1..level
    /\ level = 4 => tried = 1..3 /\ canReboot
    /\ pc = "reboot" <=> level = 4
    /\ canReboot \/ pc \in {"down", "bringup"} => CanReset

\* NimBLE has no GATT sessions, and a session that connects has a place among
\* MaxSessions.
PlaceForOneMore ==
    /\ kind = "nimble" => gattPc = "none" /\ active = 0
    /\ gattPc \in {"stop", "busy"} => active < MaxSessions

\* The inductive invariant.
LadderInv == TaskTypes /\ Ladder /\ PlaceForOneMore

-----------------------------------------------------------------------------
(* The provisioner.                                                        *)

\* What the operators of a queue do to its length.
LEMMA QueueLengths ==
    ASSUME NEW S, NEW q \in Seq(S), NEW c \in S
    PROVE  /\ Len(q) \in Nat
           /\ Append(q, c) \in Seq(S) /\ Len(Append(q, c)) = Len(q) + 1
           /\ <<>> \in Seq(S) /\ Len(<<>>) = 0
           /\ q # <<>> => Tail(q) \in Seq(S) /\ Len(Tail(q)) = Len(q) - 1
  BY EmptySeq, LenProperties, AppendProperties, HeadTailProperties

\* What they leave in it.
LEMMA QueueMembers ==
    ASSUME NEW S, NEW q \in Seq(S), NEW c \in S, NEW d \in S
    PROVE  /\ \E i \in 1..Len(Append(q, d)) : Append(q, d)[i] = d
           /\ (\E i \in 1..Len(q) : q[i] = c)
                 => \E i \in 1..Len(Append(q, d)) : Append(q, d)[i] = c
           /\ q # <<>> /\ Head(q) # c /\ (\E i \in 1..Len(q) : q[i] = c)
                 => \E i \in 1..Len(Tail(q)) : Tail(q)[i] = c
  <1>1. /\ Len(q) \in Nat /\ Len(Append(q, d)) = Len(q) + 1
        /\ Append(q, d)[Len(q) + 1] = d
        /\ \A i \in 1..Len(q) : Append(q, d)[i] = q[i]
    BY LenProperties, AppendProperties
  <1>2. ASSUME q # <<>>, Head(q) # c, NEW i \in 1..Len(q), q[i] = c
        PROVE  \E j \in 1..Len(Tail(q)) : Tail(q)[j] = c
    <2>1. /\ Head(q) = q[1] /\ Len(Tail(q)) = Len(q) - 1
          /\ \A j \in 1..Len(Tail(q)) : Tail(q)[j] = q[j + 1]
      BY <1>2, HeadTailProperties
    <2>2. i - 1 \in 1..Len(Tail(q))
      BY <1>1, <1>2, <2>1
    <2>3. Tail(q)[i - 1] = c
      BY <1>2, <2>1, <2>2
    <2> QED
      BY <2>2, <2>3
  <1> QED
    BY <1>1, <1>2

\* No step inside the provisioner spoils the types or overruns the queue.
LEMMA StackTypes ==
    ASSUME ProvisionerAssumption, StackTypeOK, StackStep
    PROVE  StackTypeOK'
  <1> DEFINE Commands == {"params", "start", "stop", "complete"}
  <1>1. /\ queue \in Seq(Commands) /\ Len(queue) <= MaxQueue /\ Len(queue) \in Nat
        /\ kind \in Kinds /\ stackUp \in BOOLEAN /\ scanning \in BOOLEAN
        /\ radio \in BOOLEAN /\ mishap \in BOOLEAN
        /\ MaxQueue \in Nat \ {0}
    BY LenProperties DEF StackTypeOK, ProvisionerAssumption
  <1>2. ASSUME NEW c \in Commands, Request(c)
        PROVE  StackTypeOK'
    <2>1. Append(queue, c) \in Seq(Commands) /\ Len(Append(queue, c)) = Len(queue) + 1
      BY <1>1, QueueLengths
    <2> QED
      BY <1>1, <1>2, <2>1 DEF Request, StackTypeOK
  <1>3. ASSUME UNCHANGED queue, UNCHANGED kind,
               stackUp' \in BOOLEAN, scanning' \in BOOLEAN, radio' \in BOOLEAN,
               mishap' \in BOOLEAN
        PROVE  StackTypeOK'
    BY <1>1, <1>3 DEF StackTypeOK
  <1>4. StartLeftOut => StackTypeOK'
    BY <1>1, <1>3, Zenon DEF StartLeftOut
  <1>5. Refused \/ UNCHANGED stackVars => StackTypeOK'
    BY <1>1, <1>3, Zenon DEF Refused, stackVars
  <1>6. CASE BluedroidStart \/ BluedroidStop
    BY <1>2, <1>4, <1>5, <1>6, Zenon DEF BluedroidStart, BluedroidStop, NothingToDo
  <1>7. CASE NimbleDisc \/ NimbleDiscRefused \/ NimbleCancel
             \/ NimbleStore(TRUE) \/ NimbleStore(FALSE)
    BY <1>1, <1>3, <1>7, Zenon DEF NimbleDisc, NimbleDiscRefused, NimbleCancel,
                                   NimbleStore, RadioOn
  <1>8. CASE StackEvent
    <2>1. queue # <<>>
      BY <1>8 DEF StackEvent, ParamsComplete, StartComplete, StopComplete, DiscComplete,
                  Completes
    <2>2. Tail(queue) \in Seq(Commands) /\ Len(Tail(queue)) = Len(queue) - 1
      BY <1>1, <2>1, QueueLengths
    <2>3. /\ Append(Tail(queue), "start") \in Seq(Commands)
          /\ Len(Append(Tail(queue), "start")) = Len(queue)
      BY <1>1, <2>2, QueueLengths
    <2>4. queue' \in Seq(Commands) /\ Len(queue') <= MaxQueue /\ kind' \in Kinds
      BY <1>1, <1>8, <2>2, <2>3
         DEF StackEvent, ParamsComplete, StartComplete, StopComplete, DiscComplete
    <2>5. stackUp' \in BOOLEAN /\ scanning' \in BOOLEAN /\ radio' \in BOOLEAN
          /\ mishap' \in BOOLEAN
      BY <1>1, <1>8, Zenon DEF StackEvent, ParamsComplete, StartComplete, StopComplete,
                               DiscComplete, RadioOn
    <2> QED
      BY <2>4, <2>5 DEF StackTypeOK
  <1>9. CASE Teardown \/ BringUp \/ BringUpFails
    BY <1>1, <1>3, <1>9, Zenon DEF Teardown, BringUp, BringUpFails
  <1>10. CASE StackDown
    <2>1. <<>> \in Seq(Commands) /\ Len(<<>>) = 0
      BY EmptySeq
    <2>2. queue' \in Seq(Commands) /\ Len(queue') <= MaxQueue /\ kind' \in Kinds
      BY <1>1, <1>10, <2>1 DEF StackDown
    <2>3. stackUp' \in BOOLEAN /\ scanning' \in BOOLEAN /\ radio' \in BOOLEAN
          /\ mishap' \in BOOLEAN
      BY <1>1, <1>10, Zenon DEF StackDown
    <2> QED
      BY <2>2, <2>3 DEF StackTypeOK
  <1>11. CASE DiscEnds
    <2>1. /\ Append(queue, "complete") \in Seq(Commands)
          /\ Len(Append(queue, "complete")) = Len(queue) + 1
      BY <1>1, QueueLengths
    <2>2. queue' \in Seq(Commands) /\ Len(queue') <= MaxQueue
      BY <1>1, <1>11, <2>1 DEF DiscEnds
    <2>3. kind' \in Kinds /\ stackUp' \in BOOLEAN /\ scanning' \in BOOLEAN
          /\ radio' \in BOOLEAN /\ mishap' \in BOOLEAN
      BY <1>1, <1>11, Zenon DEF DiscEnds
    <2> QED
      BY <2>2, <2>3 DEF StackTypeOK
  <1> QED
    BY <1>4, <1>5, <1>6, <1>7, <1>8, <1>9, <1>10, <1>11 DEF StackStep, QueueingStep, StackEvent

\* Everything but a reboot moves the provisioner by one of its own steps.
LEMMA NextIsStackStep ==
    ASSUME [Next]_vars, ~Reboot
    PROVE  StackStep
  <1> USE DEF NothingToDo
  <1>1. CASE HostTask \/ HostGivesUp \/ Hit \/ SilenceGrows \/ Stopped \/ UNCHANGED vars
    BY <1>1, Zenon DEF HostTask, StackEvent, HostGivesUp, Hit, SilenceGrows, Stopped, vars, StackStep, QueueingStep
  <1>2. CASE PrimeEnds \/ First \/ Starting \/ Loop
    BY <1>2, Zenon DEF PrimeEnds, First, Starting, Start, StartOnNimble, Disc, Flag,
                       Loop, StackStep, QueueingStep
  <1>3. CASE Watchdog
    BY <1>3, Zenon DEF Watchdog, HeardAgain, Nothing, Escalate, LastResort, StackStep, QueueingStep
  <1>4. CASE Recovery
    BY <1>4, Zenon DEF Recovery, StoppingScan, Stop, StopOnNimble, Cancel, Unflag, Delay,
                       NoReset, Reset, Down, ResetWorks, ResetFails, StackStep, QueueingStep
  <1>5. CASE Gatt
    BY <1>5, Zenon DEF Gatt, GattBegins, GattStops, GattActive, GattFails, GattCloses,
                       GattStarts, Resume, StackStep, QueueingStep
  <1>6. CASE Stopping
    BY <1>6, Zenon DEF Stopping, StopBegins, StopWaited, StopCheck, StopStops,
                       StopStopsOnNimble, StopCancels, StopUnflags, StackStep, QueueingStep
  <1> QED
    BY <1>1, <1>2, <1>3, <1>4, <1>5, <1>6 DEF Next, Step, PostTask

\* The provisioner is the one the gateway was given.
LEMMA KindStays ==
    ASSUME [Next]_vars
    PROVE  kind' = kind
  <1>1. CASE Reboot
    BY <1>1 DEF Reboot
  <1>2. CASE StackStep
    BY <1>2, Zenon
       DEF StackStep, QueueingStep, BluedroidStart, BluedroidStop, Request, StartLeftOut, Refused,
           NothingToDo, NimbleDisc, NimbleDiscRefused, NimbleCancel, NimbleStore,
           StackEvent, ParamsComplete, StartComplete, StopComplete, DiscComplete,
           DiscEnds, Teardown, StackDown, BringUp, BringUpFails, stackVars
  <1> QED
    BY <1>1, <1>2, NextIsStackStep

-----------------------------------------------------------------------------
(* The ladder.                                                             *)

LEMMA LadderInit == ASSUME WatchdogAssumption, Init PROVE LadderInv
  BY DEF Init, WatchdogAssumption, LadderInv, TaskTypes, Ladder, PlaceForOneMore, Pcs, GattPcs,
         StopPcs, CanReset

\* The steps of the POST task keep the ladder.
LEMMA LadderPostTask ==
    ASSUME WatchdogAssumption, LadderInv, PostTask, kind' = kind
    PROVE  LadderInv'
  <1> USE DEF LadderInv, TaskTypes, Ladder, PlaceForOneMore
  <1>1. CASE PrimeEnds \/ First \/ Loop \/ Nothing
    BY <1>1 DEF PrimeEnds, First, Loop, Nothing, Goes, Pcs, CanReset, stopVars, gattVars,
                watchdogVars
  <1>2. CASE HeardAgain
    BY <1>2 DEF HeardAgain, Goes, Pcs, CanReset, stopVars, gattVars
  <1>3. CASE Escalate
    <2>1. level \in 0..2 /\ level' \in 1..3 /\ tried' = 1..level'
      BY <1>3 DEF Escalate
    <2> QED
      BY <1>3, <2>1 DEF Escalate, Goes, Pcs, CanReset, stopVars, gattVars
  <1>4. CASE LastResort
    BY <1>4 DEF LastResort, Goes, Pcs, CanReset, stopVars, gattVars
  <1>5. CASE Delay \/ NoReset \/ Reset \/ Down \/ ResetFails
    BY <1>5 DEF Delay, NoReset, Reset, Down, ResetFails, Goes, Pcs, CanReset, stopVars,
                gattVars, watchdogVars
  <1>6. CASE ResetWorks
    BY <1>6 DEF ResetWorks, Goes, Pcs, CanReset, stopVars, gattVars
  <1>7. CASE Reboot
    BY <1>7 DEF Reboot, WatchdogAssumption, Pcs, GattPcs, StopPcs, CanReset
  <1>8. CASE Starting
    <2>1. /\ pc \in {"start", "disc", "flag"} /\ pc' \in {"loop", "disc", "flag"}
          /\ UNCHANGED <<stopVars, gattVars, watchdogVars>>
      BY <1>8 DEF Starting, Start, StartOnNimble, Disc, Flag, Goes
    <2> QED
      BY <2>1 DEF Pcs, CanReset, stopVars, gattVars, watchdogVars
  <1>9. CASE StoppingScan
    <2>1. /\ pc \in {"stop", "cancel", "unflag"} /\ pc' \in {"delay", "cancel", "unflag"}
          /\ UNCHANGED <<stopVars, gattVars, watchdogVars>>
      BY <1>9 DEF StoppingScan, Stop, StopOnNimble, Cancel, Unflag, Goes
    <2> QED
      BY <2>1 DEF Pcs, CanReset, stopVars, gattVars, watchdogVars
  <1> QED
    BY <1>1, <1>2, <1>3, <1>4, <1>5, <1>6, <1>7, <1>8, <1>9
       DEF PostTask, Watchdog, Recovery

\* And so does everyone else, who leaves it alone.
LEMMA LadderOthers ==
    ASSUME WatchdogAssumption, LadderInv, [Next]_vars, ~PostTask, kind' = kind
    PROVE  LadderInv'
  <1> USE DEF LadderInv, TaskTypes, Ladder, PlaceForOneMore, CanReset
  <1>1. CASE HostTask \/ HostGivesUp \/ Hit \/ SilenceGrows \/ Stopped \/ UNCHANGED vars
    BY <1>1 DEF HostTask, HostGivesUp, Hit, SilenceGrows, Stopped, vars,
                stopVars, gattVars, watchdogVars
  <1>2. CASE Gatt
    <2>1. gattPc' \in GattPcs
      BY <1>2 DEF Gatt, GattBegins, GattStops, GattActive, GattFails, GattCloses,
                  GattStarts, Resume, GattStep, GattPcs
    <2>2. active' \in 0..MaxSessions /\ PlaceForOneMore'
      <3>1. active \in Int /\ MaxSessions \in Nat /\ 0 <= active /\ active <= MaxSessions
        BY DEF WatchdogAssumption
      <3>2. CASE GattBegins
        BY <3>1, <3>2 DEF GattBegins, GattStep
      <3>3. CASE GattStops \/ GattFails \/ GattStarts
        BY <3>1, <3>3 DEF GattStops, GattFails, GattStarts, GattStep, Resume
      <3>4. CASE GattActive
        BY <3>1, <3>4 DEF GattActive, GattStep, Resume
      <3>5. CASE GattCloses
        BY <3>1, <3>5 DEF GattCloses, GattStep, Resume
      <3> QED
        BY <1>2, <3>2, <3>3, <3>4, <3>5 DEF Gatt
    <2>3. UNCHANGED <<stopVars, pc, watchdogVars>>
      BY <1>2 DEF Gatt, GattBegins, GattStops, GattActive, GattFails, GattCloses,
                  GattStarts, Resume, GattStep
    <2> QED
      BY <2>1, <2>2, <2>3 DEF stopVars, watchdogVars
  <1>3. CASE Stopping
    <2>1. stopPc' \in StopPcs /\ UNCHANGED <<pc, watchdogVars, gattVars>>
      BY <1>3 DEF Stopping, StopBegins, StopWaited, StopCheck, StopStops,
                  StopStopsOnNimble, StopCancels, StopUnflags, StopStep, StopPcs
    <2> QED
      BY <2>1 DEF gattVars, watchdogVars
  <1> QED
    BY <1>1, <1>2, <1>3 DEF Next, Step

LEMMA LadderStep ==
    ASSUME WatchdogAssumption, LadderInv, [Next]_vars
    PROVE  LadderInv'
  BY LadderPostTask, LadderOthers, KindStays

THEOREM LadderAlways == Spec => []LadderInv
  <1>1. Init => LadderInv
    BY LadderInit, WatchdogAssumption
  <1>2. LadderInv /\ [Next]_vars => LadderInv'
    BY LadderStep, WatchdogAssumption
  <1> QED
    BY <1>1, <1>2, PTL DEF Spec

\* A reboot comes only after levels 1, 2 and 3 have been tried in one silence,
\* and only where a controller reset has worked (post_task_loop).
THEOREM RebootIsLastAlways == Spec => []RebootIsLast
  <1>1. LadderInv => RebootIsLast
    BY DEF LadderInv, TaskTypes, Ladder, RebootIsLast
  <1> QED
    BY <1>1, LadderAlways, PTL

-----------------------------------------------------------------------------
(* Types.                                                                  *)

LEMMA FlagsStep ==
    ASSUME FlagTypes, [Next]_vars
    PROVE  FlagTypes'
  <1> USE DEF FlagTypes, stopVars, gattVars, watchdogVars
  <1>1. CASE HostTask \/ HostGivesUp \/ Hit \/ SilenceGrows
    BY <1>1, Zenon DEF HostTask, HostGivesUp, Hit, SilenceGrows
  <1>2. CASE PrimeEnds \/ First \/ Starting \/ Loop \/ Nothing
    BY <1>2, Zenon DEF PrimeEnds, First, Starting, Start, StartOnNimble, Disc, Flag,
                             Loop, Nothing, Goes
  <1>3. CASE HeardAgain \/ Escalate \/ LastResort
    BY <1>3, Zenon DEF HeardAgain, Escalate, LastResort, Goes
  <1>4. CASE Recovery
    BY <1>4, Zenon DEF Recovery, StoppingScan, Stop, StopOnNimble, Cancel, Unflag,
                             Delay, NoReset, Reset, Down, ResetWorks, ResetFails, Goes
  <1>5. CASE Reboot
    BY <1>5, Zenon DEF Reboot
  <1>6. CASE Gatt
    BY <1>6 DEF Gatt, GattBegins, GattStops, GattActive, GattFails, GattCloses,
                      GattStarts, Resume, GattStep
  <1>7. CASE Stopping
    BY <1>7, Zenon DEF Stopping, StopBegins, StopWaited, StopCheck, StopStops,
                             StopStopsOnNimble, StopCancels, StopUnflags, StopStep
  <1>8. CASE Stopped \/ UNCHANGED vars
    BY <1>8 DEF Stopped, vars
  <1> QED
    BY <1>1, <1>2, <1>3, <1>4, <1>5, <1>6, <1>7, <1>8 DEF Next, Step, PostTask, Watchdog

\* The scanner and everyone who drives it keep their types, and the host
\* task's queue its bound.
THEOREM TypeCorrect == Spec => []TypeOK
  <1>1. 0 <= MaxQueue /\ <<>> \in Seq({"params", "start", "stop", "complete"}) /\ Len(<<>>) = 0
    BY ProvisionerAssumption, EmptySeq DEF ProvisionerAssumption
  <1>2. Init => StackTypeOK
    BY <1>1 DEF Init, StackInit, StackTypeOK
  <1>3. StackTypeOK /\ [Next]_vars => StackTypeOK'
    <2> SUFFICES ASSUME StackTypeOK, [Next]_vars
                 PROVE  StackTypeOK'
      OBVIOUS
    <2>1. CASE Reboot
      BY <1>1, <2>1 DEF Reboot, StackTypeOK
    <2>2. CASE ~Reboot
      BY <2>2, NextIsStackStep, StackTypes, ProvisionerAssumption
    <2> QED
      BY <2>1, <2>2
  <1>4. Init => FlagTypes
    BY DEF Init, FlagTypes
  <1>5. FlagTypes /\ [Next]_vars => FlagTypes'
    BY FlagsStep
  <1>6. Init => SlippedType
    BY DEF Init, SlippedType
  <1>7. SlippedType /\ [Next]_vars => SlippedType'
    BY DEF Next, Slips, vars, SlippedType
  <1>8. StackTypeOK /\ FlagTypes /\ SlippedType /\ LadderInv => TypeOK
    BY DEF LadderInv, TaskTypes, FlagTypes, SlippedType, TypeOK
  <1> QED
    BY <1>2, <1>3, <1>4, <1>5, <1>6, <1>7, <1>8, LadderAlways, PTL DEF Spec

-----------------------------------------------------------------------------
(* The flag and the radio.                                                 *)

\* What the flag's honesty rests on: NimBLE's start_scan() is between a call
\* that started the scan and its store, and a stack that is being torn down has
\* had its flag cleared.
HonestInv ==
    /\ FlagIsHonest
    /\ pc = "flag" => radio \/ slipped
    /\ pc = "down" => ~stackUp /\ (scanning => slipped)

\* The end of a NimBLE scan remains to be told until the handler is told it, or
\* the stack is torn down.
LEMMA EndStaysUntold ==
    ASSUME StackTypeOK, QueueingStep
    PROVE  /\ DiscEnds => EndUntold'
           /\ EndUntold => EndUntold'
  <1> DEFINE Commands == {"params", "start", "stop", "complete"}
  <1> USE DEF EndUntold, OnItsWay
  <1>1. queue \in Seq(Commands)
    BY DEF StackTypeOK
  <1>2. ASSUME NEW c \in Commands, queue' = Append(queue, c), EndUntold
        PROVE  EndUntold'
    BY <1>1, <1>2, QueueMembers
  <1>3. DiscEnds => EndUntold'
    BY <1>1, QueueMembers DEF DiscEnds
  <1>4. ASSUME UNCHANGED queue, EndUntold
        PROVE  EndUntold'
    BY <1>4
  <1>5. ASSUME EndUntold, ParamsComplete \/ StartComplete \/ StopComplete
        PROVE  EndUntold'
    <2>1. queue # <<>> /\ Head(queue) # "complete"
      BY <1>5 DEF ParamsComplete, StartComplete, StopComplete, Completes
    <2>2. Tail(queue) \in Seq(Commands)
      BY <1>1, <2>1, QueueLengths
    <2>3. \E i \in 1..Len(Tail(queue)) : Tail(queue)[i] = "complete"
      <3>1. /\ "start" \in Commands /\ "complete" \in Commands
            /\ \E i \in 1..Len(queue) : queue[i] = "complete"
        BY <1>5
      <3> HIDE DEF Commands
      <3> QED
        BY <1>1, <2>1, <3>1, QueueMembers
    <2>4. queue' = Tail(queue) \/ queue' = Append(Tail(queue), "start")
      BY <1>5 DEF ParamsComplete, StartComplete, StopComplete
    <2>5. \E i \in 1..Len(Append(Tail(queue), "start")) :
            Append(Tail(queue), "start")[i] = "complete"
      BY <2>2, <2>3, QueueMembers
    <2> QED
      BY <2>3, <2>4, <2>5
  <1>6. ASSUME EndUntold, BluedroidStart \/ BluedroidStop
        PROVE  EndUntold'
    <2>1. (\E c \in Commands : queue' = Append(queue, c)) \/ UNCHANGED queue
      BY <1>6 DEF BluedroidStart, BluedroidStop, Request, Refused, StartLeftOut,
                  NothingToDo, stackVars
    <2> QED
      BY <1>2, <1>4, <1>6, <2>1
  <1>7. \/ DiscEnds
        \/ ParamsComplete \/ StartComplete \/ StopComplete
        \/ BluedroidStart \/ BluedroidStop
        \/ UNCHANGED queue
    BY DEF QueueingStep, StartLeftOut, Refused, NimbleDisc, NimbleDiscRefused,
           NimbleCancel, NimbleStore, Teardown, BringUp, BringUpFails, stackVars
  <1> HIDE DEF EndUntold
  <1> QED
    BY <1>3, <1>4, <1>5, <1>6, <1>7

\* The host task and the sessions.
LEMMA HonestOthers ==
    ASSUME HonestInv, Slips, StackTypeOK,
           HostTask \/ HostGivesUp \/ Hit \/ SilenceGrows \/ Gatt \/ Stopped
    PROVE  HonestInv'
  <1>1. UNCHANGED <<pc, stopPc>>
    BY DEF HostTask, HostGivesUp, Hit, SilenceGrows, Stopped, Gatt, GattBegins, GattStops,
           GattActive, GattFails, GattCloses, GattStarts, Resume, GattStep, stopVars, vars
  <1>2. ASSUME stackUp' = stackUp, scanning' = scanning, radio' = radio, QueueingStep
        PROVE  HonestInv'
    BY <1>1, <1>2, EndStaysUntold, Zenon DEF HonestInv, FlagIsHonest, Slips
  <1>3. CASE Gatt \/ Hit \/ SilenceGrows \/ Stopped
    <2>1. stackUp' = stackUp /\ scanning' = scanning /\ radio' = radio
      BY <1>3, Zenon
         DEF Hit, SilenceGrows, Stopped, Gatt, GattBegins, GattStops, GattActive,
             GattFails, GattCloses, GattStarts, Resume, BluedroidStart, BluedroidStop,
             Request, StartLeftOut, Refused, NothingToDo, stackVars, vars
    <2>2. QueueingStep
      BY <1>3, Zenon
         DEF Hit, SilenceGrows, Stopped, Gatt, GattBegins, GattStops, GattActive,
             GattFails, GattCloses, GattStarts, Resume, NothingToDo, vars, QueueingStep
    <2> QED
      BY <1>2, <2>1, <2>2
  <1>4. CASE HostTask \/ HostGivesUp
    <2>1. \/ ParamsComplete \/ StartComplete \/ StopComplete \/ DiscComplete
          \/ DiscEnds
      BY <1>4, Zenon DEF HostTask, HostGivesUp, StackEvent
    <2>2. CASE ParamsComplete
      BY <1>2, <2>2, Zenon DEF ParamsComplete, QueueingStep
    <2>3. CASE StartComplete
      <3>1. CASE RadioOn /\ scanning' = TRUE
        <4>1. pc = "down" => slipped'
          BY <1>1, <2>3, <3>1 DEF StartComplete, HonestInv, Slips
        <4> QED
          BY <1>1, <2>3, <3>1, <4>1, Zenon
             DEF StartComplete, RadioOn, HonestInv, FlagIsHonest
      <3>2. CASE UNCHANGED <<radio, scanning>>
        <4>1. stackUp' = stackUp /\ scanning' = scanning /\ radio' = radio
          BY <2>3, <3>2 DEF StartComplete
        <4> QED
          BY <1>2, <2>3, <4>1 DEF QueueingStep
      <3> QED
        BY <2>3, <3>1, <3>2, Zenon DEF StartComplete
    <2>4. CASE StopComplete
      BY <1>1, <2>4, Zenon DEF StopComplete, HonestInv, FlagIsHonest, Slips
    <2>5. CASE DiscComplete
      BY <1>1, <2>5, Zenon DEF DiscComplete, HonestInv, FlagIsHonest, Slips
    <2>6. CASE DiscEnds
      <3>1. EndUntold'
        BY <2>6, EndStaysUntold DEF QueueingStep
      <3> QED
        BY <1>1, <2>6, <3>1, Zenon DEF DiscEnds, HonestInv, FlagIsHonest, Slips
    <2> QED
      BY <2>1, <2>2, <2>3, <2>4, <2>5, <2>6
  <1> QED
    BY <1>3, <1>4

\* The POST task.
LEMMA HonestPostTask ==
    ASSUME HonestInv, Slips, StackTypeOK, PostTask
    PROVE  HonestInv'
  <1>1. CASE Down
    BY <1>1 DEF Down, StackDown, HonestInv, FlagIsHonest, Slips, Goes, stopVars
  <1>2. CASE Reboot
    BY <1>2 DEF Reboot, HonestInv, FlagIsHonest
  <1>3. CASE ~Down /\ ~Reboot
    <2>1. QueueingStep
      BY <1>3, Zenon
         DEF PostTask, PrimeEnds, First, Starting, Start, StartOnNimble, Disc, Flag, Loop,
             Watchdog, HeardAgain, Nothing, Escalate, LastResort, Recovery, StoppingScan,
             Stop, StopOnNimble, Cancel, Unflag, Delay, NoReset, Reset, ResetWorks,
             ResetFails, NothingToDo, QueueingStep
    <2>2. EndUntold => EndUntold'
      BY <2>1, EndStaysUntold
    <2> USE DEF HonestInv, FlagIsHonest, Slips, Goes, NothingToDo, stackVars, stopVars
    <2>3. CASE PrimeEnds \/ First \/ Loop \/ Watchdog \/ Delay \/ NoReset
      BY <2>2, <2>3 DEF PrimeEnds, First, Loop, Watchdog, HeardAgain, Nothing, Escalate,
                        LastResort, Delay, NoReset
    <2>4. CASE Start
      BY <2>2, <2>4 DEF Start, BluedroidStart, Request, StartLeftOut, Refused
    <2>5. CASE StartOnNimble \/ Disc \/ Flag
      BY <2>2, <2>5 DEF StartOnNimble, Disc, Flag, NimbleDisc, NimbleDiscRefused,
                        NimbleStore, RadioOn
    <2>6. CASE Stop
      BY <2>2, <2>6 DEF Stop, BluedroidStop, Request, Refused
    <2>7. CASE StopOnNimble \/ Cancel \/ Unflag
      BY <2>2, <2>7 DEF StopOnNimble, Cancel, Unflag, NimbleCancel, NimbleStore, Refused
    <2>8. CASE Reset \/ ResetWorks \/ ResetFails
      BY <2>2, <2>8 DEF Reset, ResetWorks, ResetFails, Teardown, BringUp, BringUpFails
    <2> QED
      BY <1>3, <2>3, <2>4, <2>5, <2>6, <2>7, <2>8
         DEF PostTask, Starting, Recovery, StoppingScan
  <1> QED
    BY <1>1, <1>2, <1>3

\* stop().
LEMMA HonestStopping ==
    ASSUME HonestInv, Slips, StackTypeOK, Stopping
    PROVE  HonestInv'
  <1>1. QueueingStep
    BY Zenon DEF Stopping, StopBegins, StopWaited, StopCheck, StopStops,
                 StopStopsOnNimble, StopCancels, StopUnflags, NothingToDo, QueueingStep
  <1>2. EndUntold => EndUntold'
    BY <1>1, EndStaysUntold
  <1> USE DEF HonestInv, FlagIsHonest, Slips, StopStep, NothingToDo, stackVars
  <1>3. CASE StopBegins \/ StopWaited \/ StopCheck \/ StopStopsOnNimble
    BY <1>2, <1>3 DEF StopBegins, StopWaited, StopCheck, StopStopsOnNimble
  <1>4. CASE StopStops
    BY <1>2, <1>4 DEF StopStops, BluedroidStop, Request, Refused
  <1>5. CASE StopCancels \/ StopUnflags
    BY <1>2, <1>5 DEF StopCancels, StopUnflags, NimbleCancel, NimbleStore, Refused
  <1> QED
    BY <1>3, <1>4, <1>5 DEF Stopping

\* On every provisioner is_scanning() claims no scan that the host does not
\* run, but for the moments FlagIsHonest names: whatever the stack
\* refuses, however late its events are, and whether a controller reset works
\* (handle_gap_event, gap_event_handler, start_scan and stop_scan of NimBLE,
\* teardown_bluedroid).
THEOREM FlagIsHonestAlways == Spec => []FlagIsHonest
  <1>1. Init => HonestInv
    BY DEF Init, StackInit, HonestInv, FlagIsHonest
  <1>2. HonestInv /\ TypeOK /\ [Next]_vars => HonestInv'
    <2> SUFFICES ASSUME HonestInv, StackTypeOK, [Next]_vars
                 PROVE  HonestInv'
      BY DEF TypeOK
    <2>1. CASE UNCHANGED vars
      BY <2>1 DEF vars, stackVars, stopVars, HonestInv, FlagIsHonest, EndUntold, OnItsWay
    <2>2. CASE Next
      BY <2>2, HonestOthers, HonestPostTask, HonestStopping DEF Next, Step
    <2> QED
      BY <2>1, <2>2
  <1>3. HonestInv => FlagIsHonest
    BY DEF HonestInv
  <1> QED
    BY <1>1, <1>2, <1>3, TypeCorrect, PTL DEF Spec

-----------------------------------------------------------------------------
(* stop() on NimBLE.                                                       *)

\* What makes stop() final there: no session will resume the scan, unless
\* stop() gave up waiting the task that could start it has exited before the
\* flag is looked at, and without a mishap the flag claims every scan.
QuietInv ==
    kind = "nimble" =>
        /\ queue \in Seq({"complete"})
        /\ ~outwaited =>
            (stopPc \in {"check", "stop", "cancel", "unflag", "done"} => pc = "exited")
        /\ ~outwaited /\ ~mishap =>
            /\ radio => scanning \/ pc = "flag"
            /\ "unflag" \in {pc, stopPc} => ~radio
            /\ stopPc = "done" => ~scanning

LEMMA QuietStep ==
    ASSUME LadderInv, QuietInv, [Next]_vars
    PROVE  QuietInv'
  <1> SUFFICES ASSUME kind' = "nimble"
               PROVE  QuietInv'
    BY DEF QuietInv
  <1>1. kind = "nimble" /\ ~CanReset
    BY KindStays DEF CanReset
  <1>2. ~Gatt /\ ~Start /\ ~Stop /\ ~StopStops
    BY <1>1 DEF Gatt, GattBegins, GattStops, GattActive, GattFails, GattCloses,
                GattStarts, Resume, GattStep, LadderInv, TaskTypes, PlaceForOneMore,
                Start, Stop, StopStops
  <1>3. ~ParamsComplete /\ ~StartComplete /\ ~StopComplete
    <2>1. queue # <<>> => Head(queue) = "complete"
      BY <1>1, HeadTailProperties DEF QuietInv
    <2> QED
      BY <2>1 DEF ParamsComplete, StartComplete, StopComplete, Completes
  <1>12. ~Reset /\ ~Down /\ ~ResetWorks /\ ~ResetFails
    BY <1>1 DEF Reset, Down, ResetWorks, ResetFails, Goes, LadderInv, Ladder
  <1> USE DEF QuietInv, NothingToDo, stackVars, stopVars
  <1>4. CASE HostTask \/ HostGivesUp \/ Hit \/ SilenceGrows \/ Stopped \/ UNCHANGED vars
    <2>1. CASE HostGivesUp
      <3>1. Append(queue, "complete") \in Seq({"complete"})
        BY <1>1, QueueLengths
      <3> QED
        BY <1>1, <2>1, <3>1 DEF HostGivesUp, DiscEnds
    <2>3. CASE DiscComplete /\ HostTask
      <3>1. Tail(queue) \in Seq({"complete"})
        BY <1>1, <2>3, QueueLengths DEF DiscComplete, Completes
      <3> QED
        BY <1>1, <2>3, <3>1 DEF HostTask, DiscComplete
    <2>2. CASE Hit \/ SilenceGrows \/ Stopped \/ UNCHANGED vars
      BY <1>1, <2>2 DEF Hit, SilenceGrows, Stopped, vars
    <2> QED
      BY <1>3, <1>4, <2>1, <2>2, <2>3 DEF HostTask, StackEvent
  <1>5. CASE PrimeEnds \/ First \/ Loop \/ Watchdog \/ Delay \/ NoReset
    BY <1>1, <1>5 DEF PrimeEnds, First, Loop, Watchdog, HeardAgain, Nothing,
                Escalate, LastResort, Delay, NoReset, Goes
  <1>6. CASE StartOnNimble \/ Flag
    BY <1>1, <1>6 DEF StartOnNimble, Flag, NimbleStore, Goes
  <1>7. CASE Disc
    BY <1>1, <1>7 DEF Disc, NimbleDisc, NimbleDiscRefused, RadioOn, Goes
  <1>8. CASE StopOnNimble \/ Cancel \/ Unflag
    BY <1>1, <1>8 DEF StopOnNimble, Cancel, Unflag, NimbleCancel, NimbleStore, Refused,
                Goes
  <1>9. CASE Reboot
    BY <1>9 DEF Reboot
  <1>10. CASE StopBegins \/ StopWaited \/ StopCheck \/ StopStopsOnNimble
    BY <1>1, <1>10 DEF StopBegins, StopWaited, StopCheck, StopStopsOnNimble, StopStep
  <1>11. CASE StopCancels \/ StopUnflags
    BY <1>1, <1>11 DEF StopCancels, StopUnflags, NimbleCancel, NimbleStore, Refused,
                StopStep
  <1> QED
    BY <1>2, <1>3, <1>4, <1>5, <1>6, <1>7, <1>8, <1>9, <1>10, <1>11, <1>12
       DEF Next, Step, PostTask, Starting, Recovery, StoppingScan, Stopping

\* On NimBLE the radio is off behind stop(), whatever the host refuses at other
\* times, unless stop() gave up waiting for the POST task or the last thing the
\* host did was to refuse (stop, stop_scan).
THEOREM QuietBehindStop == Spec => []StopIsFinalOnNimble
  <1>1. Init => QuietInv
    BY EmptySeq DEF Init, StackInit, QuietInv
  <1>2. LadderInv /\ QuietInv /\ [Next]_vars => QuietInv'
    BY QuietStep
  <1>3. QuietInv => StopIsFinalOnNimble
    BY DEF QuietInv, StopIsFinalOnNimble, NoRadioBehindStop
  <1> QED
    BY <1>1, <1>2, <1>3, LadderAlways, PTL DEF Spec
=============================================================================
