------------------------ MODULE AdvertisementBuffer ------------------------
(***************************************************************************)
(* The pending-advertisement buffer of BLESignalKGateway, between the two  *)
(* threads that use it:                                                    *)
(*                                                                         *)
(*   - the GAP callback (the Bluetooth host task), which runs              *)
(*     on_advertisement() for each advertisement the scanner emits, must   *)
(*     never wait and must never grow the element array;                   *)
(*   - the POST task, which runs post_pending_advertisements(): it swaps   *)
(*     the buffer out under pending_ads_mutex_, frees the batch once it is *)
(*     serialized, restores the full reservation and then sends.           *)
(*                                                                         *)
(* A thread's step is a stretch of code that the other thread cannot see   *)
(* inside: taking the mutex, the critical section up to the give, or a     *)
(* stretch that touches no shared state but atomic counters.  An           *)
(* advertisement is its position in the order of reception; its payload    *)
(* is left out.  Capacities are numbers of elements of the std::vector.    *)
(* A definition marked "Mutant" is a planted fault that no action uses.    *)
(***************************************************************************)
EXTENDS Naturals, Sequences

CONSTANTS
    Sizes,          \* the values of Config::max_pending_ads to consider
    DrainWindow,    \* kDrainWindowReserve
    MaxReceived     \* bound: the number of advertisements a behaviour hears

ASSUME BufferAssumption ==
    /\ Sizes \subseteq Nat
    /\ DrainWindow \in Nat \ {0}
    /\ MaxReceived \in Nat

VARIABLES
    maxPending,     \* Config::max_pending_ads of this gateway; never changes
    started,        \* started_
    pending,        \* pending_ads_, oldest first
    cap,            \* pending_ads_.capacity()
    mutex,          \* who holds pending_ads_mutex_: "free", "gap" or "post"
    gapPc,          \* where the GAP callback is in on_advertisement()
    postPc,         \* where the POST task is in post_pending_advertisements()
    batch,          \* the advertisements the current cycle answers for; once
                    \* to_post is freed only their number, batch_size, is left
    batchCap,       \* to_post.capacity(), 0 when it has no element array
    allowEmpty,     \* the allow_empty argument of the current cycle
    backoff,        \* post_backoff_ms_ > 0
    received, posted, dropped,        \* adv_received_count_ and so on
    noMemory, bufferFull, undelivered \* adv_dropped_no_memory_ and so on

lifeVars  == <<maxPending, started>>
bufVars   == <<pending, cap, mutex>>
batchVars == <<batch, batchCap, allowEmpty, backoff>>
counters  == <<received, posted, dropped, noMemory, bufferFull, undelivered>>
vars == <<maxPending, started, pending, cap, mutex, gapPc, postPc, batch, batchCap,
          allowEmpty, backoff, received, posted, dropped, noMemory,
          bufferFull, undelivered>>

GapPcs  == {"idle", "admit", "lock", "push"}
PostPcs == {"idle", "drain", "swap", "decide", "restore", "reserve", "send",
            "restoreLast", "reserveLast"}

Least(a, b) == IF a < b THEN a ELSE b
Largest(a, b) == IF a < b THEN b ELSE a

-----------------------------------------------------------------------------
(* The std::vector operations the two threads use.                         *)

\* capacity() after push_back on a vector of this size and capacity: the
\* element array doubles when it is full.
GrownCap(size, capacity) ==
    IF size < capacity THEN capacity
    ELSE IF capacity = 0 THEN 1 ELSE 2 * capacity

\* capacity() after reserve(n): never shrinks.
ReservedCap(capacity, n) == Largest(capacity, n)

\* Mutant: trims at the configured maximum only.
RoomIgnoresReservation == maxPending

\* How many advertisements the buffer may hold now: what is reserved, and
\* never more than the configured maximum.
Room == Least(cap, maxPending)

\* Mutant: a full buffer is not trimmed.
EvictedNone == 0

\* The number of oldest advertisements a push drops first: enough to keep
\* half of the room when the buffer is full, none otherwise.
Evicted == IF Len(pending) >= Room THEN Len(pending) - Room \div 2 ELSE 0

\* What the window between the drain and the restore is reserved for.
WindowReserve == Least(maxPending, DrainWindow)

-----------------------------------------------------------------------------
Init ==
    /\ maxPending \in Sizes
    /\ started = FALSE
    /\ pending = <<>>
    /\ cap = ReservedCap(0, maxPending)
    /\ mutex = "free"
    /\ gapPc = "idle"
    /\ postPc = "idle"
    /\ batch = <<>>
    /\ batchCap = 0
    /\ allowEmpty = FALSE
    /\ backoff = FALSE
    /\ received = 0
    /\ posted = 0
    /\ dropped = 0
    /\ noMemory = 0
    /\ bufferFull = 0
    /\ undelivered = 0

-----------------------------------------------------------------------------
(* start() and stop(), as far as the callback can tell: the exchange of    *)
(* started_.  The POST task's own life is not in this module: a task that  *)
(* has ended is one that takes no further step from "idle".                *)

Start ==
    /\ ~started
    /\ started' = TRUE
    /\ UNCHANGED <<maxPending, gapPc, postPc, bufVars, batchVars, counters>>

Stop ==
    /\ started
    /\ started' = FALSE
    /\ UNCHANGED <<maxPending, gapPc, postPc, bufVars, batchVars, counters>>

-----------------------------------------------------------------------------
(* on_advertisement(), on the Bluetooth host task.                         *)

Receive ==
    /\ gapPc = "idle"
    /\ started
    /\ received < MaxReceived
    /\ received' = received + 1
    /\ gapPc' = "admit"
    /\ UNCHANGED <<lifeVars, bufVars, postPc, batchVars, posted, dropped,
                   noMemory, bufferFull, undelivered>>

\* The heap's largest free block is below min_largest_free_block.
DeclineNoMemory ==
    /\ gapPc = "admit"
    /\ dropped' = dropped + 1
    /\ noMemory' = noMemory + 1
    /\ gapPc' = "idle"
    /\ UNCHANGED <<lifeVars, bufVars, postPc, batchVars, received, posted,
                   bufferFull, undelivered>>

\* A zero-length buffer means buffer nothing.
DeclineNoBuffer ==
    /\ gapPc = "admit"
    /\ maxPending = 0
    /\ dropped' = dropped + 1
    /\ bufferFull' = bufferFull + 1
    /\ gapPc' = "idle"
    /\ UNCHANGED <<lifeVars, bufVars, postPc, batchVars, received, posted,
                   noMemory, undelivered>>

\* Enough memory, and a buffer to put it in.
Admit ==
    /\ gapPc = "admit"
    /\ maxPending > 0
    /\ gapPc' = "lock"
    /\ UNCHANGED <<lifeVars, bufVars, postPc, batchVars, counters>>

\* Mutant: a take without a timeout.
ContendedWaits ==
    /\ FALSE
    /\ UNCHANGED vars

\* Mutant: the drop on a collision is not counted.
ContendedUncounted ==
    /\ gapPc = "lock"
    /\ mutex # "free"
    /\ gapPc' = "idle"
    /\ UNCHANGED <<lifeVars, bufVars, postPc, batchVars, counters>>

\* The zero-timeout take finds the mutex held: drop rather than wait.
Contended ==
    /\ gapPc = "lock"
    /\ mutex # "free"
    /\ dropped' = dropped + 1
    /\ gapPc' = "idle"
    /\ UNCHANGED <<lifeVars, bufVars, postPc, batchVars, received, posted,
                   noMemory, bufferFull, undelivered>>

TakeForPush ==
    /\ gapPc = "lock"
    /\ mutex = "free"
    /\ mutex' = "gap"
    /\ gapPc' = "push"
    /\ UNCHANGED <<lifeVars, pending, cap, postPc, batchVars, counters>>

\* Mutant: trims the wrong end.
PushDroppingNewest ==
    /\ gapPc = "push"
    /\ LET kept == SubSeq(pending, 1, Len(pending) - Evicted)
       IN  /\ pending' = Append(kept, received)
           /\ cap' = GrownCap(Len(kept), cap)
    /\ dropped' = dropped + Evicted
    /\ bufferFull' = bufferFull + Evicted
    /\ mutex' = "free"
    /\ gapPc' = "idle"
    /\ UNCHANGED <<lifeVars, postPc, batchVars, received, posted, noMemory,
                   undelivered>>

\* Under the mutex: trim a full buffer, push the newcomer, give.
Push ==
    /\ gapPc = "push"
    /\ LET kept == SubSeq(pending, Evicted + 1, Len(pending))
       IN  /\ pending' = Append(kept, received)
           /\ cap' = GrownCap(Len(kept), cap)
    /\ dropped' = dropped + Evicted
    /\ bufferFull' = bufferFull + Evicted
    /\ mutex' = "free"
    /\ gapPc' = "idle"
    /\ UNCHANGED <<lifeVars, postPc, batchVars, received, posted, noMemory,
                   undelivered>>

CallbackFinish ==
    \/ DeclineNoMemory
    \/ DeclineNoBuffer
    \/ Admit
    \/ Contended
    \/ TakeForPush
    \/ Push

GapStep == Receive \/ CallbackFinish
-----------------------------------------------------------------------------
(* post_pending_advertisements(), on the POST task.  A call that returns   *)
(* because Signal K is not connected or its address is not known changes   *)
(* nothing and is not a step.                                              *)

BeginPost ==
    /\ postPc = "idle"
    /\ postPc' = "drain"
    /\ allowEmpty' \in BOOLEAN
    /\ UNCHANGED <<lifeVars, bufVars, gapPc, batch, batchCap, backoff,
                   counters>>

TakeForDrain ==
    /\ postPc = "drain"
    /\ mutex = "free"
    /\ mutex' = "post"
    /\ postPc' = "swap"
    /\ UNCHANGED <<lifeVars, pending, cap, gapPc, batchVars, counters>>

\* The callback kept the mutex for the 200 ms the take waits.  The guard
\* object still restores the capacity on the way out.
DrainTimeout ==
    /\ postPc = "drain"
    /\ mutex = "gap"
    /\ postPc' = "restoreLast"
    /\ UNCHANGED <<lifeVars, bufVars, gapPc, batchVars, counters>>

\* Under the mutex: swap the buffer out, reserve for the window, give.
Swap ==
    /\ postPc = "swap"
    /\ batch' = pending
    /\ batchCap' = cap
    /\ pending' = <<>>
    /\ cap' = ReservedCap(0, WindowReserve)
    /\ mutex' = "free"
    /\ postPc' = "decide"
    /\ UNCHANGED <<lifeVars, gapPc, allowEmpty, backoff, counters>>

\* The function returns with an empty batch: to_post is destroyed, then the
\* guard object runs.
NothingToSend ==
    /\ postPc = "decide"
    /\ batch = <<>>
    /\ ~allowEmpty
    /\ batchCap' = 0
    /\ postPc' = "restoreLast"
    /\ UNCHANGED <<lifeVars, bufVars, gapPc, batch, allowEmpty, backoff,
                   counters>>

HasWork == batch # <<>> \/ allowEmpty

\* The batch leaves the gateway, one way or the other.
SettlePosted ==
    /\ posted' = posted + Len(batch)
    /\ batch' = <<>>
    /\ UNCHANGED <<received, dropped, noMemory, bufferFull, undelivered>>

SettleUndelivered ==
    /\ dropped' = dropped + Len(batch)
    /\ undelivered' = undelivered + Len(batch)
    /\ batch' = <<>>
    /\ UNCHANGED <<received, posted, noMemory, bufferFull>>

\* Mutant: the drop while backing off is not counted.
BackingOffForgets ==
    /\ postPc = "decide"
    /\ HasWork
    /\ backoff
    /\ batch' = <<>>
    /\ batchCap' = 0
    /\ postPc' = "restoreLast"
    /\ UNCHANGED <<lifeVars, bufVars, gapPc, allowEmpty, backoff, counters>>

\* Backing off after an HTTP status failure and the interval has not run
\* out: the batch is dropped, not kept.
BackingOff ==
    /\ postPc = "decide"
    /\ HasWork
    /\ backoff
    /\ SettleUndelivered
    /\ batchCap' = 0
    /\ postPc' = "restoreLast"
    /\ UNCHANGED <<lifeVars, bufVars, gapPc, allowEmpty, backoff>>

\* Mutant: to_post keeps its array until the function returns.
SerializeKeepingArray ==
    /\ postPc = "decide"
    /\ HasWork
    /\ postPc' = "restore"
    /\ UNCHANGED <<lifeVars, bufVars, gapPc, batchVars, counters>>

\* Not backing off, or the interval has run out.  The body is built and
\* to_post freed, so the batch has no element array from here on.
Serialize ==
    /\ postPc = "decide"
    /\ HasWork
    /\ batchCap' = 0
    /\ postPc' = "restore"
    /\ UNCHANGED <<lifeVars, bufVars, gapPc, batch, allowEmpty, backoff,
                   counters>>

\* restore_pending_capacity(), called after the serialization and again by
\* the guard object on every way out.
TakeForRestore ==
    /\ postPc \in {"restore", "restoreLast"}
    /\ mutex = "free"
    /\ mutex' = "post"
    /\ postPc' = IF postPc = "restore" THEN "reserve" ELSE "reserveLast"
    /\ UNCHANGED <<lifeVars, pending, cap, gapPc, batchVars, counters>>

RestoreTimeout ==
    /\ postPc \in {"restore", "restoreLast"}
    /\ mutex = "gap"
    /\ postPc' = IF postPc = "restore" THEN "send" ELSE "idle"
    /\ UNCHANGED <<lifeVars, bufVars, gapPc, batchVars, counters>>

\* Mutant: a return without the give.
ReserveWithoutGive ==
    /\ postPc \in {"reserve", "reserveLast"}
    /\ cap' = ReservedCap(cap, maxPending)
    /\ postPc' = IF postPc = "reserve" THEN "send" ELSE "idle"
    /\ UNCHANGED <<lifeVars, pending, mutex, gapPc, batchVars, counters>>

Reserve ==
    /\ postPc \in {"reserve", "reserveLast"}
    /\ cap' = ReservedCap(cap, maxPending)
    /\ mutex' = "free"
    /\ postPc' = IF postPc = "reserve" THEN "send" ELSE "idle"
    /\ UNCHANGED <<lifeVars, pending, gapPc, batchVars, counters>>

\* The server answered 200.
Delivered ==
    /\ postPc = "send"
    /\ backoff' = FALSE
    /\ SettlePosted
    /\ postPc' = "restoreLast"
    /\ UNCHANGED <<lifeVars, bufVars, gapPc, batchCap, allowEmpty>>

\* Mutant: a failed batch goes back behind what came since.
UndeliveredRequeues ==
    /\ postPc = "send"
    /\ pending' = pending \o batch
    /\ batch' = <<>>
    /\ postPc' = "restoreLast"
    /\ UNCHANGED <<lifeVars, cap, mutex, gapPc, batchCap, allowEmpty, backoff,
                   counters>>

\* No transport can verify the server, the client could not be made, or the
\* request failed before the server answered.
Undelivered ==
    /\ postPc = "send"
    /\ SettleUndelivered
    /\ postPc' = "restoreLast"
    /\ UNCHANGED <<lifeVars, bufVars, gapPc, batchCap, allowEmpty, backoff>>

\* The server answered with another status: slow the cadence.
Rejected ==
    /\ postPc = "send"
    /\ backoff' = TRUE
    /\ SettleUndelivered
    /\ postPc' = "restoreLast"
    /\ UNCHANGED <<lifeVars, bufVars, gapPc, batchCap, allowEmpty>>

PostStep ==
    \/ BeginPost
    \/ TakeForDrain
    \/ DrainTimeout
    \/ Swap
    \/ NothingToSend
    \/ BackingOff
    \/ Serialize
    \/ TakeForRestore
    \/ RestoreTimeout
    \/ Reserve
    \/ Delivered
    \/ Undelivered
    \/ Rejected

Next == Start \/ Stop \/ GapStep \/ PostStep

Spec == Init /\ [][Next]_vars

\* What the scheduler owes the POST task: to end a cycle it is in, and to
\* begin another only while the gateway is started, because the task leaves
\* its loop after stop().  (One more cycle may still begin after stop(): the
\* loop tests its flag before the delay, not after.)
PostDue == PostStep /\ (postPc = "idle" => started)

\* The Bluetooth host runs a callback it has begun to its end, and both
\* threads are scheduled; while the gateway is started Signal K stays
\* connected, so that the POST task keeps starting cycles.  Every wait in a
\* cycle has a timeout.
FairSpec == Spec /\ WF_vars(CallbackFinish) /\ WF_vars(PostDue)

-----------------------------------------------------------------------------
(* Properties.                                                             *)

Members(s) == {s[i] : i \in 1..Len(s)}

\* The advertisement the callback is working on.
InHand == IF gapPc = "idle" THEN {} ELSE {received}

\* What each variable may hold.
Typed ==
    /\ maxPending \in Sizes
    /\ started \in BOOLEAN
    /\ pending \in Seq(Nat)
    /\ cap \in Nat
    /\ mutex \in {"free", "gap", "post"}
    /\ gapPc \in GapPcs
    /\ postPc \in PostPcs
    /\ batch \in Seq(Nat)
    /\ batchCap \in Nat
    /\ allowEmpty \in BOOLEAN
    /\ backoff \in BOOLEAN
    /\ received \in Nat
    /\ posted \in Nat
    /\ dropped \in Nat
    /\ noMemory \in Nat
    /\ bufferFull \in Nat
    /\ undelivered \in Nat

\* The buffer holds no more than what is reserved for it and no more than
\* max_pending_ads, in the drain window too.
BufferBounded == Len(pending) <= Least(cap, maxPending)

\* Every variable has its type, and the buffer never outgrows the array that
\* is reserved for it: the callback trims before it pushes, in the drain
\* window too.
TypeOK == Typed /\ BufferBounded

\* No advertisement is lost from the books or counted twice, whichever way
\* the two threads interleave: what advertisements_received() reports is
\* what was posted, what was dropped, and what a buffer or a thread still
\* has; and the reasons given for drops never exceed the drops (the rest
\* are mutex collisions, counted in the total only).
Accounting ==
    /\ received = posted + dropped + Len(pending) + Len(batch)
                    + (IF gapPc = "idle" THEN 0 ELSE 1)
    /\ noMemory + bufferFull + undelivered <= dropped

\* The callback never changes the capacity of the element array: it neither
\* allocates nor frees it, whatever phase of a drain it falls in, so a
\* failed allocation cannot abort the device on the Bluetooth host task.
NoGrowthOnCallback == [][gapPc' # gapPc => cap' = cap]_vars

\* Whatever the size: the two element arrays together never exceed one full
\* reservation and the drain window's, though the batch's array may be alive
\* across any number of pushes and the restore may time out on either side.
ArraysBounded == cap + batchCap <= maxPending + WindowReserve

\* The full reservation and the drained batch's array of at least that size
\* are never alive at the same time (the two contiguous blocks of
\* max_pending_ads elements the comments on the drain and on
\* restore_pending_capacity() speak of).
NeverTwoFullArrays ==
    maxPending > 0 => ~(batchCap >= maxPending /\ cap >= maxPending)

\* The server sees advertisements in the order the scanner reported them:
\* the batch ascends, all of it is older than what is pending, which
\* ascends too and is older than what the callback has in hand.
Ascending(s) == \A i, j \in 1..Len(s) : i < j => s[i] < s[j]
InArrivalOrder ==
    /\ Ascending(batch \o pending)
    /\ \A i \in Members(batch \o pending), j \in InHand : i < j

\* A full buffer makes room by forgetting its oldest advertisements, never
\* the newest, and the newcomer always gets in.
DropsOldestFirst ==
    [][gapPc = "push" /\ gapPc' = "idle" =>
         /\ received \in Members(pending')
         /\ \A old \in Members(pending) \ Members(pending'),
              new \in Members(pending') : old < new]_vars

\* on_advertisement() waits for nothing: wherever it is, it has a step to take,
\* even if the POST task is preempted for ever with the mutex in hand.
CallbackNeverWaits == gapPc # "idle" => ENABLED CallbackFinish

\* What is buffered is eventually posted or dropped, back-off or not, unless
\* the gateway is stopped, which leaves pending_ads_ as it is; and what was
\* drained is settled even then, for the task ends its cycle first.
EverySettled ==
    \A i \in 1..MaxReceived :
        /\ i \in Members(pending) ~>
             (i \notin Members(pending \o batch) \/ ~started)
        /\ i \in Members(batch) ~> i \notin Members(batch)

\* The ledger, with the two buffers and the callback's hand as what is held.
Ledger == INSTANCE AdvertisementLedger
    WITH held <- Members(pending) \cup Members(batch) \cup InHand

\* The two threads, their buffers and their mutex implement the ledger: an
\* advertisement leaves the gateway once, to be posted or to be dropped.
ImplementsLedger == Ledger!LedgerSpec
=============================================================================
