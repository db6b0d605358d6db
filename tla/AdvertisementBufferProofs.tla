--------------------- MODULE AdvertisementBufferProofs ---------------------
(***************************************************************************)
(* Proofs about AdvertisementBuffer, for every size of the buffer, of the  *)
(* drain window and of the behaviour.                                      *)
(***************************************************************************)
EXTENDS AdvertisementBuffer, SequenceTheorems, FiniteSetTheorems, TLAPS

\* The mutex is held exactly by the thread that is in a critical section.
MutexOwner ==
    /\ mutex = "gap" <=> gapPc = "push"
    /\ mutex = "post" <=> postPc \in {"swap", "reserve", "reserveLast"}

\* A gateway that buffers at all always has room reserved for one element,
\* and a callback that is about to push belongs to such a gateway.
RoomReserved ==
    /\ maxPending > 0 => cap > 0
    /\ gapPc \in {"lock", "push"} => maxPending > 0

\* Neither array is ever larger than the configured maximum.  The drained
\* batch has one only until it is serialized, and all that time the buffer
\* has no more than the window's reservation.
BatchArray ==
    /\ cap <= maxPending
    /\ batchCap <= maxPending
    /\ batchCap > 0 => postPc = "decide" /\ cap <= WindowReserve

\* Outside the part of a cycle that answers for a batch there is none.
BatchLifetime == batch # <<>> => postPc \in {"decide", "restore", "reserve", "send"}

\* The inductive invariant.
BufferInv ==
    /\ Typed
    /\ MutexOwner
    /\ RoomReserved
    /\ BatchArray
    /\ BatchLifetime
    /\ BufferBounded
    /\ Accounting

-----------------------------------------------------------------------------
\* Half of a positive number is below it.
LEMMA HalfIsLess ==
    ASSUME NEW n \in Nat
    PROVE  n \div 2 \in Nat /\ (n > 0 => n \div 2 < n)
  BY SMT

\* What Push leaves: the trimmed buffer is shorter than the reservation and
\* than the configured maximum, so push_back does not reallocate.
LEMMA PushFits ==
    ASSUME BufferAssumption, Typed, BufferBounded, RoomReserved,
           gapPc = "push",
           NEW kept, kept = SubSeq(pending, Evicted + 1, Len(pending))
    PROVE  /\ Evicted \in Nat
           /\ kept \in Seq(Nat)
           /\ Len(kept) = Len(pending) - Evicted
           /\ Len(kept) < cap
           /\ Len(kept) < maxPending
           /\ GrownCap(Len(kept), cap) = cap
  <1>1. /\ Room \in Nat
        /\ Room > 0
        /\ Room <= cap
        /\ Room <= maxPending
        /\ Len(pending) <= Room
    BY DEF BufferAssumption, Typed, BufferBounded, RoomReserved, Room, Least
  <1>2. Room \div 2 \in Nat /\ Room \div 2 < Room
    BY <1>1, HalfIsLess
  <1>3. Len(pending) \in Nat
    BY DEF Typed
  <1>4. Evicted \in Nat /\ Evicted <= Len(pending) /\ Len(pending) - Evicted < Room
    BY <1>1, <1>2, <1>3 DEF Evicted
  <1>5. \A i \in (Evicted + 1)..Len(pending) : pending[i] \in Nat
    BY <1>3, <1>4, ElementOfSeq DEF Typed
  <1>6. /\ kept \in Seq(Nat)
        /\ Len(kept) = IF Evicted + 1 <= Len(pending)
                         THEN Len(pending) - (Evicted + 1) + 1 ELSE 0
    BY <1>3, <1>4, <1>5, SubSeqProperties
  <1>7. Len(kept) = Len(pending) - Evicted
    BY <1>3, <1>4, <1>6
  <1> QED
    BY <1>1, <1>4, <1>6, <1>7 DEF GrownCap, Typed, BufferAssumption

-----------------------------------------------------------------------------
\* The configured maximum is a number, and it is what it was.
LEMMA SizeIsNat ==
    ASSUME BufferAssumption, Typed
    PROVE  maxPending \in Nat /\ DrainWindow \in Nat \ {0}
  BY DEF BufferAssumption, Typed

LEMMA SizeStays ==
    ASSUME UNCHANGED lifeVars
    PROVE  maxPending' = maxPending /\ started' = started
  BY DEF lifeVars

\* Lengths are numbers, and the empty sequence is one of length 0.
LEMMA Lengths ==
    ASSUME Typed
    PROVE  /\ Len(pending) \in Nat
           /\ Len(batch) \in Nat
           /\ <<>> \in Seq(Nat)
           /\ Len(<<>>) = 0
  BY LenProperties, EmptySeq DEF Typed

-----------------------------------------------------------------------------
(* The invariant holds initially and every step preserves it.              *)

\* The gateway as constructed.
LEMMA InitInv ==
    ASSUME BufferAssumption, Init
    PROVE  BufferInv
  <1> USE DEF Init, BufferAssumption, ReservedCap, Largest
  <1>1. Typed
    BY EmptySeq DEF Typed, GapPcs, PostPcs
  <1>2. MutexOwner /\ RoomReserved /\ BatchArray /\ BatchLifetime
    BY DEF MutexOwner, RoomReserved, BatchArray, BatchLifetime
  <1>3. BufferBounded
    BY DEF BufferBounded, Least
  <1>4. Accounting
    BY DEF Accounting
  <1> QED
    BY <1>1, <1>2, <1>3, <1>4 DEF BufferInv

\* The steps of the callback that only count.
LEMMA CountingStepInv ==
    ASSUME BufferAssumption, BufferInv,
           Receive \/ DeclineNoMemory \/ DeclineNoBuffer \/ Contended
    PROVE  BufferInv'
  <1>0. UNCHANGED <<maxPending, started>>
    BY SizeStays DEF Receive, DeclineNoMemory, DeclineNoBuffer, Contended
  <1>1. Typed'
    <2> USE <1>0 DEF BufferInv, Typed, GapPcs, PostPcs, bufVars, batchVars
    <2>1. CASE Receive
      BY <2>1 DEF Receive
    <2>2. CASE DeclineNoMemory
      BY <2>2 DEF DeclineNoMemory
    <2>3. CASE DeclineNoBuffer
      BY <2>3 DEF DeclineNoBuffer
    <2>4. CASE Contended
      BY <2>4 DEF Contended
    <2> QED
      BY <2>1, <2>2, <2>3, <2>4
  <1>2. /\ UNCHANGED <<pending, cap, mutex, postPc, batch, batchCap>>
        /\ gapPc # "push" /\ gapPc' \notin {"lock", "push"}
    BY DEF Receive, DeclineNoMemory, DeclineNoBuffer, Contended,
           bufVars, batchVars
  <1>3. MutexOwner' /\ RoomReserved' /\ BatchArray' /\ BatchLifetime'
    BY <1>0, <1>2 DEF BufferInv, MutexOwner, RoomReserved, BatchArray,
                BatchLifetime, WindowReserve
  <1>4. BufferBounded'
    BY <1>0, <1>2 DEF BufferInv, BufferBounded
  <1>5. Accounting'
    <2>1. Typed /\ Accounting /\ Len(pending) \in Nat /\ Len(batch) \in Nat
      BY Lengths DEF BufferInv
    <2>2. CASE Receive
      BY <1>2, <2>1, <2>2 DEF Accounting, Typed, Receive
    <2>3. CASE DeclineNoMemory
      BY <1>2, <2>1, <2>3 DEF Accounting, Typed, DeclineNoMemory
    <2>4. CASE DeclineNoBuffer
      BY <1>2, <2>1, <2>4 DEF Accounting, Typed, DeclineNoBuffer
    <2>5. CASE Contended
      BY <1>2, <2>1, <2>5 DEF Accounting, Typed, Contended
    <2> QED
      BY <2>2, <2>3, <2>4, <2>5
  <1> QED
    BY <1>1, <1>3, <1>4, <1>5 DEF BufferInv

\* The push.
LEMMA PushInv ==
    ASSUME BufferAssumption, BufferInv, Push
    PROVE  BufferInv' /\ cap' = cap
  <1> DEFINE kept == SubSeq(pending, Evicted + 1, Len(pending))
  <1>1. /\ Evicted \in Nat
        /\ kept \in Seq(Nat)
        /\ Len(kept) = Len(pending) - Evicted
        /\ Len(kept) < cap
        /\ Len(kept) < maxPending
        /\ GrownCap(Len(kept), cap) = cap
    BY PushFits DEF BufferInv, Push
  <1>2. /\ pending' = Append(kept, received) /\ cap' = cap
        /\ maxPending' = maxPending /\ started' = started
    BY <1>1, SizeStays DEF Push
  <1> HIDE DEF kept
  <1>3. received \in Nat /\ Typed /\ Accounting
    BY DEF BufferInv, Typed
  <1>4. pending' \in Seq(Nat) /\ Len(pending') = Len(kept) + 1
    BY <1>1, <1>2, <1>3, AppendProperties
  <1>5. Typed'
    <2>1. /\ maxPending' \in Sizes /\ cap' \in Nat
          /\ UNCHANGED <<postPc, batch, batchCap, allowEmpty, backoff>>
          /\ gapPc' = "idle" /\ mutex' = "free"
      BY <1>2, <1>3 DEF Push, batchVars, Typed
    <2>2. /\ UNCHANGED <<received, posted, noMemory, undelivered>>
          /\ dropped' \in Nat /\ bufferFull' \in Nat
      BY <1>1, <1>3 DEF Push, Typed
    <2> QED
      BY <1>2, <1>3, <1>4, <2>1, <2>2 DEF Typed, GapPcs
  <1>6. MutexOwner' /\ RoomReserved' /\ BatchArray' /\ BatchLifetime'
    BY <1>2 DEF BufferInv, MutexOwner, RoomReserved, BatchArray, BatchLifetime,
                WindowReserve, Push, batchVars
  <1>7. BufferBounded'
    BY <1>1, <1>2, <1>3, <1>4, SizeIsNat DEF BufferBounded, Least, Typed
  <1>8. Accounting'
    <2>1. /\ UNCHANGED <<batch, received, posted, noMemory, undelivered>>
          /\ dropped' = dropped + Evicted
          /\ bufferFull' = bufferFull + Evicted
          /\ gapPc = "push" /\ gapPc' = "idle"
          /\ Len(pending') = Len(pending) - Evicted + 1
      BY <1>1, <1>4 DEF Push, batchVars
    <2>2. Len(pending) \in Nat /\ Len(batch) \in Nat
      BY <1>3, Lengths
    <2> QED
      BY <1>1, <1>3, <2>1, <2>2 DEF Accounting, Typed
  <1> QED
    BY <1>2, <1>5, <1>6, <1>7, <1>8 DEF BufferInv

\* The steps that take the mutex or give up waiting for it, and the start of
\* a cycle: no buffer and no counter changes.
LEMMA ControlStepInv ==
    ASSUME BufferAssumption, BufferInv,
           \/ Start \/ Stop \/ Admit \/ TakeForPush \/ BeginPost \/ TakeForDrain
           \/ DrainTimeout \/ TakeForRestore \/ RestoreTimeout
    PROVE  BufferInv'
  <1> USE DEF BufferInv, Start, Stop, Admit, TakeForPush, BeginPost, TakeForDrain,
              DrainTimeout, TakeForRestore, RestoreTimeout,
              lifeVars, bufVars, batchVars, counters
  <1>1. Typed'
    <2>1. /\ UNCHANGED <<maxPending, pending, cap, batch, batchCap, backoff>>
          /\ UNCHANGED counters
          /\ allowEmpty' \in BOOLEAN
      BY DEF Typed
    <2>2. started' \in BOOLEAN
      BY DEF Typed
    <2>3. /\ gapPc' \in GapPcs
          /\ postPc' \in PostPcs
          /\ mutex' \in {"free", "gap", "post"}
      BY DEF Typed, GapPcs, PostPcs
    <2>4. Typed
      OBVIOUS
    <2> HIDE DEF Start, Stop, Admit, TakeForPush, BeginPost, TakeForDrain,
              DrainTimeout, TakeForRestore, RestoreTimeout
    <2> QED
      BY <2>1, <2>2, <2>3, <2>4 DEF Typed
  <1>2. MutexOwner' /\ RoomReserved' /\ BatchArray' /\ BatchLifetime'
    BY DEF MutexOwner, RoomReserved, BatchArray, BatchLifetime, WindowReserve
  <1>3. BufferBounded' /\ Accounting'
    BY DEF BufferBounded, Accounting
  <1> QED
    BY <1>1, <1>2, <1>3

\* The drain.
LEMMA SwapInv ==
    ASSUME BufferAssumption, BufferInv, Swap
    PROVE  BufferInv'
  <1> USE DEF Swap, counters
  <1>0. /\ UNCHANGED <<maxPending, started>>
        /\ Typed /\ maxPending \in Nat /\ DrainWindow \in Nat \ {0}
    BY SizeStays, SizeIsNat DEF BufferInv
  <1>1. batch = <<>>
    BY DEF BufferInv, BatchLifetime
  <1>2. WindowReserve \in Nat /\ cap' = WindowReserve /\ WindowReserve' = WindowReserve
    BY <1>0 DEF Least, ReservedCap, Largest, WindowReserve
  <1>3. Typed'
    BY <1>0, <1>2 DEF BufferInv, Typed, GapPcs, PostPcs
  <1>4. MutexOwner' /\ BatchLifetime'
    BY DEF BufferInv, MutexOwner, BatchLifetime
  <1>5. RoomReserved' /\ BatchArray'
    BY <1>0, <1>2 DEF BufferInv, RoomReserved, BatchArray, WindowReserve, Least
  <1>6. BufferBounded'
    <2>1. pending' = <<>> /\ Len(<<>>) = 0
      BY EmptySeq
    <2> QED
      BY <1>0, <1>2, <2>1 DEF BufferBounded, WindowReserve, Least
  <1>7. Accounting'
    BY <1>1 DEF BufferInv, Accounting, Typed
  <1> QED
    BY <1>3, <1>4, <1>5, <1>6, <1>7 DEF BufferInv

\* The steps between the drain and the end of the cycle that leave the buffer
\* alone: freeing the batch's array, sending and settling the batch.
LEMMA BatchStepInv ==
    ASSUME BufferAssumption, BufferInv,
           \/ NothingToSend \/ BackingOff \/ Serialize
           \/ Delivered \/ Undelivered \/ Rejected
    PROVE  BufferInv'
  <1> USE DEF NothingToSend, BackingOff, Serialize, Delivered, Undelivered,
              Rejected, SettlePosted, SettleUndelivered
  <1>1. /\ Typed /\ Accounting
        /\ Len(pending) \in Nat /\ Len(batch) \in Nat
        /\ <<>> \in Seq(Nat) /\ Len(<<>>) = 0
    BY Lengths DEF BufferInv
  <1>2. UNCHANGED <<maxPending, started, pending, cap, mutex, gapPc>>
    BY SizeStays DEF bufVars
  <1>3. /\ postPc \in {"decide", "send"}
        /\ postPc' \in {"restore", "restoreLast"}
    OBVIOUS
  <1>4. batchCap' = 0 \/ (postPc = "send" /\ batchCap' = batchCap)
    OBVIOUS
  <1>5. MutexOwner' /\ RoomReserved' /\ BufferBounded'
    BY <1>2, <1>3 DEF BufferInv, MutexOwner, RoomReserved, BufferBounded
  <1>6. BatchArray'
    BY <1>1, <1>2, <1>3, <1>4 DEF BufferInv, BatchArray, Typed
  <1>7. CASE NothingToSend \/ Serialize
    <2>1. /\ UNCHANGED <<maxPending, started, batch, allowEmpty, backoff>>
          /\ UNCHANGED <<received, posted, dropped, noMemory, bufferFull,
                         undelivered>>
          /\ postPc' = "restoreLast" => batch = <<>>
      BY <1>7 DEF lifeVars, counters
    <2>2. Typed'
      BY <1>1, <1>2, <1>3, <1>4, <2>1 DEF Typed, PostPcs
    <2>3. Accounting'
      BY <1>2, <2>1 DEF BufferInv, Accounting
    <2>4. BatchLifetime'
      BY <1>3, <2>1 DEF BatchLifetime
    <2> QED
      BY <1>5, <1>6, <2>2, <2>3, <2>4 DEF BufferInv
  <1>8. CASE Delivered \/ Undelivered \/ Rejected \/ BackingOff
    <2>1. /\ batch' = <<>>
          /\ UNCHANGED <<maxPending, started, allowEmpty, received, noMemory, bufferFull>>
      BY <1>8 DEF lifeVars
    <2>2. backoff' \in BOOLEAN
      BY <1>1, <1>8 DEF Typed
    <2>3. \/ /\ posted' = posted + Len(batch)
             /\ UNCHANGED <<dropped, undelivered>>
          \/ /\ dropped' = dropped + Len(batch)
             /\ undelivered' = undelivered + Len(batch)
             /\ UNCHANGED posted
      BY <1>8
    <2>4. Typed'
      BY <1>1, <1>2, <1>3, <1>4, <2>1, <2>2, <2>3 DEF Typed, PostPcs
    <2>5. Accounting'
      <3>1. CASE posted' = posted + Len(batch) /\ UNCHANGED <<dropped, undelivered>>
        BY <1>1, <1>2, <2>1, <3>1 DEF Accounting, Typed
      <3>2. CASE /\ dropped' = dropped + Len(batch)
                 /\ undelivered' = undelivered + Len(batch)
                 /\ UNCHANGED posted
        BY <1>1, <1>2, <2>1, <3>2 DEF Accounting, Typed
      <3> QED
        BY <2>3, <3>1, <3>2
    <2>6. BatchLifetime'
      BY <2>1 DEF BatchLifetime
    <2> QED
      BY <1>5, <1>6, <2>4, <2>5, <2>6 DEF BufferInv
  <1> QED
    BY <1>7, <1>8

\* The restored reservation.
LEMMA ReserveInv ==
    ASSUME BufferAssumption, BufferInv, Reserve
    PROVE  BufferInv'
  <1> USE DEF Reserve, batchVars, counters
  <1>0. /\ UNCHANGED <<maxPending, started>>
        /\ Typed /\ maxPending \in Nat
    BY SizeStays, SizeIsNat DEF BufferInv
  <1>1. cap' \in Nat /\ cap' >= cap /\ cap' = maxPending
    BY <1>0 DEF Typed, ReservedCap, Largest, BufferInv, BatchArray
  <1>2. Typed'
    BY <1>0, <1>1 DEF Typed, GapPcs, PostPcs
  <1>3. MutexOwner' /\ BatchLifetime'
    BY DEF BufferInv, MutexOwner, BatchLifetime
  <1>4. RoomReserved' /\ BatchArray'
    BY <1>0, <1>1 DEF BufferInv, RoomReserved, BatchArray, Typed
  <1>5. BufferBounded'
    BY <1>0, <1>1 DEF BufferInv, BufferBounded, Least, Typed
  <1>6. Accounting'
    BY DEF BufferInv, Accounting
  <1> QED
    BY <1>2, <1>3, <1>4, <1>5, <1>6 DEF BufferInv

LEMMA StutterInv ==
    ASSUME BufferInv, UNCHANGED vars
    PROVE  BufferInv'
  BY DEF vars, BufferInv, Typed, MutexOwner, RoomReserved, BatchArray,
         BatchLifetime, BufferBounded, Accounting, WindowReserve

\* Every step preserves the invariant.
LEMMA NextInv ==
    ASSUME BufferAssumption, BufferInv, [Next]_vars
    PROVE  BufferInv'
  <1>1. CASE Receive \/ DeclineNoMemory \/ DeclineNoBuffer \/ Contended
    BY <1>1, CountingStepInv
  <1>2. CASE Push
    BY <1>2, PushInv
  <1>3. CASE \/ Start \/ Stop \/ Admit \/ TakeForPush \/ BeginPost \/ TakeForDrain
             \/ DrainTimeout \/ TakeForRestore \/ RestoreTimeout
    BY <1>3, ControlStepInv
  <1>4. CASE Swap
    BY <1>4, SwapInv
  <1>5. CASE \/ NothingToSend \/ BackingOff \/ Serialize
             \/ Delivered \/ Undelivered \/ Rejected
    BY <1>5, BatchStepInv
  <1>6. CASE Reserve
    BY <1>6, ReserveInv
  <1>7. CASE UNCHANGED vars
    BY <1>7, StutterInv
  <1> QED
    BY <1>1, <1>2, <1>3, <1>4, <1>5, <1>6, <1>7
       DEF Next, GapStep, CallbackFinish, PostStep

THEOREM SpecInv == Spec => []BufferInv
  <1>1. Init => BufferInv
    BY BufferAssumption, InitInv
  <1>2. BufferInv /\ [Next]_vars => BufferInv'
    BY BufferAssumption, NextInv
  <1> QED
    BY <1>1, <1>2, PTL DEF Spec

-----------------------------------------------------------------------------
(* What the invariant gives.                                               *)

\* Every variable keeps its type and the buffer stays within its reservation
\* and the configured maximum, for any of both and for any drain window.
THEOREM TypeCorrect == Spec => []TypeOK
  <1>1. BufferInv => TypeOK
    BY DEF BufferInv, TypeOK
  <1> QED
    BY <1>1, SpecInv, PTL

\* The public counters account for every advertisement received, whatever
\* the interleaving of the callback and the POST task.
THEOREM AccountingCorrect == Spec => []Accounting
  <1>1. BufferInv => Accounting
    BY DEF BufferInv
  <1> QED
    BY <1>1, SpecInv, PTL

\* on_advertisement() never reallocates the element array.
THEOREM CallbackNeverGrows == Spec => NoGrowthOnCallback
  <1>1. ASSUME BufferInv, [Next]_vars, gapPc' # gapPc
        PROVE  cap' = cap
    <2>1. CASE Push
      BY <1>1, <2>1, BufferAssumption, PushInv
    <2>2. CASE Receive \/ DeclineNoMemory \/ DeclineNoBuffer \/ Contended
               \/ Admit \/ TakeForPush
      BY <2>2 DEF Admit, Receive, DeclineNoMemory, DeclineNoBuffer, Contended,
                  TakeForPush, bufVars
    <2>3. CASE Start \/ Stop
      BY <1>1, <2>3 DEF Start, Stop
    <2>4. CASE PostStep
      BY <1>1, <2>4 DEF PostStep, BeginPost, TakeForDrain, DrainTimeout, Swap,
         NothingToSend, BackingOff, Serialize, TakeForRestore, RestoreTimeout,
         Reserve, Delivered, Undelivered, Rejected
    <2>5. CASE UNCHANGED vars
      BY <1>1, <2>5 DEF vars
    <2> QED
      BY <1>1, <2>1, <2>2, <2>3, <2>4, <2>5 DEF Next, GapStep, CallbackFinish
  <1>2. BufferInv /\ [Next]_vars => [gapPc' # gapPc => cap' = cap]_vars
    BY <1>1
  <1> QED
    BY <1>2, SpecInv, PTL DEF Spec, NoGrowthOnCallback

\* For every size, of whichever side of the drain window: the two element
\* arrays together never exceed one full reservation and the window's.
THEOREM ArraysBoundedAlways == Spec => []ArraysBounded
  <1>1. BufferInv => ArraysBounded
    <2> SUFFICES ASSUME BufferInv PROVE ArraysBounded
      OBVIOUS
    <2>1. /\ maxPending \in Nat /\ DrainWindow \in Nat
          /\ cap \in Nat /\ batchCap \in Nat
      BY BufferAssumption, SizeIsNat DEF BufferInv, Typed
    <2>2. /\ cap <= maxPending
          /\ batchCap <= maxPending
          /\ batchCap > 0 => cap <= WindowReserve
      BY DEF BufferInv, BatchArray
    <2>3. WindowReserve \in Nat
      BY <2>1 DEF WindowReserve, Least
    <2> QED
      BY <2>1, <2>2, <2>3 DEF ArraysBounded
  <1> QED
    BY <1>1, SpecInv, PTL

\* Where the two-arrays comment is right: a gateway whose max_pending_ads
\* exceeds the drain window.  The default one does not (24 below 32), and the
\* run BufferNarrow shows both arrays there.
THEOREM OneFullArrayIfWide ==
    Spec => [](maxPending > DrainWindow => NeverTwoFullArrays)
  <1>1. BufferInv => (maxPending > DrainWindow => NeverTwoFullArrays)
    BY BufferAssumption
       DEF BufferInv, BatchArray, NeverTwoFullArrays, WindowReserve, Least,
           Typed, BufferAssumption
  <1> QED
    BY <1>1, SpecInv, PTL

-----------------------------------------------------------------------------
(***************************************************************************)
(* What becomes of advertisements one by one: the order in which they      *)
(* leave, and that each leaves once, which is what AdvertisementLedger     *)
(* promises.                                                               *)
(*                                                                         *)
(* So far advertisements were counted, and not told apart.  From here on   *)
(* the invariant is about which they are: the batch ascends, the buffer    *)
(* ascends behind it, and the callback's hand is ahead of both.  So no     *)
(* advertisement is in two places, and a set of them has as many members   *)
(* as the sequence it comes from is long.                                  *)
(***************************************************************************)

\* Every advertisement in s has been heard, before the one in hand.
Heard(s) ==
    \A i \in 1..Len(s) :
        s[i] \in 1..received /\ (gapPc # "idle" => s[i] < received)

Precedes(s, t) == \A i \in 1..Len(s), j \in 1..Len(t) : s[i] < t[j]

\* The inductive invariant, with BufferInv.
Order ==
    /\ Ascending(batch) /\ Ascending(pending)
    /\ Precedes(batch, pending)
    /\ Heard(batch) /\ Heard(pending)

\* A step that neither moves an advertisement nor hears one.
KeepsBuffers == UNCHANGED <<maxPending, pending, batch, received>>

-----------------------------------------------------------------------------
(* Sequences of advertisements.                                            *)

\* There is no order to keep in an empty sequence.
LEMMA EmptyIsOrdered ==
    ASSUME NEW s
    PROVE  /\ Ascending(<<>>) /\ Heard(<<>>)
           /\ Precedes(<<>>, s) /\ Precedes(s, <<>>)
  <1>1. Len(<<>>) = 0
    BY EmptySeq
  <1> QED
    BY <1>1 DEF Ascending, Heard, Precedes

\* A sequence that ascends has a member for each of its places.
LEMMA AscendingCardinality ==
    ASSUME NEW s \in Seq(Nat), Ascending(s), NEW n \in 0..Len(s)
    PROVE  /\ IsFiniteSet({s[i] : i \in 1..n})
           /\ Cardinality({s[i] : i \in 1..n}) = n
  <1> DEFINE S == {s[i] : i \in 1..n}
             f == [i \in 1..n |-> s[i]]
  <1>1. n \in Nat /\ 1..n \subseteq 1..Len(s) /\ Len(s) \in Nat
    BY LenProperties
  <1>2. \A i \in 1..n : s[i] \in Nat
    BY <1>1, ElementOfSeq
  <1>3. \A i, j \in 1..n : i < j => s[i] < s[j]
    BY <1>1 DEF Ascending
  <1>4. \A i, j \in 1..n : s[i] = s[j] => i = j
    <2> SUFFICES ASSUME NEW i \in 1..n, NEW j \in 1..n, s[i] = s[j]
                 PROVE  i = j
      OBVIOUS
    <2>1. ~(i < j) /\ ~(j < i)
      BY <1>2, <1>3
    <2> QED
      BY <1>1, <2>1
  <1>5. f \in Bijection(1..n, S)
    BY <1>4 DEF Bijection, Injection, Surjection, IsInjective
  <1>6. IsFiniteSet(1..n) /\ Cardinality(1..n) = n
    BY <1>1, FS_Interval
  <1>7. ExistsBijection(1..n, S)
    BY <1>5 DEF ExistsBijection
  <1> QED
    BY <1>6, <1>7, FS_Bijection

\* What an invariant of types says about places and members.
LEMMA Places ==
    ASSUME Typed
    PROVE  /\ Len(pending) \in Nat /\ Len(batch) \in Nat /\ received \in Nat
           /\ \A i \in 1..Len(pending) : pending[i] \in Nat
           /\ \A i \in 1..Len(batch) : batch[i] \in Nat
  BY LenProperties, ElementOfSeq DEF Typed

\* What Push leaves, place by place: the buffer without its first Evicted
\* members, and the newcomer behind them.
LEMMA PushedPlaces ==
    ASSUME BufferAssumption, BufferInv, Push
    PROVE  /\ Evicted \in 0..Len(pending)
           /\ Len(pending') = Len(pending) - Evicted + 1
           /\ \A i \in 1..(Len(pending) - Evicted) :
                 pending'[i] = pending[i + Evicted]
           /\ pending'[Len(pending')] = received
           /\ UNCHANGED <<batch, received, posted>>
           /\ gapPc = "push" /\ gapPc' = "idle"
           /\ dropped' = dropped + Evicted
  <1> DEFINE kept == SubSeq(pending, Evicted + 1, Len(pending))
  <1>1. /\ Evicted \in Nat /\ kept \in Seq(Nat)
        /\ Len(kept) = Len(pending) - Evicted
    BY PushFits DEF BufferInv, Push
  <1>2. Len(pending) \in Nat /\ received \in Nat
        /\ \A i \in 1..Len(pending) : pending[i] \in Nat
    BY Places DEF BufferInv
  <1>3. Len(kept) \in Nat
    BY <1>1, LenProperties
  <1>4. Evicted \in 0..Len(pending)
    BY <1>1, <1>2, <1>3
  <1>5. \A i \in 1..(Len(pending) - Evicted) : kept[i] = pending[i + Evicted]
    <2>1. \A i \in (Evicted + 1)..Len(pending) : pending[i] \in Nat
      BY <1>1, <1>2
    <2>2. \A i \in 1..(Len(pending) - (Evicted + 1) + 1) :
             kept[i] = pending[Evicted + 1 + i - 1]
      BY <1>1, <1>2, <2>1, SubSeqProperties
    <2> QED
      BY <1>1, <1>2, <2>2
  <1>6. pending' = Append(kept, received)
    BY DEF Push
  <1>7. UNCHANGED <<batch, received, posted>> /\ dropped' = dropped + Evicted
        /\ gapPc = "push" /\ gapPc' = "idle"
    BY DEF Push, batchVars
  <1> HIDE DEF kept
  <1>8. /\ Len(pending') = Len(kept) + 1
        /\ \A i \in 1..Len(kept) : pending'[i] = kept[i]
        /\ pending'[Len(kept) + 1] = received
    BY <1>1, <1>2, <1>6, AppendProperties
  <1> QED
    BY <1>1, <1>4, <1>5, <1>7, <1>8

-----------------------------------------------------------------------------
(* The order.                                                              *)

\* The callback's steps other than the push, the swap's neighbours and the
\* steps of the mutex leave the two buffers alone.
LEMMA OtherStepsKeepBuffers ==
    ASSUME \/ Start \/ Stop \/ DeclineNoMemory \/ DeclineNoBuffer \/ Admit
           \/ Contended \/ TakeForPush \/ BeginPost \/ TakeForDrain \/ DrainTimeout
           \/ NothingToSend \/ Serialize \/ TakeForRestore \/ RestoreTimeout
           \/ Reserve \/ UNCHANGED vars
    PROVE  KeepsBuffers /\ (gapPc = "idle" => gapPc' = "idle")
  <1> USE DEF KeepsBuffers, lifeVars, bufVars, batchVars, counters
  <1>1. CASE Start \/ Stop \/ UNCHANGED vars
    BY <1>1 DEF Start, Stop, vars
  <1>2. CASE DeclineNoMemory \/ DeclineNoBuffer \/ Admit \/ Contended \/ TakeForPush
    BY <1>2 DEF DeclineNoMemory, DeclineNoBuffer, Admit, Contended, TakeForPush
  <1>3. CASE BeginPost \/ TakeForDrain \/ DrainTimeout \/ NothingToSend
    BY <1>3 DEF BeginPost, TakeForDrain, DrainTimeout, NothingToSend
  <1>4. CASE Serialize \/ TakeForRestore \/ RestoreTimeout \/ Reserve
    BY <1>4 DEF Serialize, TakeForRestore, RestoreTimeout, Reserve
  <1> QED
    BY <1>1, <1>2, <1>3, <1>4

\* The batch leaves, the buffer stays.
LEMMA SettlingSteps ==
    ASSUME BackingOff \/ Delivered \/ Undelivered \/ Rejected
    PROVE  /\ batch' = <<>>
           /\ UNCHANGED <<pending, received, gapPc>>
           /\ \/ posted' = posted + Len(batch) /\ dropped' = dropped
              \/ dropped' = dropped + Len(batch) /\ posted' = posted
  BY DEF BackingOff, Delivered, Undelivered, Rejected, SettlePosted,
         SettleUndelivered, bufVars

LEMMA SwapStep ==
    ASSUME BufferInv, Swap
    PROVE  /\ batch = <<>> /\ batch' = pending /\ pending' = <<>>
           /\ UNCHANGED <<received, posted, dropped, gapPc>>
  BY DEF Swap, BufferInv, BatchLifetime, counters

\* Every step keeps the order.
LEMMA OrderStep ==
    ASSUME BufferAssumption, BufferInv, Order, [Next]_vars
    PROVE  Order'
  <1>0. /\ Len(pending) \in Nat /\ Len(batch) \in Nat /\ received \in Nat
        /\ \A i \in 1..Len(pending) : pending[i] \in Nat
        /\ \A i \in 1..Len(batch) : batch[i] \in Nat
    BY Places DEF BufferInv
  <1>1. CASE Receive
    <2>1. /\ UNCHANGED <<pending, batch>>
          /\ received' = received + 1
          /\ gapPc = "idle" /\ gapPc' = "admit"
      BY <1>1 DEF Receive, bufVars, batchVars
    <2>2. Heard(batch)' /\ Heard(pending)'
      BY <1>0, <2>1 DEF Order, Heard
    <2> QED
      BY <2>1, <2>2 DEF Order, Ascending, Precedes
  <1>2. CASE Push
    <2>1. /\ Evicted \in 0..Len(pending)
          /\ Len(pending') = Len(pending) - Evicted + 1
          /\ \A i \in 1..(Len(pending) - Evicted) :
                pending'[i] = pending[i + Evicted]
          /\ pending'[Len(pending')] = received
          /\ UNCHANGED <<batch, received>>
          /\ gapPc = "push" /\ gapPc' = "idle"
      BY <1>2, PushedPlaces
    <2>2. /\ \A i \in 1..Len(pending) : pending[i] \in 1..received
          /\ \A i \in 1..Len(pending) : pending[i] < received
          /\ \A i \in 1..Len(batch) : batch[i] \in 1..received
          /\ \A i \in 1..Len(batch) : batch[i] < received
      BY <2>1 DEF Order, Heard
    <2> DEFINE n == Len(pending) - Evicted
    <2>3. n \in Nat /\ Len(pending') = n + 1 /\ Evicted \in Nat
      BY <1>0, <2>1
    <2>4. \A i \in 1..(n + 1) : \/ i \in 1..n /\ i + Evicted \in 1..Len(pending)
                              \/ i = n + 1
      BY <1>0, <2>1
    <2>5. \A i \in 1..n : pending'[i] = pending[i + Evicted]
      BY <2>1
    <2>6. pending'[n + 1] = received
      BY <2>1, <2>3
    <2> HIDE DEF n
    <2>7. \A i \in 1..(n + 1) : pending'[i] \in 1..received
      <3>1. ASSUME NEW i \in 1..n PROVE pending'[i] \in 1..received
        <4>1. i + Evicted \in 1..Len(pending)
          BY <2>3, <2>4
        <4> QED
          BY <2>2, <2>5, <4>1
      <3>2. pending'[n + 1] \in 1..received
        <4>1. received >= 1
          BY <1>0, <2>1 DEF BufferInv, Accounting, Typed
        <4> QED
          BY <1>0, <2>6, <4>1
      <3> QED
        BY <2>4, <3>1, <3>2
    <2>8. Heard(batch)' /\ Heard(pending)'
      BY <2>1, <2>2, <2>3, <2>7 DEF Heard
    <2>9. Ascending(pending)'
      <3> SUFFICES ASSUME NEW i \in 1..(n + 1), NEW j \in 1..(n + 1), i < j
                   PROVE  pending'[i] < pending'[j]
        BY <2>3 DEF Ascending
      <3>1. i \in 1..n /\ i + Evicted \in 1..Len(pending)
        BY <2>3, <2>4
      <3>2. CASE j = n + 1
        BY <2>2, <2>5, <2>6, <3>1, <3>2
      <3>3. CASE j \in 1..n
        <4>1. j + Evicted \in 1..Len(pending) /\ i + Evicted < j + Evicted
          BY <2>3, <2>4, <3>3
        <4> QED
          BY <2>5, <3>1, <3>3, <4>1 DEF Order, Ascending
      <3> QED
        BY <2>4, <3>2, <3>3
    <2>10. Precedes(batch, pending)'
      <3> SUFFICES ASSUME NEW i \in 1..Len(batch), NEW j \in 1..(n + 1)
                   PROVE  batch[i] < pending'[j]
        BY <2>1, <2>3 DEF Precedes
      <3>1. CASE j = n + 1
        BY <2>2, <2>6, <3>1
      <3>2. CASE j \in 1..n /\ j + Evicted \in 1..Len(pending)
        BY <2>5, <3>2 DEF Order, Precedes
      <3> QED
        BY <2>4, <3>1, <3>2
    <2> QED
      BY <2>1, <2>8, <2>9, <2>10 DEF Order, Ascending
  <1>3. CASE Swap
    <2>1. /\ batch' = pending /\ pending' = <<>>
          /\ UNCHANGED <<received, gapPc>>
      BY <1>3, SwapStep
    <2>2. Ascending(batch)' /\ Heard(batch)'
      BY <2>1 DEF Order, Ascending, Heard
    <2>3. Len(pending') = 0
      BY <2>1, EmptySeq
    <2> QED
      BY <2>2, <2>3 DEF Order, Ascending, Heard, Precedes
  <1>4. CASE BackingOff \/ Delivered \/ Undelivered \/ Rejected
    <2>1. batch' = <<>> /\ UNCHANGED <<pending, received, gapPc>>
      BY <1>4, SettlingSteps
    <2>2. Len(batch') = 0
      BY <2>1, EmptySeq
    <2>3. Ascending(pending)' /\ Heard(pending)'
      BY <2>1 DEF Order, Ascending, Heard
    <2> QED
      BY <2>2, <2>3 DEF Order, Ascending, Heard, Precedes
  <1>5. CASE KeepsBuffers /\ (gapPc = "idle" => gapPc' = "idle")
    BY <1>5 DEF KeepsBuffers, Order, Ascending, Heard, Precedes
  <1> QED
    BY <1>1, <1>2, <1>3, <1>4, <1>5, OtherStepsKeepBuffers
       DEF Next, GapStep, CallbackFinish, PostStep

OrderInv == BufferInv /\ Order

\* The order holds initially and always.
THEOREM OrderAlways == Spec => []OrderInv
  <1>1. Init => OrderInv
    BY BufferAssumption, InitInv, EmptyIsOrdered DEF OrderInv, Order, Init
  <1>2. OrderInv /\ [Next]_vars => OrderInv'
    BY BufferAssumption, NextInv, OrderStep DEF OrderInv
  <1> QED
    BY <1>1, <1>2, PTL DEF Spec

\* The server sees advertisements in the order in which the scanner reported
\* them, for any burst and any interleaving with the drain.
THEOREM InArrivalOrderAlways == Spec => []InArrivalOrder
  <1>1. ASSUME OrderInv
        PROVE  InArrivalOrder
    <2> DEFINE both == batch \o pending
               m == Len(batch)
               n == Len(pending)
    <2>1. /\ m \in Nat /\ n \in Nat /\ received \in Nat
          /\ \A i \in 1..n : pending[i] \in Nat
          /\ \A i \in 1..m : batch[i] \in Nat
      BY <1>1, Places DEF OrderInv, BufferInv
    <2>2. /\ Len(both) = m + n
          /\ \A i \in 1..(m + n) :
                both[i] = IF i <= m THEN batch[i] ELSE pending[i - m]
      BY <1>1, ConcatProperties DEF OrderInv, BufferInv, Typed
    <2> HIDE DEF both
    <2>3. Ascending(both)
      <3> SUFFICES ASSUME NEW i \in 1..(m + n), NEW j \in 1..(m + n), i < j
                   PROVE  both[i] < both[j]
        BY <2>2 DEF Ascending
      <3>1. CASE j <= m
        BY <1>1, <2>1, <2>2, <3>1 DEF OrderInv, Order, Ascending
      <3>2. CASE i <= m /\ ~(j <= m)
        <4>1. i \in 1..m /\ j - m \in 1..n
          BY <2>1, <3>2
        <4> QED
          BY <1>1, <2>2, <3>2, <4>1 DEF OrderInv, Order, Precedes
      <3>3. CASE ~(i <= m)
        <4>1. i - m \in 1..n /\ j - m \in 1..n /\ i - m < j - m /\ ~(j <= m)
          BY <2>1, <3>3
        <4> QED
          BY <1>1, <2>2, <3>3, <4>1 DEF OrderInv, Order, Ascending
      <3> QED
        BY <2>1, <3>1, <3>2, <3>3
    <2>4. ASSUME NEW i \in Members(both), NEW j \in InHand
          PROVE  i < j
      <3>1. j = received /\ gapPc # "idle"
        BY <2>4 DEF InHand
      <3>2. PICK k \in 1..(m + n) : i = both[k]
        BY <2>2, <2>4 DEF Members
      <3>3. CASE k <= m
        BY <1>1, <2>1, <2>2, <3>1, <3>2, <3>3 DEF OrderInv, Order, Heard
      <3>4. CASE ~(k <= m)
        <4>1. k - m \in 1..n
          BY <2>1, <3>4
        <4> QED
          BY <1>1, <2>2, <3>1, <3>2, <3>4, <4>1 DEF OrderInv, Order, Heard
      <3> QED
        BY <3>3, <3>4
    <2> QED
      BY <2>3, <2>4 DEF InArrivalOrder, both
  <1> QED
    BY <1>1, OrderAlways, PTL

\* A push keeps the newcomer, and what it forgets is older than what it keeps.
THEOREM DropsOldestFirstAlways == Spec => DropsOldestFirst
  <1>1. ASSUME OrderInv, Push
        PROVE  /\ received \in Members(pending')
               /\ \A old \in Members(pending) \ Members(pending'),
                     new \in Members(pending') : old < new
    <2>1. /\ Evicted \in 0..Len(pending)
          /\ Len(pending') = Len(pending) - Evicted + 1
          /\ \A i \in 1..(Len(pending) - Evicted) :
                pending'[i] = pending[i + Evicted]
          /\ pending'[Len(pending')] = received
          /\ gapPc = "push"
      BY <1>1, BufferAssumption, PushedPlaces DEF OrderInv
    <2>2. Len(pending) \in Nat
      BY <1>1, Places DEF OrderInv, BufferInv
    <2>3. received \in Members(pending')
      BY <2>1, <2>2 DEF Members
    <2>4. ASSUME NEW old \in Members(pending) \ Members(pending'),
                 NEW new \in Members(pending')
          PROVE  old < new
      <3>1. PICK i \in 1..Len(pending) : old = pending[i]
        BY DEF Members
      <3>2. PICK j \in 1..Len(pending') : new = pending'[j]
        BY DEF Members
      <3>3. i <= Evicted
        <4> SUFFICES ASSUME ~(i <= Evicted)
                     PROVE  FALSE
          OBVIOUS
        <4>1. /\ i - Evicted \in 1..(Len(pending) - Evicted)
              /\ i - Evicted \in 1..Len(pending')
              /\ (i - Evicted) + Evicted = i
          BY <2>1, <2>2
        <4>2. pending'[i - Evicted] = old
          BY <2>1, <3>1, <4>1
        <4> QED
          BY <4>1, <4>2 DEF Members
      <3>4. CASE j = Len(pending')
        BY <1>1, <2>1, <3>1, <3>2, <3>4 DEF OrderInv, Order, Heard
      <3>5. CASE j # Len(pending')
        <4>1. /\ j \in 1..(Len(pending) - Evicted + 1)
              /\ j # Len(pending) - Evicted + 1
          BY <2>1, <3>5
        <4>2. /\ j \in 1..(Len(pending) - Evicted)
              /\ j + Evicted \in 1..Len(pending)
              /\ i < j + Evicted
          <5>1. Evicted \in Nat /\ Len(pending) - Evicted \in Nat
            BY <2>1, <2>2
          <5>2. j \in Nat /\ j >= 1 /\ j <= Len(pending) - Evicted
            BY <4>1, <5>1
          <5> QED
            BY <2>2, <3>3, <5>1, <5>2
        <4> QED
          BY <1>1, <2>1, <3>1, <3>2, <4>2 DEF OrderInv, Order, Ascending
      <3> QED
        BY <3>4, <3>5
    <2> QED
      BY <2>3, <2>4
  <1>2. ASSUME [Next]_vars, gapPc = "push", gapPc' = "idle"
        PROVE  Push
    BY <1>2 DEF Next, vars, Start, Stop, GapStep, Receive, CallbackFinish,
       DeclineNoMemory, DeclineNoBuffer, Admit, Contended, TakeForPush,
       PostStep, BeginPost, TakeForDrain, DrainTimeout, Swap,
       NothingToSend, BackingOff, Serialize, TakeForRestore, RestoreTimeout,
       Reserve, Delivered, Undelivered, Rejected
  <1>3. OrderInv /\ [Next]_vars =>
          [gapPc = "push" /\ gapPc' = "idle" =>
             /\ received \in Members(pending')
             /\ \A old \in Members(pending) \ Members(pending'),
                   new \in Members(pending') : old < new]_vars
    BY <1>1, <1>2
  <1> QED
    BY <1>3, OrderAlways, PTL DEF Spec, DropsOldestFirst

-----------------------------------------------------------------------------
(* The ledger.                                                             *)

\* What the refinement mapping calls held.
Held == Members(pending) \cup Members(batch) \cup InHand

\* The ledger counts as everybody does.
LEMMA SameCardinality == \A S : Ledger!Cardinality(S) = Cardinality(S)
  BY DEF Ledger!Cardinality, Cardinality

\* The steps of the ledger, over the mapping.
LEMMA LedgerSteps ==
    /\ Ledger!Hear <=>
          /\ received < MaxReceived
          /\ received' = received + 1
          /\ Held' = Held \cup {received'}
          /\ UNCHANGED <<posted, dropped>>
    /\ \A S : Ledger!Deliver(S) <=>
          /\ Held' = Held \ S
          /\ posted' = posted + Cardinality(S)
          /\ UNCHANGED <<received, dropped>>
    /\ \A S : Ledger!Discard(S) <=>
          /\ Held' = Held \ S
          /\ dropped' = dropped + Cardinality(S)
          /\ UNCHANGED <<received, posted>>
    /\ Ledger!LedgerNext <=>
          Ledger!Hear \/ \E S \in SUBSET Held : Ledger!Deliver(S) \/ Ledger!Discard(S)
    /\ (UNCHANGED Ledger!ledgerVars) <=> UNCHANGED <<received, posted, dropped, Held>>
  BY SameCardinality DEF Ledger!Hear, Ledger!Deliver, Ledger!Discard,
     Ledger!LedgerNext, Ledger!ledgerVars, Held

\* The callback's hand holds nothing that the buffers do.
LEMMA HandIsApart ==
    ASSUME Typed, Order, gapPc # "idle"
    PROVE  received \notin Members(pending) \cup Members(batch)
  <1>1. \A i \in 1..Len(pending) : pending[i] < received
    BY DEF Order, Heard
  <1>2. \A i \in 1..Len(batch) : batch[i] < received
    BY DEF Order, Heard
  <1> QED
    BY <1>1, <1>2, Places DEF Members

\* Nor do the two buffers share a member.
LEMMA BuffersAreApart ==
    ASSUME Typed, Order
    PROVE  Members(pending) \cap Members(batch) = {}
  <1> SUFFICES ASSUME NEW i \in 1..Len(batch), NEW j \in 1..Len(pending),
                      batch[i] = pending[j]
               PROVE  FALSE
    BY DEF Members
  <1>1. batch[i] < pending[j]
    BY DEF Order, Precedes
  <1>2. batch[i] \in Nat /\ pending[j] \in Nat
    BY Places
  <1> QED
    BY <1>1, <1>2

\* An advertisement heard is one more that is held.
LEMMA ReceiveIsHear ==
    ASSUME Receive
    PROVE  Ledger!Hear
  <1>1. /\ received < MaxReceived /\ received' = received + 1
        /\ UNCHANGED <<pending, batch, posted, dropped>>
        /\ gapPc = "idle" /\ gapPc' = "admit"
    BY DEF Receive, bufVars, batchVars
  <1>2. InHand = {} /\ InHand' = {received'}
    BY <1>1 DEF InHand
  <1>3. Held' = Held \cup {received'}
    BY <1>1, <1>2 DEF Held, Members
  <1> QED
    BY <1>1, <1>3, LedgerSteps

\* Each of the callback's refusals discards what it has in hand.
LEMMA RefusalIsDiscard ==
    ASSUME OrderInv, DeclineNoMemory \/ DeclineNoBuffer \/ Contended
    PROVE  Ledger!LedgerNext
  <1>1. /\ UNCHANGED <<pending, batch, received, posted>>
        /\ dropped' = dropped + 1
        /\ gapPc # "idle" /\ gapPc' = "idle"
    BY DEF DeclineNoMemory, DeclineNoBuffer, Contended, bufVars, batchVars
  <1>2. received \notin Members(pending) \cup Members(batch)
    BY <1>1, HandIsApart DEF OrderInv, BufferInv
  <1>3. InHand = {received} /\ InHand' = {}
    BY <1>1 DEF InHand
  <1>4. Held' = Held \ {received} /\ {received} \in SUBSET Held
    BY <1>1, <1>2, <1>3 DEF Held, Members
  <1>5. Cardinality({received}) = 1
    BY FS_Singleton
  <1>6. Ledger!Discard({received})
    BY <1>1, <1>4, <1>5, LedgerSteps
  <1> QED
    BY <1>4, <1>6, LedgerSteps

\* A push discards what it evicts, and the newcomer changes places only.
LEMMA PushIsDiscard ==
    ASSUME BufferAssumption, OrderInv, Push
    PROVE  Ledger!LedgerNext
  <1> DEFINE S == {pending[i] : i \in 1..Evicted}
             n == Len(pending) - Evicted
  <1>1. /\ Evicted \in 0..Len(pending)
        /\ Len(pending') = n + 1
        /\ \A i \in 1..n : pending'[i] = pending[i + Evicted]
        /\ pending'[Len(pending')] = received
        /\ UNCHANGED <<batch, received, posted>>
        /\ gapPc = "push" /\ gapPc' = "idle"
        /\ dropped' = dropped + Evicted
    BY PushedPlaces DEF OrderInv
  <1>2. Len(pending) \in Nat /\ \A i \in 1..Len(pending) : pending[i] \in Nat
    BY Places DEF OrderInv, BufferInv
  <1>3. Cardinality(S) = Evicted
    BY <1>1, AscendingCardinality DEF OrderInv, Order, BufferInv, Typed
  <1>4. S \subseteq Members(pending)
    <2>1. 1..Evicted \subseteq 1..Len(pending)
      BY <1>1, <1>2
    <2> QED
      BY <2>1 DEF Members
  <1>5. n \in Nat /\ pending'[n + 1] = received
    BY <1>1, <1>2
  <1>6. Members(pending') = (Members(pending) \ S) \cup {received}
    <2>1. ASSUME NEW a \in Members(pending')
          PROVE  a \in (Members(pending) \ S) \cup {received}
      <3>1. PICK i \in 1..Len(pending') : a = pending'[i]
        BY DEF Members
      <3>2. i \in 1..(n + 1)
        BY <1>1
      <3>3. CASE i = n + 1
        BY <1>5, <3>1, <3>3
      <3>4. CASE i \in 1..n
        <4>1. i + Evicted \in 1..Len(pending) /\ a = pending[i + Evicted]
          BY <1>1, <1>2, <3>1, <3>4
        <4>2. \A j \in 1..Evicted : j \in 1..Len(pending) /\ j < i + Evicted
          BY <1>1, <1>2, <3>4
        <4>3. \A j \in 1..Evicted : pending[j] < a
          BY <4>1, <4>2 DEF OrderInv, Order, Ascending
        <4>4. a \notin S
          BY <1>2, <4>1, <4>2, <4>3
        <4> QED
          BY <4>1, <4>4 DEF Members
      <3> QED
        BY <1>5, <3>2, <3>3, <3>4
    <2>2. ASSUME NEW a \in Members(pending) \ S
          PROVE  a \in Members(pending')
      <3>1. PICK i \in 1..Len(pending) : a = pending[i]
        BY DEF Members
      <3>2. ~(i \in 1..Evicted)
        BY <2>2, <3>1
      <3>3. i - Evicted \in 1..n /\ (i - Evicted) + Evicted = i
        BY <1>1, <1>2, <3>2
      <3>4. pending'[i - Evicted] = a
        BY <1>1, <3>1, <3>3
      <3>5. i - Evicted \in 1..Len(pending')
        BY <1>1, <1>5, <3>3
      <3> QED
        BY <3>4, <3>5 DEF Members
    <2>3. received \in Members(pending')
      <3>1. n + 1 \in 1..Len(pending')
        BY <1>1, <1>5
      <3> QED
        BY <1>5, <3>1 DEF Members
    <2> QED
      BY <2>1, <2>2, <2>3
  <1>7. received \notin S /\ S \cap Members(batch) = {}
    BY <1>1, <1>4, HandIsApart, BuffersAreApart DEF OrderInv, BufferInv
  <1>8. Members(batch)' = Members(batch) /\ InHand = {received} /\ InHand' = {}
    BY <1>1 DEF InHand, Members
  <1> HIDE DEF S
  <1>9. Held' = Held \ S /\ S \in SUBSET Held
    BY <1>4, <1>6, <1>7, <1>8 DEF Held
  <1>10. Ledger!Discard(S)
    BY <1>1, <1>3, <1>9, LedgerSteps
  <1> QED
    BY <1>9, <1>10, LedgerSteps

\* The batch is delivered or discarded as one.
LEMMA SettlingIsLeaving ==
    ASSUME OrderInv, BackingOff \/ Delivered \/ Undelivered \/ Rejected
    PROVE  Ledger!LedgerNext
  <1>1. /\ batch' = <<>>
        /\ UNCHANGED <<pending, received, gapPc>>
        /\ \/ posted' = posted + Len(batch) /\ dropped' = dropped
           \/ dropped' = dropped + Len(batch) /\ posted' = posted
    BY SettlingSteps
  <1>2. Cardinality(Members(batch)) = Len(batch)
    <2>1. Len(batch) \in 0..Len(batch)
      BY Places DEF OrderInv, BufferInv
    <2> QED
      BY <2>1, AscendingCardinality DEF OrderInv, Order, BufferInv, Typed, Members
  <1>3. Members(batch') = {}
    BY <1>1, EmptySeq DEF Members
  <1>4. Members(pending)' = Members(pending) /\ InHand' = InHand
    BY <1>1 DEF Members, InHand
  <1>5. InHand \cap Members(batch) = {}
    BY HandIsApart DEF InHand, OrderInv, BufferInv
  <1>6. Members(pending) \cap Members(batch) = {}
    BY BuffersAreApart DEF OrderInv, BufferInv
  <1>7. Held' = Held \ Members(batch) /\ Members(batch) \in SUBSET Held
    BY <1>3, <1>4, <1>5, <1>6 DEF Held
  <1>8. Ledger!Deliver(Members(batch)) \/ Ledger!Discard(Members(batch))
    BY <1>1, <1>2, <1>7, LedgerSteps
  <1> QED
    BY <1>7, <1>8, LedgerSteps

\* The rest only moves what is held.
LEMMA MovesAreStutters ==
    ASSUME OrderInv,
           \/ Start \/ Stop \/ Admit \/ TakeForPush \/ BeginPost \/ TakeForDrain
           \/ DrainTimeout \/ Swap \/ NothingToSend \/ Serialize \/ TakeForRestore
           \/ RestoreTimeout \/ Reserve \/ UNCHANGED vars
    PROVE  UNCHANGED Ledger!ledgerVars
  <1>1. CASE Swap
    <2>1. /\ batch = <<>> /\ batch' = pending /\ pending' = <<>>
          /\ UNCHANGED <<received, posted, dropped, gapPc>>
      BY <1>1, SwapStep DEF OrderInv
    <2>2. Members(batch) = {} /\ Members(pending') = {}
      BY <2>1, EmptySeq DEF Members
    <2>3. Held' = Held
      BY <2>1, <2>2 DEF Held, Members, InHand
    <2> QED
      BY <2>1, <2>3, LedgerSteps
  <1>2. CASE ~Swap
    <2>1. /\ UNCHANGED <<pending, batch, received, posted, dropped>>
          /\ gapPc' = "idle" <=> gapPc = "idle"
      <3> USE DEF lifeVars, bufVars, batchVars, counters
      <3>1. CASE Start \/ Stop \/ UNCHANGED vars
        BY <3>1 DEF Start, Stop, vars
      <3>2. CASE Admit \/ TakeForPush
        BY <3>2 DEF Admit, TakeForPush
      <3>3. CASE BeginPost \/ TakeForDrain \/ DrainTimeout \/ NothingToSend
        BY <3>3 DEF BeginPost, TakeForDrain, DrainTimeout, NothingToSend
      <3>4. CASE Serialize \/ TakeForRestore \/ RestoreTimeout \/ Reserve
        BY <3>4 DEF Serialize, TakeForRestore, RestoreTimeout, Reserve
      <3> QED
        BY <1>2, <3>1, <3>2, <3>3, <3>4
    <2>2. Held' = Held
      BY <2>1 DEF Held, Members, InHand
    <2> QED
      BY <2>1, <2>2, LedgerSteps
  <1> QED
    BY <1>1, <1>2

\* The two threads, their buffers and their mutex implement the ledger: every
\* advertisement heard is held until it leaves, and leaves once, by a step
\* that counts it once.
THEOREM LedgerImplemented == Spec => ImplementsLedger
  <1>1. Init => Ledger!LedgerInit
    BY EmptySeq DEF Init, Ledger!LedgerInit, Members, InHand
  <1>2. OrderInv /\ [Next]_vars => [Ledger!LedgerNext]_(Ledger!ledgerVars)
    BY BufferAssumption, ReceiveIsHear, RefusalIsDiscard, PushIsDiscard,
       SettlingIsLeaving, MovesAreStutters, LedgerSteps
       DEF Next, GapStep, CallbackFinish, PostStep
  <1> QED
    BY <1>1, <1>2, OrderAlways, PTL DEF Spec, ImplementsLedger, Ledger!LedgerSpec
=============================================================================
