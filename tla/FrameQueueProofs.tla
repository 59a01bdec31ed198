-------------------------- MODULE FrameQueueProofs --------------------------
(***************************************************************************)
(* Proofs about FrameQueue, for every set of configurations, frame sizes   *)
(* and jitter delays, and for streams of any length.                       *)
(***************************************************************************)
EXTENDS FrameQueue, FoldTheorems, TLAPS

-----------------------------------------------------------------------------
(* Type correctness.                                                       *)

\* Sizes are numbers, for a unit and for the empty slot.
LEMMA SizeIsNat == \A u \in Unit \cup {NoUnit} : u.size \in Nat /\ u.id \in Nat
<1>1. \A u \in Unit : u.size \in Nat /\ u.id \in Nat
  BY ConfigAssumption DEF Unit
<1>2. NoUnit.size \in Nat /\ NoUnit.id \in Nat
  BY DEF NoUnit
<1> QED
  BY <1>1, <1>2

\* What a pass of dequeue finds in the slot and leaves in the queue.
LEMMA PullTypes ==
  ASSUME TypeOK
  PROVE  /\ Pulled \in Unit \cup {NoUnit}
         /\ Rest \in Seq(Unit)
         /\ RestBytes \in Nat
<1>1. CASE Pulls
  <2>1. Head(queue) \in Unit /\ Tail(queue) \in Seq(Unit)
    BY <1>1 DEF TypeOK, Pulls
  <2>2. Head(queue).size \in Nat
    BY <2>1, SizeIsNat
  <2>3. RestBytes \in Nat
    BY <1>1, <2>2 DEF TypeOK, RestBytes
  <2> QED
    BY <1>1, <2>1, <2>3 DEF Pulled, Rest
<1>2. CASE ~Pulls
  BY <1>2 DEF TypeOK, Pulled, Rest, RestBytes
<1> QED
  BY <1>1, <1>2

\* Clearing the queue keeps the types, whatever unit is pushed afterwards.
LEMMA ClearTypes ==
  ASSUME TypeOK,
         NEW cur \in Unit \cup {NoUnit}, NEW us \in Seq(Unit), NEW lost \in Nat,
         Clear(cur, us, lost)
  PROVE  /\ queue' \in Seq(Unit)
         /\ queued_bytes' \in Nat
         /\ current' \in Unit \cup {NoUnit}
         /\ dropped_units' \in Nat
<1>1. queued_bytes' \in Nat
  <2>1. CASE us = <<>>
    BY <2>1 DEF Clear
  <2>2. CASE us # <<>>
    <3>1. us[1] \in Unit
      BY <2>2
    <3> QED
      BY <2>2, <3>1, SizeIsNat DEF Clear
  <2> QED
    BY <2>1, <2>2
<1>2. dropped_units' \in Nat
  BY DEF Clear, TypeOK
<1> QED
  BY <1>1, <1>2 DEF Clear

\* What is left in the slot after drop_current, as configured.
LEMMA KeptType == TypeOK => Kept \in Unit \cup {NoUnit}
BY DEF TypeOK, Kept

\* Offering a frame keeps the types of what every enqueue changes.
LEMMA OfferedTypes ==
  ASSUME TypeOK, NEW u \in [id : {offered + 1}, key : BOOLEAN, size : Sizes],
         Offered(u)
  PROVE  /\ u \in Unit
         /\ offered' \in Nat
         /\ loss' \in [on : BOOLEAN, key : Nat, kept : Nat, out : Nat]
         /\ UNCHANGED <<cfg, closed, jitter_delay, threads>>
         /\ ~closed
         /\ u.id = offered + 1
<1>1. u \in Unit
  BY DEF TypeOK, Unit
<1>2. loss' \in [on : BOOLEAN, key : Nat, kept : Nat, out : Nat]
  BY <1>1, SizeIsNat DEF Offered, TypeOK
<1>3. offered' \in Nat
  BY DEF Offered, TypeOK
<1> QED
  BY <1>1, <1>2, <1>3 DEF Offered

\* Every step keeps the types.
LEMMA TypeStep == TypeOK /\ [Next]_vars => TypeOK'
<1> SUFFICES ASSUME TypeOK, [Next]_vars PROVE TypeOK'
  OBVIOUS
<1> USE DEF threads, buffers
<1>1. ASSUME NEW u \in [id : {offered + 1}, key : BOOLEAN, size : Sizes], Enqueue(u)
      PROVE  TypeOK'
  <2>1. CASE EnqueueClosed
    BY <2>1 DEF EnqueueClosed, TypeOK, vars
  <2>2. CASE Offered(u)
    <3>1. u \in Unit /\ <<u>> \in Seq(Unit) /\ <<>> \in Seq(Unit) /\ u.size \in Nat
      BY <2>2, OfferedTypes, SizeIsNat
    <3>2. Kept \in Unit \cup {NoUnit} /\ current \in Unit \cup {NoUnit}
          /\ NoUnit \in Unit \cup {NoUnit}
      BY KeptType DEF TypeOK
    <3>3. /\ queue' \in Seq(Unit)
          /\ queued_bytes' \in Nat
          /\ current' \in Unit \cup {NoUnit}
          /\ dropped_units' \in Nat
          /\ waiting_for_keyframe' \in BOOLEAN
      <4>1. CASE EnqueueWaitingDelta(u)
        BY <4>1 DEF EnqueueWaitingDelta, TypeOK
      <4>2. CASE EnqueueWaitingKey(u)
        BY <4>2, <3>1, <3>2, ClearTypes DEF EnqueueWaitingKey
      <4>3. CASE EnqueueHardReset(u)
        BY <4>3, <3>1, <3>2, ClearTypes DEF EnqueueHardReset
      <4>4. CASE EnqueueLatest(u)
        BY <4>4, <3>1, <3>2, ClearTypes DEF EnqueueLatest, TypeOK
      <4>5. CASE EnqueueOverflow(u)
        BY <4>5, <3>1, <3>2, ClearTypes DEF EnqueueOverflow
      <4>6. CASE EnqueueNormal(u)
        BY <4>6, <3>1 DEF EnqueueNormal, Push, TypeOK
      <4> QED
        BY <1>1, <2>2, <4>1, <4>2, <4>3, <4>4, <4>5, <4>6, OfferedTypes
        DEF Enqueue, EnqueueClosed
    <3> QED
      BY <2>2, <3>3, OfferedTypes DEF TypeOK
  <2> QED
    BY <1>1, <2>1, <2>2 DEF Enqueue, EnqueueWaitingDelta, EnqueueWaitingKey,
       EnqueueHardReset, EnqueueLatest, EnqueueOverflow, EnqueueNormal
<1>2. CASE DequeueNone
  BY <1>2 DEF DequeueNone, TypeOK
<1>3. CASE DequeueHold
  BY <1>3, PullTypes DEF DequeueHold, TypeOK
<1>4. CASE DequeueDeliver
  <2>1. Pulled \in Unit
    BY <1>4, PullTypes DEF DequeueDeliver
  <2>2. [id |-> Pulled.id, key |-> Pulled.key] \in Frame
    BY <2>1 DEF Unit, Frame
  <2> QED
    BY <1>4, <2>2, PullTypes DEF DequeueDeliver, TypeOK
<1>5. CASE DecodeDone
  BY <1>5 DEF DecodeDone, TypeOK
<1>6. CASE SetJitterDelay
  BY <1>6 DEF SetJitterDelay, TypeOK
<1>7. CASE WaitForKeyframe
  <2>1. Kept \in Unit \cup {NoUnit} /\ Kept.id \in Nat
    BY KeptType, SizeIsNat
  <2>2. loss' \in [on : BOOLEAN, key : Nat, kept : Nat, out : Nat]
    BY <1>7, <2>1 DEF WaitForKeyframe, MarkLoss, TypeOK
  <2>3. /\ queue' \in Seq(Unit) /\ queued_bytes' \in Nat
        /\ current' \in Unit \cup {NoUnit} /\ dropped_units' \in Nat
    BY <1>7, <2>1, ClearTypes, <<>> \in Seq(Unit) DEF WaitForKeyframe
  <2> QED
    BY <1>7, <2>2, <2>3 DEF WaitForKeyframe, TypeOK
<1>8. CASE Flush
  <2>1. NoUnit \in Unit \cup {NoUnit} /\ NoUnit.id \in Nat
    BY SizeIsNat
  <2>2. loss' \in [on : BOOLEAN, key : Nat, kept : Nat, out : Nat]
    BY <1>8, <2>1 DEF Flush, MarkLoss, TypeOK
  <2>3. /\ queue' \in Seq(Unit) /\ queued_bytes' \in Nat
        /\ current' \in Unit \cup {NoUnit} /\ dropped_units' \in Nat
    BY <1>8, <2>1, ClearTypes, <<>> \in Seq(Unit) DEF Flush
  <2> QED
    BY <1>8, <2>2, <2>3 DEF Flush, TypeOK
<1>9. CASE Close
  <2>1. /\ queue' \in Seq(Unit) /\ queued_bytes' \in Nat
        /\ current' \in Unit \cup {NoUnit} /\ dropped_units' \in Nat
    BY <1>9, ClearTypes, <<>> \in Seq(Unit) DEF Close
  <2> QED
    BY <1>9, <2>1 DEF Close, TypeOK
<1>10. CASE Cancel
  BY <1>10 DEF Cancel, TypeOK
<1>11. CASE UNCHANGED vars
  BY <1>11 DEF vars, TypeOK
<1> QED
  BY <1>1, <1>2, <1>3, <1>4, <1>5, <1>6, <1>7, <1>8, <1>9, <1>10, <1>11
  DEF Next, Dequeue

\* The state of the queue stays well formed in every behaviour: frame_queue.rs
\* never leaves a field outside its type, the byte counter and the dropped
\* counter included.
THEOREM TypeCorrect == Spec => []TypeOK
<1>1. Init => TypeOK
  <2> SUFFICES ASSUME Init PROVE TypeOK
    OBVIOUS
  <2>1. cfg \in Config /\ cfg.jitter \in Jitters
    BY ConfigAssumption DEF Init, Config
  <2>2. loss \in [on : BOOLEAN, key : Nat, kept : Nat, out : Nat]
    BY DEF Init
  <2>3. waiting_for_keyframe \in BOOLEAN /\ closed \in BOOLEAN /\ cancel \in BOOLEAN
    BY DEF Init
  <2>4. /\ queue \in Seq(Unit) /\ queued_bytes \in Nat /\ dropped_units \in Nat
        /\ jitter_delay \in Jitters /\ offered \in Nat
        /\ delivered \in Seq(Frame)
    BY <2>1 DEF Init
  <2>5. current \in Unit \cup {NoUnit} /\ consumer \in {"dequeue", "decode", "gone"}
    BY DEF Init
  <2> QED
    BY <2>1, <2>2, <2>3, <2>4, <2>5 DEF TypeOK
<1> QED
  BY <1>1, TypeStep, PTL DEF Spec

-----------------------------------------------------------------------------
(* The safety invariant.                                                   *)

\* While the queue waits for a key frame it holds nothing it could play,
\* except the unit the decoder side had already taken when the configuration
\* keeps that one (every branch that sets waiting_for_keyframe clears first).
WaitingHoldsNothing ==
  waiting_for_keyframe =>
    /\ queue = <<>>
    /\ cfg.drop_current => current = NoUnit

\* The parts of the safety invariant that support each other.
SafetyInv == InOrder /\ Conserved /\ ClosedIsEmpty /\ WaitingHoldsNothing

\* The number of the last frame handed out, and those before it, are numbers.
LEMMA LastOutType ==
  ASSUME TypeOK
  PROVE  /\ \A i \in 1..Len(delivered) : delivered[i].id \in Nat
         /\ LastOut \in Nat
         /\ delivered' = delivered => LastOut' = LastOut
<1>1. \A i \in 1..Len(delivered) : delivered[i] \in Frame
  BY DEF TypeOK
<1>2. \A i \in 1..Len(delivered) : delivered[i].id \in Nat
  BY <1>1 DEF Frame
<1>3. LastOut \in Nat
  <2>1. CASE delivered = <<>>
    BY <2>1 DEF LastOut
  <2>2. CASE delivered # <<>>
    <3>1. Len(delivered) \in 1..Len(delivered)
      BY <2>2 DEF TypeOK
    <3> QED
      BY <2>2, <3>1, <1>2 DEF LastOut
  <2> QED
    BY <2>1, <2>2
<1>4. delivered' = delivered => LastOut' = LastOut
  BY DEF LastOut
<1> QED
  BY <1>2, <1>3, <1>4

\* Clearing the queue, with at most the newest frame pushed behind it, keeps
\* the order.
LEMMA ClearKeepsOrder ==
  ASSUME TypeOK, InOrder,
         NEW cur \in {NoUnit, current}, NEW us \in Seq(Unit), NEW lost \in Nat,
         Clear(cur, us, lost), delivered' = delivered,
         \/ us = <<>> /\ offered' \in {offered, offered + 1}
         \/ \E u \in Unit : us = <<u>> /\ u.id = offered + 1 /\ offered' = offered + 1
  PROVE  InOrder'
<1>1. /\ LastOut' = LastOut /\ LastOut \in Nat /\ LastOut <= offered
      /\ offered \in Nat /\ offered' \in Nat /\ offered <= offered'
  BY LastOutType DEF TypeOK, InOrder
<1>2. current'.id \in Nat /\ current'.id <= offered /\ current' = cur
      /\ (current' # NoUnit => LastOut < current'.id)
  BY SizeIsNat DEF Clear, TypeOK, InOrder, NoUnit
<1>3. CASE us = <<>>
  <2>1. DOMAIN queue' = {}
    BY <1>3 DEF Clear
  <2> QED
    BY <1>1, <1>2, <2>1 DEF InOrder
<1>4. ASSUME NEW u \in Unit, us = <<u>>, u.id = offered + 1, offered' = offered + 1
      PROVE  InOrder'
  <2>1. DOMAIN queue' = {1} /\ queue'[1] = u
    BY <1>4 DEF Clear
  <2> QED
    BY <1>1, <1>2, <1>4, <2>1 DEF InOrder
<1> QED
  BY <1>3, <1>4

\* Pushing the newest frame keeps the order.
LEMMA PushKeepsOrder ==
  ASSUME TypeOK, InOrder, NEW u \in Unit, Push(u), delivered' = delivered,
         u.id = offered + 1, offered' = offered + 1
  PROVE  InOrder'
<1>1. /\ LastOut' = LastOut /\ LastOut \in Nat /\ LastOut <= offered
      /\ offered \in Nat /\ current.id \in Nat
  BY SizeIsNat, LastOutType DEF TypeOK, InOrder
<1>2. /\ Len(queue') = Len(queue) + 1
      /\ \A i \in 1..Len(queue) : queue'[i] = queue[i]
      /\ queue'[Len(queue) + 1] = u
      /\ Len(queue) \in Nat
      /\ DOMAIN queue = 1..Len(queue) /\ DOMAIN queue' = 1..(Len(queue) + 1)
  BY DEF Push, TypeOK
<1>3. \A i \in 1..Len(queue) : queue[i].id \in Nat
  BY SizeIsNat DEF TypeOK
<1> QED
  BY <1>1, <1>2, <1>3 DEF Push, InOrder

\* The head of the queue moves to the free slot without breaking the order.
LEMMA PullKeepsOrder ==
  ASSUME TypeOK, InOrder
  PROVE  /\ \A i, j \in DOMAIN Rest : i < j => Rest[i].id < Rest[j].id
         /\ \A i \in DOMAIN Rest : Pulled.id < Rest[i].id /\ LastOut < Rest[i].id
         /\ \A i \in DOMAIN Rest : Rest[i].id <= offered
         /\ Pulled # NoUnit => LastOut < Pulled.id
         /\ Pulled.id <= offered
<1>1. CASE Pulls
  <2>1. /\ Len(queue) \in Nat /\ Len(queue) # 0 /\ DOMAIN queue = 1..Len(queue)
        /\ Head(queue) = queue[1]
    BY <1>1 DEF Pulls, TypeOK
  <2>2. /\ DOMAIN Tail(queue) = 1..(Len(queue) - 1)
        /\ \A i \in 1..(Len(queue) - 1) : Tail(queue)[i] = queue[i + 1]
    BY <1>1, <2>1 DEF Pulls, TypeOK
  <2> QED
    BY <1>1, <2>1, <2>2 DEF Pulled, Rest, InOrder
<1>2. CASE ~Pulls
  BY <1>2 DEF Pulled, Rest, InOrder
<1> QED
  BY <1>1, <1>2

\* Handing out what the slot holds keeps the order.
LEMMA DeliverKeepsOrder == TypeOK /\ InOrder /\ DequeueDeliver => InOrder'
<1> SUFFICES ASSUME TypeOK, InOrder, DequeueDeliver PROVE InOrder'
  OBVIOUS
<1> DEFINE out == [id |-> Pulled.id, key |-> Pulled.key]
<1>1. Pulled \in Unit /\ Pulled.id \in Nat /\ offered \in Nat /\ out.id = Pulled.id
  BY PullTypes, SizeIsNat DEF DequeueDeliver, TypeOK
<1>2. /\ delivered' = Append(delivered, out)
      /\ Len(delivered') = Len(delivered) + 1
      /\ \A i \in 1..Len(delivered) : delivered'[i] = delivered[i]
      /\ delivered'[Len(delivered) + 1] = out
      /\ Len(delivered) \in Nat
      /\ DOMAIN delivered = 1..Len(delivered)
      /\ DOMAIN delivered' = 1..(Len(delivered) + 1)
      /\ delivered' # <<>>
  BY DEF DequeueDeliver, TypeOK
<1>3. LastOut' = Pulled.id
  BY <1>1, <1>2 DEF LastOut
<1>4. \A i \in 1..Len(delivered) : delivered[i].id \in Nat /\ delivered[i].id <= LastOut
  <2> SUFFICES ASSUME NEW i \in 1..Len(delivered)
               PROVE  delivered[i].id \in Nat /\ delivered[i].id <= LastOut
    OBVIOUS
  <2>1. Len(delivered) \in 1..Len(delivered) /\ delivered # <<>>
    BY <1>2
  <2>2. delivered[Len(delivered)].id = LastOut
    BY <2>1 DEF LastOut
  <2>3. CASE i = Len(delivered)
    BY <2>2, <2>3, LastOutType
  <2>4. CASE i # Len(delivered)
    <3>1. i < Len(delivered)
      <4>1. Len(delivered) \in Nat /\ i \in Nat /\ i <= Len(delivered)
        BY <1>2
      <4> QED
        BY <2>4, <4>1
    <3>2. delivered[i].id < delivered[Len(delivered)].id
      BY <1>2, <2>1, <3>1 DEF InOrder
    <3>3. delivered[i].id \in Nat /\ LastOut \in Nat
      BY LastOutType
    <3> QED
      BY <2>2, <3>2, <3>3
  <2> QED
    BY <2>3, <2>4
<1>5. LastOut \in Nat /\ LastOut < Pulled.id /\ Pulled.id <= offered
  BY PullKeepsOrder, LastOutType DEF DequeueDeliver
<1>6. \A i, j \in DOMAIN delivered' : i < j => delivered'[i].id < delivered'[j].id
  BY <1>1, <1>2, <1>4, <1>5 DEF InOrder
<1>7. current' = NoUnit /\ queue' = Rest /\ offered' = offered /\ NoUnit.id = 0
  BY DEF DequeueDeliver, NoUnit
<1>8. \A i \in DOMAIN Rest : Rest[i].id \in Nat /\ Rest[i].id > 0
  <2>1. \A i \in DOMAIN Rest : Rest[i] \in Unit
    BY PullTypes
  <2> QED
    BY <2>1 DEF Unit
<1> QED
  BY <1>1, <1>3, <1>5, <1>6, <1>7, <1>8, PullKeepsOrder DEF InOrder

\* Holding a unit for the jitter delay keeps the order.
LEMMA HoldKeepsOrder == TypeOK /\ InOrder /\ DequeueHold => InOrder'
<1> SUFFICES ASSUME TypeOK, InOrder, DequeueHold PROVE InOrder'
  OBVIOUS
<1>1. /\ current' = Pulled /\ queue' = Rest /\ offered' = offered
      /\ delivered' = delivered /\ LastOut' = LastOut
  BY LastOutType DEF DequeueHold, threads
<1> QED
  BY <1>1, PullKeepsOrder DEF InOrder

\* What the slot holds after drop_current as configured.
LEMMA KeptIsCurrentOrNone == Kept \in {NoUnit, current} /\ (cfg.drop_current => Kept = NoUnit)
BY DEF Kept

\* Clearing moves the units it takes away into the counter, and no others.
LEMMA ClearCounts ==
  ASSUME TypeOK, NEW cur \in {NoUnit, current}, NEW us \in Seq(Unit), NEW lost \in Nat,
         Clear(cur, us, lost)
  PROVE  dropped_units' + Held' = dropped_units + Held + Len(us) + lost
<1>1. Len(queue) \in Nat /\ dropped_units \in Nat /\ Len(us) \in Nat
  BY DEF TypeOK
<1>2. CASE cur = current
  <2>1. queue' = us /\ current' = current /\ dropped_units' = dropped_units + Len(queue) + lost
    BY <1>1, <1>2 DEF Clear
  <2>2. CASE current = NoUnit
    <3>1. Held = Len(queue) /\ Held' = Len(us)
      BY <1>1, <2>1, <2>2 DEF Held
    <3> QED
      BY <1>1, <2>1, <3>1
  <2>3. CASE current # NoUnit
    <3>1. Held = Len(queue) + 1 /\ Held' = Len(us) + 1
      BY <1>1, <2>1, <2>3 DEF Held
    <3> QED
      BY <1>1, <2>1, <3>1
  <2> QED
    BY <2>2, <2>3
<1>3. CASE cur = NoUnit /\ current # NoUnit
  <2>1. dropped_units' = dropped_units + Len(queue) + lost + 1
    BY <1>1, <1>3 DEF Clear
  <2>2. Held = Len(queue) + 1 /\ Held' = Len(us)
    BY <1>1, <1>3 DEF Clear, Held
  <2> QED
    BY <1>1, <2>1, <2>2
<1> QED
  BY <1>2, <1>3

\* Clearing and pushing one unit accounts for one frame more.
LEMMA ClearPushCounts ==
  ASSUME TypeOK, NEW cur \in {NoUnit, current}, NEW u \in Unit, Clear(cur, <<u>>, 0)
  PROVE  dropped_units' + Held' = dropped_units + Held + 1
<1>1. <<u>> \in Seq(Unit) /\ Len(<<u>>) = 1
  OBVIOUS
<1>2. dropped_units' + Held' = dropped_units + Held + Len(<<u>>) + 0
  BY <1>1, ClearCounts
<1>3. dropped_units \in Nat /\ Held \in Nat
  BY DEF TypeOK, Held
<1> QED
  BY <1>1, <1>2, <1>3

\* So does clearing when the arriving frame is dropped with the rest; clearing
\* alone accounts for none.
LEMMA ClearDropCounts ==
  ASSUME TypeOK, NEW cur \in {NoUnit, current}, NEW lost \in Nat, Clear(cur, <<>>, lost)
  PROVE  dropped_units' + Held' = dropped_units + Held + lost
<1>1. <<>> \in Seq(Unit) /\ Len(<<>>) = 0
  OBVIOUS
<1>2. dropped_units' + Held' = dropped_units + Held + Len(<<>>) + lost
  BY <1>1, ClearCounts
<1>3. dropped_units \in Nat /\ Held \in Nat
  BY DEF TypeOK, Held
<1> QED
  BY <1>1, <1>2, <1>3

\* A pass of dequeue moves at most one unit from the queue to the slot.
LEMMA PullCounts ==
  ASSUME TypeOK
  PROVE  /\ Held = Len(Rest) + (IF Pulled = NoUnit THEN 0 ELSE 1)
         /\ Len(Rest) \in Nat
<1>1. CASE Pulls
  <2>1. Head(queue) \in Unit /\ Len(Tail(queue)) = Len(queue) - 1 /\ Len(queue) \in Nat
        /\ Len(queue) # 0
    BY <1>1 DEF Pulls, TypeOK
  <2>2. Head(queue) # NoUnit
    BY <2>1 DEF Unit, NoUnit
  <2> QED
    BY <1>1, <2>1, <2>2 DEF Rest, Pulled, Pulls, Held
<1>2. CASE ~Pulls
  BY <1>2 DEF Rest, Pulled, TypeOK, Held
<1> QED
  BY <1>1, <1>2

\* Every way through enqueue_inner keeps the invariant.
LEMMA EnqueueSafe ==
  ASSUME TypeOK, SafetyInv,
         NEW u \in [id : {offered + 1}, key : BOOLEAN, size : Sizes], Enqueue(u)
  PROVE  SafetyInv'
<1>1. CASE EnqueueClosed
  BY <1>1 DEF EnqueueClosed, vars, buffers, threads, SafetyInv, InOrder, Conserved,
     ClosedIsEmpty, WaitingHoldsNothing, LastOut, Held
<1>2. CASE Offered(u)
  <2>1. /\ u \in Unit /\ <<u>> \in Seq(Unit) /\ <<>> \in Seq(Unit) /\ u.id = offered + 1
        /\ Len(<<u>>) = 1
    BY <1>2, OfferedTypes
  <2>2. /\ offered' = offered + 1 /\ delivered' = delivered /\ ~closed'
        /\ cfg' = cfg /\ offered \in Nat
    BY <1>2 DEF Offered, threads, TypeOK
  <2>3. Kept \in {NoUnit, current} /\ (cfg.drop_current => Kept = NoUnit)
    BY KeptIsCurrentOrNone
  <2>4. dropped_units \in Nat /\ Held \in Nat /\ Len(delivered) \in Nat
    BY DEF TypeOK, Held
  <2>5. InOrder'
    <3>1. CASE EnqueueWaitingDelta(u)
      <4>1. queue' = queue /\ current' = current /\ LastOut' = LastOut
        BY <3>1, <2>2, LastOutType DEF EnqueueWaitingDelta
      <4>2. LastOut \in Nat /\ current.id \in Nat
        BY LastOutType, SizeIsNat DEF TypeOK
      <4>3. \A i \in DOMAIN queue : queue[i] \in Unit
        BY DEF TypeOK
      <4>4. \A i \in DOMAIN queue : queue[i].id \in Nat
        BY <4>3, SizeIsNat
      <4> QED
        BY <2>2, <4>1, <4>2, <4>4 DEF SafetyInv, InOrder
    <3>2. CASE EnqueueWaitingKey(u)
      BY <3>2, <2>1, <2>2, <2>3, ClearKeepsOrder DEF EnqueueWaitingKey, SafetyInv
    <3>3. CASE EnqueueHardReset(u)
      BY <3>3, <2>1, <2>2, ClearKeepsOrder DEF EnqueueHardReset, SafetyInv
    <3>4. CASE EnqueueLatest(u)
      BY <3>4, <2>1, <2>2, ClearKeepsOrder DEF EnqueueLatest, SafetyInv
    <3>5. CASE EnqueueOverflow(u)
      BY <3>5, <2>1, <2>2, <2>3, ClearKeepsOrder DEF EnqueueOverflow, SafetyInv
    <3>6. CASE EnqueueNormal(u)
      BY <3>6, <2>1, <2>2, PushKeepsOrder DEF EnqueueNormal, SafetyInv
    <3> QED
      BY <1>2, <3>1, <3>2, <3>3, <3>4, <3>5, <3>6 DEF Enqueue, EnqueueClosed, Offered
  <2>6. Conserved'
    <3>1. dropped_units' + Held' = dropped_units + Held + 1
      <4>1. CASE EnqueueWaitingDelta(u)
        <5>1. dropped_units' = dropped_units + 1 /\ Held' = Held
          BY <4>1 DEF EnqueueWaitingDelta, Held
        <5> QED
          BY <2>4, <5>1
      <4>2. CASE EnqueueWaitingKey(u)
        BY <4>2, <2>1, <2>3, ClearPushCounts DEF EnqueueWaitingKey
      <4>3. CASE EnqueueHardReset(u)
        BY <4>3, <2>1, ClearPushCounts DEF EnqueueHardReset
      <4>4. CASE EnqueueLatest(u)
        BY <4>4, <2>1, ClearPushCounts DEF EnqueueLatest
      <4>5. CASE EnqueueOverflow(u)
        BY <4>5, <2>1, <2>3, ClearPushCounts, ClearDropCounts DEF EnqueueOverflow
      <4>6. CASE EnqueueNormal(u)
        <5>1. /\ dropped_units' = dropped_units /\ current' = current
              /\ Len(queue') = Len(queue) + 1 /\ Len(queue) \in Nat
          BY <4>6, <2>1 DEF EnqueueNormal, Push, TypeOK
        <5>2. Held' = Held + 1
          BY <5>1 DEF Held
        <5> QED
          BY <2>4, <5>1, <5>2
      <4> QED
        BY <1>2, <4>1, <4>2, <4>3, <4>4, <4>5, <4>6 DEF Enqueue, EnqueueClosed, Offered
    <3>2. dropped_units' \in Nat /\ Held' \in Nat
      <4>1. TypeOK'
        BY TypeStep DEF Next
      <4> QED
        BY <4>1 DEF TypeOK, Held
    <3>3. offered = Len(delivered) + dropped_units + Held
      BY DEF SafetyInv, Conserved
    <3>4. offered' = Len(delivered) + (dropped_units' + Held')
      BY <2>2, <2>4, <3>1, <3>3
    <3>5. Len(delivered') = Len(delivered)
      BY <2>2
    <3>6. offered' = Len(delivered') + dropped_units' + Held'
      BY <2>4, <3>2, <3>4, <3>5
    <3> QED
      BY <3>6 DEF Conserved
  <2>7. WaitingHoldsNothing'
    <3>1. CASE EnqueueWaitingDelta(u)
      BY <3>1, <2>2 DEF EnqueueWaitingDelta, SafetyInv, WaitingHoldsNothing
    <3>2. CASE EnqueueWaitingKey(u) \/ EnqueueHardReset(u)
      BY <3>2 DEF EnqueueWaitingKey, EnqueueHardReset, WaitingHoldsNothing
    <3>3. CASE EnqueueLatest(u) \/ EnqueueNormal(u)
      BY <3>3 DEF EnqueueLatest, EnqueueNormal, WaitingHoldsNothing
    <3>4. CASE EnqueueOverflow(u)
      BY <3>4, <2>2, <2>3 DEF EnqueueOverflow, Clear, WaitingHoldsNothing
    <3> QED
      BY <1>2, <3>1, <3>2, <3>3, <3>4 DEF Enqueue, EnqueueClosed, Offered
  <2>8. ClosedIsEmpty'
    BY <2>2 DEF ClosedIsEmpty
  <2> QED
    BY <2>5, <2>6, <2>7, <2>8 DEF SafetyInv
<1> QED
  BY <1>1, <1>2 DEF Enqueue, EnqueueWaitingDelta, EnqueueWaitingKey,
     EnqueueHardReset, EnqueueLatest, EnqueueOverflow, EnqueueNormal

\* The operations that only clear keep the invariant.
LEMMA ClearingSafe ==
  ASSUME TypeOK, SafetyInv, NEW cur \in {NoUnit, current}, Clear(cur, <<>>, 0),
         UNCHANGED <<cfg, offered, delivered>>,
         ClosedIsEmpty', waiting_for_keyframe' /\ cfg.drop_current => cur = NoUnit
  PROVE  SafetyInv'
<1>1. <<>> \in Seq(Unit) /\ offered' = offered /\ delivered' = delivered /\ cfg' = cfg
  OBVIOUS
<1>2. InOrder'
  BY <1>1, ClearKeepsOrder DEF SafetyInv
<1>3. queue' = <<>> /\ current' = cur
  BY DEF Clear
<1>4. WaitingHoldsNothing'
  BY <1>1, <1>3 DEF WaitingHoldsNothing
<1>5. Conserved'
  <2>1. dropped_units \in Nat /\ Held \in Nat /\ Len(delivered) \in Nat
    BY DEF TypeOK, Held
  <2>2. dropped_units' + Held' = dropped_units + Held
    BY <2>1, ClearDropCounts
  <2>3. dropped_units' \in Nat /\ Held' \in Nat
    <3>1. cur \in Unit \cup {NoUnit} /\ 0 \in Nat
      BY DEF TypeOK
    <3>2. dropped_units' \in Nat
      BY <1>1, <3>1, ClearTypes
    <3>3. Len(queue') = 0
      BY <1>3
    <3> QED
      BY <3>2, <3>3 DEF Held
  <2>4. offered' = Len(delivered') + dropped_units' + Held'
    <3>1. offered = Len(delivered) + (dropped_units + Held)
      BY <2>1 DEF SafetyInv, Conserved
    <3>2. offered' = Len(delivered) + (dropped_units' + Held')
      BY <1>1, <2>2, <3>1
    <3>3. Len(delivered') = Len(delivered)
      BY <1>1
    <3> QED
      BY <2>1, <2>3, <3>2, <3>3
  <2> QED
    BY <2>4 DEF Conserved
<1> QED
  BY <1>2, <1>4, <1>5 DEF SafetyInv

\* Each pass of dequeue keeps the invariant.
LEMMA DequeueSafe ==
  ASSUME TypeOK, SafetyInv, DequeueHold \/ DequeueDeliver
  PROVE  SafetyInv'
<1>1. InOrder'
  BY HoldKeepsOrder, DeliverKeepsOrder DEF SafetyInv
<1>2. queue' = Rest /\ ~closed' /\ cfg' = cfg /\ offered' = offered
      /\ dropped_units' = dropped_units /\ Pulled # NoUnit
      /\ waiting_for_keyframe' = waiting_for_keyframe
  BY DEF DequeueHold, DequeueDeliver
<1>3. /\ Len(Rest) \in Nat /\ Held = Len(Rest) + 1 /\ Len(delivered) \in Nat
      /\ dropped_units \in Nat
  BY <1>2, PullCounts DEF TypeOK
<1>4. Conserved'
  <2>1. offered = Len(delivered) + dropped_units + Held
    BY DEF SafetyInv, Conserved
  <2>2. CASE DequeueHold
    <3>1. Held' = Held /\ delivered' = delivered
      BY <1>2, <1>3, <2>2 DEF DequeueHold, Held, threads
    <3> QED
      BY <1>2, <2>1, <3>1 DEF Conserved
  <2>3. CASE DequeueDeliver
    <3>1. Held' = Len(Rest)
      BY <1>2, <1>3, <2>3 DEF DequeueDeliver, Held
    <3>2. Len(delivered') = Len(delivered) + 1
      BY <2>3 DEF DequeueDeliver, TypeOK
    <3>3. offered' = Len(delivered') + dropped_units' + Held'
      BY <1>2, <1>3, <2>1, <3>1, <3>2
    <3> QED
      BY <3>3 DEF Conserved
  <2> QED
    BY <2>2, <2>3
<1>5. WaitingHoldsNothing'
  <2> SUFFICES ASSUME waiting_for_keyframe
               PROVE  WaitingHoldsNothing'
    BY <1>2 DEF WaitingHoldsNothing
  <2>1. queue = <<>> /\ ~Pulls /\ Rest = <<>> /\ Pulled = current
    BY DEF SafetyInv, WaitingHoldsNothing, Pulls, Rest, Pulled
  <2>2. ~cfg.drop_current
    BY <1>2, <2>1 DEF SafetyInv, WaitingHoldsNothing
  <2> QED
    BY <1>2, <2>1, <2>2 DEF WaitingHoldsNothing
<1>6. ClosedIsEmpty'
  BY <1>2 DEF ClosedIsEmpty
<1> QED
  BY <1>1, <1>4, <1>5, <1>6 DEF SafetyInv

\* Every step keeps the invariant.
LEMMA SafetyStep == TypeOK /\ SafetyInv /\ [Next]_vars => SafetyInv'
<1> SUFFICES ASSUME TypeOK, SafetyInv, [Next]_vars PROVE SafetyInv'
  OBVIOUS
<1>1. CASE \E u \in [id : {offered + 1}, key : BOOLEAN, size : Sizes] : Enqueue(u)
  BY <1>1, EnqueueSafe
<1>2. CASE DequeueHold \/ DequeueDeliver
  BY <1>2, DequeueSafe
<1>3. CASE WaitForKeyframe
  <2>1. Kept \in {NoUnit, current} /\ (cfg.drop_current => Kept = NoUnit)
    BY KeptIsCurrentOrNone
  <2>2. ClosedIsEmpty'
    BY <1>3 DEF WaitForKeyframe, ClosedIsEmpty
  <2> QED
    BY <1>3, <2>1, <2>2, ClearingSafe DEF WaitForKeyframe, threads
<1>4. CASE Flush
  <2>1. ClosedIsEmpty'
    BY <1>4 DEF Flush, Clear, ClosedIsEmpty
  <2> QED
    BY <1>4, <2>1, ClearingSafe DEF Flush, threads
<1>5. CASE Close
  <2>1. ClosedIsEmpty'
    BY <1>5 DEF Close, Clear, ClosedIsEmpty
  <2> QED
    BY <1>5, <2>1, ClearingSafe DEF Close, threads
<1>6. CASE DequeueNone \/ DecodeDone \/ SetJitterDelay \/ Cancel \/ UNCHANGED vars
  <2>1. UNCHANGED <<cfg, buffers, waiting_for_keyframe, closed, offered, delivered>>
    BY <1>6 DEF DequeueNone, DecodeDone, SetJitterDelay, Cancel, vars, threads
  <2> QED
    BY <2>1 DEF buffers, SafetyInv, InOrder, Conserved, ClosedIsEmpty,
       WaitingHoldsNothing, LastOut, Held
<1> QED
  BY <1>1, <1>2, <1>3, <1>4, <1>5, <1>6 DEF Next, Dequeue

\* In every behaviour of the queue, of any length and under any configuration:
\* units come out in the order they went in; every frame offered is handed out,
\* held or counted as dropped exactly once; a closed queue is empty; a waiting
\* queue holds nothing it could play (enqueue_inner, dequeue, wait_for_keyframe,
\* flush and close of frame_queue.rs together).
THEOREM QueueSafety ==
  Spec => [](InOrder /\ Conserved /\ ClosedIsEmpty /\ WaitingHoldsNothing)
<1>1. Init => SafetyInv
  <2> SUFFICES ASSUME Init PROVE SafetyInv
    OBVIOUS
  <2>1. /\ DOMAIN queue = {} /\ DOMAIN delivered = {} /\ Len(queue) = 0
        /\ Len(delivered) = 0 /\ LastOut = 0 /\ current.id = 0
    BY DEF Init, LastOut, NoUnit
  <2>2. InOrder
    BY <2>1 DEF InOrder, Init
  <2>3. Conserved
    BY <2>1 DEF Conserved, Held, Init
  <2>4. ClosedIsEmpty /\ WaitingHoldsNothing
    BY DEF Init, ClosedIsEmpty, WaitingHoldsNothing
  <2> QED
    BY <2>2, <2>3, <2>4 DEF SafetyInv
<1>2. SafetyInv => InOrder /\ Conserved /\ ClosedIsEmpty /\ WaitingHoldsNothing
  BY DEF SafetyInv
<1> QED
  BY <1>1, <1>2, SafetyStep, TypeCorrect, PTL DEF Spec

\* Each frame offered to the open queue is accounted for exactly once.
THEOREM FramesAreConserved == Spec => []Conserved
BY QueueSafety, PTL

\* close leaves nothing behind, and nothing enters afterwards.
THEOREM ClosedStaysEmpty == Spec => []ClosedIsEmpty
BY QueueSafety, PTL

-----------------------------------------------------------------------------
(* The queue implements LossyFifo.                                         *)

\* A pass of dequeue holds the same frames before and after the pull.
LEMMA PullIds ==
  ASSUME TypeOK
  PROVE  HeldIds = {Rest[i].id : i \in DOMAIN Rest}
                     \cup (IF Pulled = NoUnit THEN {} ELSE {Pulled.id})
<1>1. CASE Pulls
  <2>1. /\ Len(queue) \in Nat /\ Len(queue) # 0 /\ DOMAIN queue = 1..Len(queue)
        /\ Head(queue) = queue[1] /\ Head(queue) \in Unit
    BY <1>1 DEF Pulls, TypeOK
  <2>2. Head(queue) # NoUnit
    BY <2>1 DEF Unit, NoUnit
  <2>3. /\ DOMAIN Tail(queue) = 1..(Len(queue) - 1)
        /\ \A i \in 1..(Len(queue) - 1) : Tail(queue)[i] = queue[i + 1]
    BY <1>1, <2>1 DEF Pulls, TypeOK
  <2>4. {queue[i].id : i \in 1..Len(queue)}
          = {queue[i + 1].id : i \in 1..(Len(queue) - 1)} \cup {queue[1].id}
    <3>1. \A i \in 1..Len(queue) : i = 1 \/ (i - 1 \in 1..(Len(queue) - 1) /\ i = (i - 1) + 1)
      BY <2>1
    <3>2. \A i \in 1..(Len(queue) - 1) : i + 1 \in 1..Len(queue)
      BY <2>1
    <3>3. 1 \in 1..Len(queue)
      BY <2>1
    <3> QED
      BY <3>1, <3>2, <3>3
  <2>5. {queue[i + 1].id : i \in 1..(Len(queue) - 1)}
          = {Tail(queue)[i].id : i \in 1..(Len(queue) - 1)}
    BY <2>3
  <2>6. HeldIds = {queue[i].id : i \in 1..Len(queue)}
    BY <1>1, <2>1 DEF HeldIds, Pulls
  <2>7. Rest = Tail(queue) /\ Pulled = Head(queue)
    BY <1>1 DEF Rest, Pulled
  <2>8. HeldIds = {Rest[i].id : i \in DOMAIN Rest} \cup {Pulled.id}
    BY <2>1, <2>3, <2>4, <2>5, <2>6, <2>7
  <2> QED
    BY <2>2, <2>7, <2>8
<1>2. CASE ~Pulls
  BY <1>2 DEF HeldIds, Rest, Pulled
<1> QED
  BY <1>1, <1>2

\* Clearing can only take frames away, apart from the one that is pushed.
LEMMA ClearIds ==
  ASSUME NEW cur \in {NoUnit, current}, NEW us, NEW lost, Clear(cur, us, lost)
  PROVE  /\ us = <<>> => HeldIds' \subseteq HeldIds
         /\ us = <<>> /\ cur = NoUnit => HeldIds' = {}
         /\ \A u : us = <<u>> => HeldIds' \subseteq HeldIds \cup {u.id}
<1>1. queue' = us /\ current' = cur
  BY DEF Clear
<1>2. us = <<>> => HeldIds' \subseteq HeldIds
  <2> SUFFICES ASSUME us = <<>> PROVE HeldIds' \subseteq HeldIds
    OBVIOUS
  <2>1. DOMAIN queue' = {}
    BY <1>1
  <2> QED
    BY <1>1, <2>1 DEF HeldIds
<1>3. us = <<>> /\ cur = NoUnit => HeldIds' = {}
  <2> SUFFICES ASSUME us = <<>>, cur = NoUnit PROVE HeldIds' = {}
    OBVIOUS
  <2>1. DOMAIN queue' = {}
    BY <1>1
  <2> QED
    BY <1>1, <2>1 DEF HeldIds
<1>4. ASSUME NEW u, us = <<u>> PROVE HeldIds' \subseteq HeldIds \cup {u.id}
  <2>1. DOMAIN queue' = {1} /\ queue'[1] = u
    BY <1>1, <1>4
  <2> QED
    BY <1>1, <2>1 DEF HeldIds
<1> QED
  BY <1>2, <1>3, <1>4

\* Pushing adds the frame that is pushed.
LEMMA PushIds ==
  ASSUME TypeOK, NEW u \in Unit, Push(u)
  PROVE  HeldIds' \subseteq HeldIds \cup {u.id}
<1>1. /\ DOMAIN queue = 1..Len(queue) /\ DOMAIN queue' = 1..(Len(queue) + 1)
      /\ \A i \in 1..Len(queue) : queue'[i] = queue[i]
      /\ queue'[Len(queue) + 1] = u /\ current' = current /\ Len(queue) \in Nat
  BY DEF Push, TypeOK
<1>2. \A i \in 1..(Len(queue) + 1) : i \in 1..Len(queue) \/ i = Len(queue) + 1
  BY <1>1
<1> QED
  BY <1>1, <1>2 DEF HeldIds

\* An enqueue on the open queue offers a frame.
LEMMA EnqueueOffers ==
  ASSUME TypeOK, NEW u \in [id : {offered + 1}, key : BOOLEAN, size : Sizes],
         Enqueue(u), ~EnqueueClosed
  PROVE  Fifo!Offer
<1>1. Offered(u)
  BY DEF Enqueue, EnqueueWaitingDelta, EnqueueWaitingKey,
     EnqueueHardReset, EnqueueLatest, EnqueueOverflow, EnqueueNormal
<1>2. u \in Unit /\ u.id = offered + 1 /\ Kept \in {NoUnit, current}
  BY <1>1, OfferedTypes, KeptIsCurrentOrNone
<1>3. ~closed /\ closed' = closed /\ offered' = offered + 1 /\ LastOut' = LastOut
  BY <1>1, LastOutType DEF Offered, threads
<1>4. HeldIds' \subseteq HeldIds \cup {offered + 1}
  <2>1. CASE EnqueueWaitingDelta(u)
    BY <2>1 DEF EnqueueWaitingDelta, HeldIds
  <2>2. CASE EnqueueWaitingKey(u)
    BY <2>2, <1>2, ClearIds DEF EnqueueWaitingKey
  <2>3. CASE EnqueueHardReset(u)
    BY <2>3, <1>2, ClearIds DEF EnqueueHardReset
  <2>4. CASE EnqueueLatest(u)
    BY <2>4, <1>2, ClearIds DEF EnqueueLatest
  <2>5. CASE EnqueueOverflow(u)
    BY <2>5, <1>2, ClearIds DEF EnqueueOverflow
  <2>6. CASE EnqueueNormal(u)
    BY <2>6, <1>2, PushIds DEF EnqueueNormal
  <2> QED
    BY <2>1, <2>2, <2>3, <2>4, <2>5, <2>6 DEF Enqueue
<1> QED
  BY <1>3, <1>4 DEF Fifo!Offer

\* A delivery hands out the oldest frame held.
LEMMA DeliverTakes ==
  ASSUME TypeOK, SafetyInv, DequeueDeliver
  PROVE  Fifo!Take
<1>1. /\ Pulled # NoUnit /\ current' = NoUnit /\ queue' = Rest
      /\ offered' = offered /\ ~closed /\ closed' = closed
  BY DEF DequeueDeliver
<1>2. Pulled \in Unit /\ Pulled.id \in Nat
  BY <1>1, PullTypes, SizeIsNat
<1>3. HeldIds = {Rest[i].id : i \in DOMAIN Rest} \cup {Pulled.id}
  BY <1>1, PullIds
<1>4. HeldIds' = {Rest[i].id : i \in DOMAIN Rest}
  BY <1>1 DEF HeldIds
<1>5. \A i \in DOMAIN Rest : Rest[i].id \in Nat /\ Pulled.id < Rest[i].id
  <2>1. \A i \in DOMAIN Rest : Rest[i] \in Unit
    BY PullTypes
  <2> QED
    BY <2>1, SizeIsNat, PullKeepsOrder DEF SafetyInv
<1>6. LastOut' = Pulled.id
  <2>1. /\ delivered' # <<>>
        /\ delivered'[Len(delivered')] = [id |-> Pulled.id, key |-> Pulled.key]
    BY DEF DequeueDeliver, TypeOK
  <2> QED
    BY <2>1 DEF LastOut
<1>7. /\ Pulled.id \in HeldIds
      /\ \A m \in HeldIds : Pulled.id <= m
      /\ HeldIds' = HeldIds \ {Pulled.id}
  BY <1>2, <1>3, <1>4, <1>5
<1> QED
  BY <1>1, <1>6, <1>7 DEF Fifo!Take

\* Every step of the queue is a step of LossyFifo or changes nothing it sees.
LEMMA StepRefines ==
  TypeOK /\ SafetyInv /\ [Next]_vars => [Fifo!ANext]_<<offered, HeldIds, LastOut, ~closed>>
<1> SUFFICES ASSUME TypeOK, SafetyInv, [Next]_vars
             PROVE  Fifo!ANext \/ UNCHANGED <<offered, HeldIds, LastOut, closed>>
  BY DEF Fifo!ANext
<1>1. CASE \E u \in [id : {offered + 1}, key : BOOLEAN, size : Sizes] : Enqueue(u)
  <2>1. CASE EnqueueClosed
    BY <2>1 DEF EnqueueClosed, vars, buffers, threads, HeldIds, LastOut
  <2>2. CASE ~EnqueueClosed
    BY <1>1, <2>2, EnqueueOffers DEF Fifo!ANext
  <2> QED
    BY <2>1, <2>2
<1>2. CASE DequeueHold
  <2>1. /\ current' = Pulled /\ queue' = Rest /\ offered' = offered
        /\ closed' = closed /\ LastOut' = LastOut
    BY <1>2, LastOutType DEF DequeueHold, threads
  <2>2. HeldIds' = HeldIds
    BY <2>1, PullIds DEF HeldIds
  <2> QED
    BY <2>1, <2>2
<1>3. CASE DequeueDeliver
  BY <1>3, DeliverTakes DEF Fifo!ANext
<1>4. CASE WaitForKeyframe
  <2>1. HeldIds' \subseteq HeldIds
    BY <1>4, ClearIds, KeptIsCurrentOrNone DEF WaitForKeyframe
  <2>2. offered' = offered /\ LastOut' = LastOut /\ closed' = closed
    BY <1>4, LastOutType DEF WaitForKeyframe, threads
  <2> QED
    BY <2>1, <2>2 DEF Fifo!ANext, Fifo!Lose
<1>5. CASE Flush
  <2>1. HeldIds' \subseteq HeldIds
    BY <1>5, ClearIds DEF Flush
  <2>2. offered' = offered /\ LastOut' = LastOut /\ closed' = closed
    BY <1>5, LastOutType DEF Flush, threads
  <2> QED
    BY <2>1, <2>2 DEF Fifo!ANext, Fifo!Lose
<1>6. CASE Close
  <2>1. HeldIds' = {}
    BY <1>6, ClearIds DEF Close
  <2>2. offered' = offered /\ LastOut' = LastOut /\ closed' = TRUE
    BY <1>6, LastOutType DEF Close, threads
  <2> QED
    BY <2>1, <2>2 DEF Fifo!ANext, Fifo!Close
<1>7. CASE DequeueNone \/ DecodeDone \/ SetJitterDelay \/ Cancel \/ UNCHANGED vars
  <2>1. UNCHANGED <<buffers, closed, offered, delivered>>
    BY <1>7 DEF DequeueNone, DecodeDone, SetJitterDelay, Cancel, vars, threads
  <2> QED
    BY <2>1 DEF buffers, HeldIds, LastOut
<1> QED
  BY <1>1, <1>2, <1>3, <1>4, <1>5, <1>6, <1>7 DEF Next, Dequeue

\* The detailed queue of frame_queue.rs implements the abstract lossy queue:
\* whatever its buffers, limits and modes do, its users see frames lost, never
\* repeated, reordered or handed out after close.
THEOREM QueueImplementsFifo == Spec => FifoSpec
<1>1. Init => Fifo!AInit
  <2> SUFFICES ASSUME Init PROVE Fifo!AInit
    OBVIOUS
  <2>1. DOMAIN queue = {} /\ current = NoUnit
    BY DEF Init
  <2>2. HeldIds = {} /\ LastOut = 0
    BY <2>1 DEF HeldIds, LastOut, Init
  <2> QED
    BY <2>2 DEF Fifo!AInit, Init
<1>2. Spec => []SafetyInv
  BY QueueSafety, PTL DEF SafetyInv
<1> QED
  BY <1>1, <1>2, StepRefines, TypeCorrect, PTL DEF Spec, FifoSpec, Fifo!ASpec, Fifo!avars

-----------------------------------------------------------------------------
(* The limits.                                                             *)

\* After a clearing at most one unit is queued, and the limits hold.
LEMMA ClearWithinLimits ==
  ASSUME TypeOK, NEW cur, NEW us \in Seq(Unit), NEW lost, Clear(cur, us, lost),
         cfg' = cfg, Len(us) <= 1
  PROVE  LimitsHeld'
<1>1. Len(queue') = Len(us) /\ Len(us) \in Nat
  BY DEF Clear
<1>2. cfg.max_units \in Nat /\ cfg.max_units >= 1
  BY DEF TypeOK, Config
<1> QED
  BY <1>1, <1>2 DEF LimitsHeld

\* Every step keeps the configured limits.
LEMMA LimitsStep == TypeOK /\ LimitsHeld /\ [Next]_vars => LimitsHeld'
<1> SUFFICES ASSUME TypeOK, LimitsHeld, [Next]_vars PROVE LimitsHeld'
  OBVIOUS
<1>1. ASSUME NEW u \in [id : {offered + 1}, key : BOOLEAN, size : Sizes], Enqueue(u)
      PROVE  LimitsHeld'
  <2>1. CASE EnqueueClosed
    BY <2>1 DEF EnqueueClosed, vars, buffers, LimitsHeld
  <2>2. CASE Offered(u)
    <3>1. /\ u \in Unit /\ <<u>> \in Seq(Unit) /\ <<>> \in Seq(Unit)
          /\ Len(<<u>>) <= 1 /\ Len(<<>>) <= 1 /\ cfg' = cfg
      BY <2>2, OfferedTypes
    <3>2. CASE EnqueueWaitingDelta(u)
      BY <3>1, <3>2 DEF EnqueueWaitingDelta, LimitsHeld
    <3>3. CASE EnqueueWaitingKey(u) \/ EnqueueHardReset(u) \/ EnqueueLatest(u)
               \/ EnqueueOverflow(u)
      BY <3>1, <3>3, ClearWithinLimits
      DEF EnqueueWaitingKey, EnqueueHardReset, EnqueueLatest, EnqueueOverflow
    <3>4. CASE EnqueueNormal(u)
      <4>1. /\ Len(queue') = Len(queue) + 1 /\ Len(queue) \in Nat
            /\ queued_bytes' = queued_bytes + u.size
        BY <3>1, <3>4 DEF EnqueueNormal, Push, TypeOK
      <4>2. /\ cfg.max_units \in Nat /\ cfg.max_bytes \in Nat /\ queued_bytes \in Nat
            /\ u.size \in Nat
        BY <3>1, SizeIsNat DEF TypeOK, Config
      <4>3. ~(Len(queue) >= cfg.max_units) /\ ~(queued_bytes + u.size > cfg.max_bytes)
        BY <3>4 DEF EnqueueNormal, Overflows
      <4> QED
        BY <3>1, <4>1, <4>2, <4>3 DEF LimitsHeld
    <3> QED
      BY <1>1, <2>2, <3>2, <3>3, <3>4 DEF Enqueue, EnqueueClosed, Offered
  <2> QED
    BY <1>1, <2>1, <2>2 DEF Enqueue, EnqueueWaitingDelta, EnqueueWaitingKey,
       EnqueueHardReset, EnqueueLatest, EnqueueOverflow, EnqueueNormal
<1>2. CASE DequeueHold \/ DequeueDeliver
  <2>1. queue' = Rest /\ queued_bytes' = RestBytes /\ cfg' = cfg
    BY <1>2 DEF DequeueHold, DequeueDeliver
  <2>2. /\ Len(Rest) <= Len(queue) /\ Len(Rest) \in Nat /\ Len(queue) \in Nat
        /\ cfg.max_units \in Nat /\ cfg.max_bytes \in Nat /\ queued_bytes \in Nat
    BY DEF Rest, Pulls, TypeOK, Config
  <2>3. RestBytes \in Nat /\ RestBytes <= queued_bytes
    <3>1. CASE Pulls
      <4>1. Head(queue) \in Unit
        BY <3>1 DEF Pulls, TypeOK
      <4>2. Head(queue).size \in Nat
        BY <4>1, SizeIsNat
      <4> QED
        BY <2>2, <4>2 DEF RestBytes
    <3>2. CASE ~Pulls
      BY <2>2, <3>2 DEF RestBytes
    <3> QED
      BY <3>1, <3>2
  <2> QED
    BY <2>1, <2>2, <2>3 DEF LimitsHeld
<1>3. CASE WaitForKeyframe \/ Flush \/ Close
  <2>1. <<>> \in Seq(Unit) /\ Len(<<>>) <= 1
    OBVIOUS
  <2> QED
    BY <1>3, <2>1, ClearWithinLimits DEF WaitForKeyframe, Flush, Close
<1>4. CASE DequeueNone \/ DecodeDone \/ SetJitterDelay \/ Cancel \/ UNCHANGED vars
  <2>1. UNCHANGED <<cfg, buffers>>
    BY <1>4 DEF DequeueNone, DecodeDone, SetJitterDelay, Cancel, vars
  <2> QED
    BY <2>1 DEF buffers, LimitsHeld
<1> QED
  BY <1>1, <1>2, <1>3, <1>4 DEF Next, Dequeue

\* The queue never holds more units than configured, nor more bytes unless it
\* holds a single unit: three of the five ways to push do not look at the
\* limits, and need not (enqueue_inner of frame_queue.rs).
THEOREM QueueWithinLimits == Spec => []LimitsHeld
<1>1. Init => LimitsHeld
  <2> SUFFICES ASSUME Init PROVE LimitsHeld
    OBVIOUS
  <2>1. Len(queue) = 0
    BY DEF Init
  <2>2. cfg \in Config
    BY ConfigAssumption DEF Init
  <2>3. cfg.max_units \in Nat
    BY <2>2 DEF Config
  <2> QED
    BY <2>1, <2>3 DEF LimitsHeld
<1> QED
  BY <1>1, LimitsStep, TypeCorrect, PTL DEF Spec

-----------------------------------------------------------------------------
(* What a request to wait for a key frame guarantees.                      *)

\* A frame not older than the first key frame offered since the request.
Fresh(n) == loss.key # 0 /\ n >= loss.key

\* WaitHonoured for what is still held as well: until the key frame comes the
\* queue waits and holds nothing, and afterwards only frames behind it.
WaitInv ==
  /\ loss.key <= offered
  /\ loss.on =>
       /\ loss.key = 0 => waiting_for_keyframe
       /\ \A i \in DOMAIN queue : Fresh(queue[i].id)
       /\ current # NoUnit => current.id = loss.kept \/ Fresh(current.id)
       /\ \A i \in DOMAIN delivered :
            i > loss.out => delivered[i].id = loss.kept \/ Fresh(delivered[i].id)

\* What an offered frame does to the buffers: only a key frame, or a frame
\* that comes while the queue does not wait, gets in.
LEMMA EnqueueParts ==
  ASSUME TypeOK, NEW u \in [id : {offered + 1}, key : BOOLEAN, size : Sizes],
         Offered(u), Enqueue(u)
  PROVE  /\ \A i \in DOMAIN queue' :
              \/ queue'[i] = u /\ (u.key \/ ~waiting_for_keyframe)
              \/ \E j \in DOMAIN queue : queue'[i] = queue[j]
         /\ current' = NoUnit \/ current' = current
         /\ ~u.key /\ waiting_for_keyframe => waiting_for_keyframe'
<1>1. u \in Unit /\ u.key \in BOOLEAN /\ waiting_for_keyframe \in BOOLEAN
  BY OfferedTypes DEF TypeOK
<1>2. Kept = NoUnit \/ Kept = current
  BY KeptIsCurrentOrNone
<1>3. CASE EnqueueWaitingDelta(u)
  BY <1>3 DEF EnqueueWaitingDelta
<1>4. ASSUME NEW cur, NEW lost, Clear(cur, <<u>>, lost)
      PROVE  current' = cur /\ \A i \in DOMAIN queue' : queue'[i] = u
  BY <1>4 DEF Clear
<1>5. ASSUME NEW cur, NEW lost, Clear(cur, <<>>, lost)
      PROVE  current' = cur /\ DOMAIN queue' = {}
  BY <1>5 DEF Clear
<1>6. CASE EnqueueWaitingKey(u)
  BY <1>2, <1>4, <1>6 DEF EnqueueWaitingKey
<1>7. CASE EnqueueHardReset(u)
  BY <1>4, <1>7 DEF EnqueueHardReset
<1>8. CASE EnqueueLatest(u)
  BY <1>4, <1>8 DEF EnqueueLatest
<1>9. CASE EnqueueOverflow(u)
  BY <1>2, <1>4, <1>5, <1>9 DEF EnqueueOverflow
<1>10. CASE EnqueueNormal(u)
  <2>1. /\ current' = current /\ Len(queue) \in Nat
        /\ DOMAIN queue = 1..Len(queue) /\ DOMAIN queue' = 1..(Len(queue) + 1)
        /\ \A i \in 1..Len(queue) : queue'[i] = queue[i]
        /\ queue'[Len(queue) + 1] = u
    BY <1>1, <1>10 DEF EnqueueNormal, Push, TypeOK
  <2>2. ~waiting_for_keyframe
    BY <1>10 DEF EnqueueNormal
  <2> QED
    BY <2>1, <2>2
<1> QED
  BY <1>3, <1>6, <1>7, <1>8, <1>9, <1>10 DEF Enqueue, EnqueueClosed, Offered

\* What dequeue finds is what the request to wait allows.
LEMMA PullHonours ==
  ASSUME TypeOK, WaitInv, loss.on
  PROVE  /\ Pulled # NoUnit => Pulled.id = loss.kept \/ Fresh(Pulled.id)
         /\ \A i \in DOMAIN Rest : Fresh(Rest[i].id)
<1>1. CASE Pulls
  <2>1. /\ Len(queue) \in Nat /\ Len(queue) # 0 /\ DOMAIN queue = 1..Len(queue)
        /\ Head(queue) = queue[1]
        /\ DOMAIN Tail(queue) = 1..(Len(queue) - 1)
        /\ \A i \in 1..(Len(queue) - 1) : Tail(queue)[i] = queue[i + 1]
    BY <1>1 DEF Pulls, TypeOK
  <2>2. 1 \in DOMAIN queue /\ \A i \in 1..(Len(queue) - 1) : i + 1 \in DOMAIN queue
    BY <2>1
  <2>3. Pulled = queue[1] /\ Rest = Tail(queue)
    BY <1>1, <2>1 DEF Pulled, Rest
  <2> QED
    BY <2>1, <2>2, <2>3 DEF WaitInv
<1>2. CASE ~Pulls
  BY <1>2 DEF Pulled, Rest, WaitInv
<1> QED
  BY <1>1, <1>2

\* Every step keeps the promise of wait_for_keyframe.
LEMMA WaitStep == TypeOK /\ WaitInv /\ [Next]_vars => WaitInv'
<1> SUFFICES ASSUME TypeOK, WaitInv, [Next]_vars PROVE WaitInv'
  OBVIOUS
<1> USE DEF threads, buffers
<1>1. /\ loss \in [on : BOOLEAN, key : Nat, kept : Nat, out : Nat]
      /\ offered \in Nat /\ waiting_for_keyframe \in BOOLEAN
  BY DEF TypeOK
<1>2. ASSUME NEW u \in [id : {offered + 1}, key : BOOLEAN, size : Sizes], Enqueue(u)
      PROVE  WaitInv'
  <2>1. CASE EnqueueClosed
    BY <2>1 DEF EnqueueClosed, vars, WaitInv, Fresh
  <2>2. CASE Offered(u)
    <3>1. /\ loss' = [loss EXCEPT !.key = IF u.key /\ @ = 0 THEN u.id ELSE @]
          /\ offered' = offered + 1 /\ delivered' = delivered
          /\ u.id = offered + 1 /\ u.key \in BOOLEAN
      BY <2>2 DEF Offered
    <3>2. /\ loss'.on = loss.on /\ loss'.kept = loss.kept /\ loss'.out = loss.out
          /\ loss'.key = IF u.key /\ loss.key = 0 THEN u.id ELSE loss.key
      BY <1>1, <3>1
    <3>3. loss'.key <= offered'
      BY <1>1, <3>1, <3>2 DEF WaitInv
    <3> DEFINE FreshNow(n) == loss'.key # 0 /\ n >= loss'.key
    <3> SUFFICES ASSUME loss.on
                 PROVE  /\ loss'.key = 0 => waiting_for_keyframe'
                        /\ \A i \in DOMAIN queue' : FreshNow(queue'[i].id)
                        /\ current' # NoUnit =>
                             current'.id = loss.kept \/ FreshNow(current'.id)
                        /\ \A i \in DOMAIN delivered :
                             i > loss.out => \/ delivered[i].id = loss.kept
                                             \/ FreshNow(delivered[i].id)
      BY <3>1, <3>2, <3>3 DEF WaitInv, Fresh
    <3>4. ASSUME NEW n, Fresh(n) PROVE FreshNow(n)
      BY <3>2, <3>4 DEF Fresh
    <3>5. ASSUME u.key \/ ~waiting_for_keyframe PROVE FreshNow(u.id)
      <4>1. loss'.key # 0
        BY <1>1, <3>1, <3>2, <3>5 DEF WaitInv
      <4>2. u.id >= loss'.key
        BY <1>1, <3>1, <3>2, <3>3
      <4> QED
        BY <3>1, <4>1, <4>2
    <3>6. /\ \A i \in DOMAIN queue' :
               \/ queue'[i] = u /\ (u.key \/ ~waiting_for_keyframe)
               \/ \E j \in DOMAIN queue : queue'[i] = queue[j]
          /\ current' = NoUnit \/ current' = current
          /\ ~u.key /\ waiting_for_keyframe => waiting_for_keyframe'
      BY <1>2, <2>2, EnqueueParts
    <3>7. loss'.key = 0 => waiting_for_keyframe'
      BY <1>1, <3>1, <3>2, <3>6 DEF WaitInv
    <3> HIDE DEF FreshNow
    <3>8. ASSUME NEW i \in DOMAIN queue' PROVE FreshNow(queue'[i].id)
      <4>1. CASE queue'[i] = u /\ (u.key \/ ~waiting_for_keyframe)
        BY <3>5, <4>1
      <4>2. ASSUME NEW j \in DOMAIN queue, queue'[i] = queue[j]
            PROVE  FreshNow(queue'[i].id)
        <5>1. Fresh(queue[j].id)
          BY DEF WaitInv
        <5> QED
          BY <3>4, <4>2, <5>1
      <4> QED
        BY <3>6, <4>1, <4>2
    <3>9. current' # NoUnit => current'.id = loss.kept \/ FreshNow(current'.id)
      BY <3>4, <3>6 DEF WaitInv
    <3>10. ASSUME NEW i \in DOMAIN delivered, i > loss.out
           PROVE  delivered[i].id = loss.kept \/ FreshNow(delivered[i].id)
      BY <3>4, <3>10 DEF WaitInv
    <3> QED
      BY <3>7, <3>8, <3>9, <3>10
  <2> QED
    BY <1>2, <2>1, <2>2 DEF Enqueue, EnqueueWaitingDelta, EnqueueWaitingKey,
       EnqueueHardReset, EnqueueLatest, EnqueueOverflow, EnqueueNormal
<1>3. CASE DequeueHold
  BY <1>3, PullHonours DEF DequeueHold, WaitInv, Fresh
<1>4. CASE DequeueDeliver
  <2>1. /\ UNCHANGED <<loss, offered, waiting_for_keyframe>>
        /\ queue' = Rest /\ current' = NoUnit /\ Pulled # NoUnit
        /\ delivered' = Append(delivered, [id |-> Pulled.id, key |-> Pulled.key])
    BY <1>4 DEF DequeueDeliver
  <2>2. /\ Len(delivered) \in Nat
        /\ DOMAIN delivered = 1..Len(delivered)
        /\ DOMAIN delivered' = 1..(Len(delivered) + 1)
        /\ \A i \in 1..Len(delivered) : delivered'[i] = delivered[i]
        /\ delivered'[Len(delivered) + 1].id = Pulled.id
    BY <2>1 DEF TypeOK
  <2>3. ASSUME loss.on, NEW i \in DOMAIN delivered', i > loss.out
        PROVE  delivered'[i].id = loss.kept \/ Fresh(delivered'[i].id)
    <3>1. CASE i \in 1..Len(delivered)
      BY <2>2, <2>3, <3>1 DEF WaitInv
    <3>2. CASE i = Len(delivered) + 1
      BY <2>1, <2>2, <2>3, <3>2, PullHonours
    <3> QED
      BY <2>2, <3>1, <3>2
  <2> QED
    BY <2>1, <2>3, PullHonours DEF WaitInv, Fresh
<1>5. CASE WaitForKeyframe \/ Flush
  <2>1. PICK wait \in BOOLEAN, cur \in {NoUnit, current} :
          /\ Clear(cur, <<>>, 0) /\ waiting_for_keyframe' = wait
          /\ MarkLoss(wait, cur) /\ offered' = offered /\ delivered' = delivered
    BY <1>5, KeptIsCurrentOrNone DEF WaitForKeyframe, Flush
  <2>2. /\ DOMAIN queue' = {} /\ current' = cur
        /\ loss' = [on |-> wait, key |-> 0, kept |-> cur.id, out |-> Len(delivered)]
    BY <2>1 DEF Clear, MarkLoss
  <2>3. \A i \in DOMAIN delivered : ~(i > Len(delivered))
    BY DEF TypeOK
  <2> QED
    BY <1>1, <2>1, <2>2, <2>3 DEF WaitInv, Fresh
<1>6. CASE Close
  <2>1. /\ DOMAIN queue' = {} /\ current' = NoUnit
        /\ UNCHANGED <<loss, offered, waiting_for_keyframe, delivered>>
    BY <1>6 DEF Close, Clear
  <2> QED
    BY <2>1 DEF WaitInv, Fresh
<1>7. CASE DequeueNone \/ DecodeDone \/ SetJitterDelay \/ Cancel \/ UNCHANGED vars
  <2>1. UNCHANGED <<queue, current, loss, offered, waiting_for_keyframe, delivered>>
    BY <1>7 DEF DequeueNone, DecodeDone, SetJitterDelay, Cancel, vars
  <2> QED
    BY <2>1 DEF WaitInv, Fresh
<1> QED
  BY <1>2, <1>3, <1>4, <1>5, <1>6, <1>7 DEF Next, Dequeue

\* After wait_for_keyframe the decoder gets the unit it was already promised,
\* and then nothing older than the first key frame offered since, whatever
\* overflows, resets, flushes and delays come in between.
THEOREM WaitIsHonoured == Spec => []WaitHonoured
<1>1. Init => WaitInv
  BY DEF Init, WaitInv, Fresh
<1>2. WaitInv => WaitHonoured
  BY DEF WaitInv, WaitHonoured, Fresh
<1> QED
  BY <1>1, <1>2, WaitStep, TypeCorrect, PTL DEF Spec

-----------------------------------------------------------------------------
(* The byte count.                                                         *)

\* The sizes of the units in a queue, added up.
Bytes(q) == FoldLeft(LAMBDA sum, u : sum + u.size, 0, q)

\* The same as a total: the last index is taken first.
SizesOf(q) == [i \in DOMAIN q |-> q[i].size]
Latest(n) == [s \in SUBSET (1..n) |-> Max(s)]

LEMMA LatestChooses ==
  ASSUME NEW n \in Nat
  PROVE  Chooses(Latest(n), 1..n)
<1> SUFFICES ASSUME NEW s \in SUBSET (1..n), s # {} PROVE Max(s) \in s
  BY DEF Chooses, Latest
<1>1. s \in SUBSET (0..n)
  OBVIOUS
<1>2. \E m \in s : \A k \in s : k <= m
  BY <1>1, GreatestBelow
<1>3. \E m \in s : \A k \in s : m >= k
  BY <1>2
<1> QED
  BY <1>3 DEF Max

\* The fold over a queue is a total of sizes.
LEMMA BytesIsTotal ==
  ASSUME NEW q \in Seq(Unit)
  PROVE  /\ Bytes(q) = Total(Latest(Len(q)), SizesOf(q), 1..Len(q))
         /\ Numbers(SizesOf(q), 1..Len(q))
<1> DEFINE n == Len(q)
           c == Latest(n)
           f == SizesOf(q)
<1>1. n \in Nat /\ DOMAIN q = 1..n /\ IsFiniteSet(1..n)
  BY FS_Interval
<1>2. Numbers(f, 1..n)
  BY SizeIsNat DEF Numbers, SizesOf
<1>3. Bytes(q) = (CHOOSE g : g = [s \in SUBSET (1..n) |->
                    IF s = {} THEN 0 ELSE g[s \ {Max(s)}] + q[Max(s)].size])[1..n]
  BY <1>1 DEF Bytes, FoldLeft, MapThenFoldSet
<1> DEFINE P(g) == g = [s \in SUBSET (1..n) |->
                    IF s = {} THEN 0 ELSE g[s \ {Max(s)}] + q[Max(s)].size]
<1>4. Chooses(c, 1..n)
  BY <1>1, LatestChooses
<1>5. ASSUME NEW g PROVE P(g) <=> IsFold(g, c, f, 1..n)
  <2>1. ASSUME NEW s \in SUBSET (1..n), s # {}
        PROVE  c[s] = Max(s) /\ f[c[s]] = q[Max(s)].size
    <3>1. c[s] = Max(s)
      BY DEF Latest
    <3>2. c[s] \in 1..n
      BY <1>4, <2>1 DEF Chooses
    <3> QED
      BY <1>1, <3>1, <3>2 DEF SizesOf
  <2> HIDE DEF c, f, n
  <2>2. [s \in SUBSET (1..n) |->
           IF s = {} THEN 0 ELSE g[s \ {Max(s)}] + q[Max(s)].size]
          = [s \in SUBSET (1..n) |->
               IF s = {} THEN 0 ELSE g[s \ {c[s]}] + f[c[s]]]
    BY <2>1
  <2> QED
    BY <2>2 DEF IsFold
<1> HIDE DEF c, f, n
<1>6. \E g : P(g)
  BY <1>1, <1>2, <1>4, <1>5, FoldIsTotal
<1>7. P(CHOOSE g : P(g))
  BY <1>6
<1> DEFINE h == CHOOSE g : P(g)
<1>8. Bytes(q) = h[1..n]
  BY <1>3
<1> HIDE DEF h, P
<1>9. IsFold(h, c, f, 1..n)
  BY <1>5, <1>7 DEF h
<1>10. h[1..n] = Total(c, f, 1..n)
  BY <1>1, <1>2, <1>4, <1>9, FoldIsTotal
<1> QED
  BY <1>2, <1>8, <1>10 DEF c, f, n

LEMMA BytesEmpty == Bytes(<<>>) = 0
<1>1. << >> \in Seq(Unit) /\ Len(<< >>) = 0 /\ 1..0 = {}
  OBVIOUS
<1>2. Bytes(<<>>) = Total(Latest(0), SizesOf(<<>>), 1..0)
  BY <1>1, BytesIsTotal
<1>3. Chooses(Latest(0), 1..0) /\ IsFiniteSet(1..0)
  BY LatestChooses, FS_Interval
<1> QED
  BY <1>1, <1>2, <1>3, TotalStep

\* r is q with one more unit, at place p: b says where the units of q are in r.
Inserted(q, r, p, b) ==
  /\ p \in 1..Len(r)
  /\ \A i \in 1..Len(q) : b[i] \in (1..Len(r)) \ {p} /\ q[i] = r[b[i]]
  /\ \A i, j \in 1..Len(q) : b[i] = b[j] => i = j
  /\ \A k \in (1..Len(r)) \ {p} : \E i \in 1..Len(q) : b[i] = k

\* Such a queue has the size of that unit more.
LEMMA BytesInsert ==
  ASSUME NEW q \in Seq(Unit), NEW r \in Seq(Unit), NEW p, NEW b, Inserted(q, r, p, b)
  PROVE  Bytes(r) = r[p].size + Bytes(q)
<1> DEFINE S == 1..Len(q)
           V == 1..Len(r)
           c == Latest(Len(q))
           d == Latest(Len(r))
           f == SizesOf(q)
           g == SizesOf(r)
<1>1. Len(q) \in Nat /\ Len(r) \in Nat /\ DOMAIN q = S /\ DOMAIN r = V
  OBVIOUS
<1>2. IsFiniteSet(S) /\ IsFiniteSet(V) /\ Chooses(c, S) /\ Chooses(d, V)
  <2>0. \A n \in Nat : IsFiniteSet(1..n)
    BY FS_Interval
  <2>1. IsFiniteSet(S) /\ IsFiniteSet(V)
    BY <1>1, <2>0
  <2>2. Chooses(c, S) /\ Chooses(d, V)
    BY <1>1, LatestChooses
  <2> QED
    BY <2>1, <2>2
<1>3. Bytes(q) = Total(c, f, S) /\ Bytes(r) = Total(d, g, V) /\ Numbers(g, V)
  BY BytesIsTotal
<1>4. \A x \in S : b[x] \in V /\ f[x] = g[b[x]]
  BY <1>1 DEF SizesOf, Inserted
<1>5. p \in V /\ g[p] = r[p].size
  BY <1>1 DEF SizesOf, Inserted
<1>6. {b[x] : x \in S} = V \ {p} /\ \A x, y \in S : b[x] = b[y] => x = y
  <2>1. \A x \in S : b[x] \in V \ {p}
    BY DEF Inserted
  <2>2. \A k \in V \ {p} : \E x \in S : b[x] = k
    BY DEF Inserted
  <2>3. \A x, y \in S : b[x] = b[y] => x = y
    BY DEF Inserted
  <2> HIDE DEF S, V
  <2> QED
    BY <2>1, <2>2, <2>3
<1> HIDE DEF S, V, c, d, f, g
<1>7. Total(c, f, S) = Total(d, g, {b[x] : x \in S})
  BY <1>2, <1>3, <1>4, <1>6, TotalRename
<1>8. Total(d, g, V) = g[p] + Total(d, g, V \ {p})
  BY <1>2, <1>3, <1>5, TotalRemove
<1> QED
  BY <1>3, <1>5, <1>6, <1>7, <1>8

\* push adds the size of the unit to that of the queue.
LEMMA BytesAppend ==
  ASSUME NEW q \in Seq(Unit), NEW u \in Unit
  PROVE  Bytes(Append(q, u)) = u.size + Bytes(q)
<1> DEFINE r == Append(q, u)
           p == Len(q) + 1
           b == [i \in 1..Len(q) |-> i]
<1>1. r \in Seq(Unit) /\ Len(r) = p /\ p \in 1..Len(r) /\ r[p] = u /\ Len(q) \in Nat
  OBVIOUS
<1>2. \A i \in 1..Len(q) : b[i] \in (1..Len(r)) \ {p} /\ q[i] = r[b[i]]
  BY <1>1
<1>3. \A i, j \in 1..Len(q) : b[i] = b[j] => i = j
  OBVIOUS
<1>4. \A k \in (1..Len(r)) \ {p} : \E i \in 1..Len(q) : b[i] = k
  <2>1. ASSUME NEW k \in (1..Len(r)) \ {p} PROVE k \in 1..Len(q) /\ b[k] = k
    BY <1>1
  <2> QED
    BY <2>1
<1> HIDE DEF r, p, b
<1>5. Inserted(q, r, p, b)
  BY <1>1, <1>2, <1>3, <1>4 DEF Inserted
<1>6. Bytes(r) = r[p].size + Bytes(q)
  BY <1>1, <1>5, BytesInsert
<1> QED
  BY <1>1, <1>6 DEF r

\* What dequeue pulls takes its size with it.
LEMMA BytesTail ==
  ASSUME NEW q \in Seq(Unit), q # <<>>
  PROVE  Bytes(q) = Head(q).size + Bytes(Tail(q))
<1> DEFINE rest == Tail(q)
           p == 1
           b == [i \in 1..Len(rest) |-> i + 1]
<1>1. /\ rest \in Seq(Unit) /\ Len(q) = Len(rest) + 1 /\ Len(rest) \in Nat
      /\ p \in 1..Len(q) /\ q[p] = Head(q)
      /\ \A i \in 1..Len(rest) : rest[i] = q[i + 1]
  OBVIOUS
<1> HIDE DEF rest
<1>2. \A i \in 1..Len(rest) : b[i] \in (1..Len(q)) \ {p} /\ rest[i] = q[b[i]]
  BY <1>1
<1>3. \A i, j \in 1..Len(rest) : b[i] = b[j] => i = j
  BY <1>1
<1>4. \A k \in (1..Len(q)) \ {p} : \E i \in 1..Len(rest) : b[i] = k
  <2>1. ASSUME NEW k \in (1..Len(q)) \ {p}
        PROVE  k - 1 \in 1..Len(rest) /\ b[k - 1] = k
    BY <1>1
  <2> QED
    BY <2>1
<1> HIDE DEF b, p
<1>5. Inserted(rest, q, p, b)
  BY <1>1, <1>2, <1>3, <1>4 DEF Inserted
<1>6. Bytes(q) = q[p].size + Bytes(rest)
  BY <1>1, <1>5, BytesInsert
<1> QED
  BY <1>1, <1>6 DEF rest

LEMMA BytesNat ==
  ASSUME NEW q \in Seq(Unit)
  PROVE  Bytes(q) \in Nat
<1>1. Len(q) \in Nat /\ IsFiniteSet(1..Len(q)) /\ Chooses(Latest(Len(q)), 1..Len(q))
  BY FS_Interval, LatestChooses
<1> QED
  BY <1>1, BytesIsTotal, TotalNat

\* clear_queue leaves nothing, or the one unit it pushes.
LEMMA ClearBytes ==
  ASSUME NEW cur, NEW us, NEW lost, Clear(cur, us, lost),
         us = <<>> \/ \E u \in Unit : us = <<u>>
  PROVE  queued_bytes' = Bytes(queue')
<1>1. CASE us = <<>>
  BY <1>1, BytesEmpty DEF Clear
<1>2. CASE us # <<>>
  <2>1. PICK u \in Unit : us = <<u>>
    BY <1>2
  <2>2. us = Append(<<>>, u) /\ <<>> \in Seq(Unit) /\ us[1] = u
    BY <2>1
  <2>3. Bytes(us) = u.size + 0
    BY <2>2, BytesAppend, BytesEmpty
  <2>4. u.size \in Nat
    BY SizeIsNat
  <2> QED
    BY <1>2, <2>2, <2>3, <2>4 DEF Clear
<1> QED
  BY <1>1, <1>2

\* The saturating subtraction of dequeue never saturates.
LEMMA PullBytes ==
  ASSUME TypeOK, queued_bytes = Bytes(queue)
  PROVE  RestBytes = Bytes(Rest)
<1>1. CASE ~Pulls
  BY <1>1 DEF RestBytes, Rest
<1>2. CASE Pulls
  <2>1. queue \in Seq(Unit) /\ queue # <<>> /\ Tail(queue) \in Seq(Unit) /\ Head(queue) \in Unit
    BY <1>2 DEF TypeOK, Pulls
  <2>2. Bytes(queue) = Head(queue).size + Bytes(Tail(queue))
    BY <2>1, BytesTail
  <2>3. Head(queue).size \in Nat /\ Bytes(Tail(queue)) \in Nat
    BY <2>1, BytesNat, SizeIsNat
  <2> QED
    BY <1>2, <2>2, <2>3 DEF RestBytes, Rest
<1> QED
  BY <1>1, <1>2

BytesInv == queued_bytes = Bytes(queue)

LEMMA BytesStep == TypeOK /\ BytesInv /\ [Next]_vars => BytesInv'
<1> SUFFICES ASSUME TypeOK, queued_bytes = Bytes(queue), [Next]_vars
             PROVE  queued_bytes' = Bytes(queue')
  BY DEF BytesInv
<1>1. CASE UNCHANGED vars
  BY <1>1 DEF vars, buffers
<1>2. ASSUME NEW u \in [id : {offered + 1}, key : BOOLEAN, size : Sizes], Enqueue(u)
      PROVE  queued_bytes' = Bytes(queue')
  <2>1. u \in Unit
    BY DEF TypeOK, Unit
  <2>2. CASE EnqueueClosed
    BY <1>1, <2>2 DEF EnqueueClosed
  <2>3. CASE EnqueueWaitingDelta(u)
    BY <2>3 DEF EnqueueWaitingDelta
  <2>4. CASE EnqueueWaitingKey(u)
    BY <2>1, <2>4, ClearBytes DEF EnqueueWaitingKey
  <2>5. CASE EnqueueHardReset(u)
    BY <2>1, <2>5, ClearBytes DEF EnqueueHardReset
  <2>6. CASE EnqueueLatest(u)
    BY <2>1, <2>6, ClearBytes DEF EnqueueLatest
  <2>7. CASE EnqueueOverflow(u)
    <3>1. Clear(Kept, <<u>>, 0) \/ Clear(Kept, <<>>, 1)
      BY <2>7 DEF EnqueueOverflow
    <3> QED
      BY <2>1, <3>1, ClearBytes
  <2>8. CASE EnqueueNormal(u)
    <3>1. queue' = Append(queue, u) /\ queued_bytes' = queued_bytes + u.size
      BY <2>8 DEF EnqueueNormal, Push
    <3>2. queue \in Seq(Unit) /\ queued_bytes \in Nat /\ u.size \in Nat
      BY <2>1, SizeIsNat DEF TypeOK
    <3>3. Bytes(queue') = u.size + Bytes(queue)
      BY <2>1, <3>1, <3>2, BytesAppend
    <3> QED
      BY <3>1, <3>2, <3>3
  <2> QED
    BY <1>2, <2>2, <2>3, <2>4, <2>5, <2>6, <2>7, <2>8 DEF Enqueue
<1>3. CASE Dequeue
  <2>1. CASE DequeueNone
    BY <2>1 DEF DequeueNone, buffers
  <2>2. CASE DequeueHold \/ DequeueDeliver
    BY <2>2, PullBytes DEF DequeueHold, DequeueDeliver
  <2> QED
    BY <1>3, <2>1, <2>2 DEF Dequeue
<1>4. CASE DecodeDone \/ SetJitterDelay \/ Cancel
  BY <1>4 DEF DecodeDone, SetJitterDelay, Cancel, buffers
<1>5. CASE WaitForKeyframe \/ Flush \/ Close
  BY <1>5, ClearBytes DEF WaitForKeyframe, Flush, Close
<1> QED
  BY <1>1, <1>2, <1>3, <1>4, <1>5 DEF Next

\* queued_bytes is the size of what is queued after any sequence of
\* operations, so the byte limit is judged on a true number and the saturating
\* subtraction of dequeue never hides a drift.
THEOREM BytesAreExact == Spec => []BytesAgree
<1>1. Init => BytesInv
  BY BytesEmpty DEF Init, BytesInv
<1>2. BytesInv => BytesAgree
  BY DEF BytesInv, BytesAgree, Bytes
<1> QED
  BY <1>1, <1>2, BytesStep, TypeCorrect, PTL DEF Spec
=============================================================================
