----------------------------- MODULE FrameQueue -----------------------------
(***************************************************************************)
(* The receiver's queue of assembled video frames (src/frame_queue.rs).    *)
(* The network thread enqueues, the decoder thread dequeues, the feedback  *)
(* thread changes the jitter delay, asks to wait for a key frame, and      *)
(* closes.  Every operation runs under the queue's mutex, so each is one   *)
(* action; dequeue releases the mutex each time it waits, so each pass of  *)
(* its loop is one.                                                        *)
(*                                                                         *)
(* A unit is its number (the order in which frames were offered), whether  *)
(* it is a key frame and its size.  The contents of a frame and the clock  *)
(* are left out: whether a unit is younger than the jitter delay is a free *)
(* choice of the pass that looks at it.                                    *)
(***************************************************************************)
EXTENDS Naturals, Sequences, SequencesExt

CONSTANTS
  Configs,    \* the values of FrameQueueConfig considered
  Jitters,    \* the delays the feedback loop may set
  Sizes,      \* the sizes a frame may have
  MaxOffers   \* bound on the frames offered in a behaviour

\* struct FrameQueueConfig, with its field names shortened.
Config == [max_units : Nat \ {0}, max_bytes : Nat, hard_reset : BOOLEAN,
           prefer_latest : BOOLEAN, drop_current : BOOLEAN, jitter : Jitters]

ASSUME ConfigAssumption ==
  /\ Jitters \subseteq Nat
  /\ Sizes \subseteq Nat
  /\ MaxOffers \in Nat
  /\ Configs \subseteq Config

VARIABLES
  cfg,                   \* the configuration, fixed when the queue is made
  queue,                 \* the other variables down to jitter_delay are the
  queued_bytes,          \* fields of struct Inner
  current,
  waiting_for_keyframe,
  dropped_units,
  closed,
  jitter_delay,
  offered,               \* frames offered to the open queue so far
  delivered,             \* the frames handed to the decoder, in order
  consumer,              \* the decoder thread: in dequeue, decoding, or gone
  cancel,                \* the stop flag dequeue looks at
  loss                   \* what was true at the last request to wait

buffers == <<queue, queued_bytes, current, dropped_units>>
threads == <<delivered, consumer, cancel>>
vars == <<cfg, buffers, waiting_for_keyframe, closed, jitter_delay, offered,
          threads, loss>>

Unit == [id : Nat \ {0}, key : BOOLEAN, size : Sizes]

\* What the decoder remembers of a unit.
Frame == [id : Nat \ {0}, key : BOOLEAN]

NoUnit == [id |-> 0, key |-> FALSE, size |-> 0]

-----------------------------------------------------------------------------
(* The steps that the operations are made of: methods of Inner.            *)

\* drop_current, where the configuration asks for it.
Kept == IF cfg.drop_current THEN NoUnit ELSE current

\* Mutant: clear_queue forgets to reset queued_bytes.
ClearKeepsBytes(cur, us, lost) ==
  /\ queue' = us
  /\ queued_bytes' = queued_bytes + (IF us = <<>> THEN 0 ELSE us[1].size)
  /\ current' = cur
  /\ dropped_units' = dropped_units + Len(queue) + lost
                        + (IF cur = current THEN 0 ELSE 1)

\* Mutant: drop_current does not count the unit it drops.
ClearUncounted(cur, us, lost) ==
  /\ queue' = us
  /\ queued_bytes' = IF us = <<>> THEN 0 ELSE us[1].size
  /\ current' = cur
  /\ dropped_units' = dropped_units + Len(queue) + lost

\* clear_queue, after which the slot holds cur (what it held, or nothing) and
\* the queue the units us; lost more units are counted as dropped.
Clear(cur, us, lost) ==
  /\ queue' = us
  /\ queued_bytes' = IF us = <<>> THEN 0 ELSE us[1].size
  /\ current' = cur
  /\ dropped_units' = dropped_units + Len(queue) + lost
                        + (IF cur = current THEN 0 ELSE 1)

\* Mutant: push puts the unit at the front.
PushFront(u) ==
  /\ queue' = <<u>> \o queue
  /\ queued_bytes' = queued_bytes + u.size
  /\ UNCHANGED <<current, dropped_units>>

Push(u) ==
  /\ queue' = Append(queue, u)
  /\ queued_bytes' = queued_bytes + u.size
  /\ UNCHANGED <<current, dropped_units>>

-----------------------------------------------------------------------------
(* enqueue: one action for each way through enqueue_inner.                 *)

\* Mutant: the unit limit is off by one.
OverflowsLate(u) ==
  \/ Len(queue) > cfg.max_units
  \/ queued_bytes + u.size > cfg.max_bytes

Overflows(u) ==
  \/ Len(queue) >= cfg.max_units
  \/ queued_bytes + u.size > cfg.max_bytes

HardResets(u) ==
  cfg.hard_reset /\ u.key /\ (current # NoUnit \/ queue # <<>>)

TakesLatest == cfg.prefer_latest /\ queue # <<>>

\* Mutant: enqueue_inner does not return early from a closed queue.
OfferedAnyway(u) ==
  /\ u.id = offered + 1
  /\ offered < MaxOffers
  /\ offered' = offered + 1
  /\ loss' = [loss EXCEPT !.key = IF u.key /\ @ = 0 THEN u.id ELSE @]
  /\ UNCHANGED <<cfg, closed, jitter_delay, threads>>

\* enqueue is called with the next frame of the stream.
Offered(u) ==
  /\ ~closed
  /\ u.id = offered + 1
  /\ offered < MaxOffers
  /\ offered' = offered + 1
  /\ loss' = [loss EXCEPT !.key = IF u.key /\ @ = 0 THEN u.id ELSE @]
  /\ UNCHANGED <<cfg, closed, jitter_delay, threads>>

EnqueueClosed == closed /\ UNCHANGED vars

EnqueueWaitingDelta(u) ==
  /\ Offered(u)
  /\ waiting_for_keyframe /\ ~u.key
  /\ dropped_units' = dropped_units + 1
  /\ UNCHANGED <<queue, queued_bytes, current, waiting_for_keyframe>>

EnqueueWaitingKey(u) ==
  /\ Offered(u)
  /\ waiting_for_keyframe /\ u.key
  /\ Clear(Kept, <<u>>, 0)
  /\ waiting_for_keyframe' = FALSE

EnqueueHardReset(u) ==
  /\ Offered(u)
  /\ ~waiting_for_keyframe /\ HardResets(u)
  /\ Clear(NoUnit, <<u>>, 0)
  /\ waiting_for_keyframe' = FALSE

EnqueueLatest(u) ==
  /\ Offered(u)
  /\ ~waiting_for_keyframe /\ ~HardResets(u) /\ TakesLatest
  /\ Clear(current, <<u>>, 0)
  /\ UNCHANGED waiting_for_keyframe

\* After the clearing, a key frame or an empty slot lets the unit in; a delta
\* behind a unit still being held makes the queue wait for a key frame.
EnqueueOverflow(u) ==
  /\ Offered(u)
  /\ ~waiting_for_keyframe /\ ~HardResets(u) /\ ~TakesLatest /\ Overflows(u)
  /\ IF u.key \/ Kept = NoUnit
       THEN Clear(Kept, <<u>>, 0) /\ waiting_for_keyframe' = FALSE
       ELSE Clear(Kept, <<>>, 1) /\ waiting_for_keyframe' = TRUE

EnqueueNormal(u) ==
  /\ Offered(u)
  /\ ~waiting_for_keyframe /\ ~HardResets(u) /\ ~TakesLatest /\ ~Overflows(u)
  /\ Push(u)
  /\ UNCHANGED waiting_for_keyframe

Enqueue(u) ==
  \/ EnqueueClosed
  \/ EnqueueWaitingDelta(u)
  \/ EnqueueWaitingKey(u)
  \/ EnqueueHardReset(u)
  \/ EnqueueLatest(u)
  \/ EnqueueOverflow(u)
  \/ EnqueueNormal(u)

-----------------------------------------------------------------------------
(* dequeue: one action for each way a pass of its loop ends.  The first    *)
(* half of a pass moves the head of the queue into a free slot.            *)

Pulls == current = NoUnit /\ queue # <<>>

Pulled == IF Pulls THEN Head(queue) ELSE current

Rest == IF Pulls THEN Tail(queue) ELSE queue

\* The saturating subtraction of a pulled unit's size.
RestBytes ==
  IF ~Pulls THEN queued_bytes
  ELSE IF queued_bytes >= Head(queue).size THEN queued_bytes - Head(queue).size
  ELSE 0

InDequeue == consumer = "dequeue"

\* Mutant: dequeue ends on cancel only.
DequeueNoneOnCancel ==
  /\ InDequeue
  /\ cancel
  /\ consumer' = "gone"
  /\ UNCHANGED <<cfg, buffers, waiting_for_keyframe, closed, jitter_delay,
                 offered, delivered, cancel, loss>>

DequeueNone ==
  /\ InDequeue
  /\ closed \/ cancel
  /\ consumer' = "gone"
  /\ UNCHANGED <<cfg, buffers, waiting_for_keyframe, closed, jitter_delay,
                 offered, delivered, cancel, loss>>

\* The only unit there is is younger than the jitter delay: keep it and wait.
DequeueHold ==
  /\ InDequeue /\ ~closed /\ ~cancel
  /\ Pulled # NoUnit
  /\ jitter_delay > 0 /\ Rest = <<>>
  /\ current' = Pulled
  /\ queue' = Rest
  /\ queued_bytes' = RestBytes
  /\ UNCHANGED <<cfg, dropped_units, waiting_for_keyframe, closed, jitter_delay,
                 offered, threads, loss>>

\* Mutant: an empty slot is handed out.
DeliverEmpty ==
  /\ InDequeue /\ ~closed /\ ~cancel
  /\ current' = NoUnit
  /\ queue' = Rest
  /\ queued_bytes' = RestBytes
  /\ delivered' = Append(delivered, [id |-> Pulled.id, key |-> Pulled.key])
  /\ consumer' = "decode"
  /\ UNCHANGED <<cfg, dropped_units, waiting_for_keyframe, closed, jitter_delay,
                 offered, cancel, loss>>

\* Mutant: the unit handed out stays in the slot.
DeliverPeek ==
  /\ InDequeue /\ ~closed /\ ~cancel
  /\ Pulled # NoUnit
  /\ current' = Pulled
  /\ queue' = Rest
  /\ queued_bytes' = RestBytes
  /\ delivered' = Append(delivered, [id |-> Pulled.id, key |-> Pulled.key])
  /\ consumer' = "decode"
  /\ UNCHANGED <<cfg, dropped_units, waiting_for_keyframe, closed, jitter_delay,
                 offered, cancel, loss>>

\* Mutant: with a jitter delay the last unit waits for another one.
DeliverBehindAnother ==
  /\ InDequeue /\ ~closed /\ ~cancel
  /\ Pulled # NoUnit
  /\ jitter_delay = 0 \/ Rest # <<>>
  /\ current' = NoUnit
  /\ queue' = Rest
  /\ queued_bytes' = RestBytes
  /\ delivered' = Append(delivered, [id |-> Pulled.id, key |-> Pulled.key])
  /\ consumer' = "decode"
  /\ UNCHANGED <<cfg, dropped_units, waiting_for_keyframe, closed, jitter_delay,
                 offered, cancel, loss>>

DequeueDeliver ==
  /\ InDequeue /\ ~closed /\ ~cancel
  /\ Pulled # NoUnit
  /\ current' = NoUnit
  /\ queue' = Rest
  /\ queued_bytes' = RestBytes
  /\ delivered' = Append(delivered, [id |-> Pulled.id, key |-> Pulled.key])
  /\ consumer' = "decode"
  /\ UNCHANGED <<cfg, dropped_units, waiting_for_keyframe, closed, jitter_delay,
                 offered, cancel, loss>>

\* The decoder is done with the unit and calls dequeue again.
DecodeDone ==
  /\ consumer = "decode"
  /\ consumer' = "dequeue"
  /\ UNCHANGED <<cfg, buffers, waiting_for_keyframe, closed, jitter_delay,
                 offered, delivered, cancel, loss>>

-----------------------------------------------------------------------------
(* The other operations.                                                   *)

SetJitterDelay ==
  /\ jitter_delay' \in Jitters
  /\ UNCHANGED <<cfg, buffers, waiting_for_keyframe, closed, offered, threads, loss>>

\* A request to wait: nothing offered from now on is played before a key frame.
MarkLoss(on, cur) ==
  loss' = [on |-> on, key |-> 0, kept |-> cur.id, out |-> Len(delivered)]

\* Mutant: the request to wait leaves the queue as it is.
WaitKeepsQueue ==
  /\ ~closed
  /\ waiting_for_keyframe' = TRUE
  /\ MarkLoss(TRUE, Kept)
  /\ UNCHANGED <<cfg, buffers, closed, jitter_delay, offered, threads>>

WaitForKeyframe ==
  /\ ~closed
  /\ Clear(Kept, <<>>, 0)
  /\ waiting_for_keyframe' = TRUE
  /\ MarkLoss(TRUE, Kept)
  /\ UNCHANGED <<cfg, closed, jitter_delay, offered, threads>>

Flush ==
  /\ Clear(NoUnit, <<>>, 0)
  /\ \E wait \in BOOLEAN : waiting_for_keyframe' = wait /\ MarkLoss(wait, NoUnit)
  /\ UNCHANGED <<cfg, closed, jitter_delay, offered, threads>>

Close ==
  /\ closed' = TRUE
  /\ Clear(NoUnit, <<>>, 0)
  /\ UNCHANGED <<cfg, waiting_for_keyframe, jitter_delay, offered, threads, loss>>

\* The session's stop flag, raised by any of its threads.
Cancel ==
  /\ cancel' = TRUE
  /\ UNCHANGED <<cfg, buffers, waiting_for_keyframe, closed, jitter_delay,
                 offered, delivered, consumer, loss>>

-----------------------------------------------------------------------------
Init ==
  /\ cfg \in Configs
  /\ queue = <<>>
  /\ queued_bytes = 0
  /\ current = NoUnit
  /\ waiting_for_keyframe = FALSE
  /\ dropped_units = 0
  /\ closed = FALSE
  /\ jitter_delay = cfg.jitter
  /\ offered = 0
  /\ delivered = <<>>
  /\ consumer = "dequeue"
  /\ cancel = FALSE
  /\ loss = [on |-> FALSE, key |-> 0, kept |-> 0, out |-> 0]

Dequeue == DequeueNone \/ DequeueHold \/ DequeueDeliver

Next ==
  \/ \E u \in [id : {offered + 1}, key : BOOLEAN, size : Sizes] : Enqueue(u)
  \/ Dequeue
  \/ DecodeDone
  \/ SetJitterDelay
  \/ WaitForKeyframe
  \/ Flush
  \/ Close
  \/ Cancel

Spec == Init /\ [][Next]_vars

\* The decoder thread keeps running, and a unit that is held outlives the
\* bounded jitter delay; nothing is assumed of the other threads.
Fairness ==
  /\ WF_vars(DequeueNone)
  /\ WF_vars(DequeueDeliver)
  /\ WF_vars(DecodeDone)

FairSpec == Spec /\ Fairness

-----------------------------------------------------------------------------
(* Properties.                                                             *)

\* Every variable has its type; a held unit is a frame that was offered.
TypeOK ==
  /\ cfg \in Config
  /\ queue \in Seq(Unit)
  /\ queued_bytes \in Nat
  /\ current \in Unit \cup {NoUnit}
  /\ waiting_for_keyframe \in BOOLEAN
  /\ dropped_units \in Nat
  /\ closed \in BOOLEAN
  /\ jitter_delay \in Jitters
  /\ offered \in Nat
  /\ delivered \in Seq(Frame)
  /\ consumer \in {"dequeue", "decode", "gone"}
  /\ cancel \in BOOLEAN
  /\ loss \in [on : BOOLEAN, key : Nat, kept : Nat, out : Nat]

Held == Len(queue) + (IF current = NoUnit THEN 0 ELSE 1)

HeldIds == {queue[i].id : i \in DOMAIN queue}
             \cup (IF current = NoUnit THEN {} ELSE {current.id})

LastOut == IF delivered = <<>> THEN 0 ELSE delivered[Len(delivered)].id

\* queued_bytes, kept by increments and a saturating subtraction, is exactly
\* the size of the units in the queue, so overflow is judged on a true number
\* (Inner::push, clear_queue and dequeue).
BytesAgree ==
  queued_bytes = FoldLeft(LAMBDA sum, u : sum + u.size, 0, queue)

\* Units leave the queue in the order they came in: what was handed out, the
\* slot and the queue together are one strictly increasing run of frame
\* numbers (enqueue_inner and dequeue; no path duplicates or reorders).
InOrder ==
  /\ \A i, j \in DOMAIN delivered : i < j => delivered[i].id < delivered[j].id
  /\ \A i, j \in DOMAIN queue : i < j => queue[i].id < queue[j].id
  /\ \A i \in DOMAIN queue : current.id < queue[i].id
  /\ \A i \in DOMAIN queue : LastOut < queue[i].id
  /\ current # NoUnit => LastOut < current.id
  /\ \A i \in DOMAIN queue : queue[i].id <= offered
  /\ current.id <= offered /\ LastOut <= offered

\* Every frame offered to the open queue is handed out, still held or counted
\* in dropped_units, exactly once: the counter the feedback loop turns into
\* pressure neither misses nor repeats a frame (clear_queue, drop_current and
\* the two `dropped_units += 1`).
Conserved ==
  offered = Len(delivered) + dropped_units + Held

\* The limits of the configuration hold after every operation, although the
\* prefer_latest, waiting and reset paths push without looking at them: only
\* a single frame may be larger than the byte limit.
LimitsHeld ==
  /\ Len(queue) <= cfg.max_units
  /\ Len(queue) > 1 => queued_bytes <= cfg.max_bytes

\* Nothing stays in, or enters, a closed queue (close, and the early returns
\* of enqueue_inner and wait_for_keyframe).
ClosedIsEmpty == closed => queue = <<>> /\ current = NoUnit

\* After wait_for_keyframe, what the decoder is given next is the unit it had
\* already been promised, or a frame that is not older than the first key
\* frame offered since (wait_for_keyframe followed by any mix of operations).
WaitHonoured ==
  loss.on => \A i \in DOMAIN delivered :
               i > loss.out =>
                 \/ delivered[i].id = loss.kept
                 \/ loss.key # 0 /\ delivered[i].id >= loss.key

\* A frame does not stay in the queue: it is handed out or dropped, whatever
\* jitter delays the feedback loop keeps setting (dequeue's waits end).
EveryUnitLeaves ==
  \A n \in 1..MaxOffers : (n \in HeldIds /\ ~cancel) ~> (n \notin HeldIds \/ cancel)

\* Closing or cancelling ends the decoder thread, wherever it is (dequeue).
StopEndsConsumer == (closed \/ cancel) ~> (consumer = "gone")

\* The queue implements the lossy queue of LossyFifo.
Fifo == INSTANCE LossyFifo WITH
          sent <- offered,
          pending <- HeldIds,
          last <- LastOut,
          open <- ~closed

FifoSpec == Fifo!ASpec
=============================================================================
