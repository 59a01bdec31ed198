----------------------------- MODULE Reassembler -----------------------------
(***************************************************************************)
(* The reassembler of the EVRT receiver: ChannelReassembler of             *)
(* src/frame_queue.rs.  It turns the datagrams of a UDP stream, which may  *)
(* be lost, repeated and reordered, into complete video frames, repairs a  *)
(* single lost datagram of each group from the parity packet of the group, *)
(* and decides when frames were lost so badly that only a key frame helps. *)
(*                                                                         *)
(* The network is the set of all datagrams of the stream: any of them may  *)
(* arrive at any time, any number of times, or never.  Payloads are their  *)
(* sizes.  Frame numbers start at 1, as the encoder's do, and 0 stands for *)
(* None.                                                                   *)
(***************************************************************************)
EXTENDS Integers, FiniteSets, FiniteSetsExt, Functions, Sequences

CONSTANTS
  Window,      \* REASSEMBLY_REORDER_WINDOW_FRAMES
  MaxBuffer,   \* REASSEMBLY_MAX_BUFFERED_BYTES
  MaxCount,    \* MAX_FRAME_PACKET_COUNT
  FrameIds,    \* the frames of the stream
  Packets,     \* its data packets: [id, index, count, size]
  Parity,      \* its parity packets: [id, base, group], FecMeta of src/evrt.rs
  MaxParity    \* bound on the parity packets kept for a frame

ASSUME ReassemblerAssumption ==
  /\ Window \in Nat
  /\ MaxBuffer \in Nat
  /\ MaxCount \in Nat
  /\ FrameIds \subseteq Nat \ {0}
  /\ Packets \subseteq [id : FrameIds, index : Nat, count : Nat, size : Nat]
  /\ Parity \subseteq [id : FrameIds, base : Nat, group : Nat \ {0}]
  /\ MaxParity \in Nat

\* The packets a parity packet is the XOR of.
Group(f) == f.base..(f.base + f.group - 1)

\* The sender cuts the packets of a frame into groups that do not overlap, with
\* one parity packet each (build_fec_packets, src/evrt.rs).
ASSUME GroupsAssumption ==
  \A f, g \in Parity : f.id = g.id => f = g \/ Group(f) \cap Group(g) = {}

VARIABLES
  keys,     \* the frames the sender encoded as key frames
  re,       \* the reassembler: struct ChannelReassembler
  got,      \* the data and parity packets that arrived so far
  emitted   \* the frames handed to the queue, in order

rvars == <<keys, re, got, emitted>>

Assembly == [count : Nat, key : BOOLEAN, parts : SUBSET Nat, bytes : Nat]

-----------------------------------------------------------------------------
(* Methods that change the reassembler, as functions of its state.         *)

New ==
  [frames |-> [id \in {} |-> 0], pending_fec |-> [id \in {} |-> 0],
   seen |-> 0, completed |-> 0, waiting |-> FALSE,
   dropped |-> 0, last_dropped |-> 0, buffered |-> 0]

\* dropped_frames is only ever compared before and after a call: the model
\* keeps what the latest call added to it.
Called(r) == [r EXCEPT !.dropped = 0]

MarkFrameDropped(r, id) ==
  [r EXCEPT !.last_dropped = id,
            !.dropped = IF r.last_dropped = id THEN @ ELSE @ + 1]

SaturatingSub(a, b) == IF a >= b THEN a - b ELSE 0

BytesOf(r, ids) == MapThenSumSet(LAMBDA id : r.frames[id].bytes, ids)

\* Mutant: the memory of a frame that is given up is not given back.
ForgetLeaks(r, ids) ==
  [r EXCEPT
     !.frames = Restrict(@, DOMAIN @ \ ids),
     !.pending_fec = Restrict(@, DOMAIN @ \ ids)]

\* Take the assemblies and the parity packets of some frames away.
Forget(r, ids) ==
  [r EXCEPT
     !.frames = Restrict(@, DOMAIN @ \ ids),
     !.pending_fec = Restrict(@, DOMAIN @ \ ids),
     !.buffered = SaturatingSub(@, BytesOf(r, ids \cap DOMAIN r.frames))]

DropFrame(r, id) ==
  IF id \in DOMAIN r.frames
    THEN MarkFrameDropped(Forget(r, {id}), id)
    ELSE Forget(r, {id})

\* Drop a set of frames in the order in which a hash map yields its keys: any
\* of them may be first, and so be the one already counted, or last.
DropFrames(r, ids) ==
  IF ids = {} THEN {r} ELSE
    { [Forget(r, ids) EXCEPT
         !.last_dropped = order.last,
         !.dropped = @ + Cardinality(ids)
                       - (IF order.first = r.last_dropped THEN 1 ELSE 0)]
      : order \in {o \in [first : ids, last : ids] :
                     o.first = o.last <=> Cardinality(ids) = 1} }

Older(r, id) == {old \in DOMAIN r.frames : old < id}

DropOlderThan(r, id) ==
  DropFrames([r EXCEPT !.pending_fec = Restrict(@, {f \in DOMAIN @ : f >= id})],
             Older(r, id))

StartWaiting(r) == [r EXCEPT !.waiting = TRUE]

WaitUnlessKey(r, key) == IF key THEN r ELSE StartWaiting(r)

\* The frames that reserve_buffer drops, oldest first, until the bytes fit:
\* the shortest run of the oldest other frames that makes room, or all.
Victims(r, bytes, id) ==
  LET others == DOMAIN r.frames \ {id}
      oldest(n) == {f \in others : f < n}
      room(n) == r.buffered + bytes <= MaxBuffer + BytesOf(r, oldest(n))
      cuts == {n \in others \cup {f + 1 : f \in others} \cup {0} : room(n)}
  IN  IF cuts = {} THEN others ELSE oldest(Min(cuts))

\* Dropped one by one, oldest first, by drop_oldest_except.
DropVictims(r, ids) ==
  IF ids = {} THEN r ELSE
    [Forget(r, ids) EXCEPT
       !.last_dropped = Max(ids),
       !.dropped = @ + Cardinality(ids) - (IF Min(ids) = r.last_dropped THEN 1 ELSE 0)]

\* reserve_buffer: whether the bytes fit, and the state it leaves behind.
ReserveBuffer(r, bytes, id, key) ==
  LET victims == Victims(r, bytes, id)
      freed == DropVictims(r, victims)
  IN  IF bytes > MaxBuffer
        THEN [ok |-> FALSE, re |-> WaitUnlessKey(DropFrame(r, id), key)]
      ELSE IF freed.buffered + bytes > MaxBuffer
        THEN [ok |-> FALSE, re |-> WaitUnlessKey(DropFrame(freed, id), key)]
      ELSE IF victims # {} /\ ~key
        THEN [ok |-> FALSE,
              re |-> StartWaiting(MarkFrameDropped(DropFrame(freed, id), id))]
      ELSE [ok |-> TRUE, re |-> freed]

OpenAssembly(r, p, key) ==
  IF p.id \in DOMAIN r.frames THEN r ELSE
    [r EXCEPT !.frames =
       [id \in DOMAIN @ \cup {p.id} |->
          IF id = p.id
            THEN [count |-> p.count, key |-> key, parts |-> {}, bytes |-> 0]
            ELSE @[id]]]

\* Mutant: packets are numbered from one.
SetPartFromOne(r, id, index, size) ==
  [r EXCEPT !.frames[id].parts = @ \cup {index - 1},
            !.frames[id].bytes = @ + size,
            !.buffered = @ + size]

SetPart(r, id, index, size) ==
  [r EXCEPT !.frames[id].parts = @ \cup {index},
            !.frames[id].bytes = @ + size,
            !.buffered = @ + size]

Complete(r, id) ==
  /\ id \in DOMAIN r.frames
  /\ Cardinality(r.frames[id].parts) = r.frames[id].count

\* Mutant: every group is taken for the first one.
MissingFromZero(a, fec) == (0..(fec.group - 1)) \ a.parts

\* The indices of a parity group that an assembly lacks.
Missing(a, fec) == Group(fec) \ a.parts

\* The size the XOR of the lengths gives a repaired packet: that of the
\* packet the sender put there.
SizeOf(id, index) ==
  LET ps == {p \in Packets : p.id = id /\ p.index = index}
  IN  IF ps = {} THEN 0 ELSE (CHOOSE p \in ps : TRUE).size

\* A turn of the loop of try_fec_recover: a group that lacks exactly one packet
\* gets it back, if there is memory for it.
Repair(r, id, fec) ==
  IF id \notin DOMAIN r.frames \/ Complete(r, id) THEN r ELSE
    LET a == r.frames[id]
        lost == Missing(a, fec)
        index == CHOOSE i \in lost : TRUE
        room == ReserveBuffer(r, SizeOf(id, index), id, a.key)
    IN  IF Cardinality(lost) # 1 THEN r
        ELSE IF ~room.ok \/ index >= a.count THEN room.re
        ELSE SetPart(room.re, id, index, SizeOf(id, index))

\* try_fec_recover: one turn for each parity packet kept, oldest first.
TryFecRecover(r, id) ==
  IF id \notin DOMAIN r.pending_fec THEN r ELSE
    LET fecs == r.pending_fec[id]
        after[n \in 0..Len(fecs)] ==
          IF n = 0 THEN r ELSE Repair(after[n - 1], id, fecs[n])
    IN  after[Len(fecs)]

\* Mutant: the continuity of the frame numbers is not checked.
GapIgnored(r, id) == FALSE

\* finalize_frame: a complete frame is taken out; Emits says whether it is
\* also returned to the caller.
Gap(r, id) == r.completed # 0 /\ id - r.completed # 1

Emits(r, id) ==
  Complete(r, id) /\ (r.frames[id].key \/ (~r.waiting /\ ~Gap(r, id)))

Finalize(r, id) ==
  LET done == [Forget(r, {id}) EXCEPT !.completed = id]
  IN  IF ~Complete(r, id) THEN r
      ELSE IF r.frames[id].key THEN [done EXCEPT !.waiting = FALSE]
      ELSE IF r.waiting THEN MarkFrameDropped(done, id)
      ELSE IF Gap(r, id) THEN StartWaiting(MarkFrameDropped(done, id))
      ELSE done

-----------------------------------------------------------------------------
(* on_packet: one action for each way through it.                          *)

Malformed(p) == p.count = 0 \/ p.index >= p.count \/ p.count > MaxCount

\* Mutants: one of the two early returns for old packets is missing.
TooOldByWindow(id) == id + Window < re.seen

TooOldByCompleted(id) == id <= re.completed

TooOld(id) == id <= re.completed \/ id + Window < re.seen

Arrives(p) == got' = got \cup {p} /\ UNCHANGED keys

Emit(r, id) == emitted' = IF Emits(r, id) THEN Append(emitted, id) ELSE emitted

OnMalformed(p) ==
  /\ Malformed(p)
  /\ re' = MarkFrameDropped(Called(re), p.id)
  /\ Arrives(p) /\ UNCHANGED emitted

OnOld(p) ==
  /\ ~Malformed(p) /\ TooOld(p.id)
  /\ re' = Called(re)
  /\ Arrives(p) /\ UNCHANGED emitted

OnDeltaWhileWaiting(p) ==
  /\ ~Malformed(p) /\ ~TooOld(p.id)
  /\ re.waiting /\ p.id \notin keys
  /\ re' = MarkFrameDropped(Called(re), p.id)
  /\ Arrives(p) /\ UNCHANGED emitted

Considered(p) ==
  ~Malformed(p) /\ ~TooOld(p.id) /\ ~(re.waiting /\ p.id \notin keys)

\* The packet belongs to the newest frame so far and pushes frames that never
\* got complete out of the reordering window.
Loses(p) == p.id > re.seen /\ Older(re, p.id - Window) # {}

\* The states after the reordering window was moved.
WindowMoved(p) ==
  IF p.id > re.seen
    THEN DropOlderThan([Called(re) EXCEPT !.seen = p.id], SaturatingSub(p.id, Window))
    ELSE {Called(re)}

OnLoss(p) ==
  /\ Considered(p) /\ Loses(p) /\ p.id \notin keys
  /\ \E r1 \in WindowMoved(p) :
       \E r2 \in DropOlderThan(StartWaiting(r1), p.id + 1) :
         re' = MarkFrameDropped(r2, p.id)
  /\ Arrives(p) /\ UNCHANGED emitted

\* The states in which the packet meets its assembly: a key frame has put an
\* end to the waiting and to every older frame.
Admitted(p) ==
  LET key == p.id \in keys
      cleared == IF key
                   THEN UNION {DropOlderThan([r EXCEPT !.waiting = FALSE], p.id)
                               : r \in WindowMoved(p)}
                   ELSE WindowMoved(p)
  IN  {OpenAssembly(r, p, key) : r \in cleared}

\* What the packet does to its assembly: refused because the frame's packet
\* count differs, ignored as a repetition, refused for lack of memory, or put
\* in its place, with the lost packet repaired if a parity packet allows it.
Place(r, p) ==
  LET key == p.id \in keys
      room == ReserveBuffer(r, p.size, p.id, key)
      set == SetPart(room.re, p.id, p.index, p.size)
  IN  IF r.frames[p.id].count # p.count
        THEN WaitUnlessKey(DropFrame(r, p.id), key)
      ELSE IF p.index \in r.frames[p.id].parts THEN r
      ELSE IF ~room.ok THEN room.re
      ELSE TryFecRecover(set, p.id)

OnData(p) ==
  /\ Considered(p) /\ ~(Loses(p) /\ p.id \notin keys)
  /\ \E r \in Admitted(p) :
       LET placed == Place(r, p)
       IN  re' = Finalize(placed, p.id) /\ Emit(placed, p.id)
  /\ Arrives(p)

OnPacket(p) ==
  OnMalformed(p) \/ OnOld(p) \/ OnDeltaWhileWaiting(p) \/ OnLoss(p) \/ OnData(p)

-----------------------------------------------------------------------------
(* on_fec_packet.                                                          *)

OnFecOld(f) ==
  /\ TooOld(f.id)
  /\ re' = Called(re)
  /\ Arrives(f) /\ UNCHANGED emitted

\* The parity packets kept for a frame, as pending_fec lists them.
Kept(r, id) == IF id \in DOMAIN r.pending_fec THEN r.pending_fec[id] ELSE <<>>

StoreParity(r, f) ==
  [r EXCEPT !.pending_fec =
     [id \in DOMAIN @ \cup {f.id} |->
        IF id = f.id THEN Append(Kept(r, id), f) ELSE @[id]]]

OnFecStored(f) ==
  /\ ~TooOld(f.id)
  /\ Len(Kept(re, f.id)) < MaxParity
  /\ LET stored == StoreParity(Called(re), f)
         tried == TryFecRecover(stored, f.id)
     IN  IF f.id \in DOMAIN re.frames
           THEN re' = Finalize(tried, f.id) /\ Emit(tried, f.id)
           ELSE re' = stored /\ UNCHANGED emitted
  /\ Arrives(f)

OnFecPacket(f) == OnFecOld(f) \/ OnFecStored(f)

-----------------------------------------------------------------------------
Init ==
  /\ keys \in SUBSET FrameIds
  /\ re = New
  /\ got = {}
  /\ emitted = <<>>

Next ==
  \/ \E p \in Packets : OnPacket(p)
  \/ \E f \in Parity : OnFecPacket(f)

Spec == Init /\ [][Next]_rvars

-----------------------------------------------------------------------------
(* Properties.                                                             *)

\* Every variable has its type.
TypeOK ==
  /\ keys \subseteq FrameIds
  /\ DOMAIN re.frames \subseteq FrameIds
  /\ \A id \in DOMAIN re.frames : re.frames[id] \in Assembly
  /\ DOMAIN re.pending_fec \subseteq FrameIds
  /\ \A id \in DOMAIN re.pending_fec : re.pending_fec[id] \in Seq(Parity)
  /\ re.waiting \in BOOLEAN
  /\ \A n \in {re.seen, re.completed, re.dropped, re.last_dropped, re.buffered} :
       n \in Nat
  /\ got \subseteq Packets \cup Parity
  /\ emitted \in Seq(FrameIds)

\* The memory counter, kept by additions in on_packet and try_fec_recover and
\* by saturating subtractions in drop_frame and finalize_frame, is exactly
\* what the assemblies hold, and it never exceeds the budget.
BudgetExact ==
  /\ re.buffered = BytesOf(re, DOMAIN re.frames)
  /\ re.buffered <= MaxBuffer

\* Assemblies live only inside the reordering window, whatever the order of
\* the packets, so at most Window + 1 of them exist (drop_older_than on each
\* new frame number, and the two early returns for old packets).
WindowHeld ==
  /\ \A id \in DOMAIN re.frames : id <= re.seen /\ re.seen <= id + Window
  /\ re.completed <= re.seen

\* No frame is handed on twice or behind a newer one, although packets repeat
\* and an assembly can be opened again after it was dropped (the comparison
\* with latest_completed_id).
EmittedInOrder ==
  /\ \A i, j \in DOMAIN emitted : i < j => emitted[i] < emitted[j]
  /\ \A i \in DOMAIN emitted : emitted[i] <= re.completed

\* A frame that is handed on is whole: each of its packets arrived, or it is the
\* only one of its group that did not and the parity packet of the group came
\* (is_complete, try_fec_recover).
EmittedWhole ==
  \A i \in DOMAIN emitted :
    \E c \in {p.count : p \in Packets} :
      LET arrived == {p.index : p \in {x \in got \cap Packets :
                                         x.id = emitted[i] /\ x.count = c}}
          lost == (0..(c - 1)) \ arrived
      IN  \A k \in lost :
            \E f \in got \cap Parity : f.id = emitted[i] /\ Group(f) \cap lost = {k}

\* No silent gap: a delta is handed on behind a frame that is not the one
\* before it only after something of a newer key frame has arrived
\* (the continuity check of finalize_frame).
GapNeedsKeyPacket ==
  \A i \in DOMAIN emitted :
    (i > 1 /\ emitted[i] \notin keys /\ emitted[i] # emitted[i - 1] + 1)
      => \E p \in got : p.id \in keys /\ p.id > emitted[i - 1]

\* A delta is handed on only when the frame it was computed against was handed
\* on just before it (the comment on the continuity check of finalize_frame).
DeltaOnItsBase ==
  \A i \in DOMAIN emitted :
    (i > 1 /\ emitted[i] \notin keys) => emitted[i] = emitted[i - 1] + 1
=============================================================================
