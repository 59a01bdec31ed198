# EvertyDesk Lite: a TLA+ model of the EVRT video path

EvertyDesk Lite is a remote desktop program written in Rust: a host that captures,
encodes and sends a screen, and a client that shows it and sends input back.  It speaks
the RustDesk protocol over TCP and, for video, its own protocol over UDP, EVRT.  This
directory models the EVRT video path, from the handshake next to the TCP relay to the
decoder: the part of the program whose correctness depends on many threads on two
machines, several throttled controllers and a network that loses, repeats and reorders
datagrams.  Paths below are relative to the repository.

## 1. Inventory

### The EVRT video path

| Component | Code | State | Operations |
|---|---|---|---|
| Frame queue | `src/frame_queue.rs` 41-400 | `Inner`: queue, byte count, the slot `current`, `waiting_for_keyframe`, `dropped_units`, `closed`, jitter delay | enqueue, dequeue, set_jitter_delay, wait_for_keyframe, flush, close, stats |
| Reassembler | `src/frame_queue.rs` 404-887 | `ChannelReassembler`: assemblies by frame number, parity packets, latest number seen and completed, `waiting_after_loss`, drop counter, byte budget | on_packet, on_fec_packet |
| Jitter control | `src/frame_queue.rs` 895-966 | `current_ms` | update |
| Relief | `src/frame_queue.rs` 968-1137 | step, strain and recovery scores, time of the last change | on_feedback, apply_pending |
| Client | `src/evrt_client.rs` | the above, plus three threads: receive, decode, feedback; a stop flag; the list of the host's addresses | candidates one after the other, punch and wait, receive loop, decode loop, feedback loop, joins |
| Session (host) | `src/evrt_session.rs` | `waiting_for_idr`, time of the last request, current codec, channels for feedback and requests | handshake, receive thread, main loop, codec announcement |
| EVRT sender | `src/video_pipeline.rs` 2414-2500 | the peer's address, `evrt_active` | wait for the punch, run the session, withdraw the address |
| Encoder loop | `src/video_pipeline.rs` 1207-2280 | time of the last key frame, `force_recovery_key`, `evrtck_baseline_dirty`, frame number, `evrt_disconnect_spins`, the scheduler's streaks | one pass per frame: read `evrt_active` and `want_evrtck`, decide about a key frame, capture, encode, dispatch to EVRT or TCP |
| Command loop | `src/video_pipeline.rs` 128-1049 | services per display, `want_evrtck`, pending and committed codec, EVRT state, threads to join | poll EVRT, commit a game's codec, take a command, follow the scheduler, stop and join |
| Input loop (host) | `src/host.rs` 2225-2310 | the relay stream, the pipeline's thread | pass commands on; end with the pipeline, the stream or the owner's wish |
| Relay session (client) | `src/transport.rs` 472-1425 | `evrt_started`, `evrt_stop` | start EVRT once, close, read error |
| Wire format, FEC | `src/evrt.rs` | none | build, parse, packetize, parity |

How they interact: the encoder puts frames into a channel of capacity 2 and drops what
does not fit; the session takes frames out, skips deltas while it waits for a key frame,
splits the others into datagrams and sends them with parity packets.  The client's
receive thread feeds datagrams to the reassembler and puts complete frames into the
queue, from which the decode thread takes them.  Loss is answered by a request for a key
frame: sent by the receive thread when the reassembler's drop counter rose (at most every
250 ms) or by the feedback loop under critical pressure, received by the session (ignored
while it waits, limited to one in 500 ms for EVRTCK), forwarded by the command loop and
served by the encoder (limited again).  Every one of these places may drop the request.
The feedback loop also reports its measurements, from which the host derives a bitrate.

Around the stream: the host opens a UDP socket, announces its addresses over the relay
and waits eight seconds for a punch; the client tries the addresses one by one, each from
a socket of its own, and stays on the relay if none answers.  The first authenticated
control message fixes the peer, a second one confirms it.  On the host one stop flag is
shared by the EVRT session, the TCP sender and the command loop; the encoder services
have flags of their own that follow it; the input loop notices that the pipeline's thread
has returned.  On the client one flag ends the EVRT threads.  The codec is settled by the
command loop from the client's wishes (the first one chooses between EVRTCK and a game
mode, in which the codec is committed once, when EVRT comes up or after three seconds),
and a scheduler in the encoder may leave EVRTCK for a hardware codec and come back.  A
change of codec or display restarts the video service while session and client go on; the
session announces a new codec by name, which reaches the client's decoder through another
channel than the frames.

What is hard: EVRTCK frames are XOR deltas against the frame encoded before, so a delta
played on the wrong base ruins the picture until the next key frame.  Frames disappear at
six places (full channel, waiting session, network, reassembler, queue overflow, waiting
queue), each with its own idea of when the stream is broken and who will ask for a key
frame.  `dequeue` gives up its lock while it holds a frame.  Counters that control limits
are kept by increments and saturating subtractions, which would hide an error.  Four
threads of the host and three of the client end one another through flags, channels and
joins, two more of the host (the session's receive thread and its audio) are detached and
joined by nobody, and the timeouts overlap (punch 8 s, handshake 5 s, client 1.1 s or 4 s per
address, idle 4 s and 6 s, game mode 3 s).  State is read once and used later:
`evrt_active` and `want_evrtck` per frame, the codec's name before a blocking dequeue.

What makes it correct:

- the queue hands frames out in order, once, not after closing, not from before a key
  frame it was told to wait for; its counters are exact and its limits hold; no thread
  and no frame is stuck in it;
- the reassembler emits only whole frames, in order, and never a delta over a gap it did
  not notice; its memory is bounded and exactly accounted for;
- wherever a frame was lost, no delta that depends on it is shown, and the picture comes
  back in bounded time although requests are lost, throttled and forgotten;
- the two controllers settle, and a lowered bitrate comes back;
- host and client agree about the socket; threads end together, joined or not, a dead
  peer is noticed, and without EVRT the relay carries the video;
- the codec follows the client's choice, is settled in the end and not changed under a
  game; frames reach the client behind the name of their codec, starting with a key frame,
  and the decoder falls out of step with the names by no more than the two channels make
  unavoidable.

### The rest of the program

`PROJECT.json` lists every part with what is modelled of it.  Of EVRT audio only the life
of its threads is modelled (in `EvrtLifecycle`).  Not modelled so far: the
wire format, the EVRTCK codec, the EVRT2 experiment, connection approval and
login, rendezvous, smart connect, the host agent and hotfix channel, VM bridge and providers,
the capability engine, capture and hardware codecs, the user interface, settings and
discovery, service wrappers, the Android glue, and the desktop-next launcher and viewer.
`EvertyGame_other_project`, `rustdesk-master`, `vendor`, `Video_Codec_SDK_13.0.37` and
`fpga` are other projects or vendored code.

## 2. Modules

| Module | Models | Run as |
|---|---|---|
| `LossyFifo` | abstract: what the queue promises its threads | property `FifoSpec` of `FrameQueue` |
| `FrameQueue` | `FrameQueue` and `Inner`, with the decoder thread and the stop flag | `MCFrameQueue` |
| `FrameQueueProofs` | theorems about `FrameQueue` | tlapm |
| `Reassembler` | `ChannelReassembler` under an arbitrary network | `MCReassembler` |
| `ReassemblerProofs` | theorems about `Reassembler` | tlapm |
| `IdrRecovery` | encoder loop, command loop, session and client, as far as key frames go | itself |
| `IdrRecoveryProofs` | theorems about `IdrRecovery` | tlapm |
| `AdaptiveControl` | `compute_pressure`, `AdaptiveJitter`, feedback channel, `AdaptiveRelief` | `MCAdaptiveControl` |
| `AdaptiveControlProofs` | theorems about `AdaptiveControl` | tlapm |
| `EvrtLifecycle` | relay session, pipeline threads, EVRT sender and session on the host; relay session and EVRT threads on the client: handshake, failure, teardown | itself |
| `EvrtLifecycleProofs` | theorems about `EvrtLifecycle` | tlapm |
| `CodecStream` | service, session, receive and decode thread while codec and service change | `MCCodecStream` |
| `CodecStreamProofs` | theorems about `CodecStream` | tlapm |
| `CodecNegotiation` | the command loop: wishes, EVRT, deadline, scheduler | `MCCodecNegotiation` |
| `CodecNegotiationProofs` | theorems about `CodecNegotiation` | tlapm |
| `FoldTheorems` | sums over finite sets, for the proofs about counters | tlapm |

**FrameQueue.**  The variables from `queue` to `jitter_delay` are the fields of `Inner`.
All operations run under one mutex, so each is one action, and `enqueue_inner` is one
action per path through it.  `dequeue` releases the mutex in `wait_timeout`, so each pass
of its loop is an action: `DequeueNone` (closed or cancelled), `DequeueHold` (the lone
unit is too young; it is moved to the slot and stays there), `DequeueDeliver`; a pass
that finds nothing changes nothing.  A unit is a number, a key flag and a size.  The
clock is left out: whether a unit is younger than the delay is free, so `DequeueHold` and
`DequeueDeliver` are both possible when a delay is set.  `offered`, `delivered` and
`loss` are history.  `flush` has no caller in the client today and is modelled as part of
the queue's interface, as is `hard_reset_on_keyframe`.

**Reassembler.**  `re` is the struct; methods are functions of it, and `on_packet` is one
action per way through it.  The network is a set: any datagram may arrive at any time,
repeatedly, or never.  Payloads are sizes, and the repair gives a packet the size the
sender's packet had.  A frame has any number of parity groups, one parity packet for each;
the list of parity packets kept for a frame is a sequence, and `TryFecRecover` goes over it
as the code does, one `Repair` per turn, so a frame may be repaired once in every group.
The groups of a frame do not overlap (`GroupsAssumption`), since `build_fec_packets` cuts
a frame into consecutive ones.  The order in which a hash map yields its keys is free.

**IdrRecovery.**  The composition of host and client for the question who notices a loss
and how the picture comes back.  Frame numbers only matter through
`frame_id - completed = 1`, so a frame carries `follows`: whether the frame encoded
before it is right ahead of it on its way.  The network loses frames whole or in part and
loses requests; it does not reorder (that is `Reassembler`'s subject).  Time is counted
in ticks, the unit of the throttles; clocks stop where nothing depends on them any more.
A session keeps its codec.  `refused` and `starved` are history about one wait of the
session: they begin with the wait, end when a frame is sent, and count the key frames the
full channel refused meanwhile and the ticks in which frames were encoded.
`RefreshDisplay` is the viewer's request on the control connection, which no throttle of
the session sees.  `EncodeNothing` stands for each way a pass ends without a
frame after it has taken the requests: nothing captured, picture unchanged, encoder
failed.

**AdaptiveControl.**  Measurements come from a small set with values on both sides of
each threshold.  The grace period and the pause after a change are flags that fall at any
time.  A session that starts in game mode never acts on reports; in the model it is one
whose flag `relieves` stays FALSE.  `cinema` comes from the session configuration on the
wire; the host of this repository always announces the mode GAME, the client handles
both.

**EvrtLifecycle.**  One action per step of a thread that another thread can see.  `stop` is
the pipeline's flag (also the EVRT session's); `service` and `route` are the encoder loop
and the destination its current iteration read from `evrt_active`; `spins` is
`evrt_disconnect_spins`.  `sender` walks through `evrt_send_loop`: `punch`, `handshake`,
`stream`, `unwind` (the session has returned and dropped the frame channel, but the
address is still published), `stopped`; without a socket it is `drain` for good.  `recv` is
the session's receive thread and `audio` a thread that captures audio, the session's or the
mirror that `run` starts for TCP; nobody joins these.  A client's socket is the number of the candidate.  The network is a set of the datagrams
that move the handshake, which are lost, delayed and overtaken freely; repeats come from
the senders.  The single address of `try_evrt_before_relay` is the case of one candidate.

**CodecStream.**  The composition of encoder, session, client and decoder for the question
which codec a frame meets.  A frame is one datagram; datagrams are lost, not reordered.
The frame queue is used through its promise (`LossyFifo`): it may give frames up.  The two
copies of a name are one datagram.  `late` (frames decoded since the oldest name that
waits), `overtaken` (queued frames that are older than the last name) and `lost` are
history.

**CodecNegotiation.**  One turn of the command loop is `Poll`, `Fallback`, and a command or
the two halves of its time-out (`TimeoutSilicon`, `TimeoutReturn`); `pc` says which comes
next, since other threads write `evrt_active` and the scheduler's flags in between.
`Resubscribe` is `set_subscribed_displays`: one service stands for all of them, which are
started and joined together.  EVRT is `punch`, `live` or `gone`, as `EvrtLifecycle`'s
sender goes through them.

Left out everywhere: logging, statistics for the user interface, the contents of frames,
Android's variant of the thresholds and of the critical branch.

## 3. Runs

| Run | Checks | Result |
|---|---|---|
| `frame_queue` | `TypeOK BytesAgree InOrder Conserved LimitsHeld ClosedIsEmpty WaitHonoured`, refinement `FifoSpec`, liveness `EveryUnitLeaves StopEndsConsumer` | holds, 138 thousand states |
| `reassembler` | `TypeOK BudgetExact WindowHeld EmittedInOrder EmittedWhole GapNeedsKeyPacket` | holds, 742 thousand states |
| `reassembler_base` | `DeltaOnItsBase` | violated |
| `idr_recovery` | `TypeOK NoStaleDelta WaitBounded`, liveness `FreezeEnds` | holds, 263 thousand states |
| `adaptive_control` | `TypeOK CalmNeverDegrades`, liveness `JitterSettles` | holds, 83 thousand states |
| `adaptive_control_recovery` | `ReliefRecovers` | violated |
| `evrt_lifecycle` | `TypeOK ClientIsPeer StreamEndsPipeline EncoderEndsAlone`, liveness `ClientTeardown StopReturns PeerLossNoticed VideoFallsBack` | holds, 209 thousand states |
| `evrt_lifecycle_fallback` | `FallbackKeepsRelay` | violated |
| `evrt_lifecycle_return` | `StopAlwaysReturns` | violated |
| `codec_stream` | `TypeOK FramesAnnounced KeyFollowsName DecoderInStep` | holds, 4.4 million states |
| `codec_stream_restart` | `KeyFrameIsNew` | violated |
| `codec_negotiation` | `TypeOK`, action property `GameChoiceLocked`, liveness `GameCommits SchedulerReturns` | holds, 12 thousand states |

What some of the properties say, and what they do not:

- An emitted frame arrived whole but for packets that were each the only one missing of
  their parity group (`EmittedWhole`).  `EmittedInOrder` and `GapNeedsKeyPacket` are about
  what is emitted; a swapped neighbour is not emitted at all, which they allow.
- From the beginning of its wait for a key frame the session holds deltas back for at most
  `Period + 1` ticks with frames, plus one retry for each key frame the full channel
  refused meanwhile (`WaitBounded`): such a frame counts as the last key frame with the
  encoder although the session goes on waiting.  A retry is the throttle of requested key
  frames for EVRTCK, whose encoder marks its base as spoilt, and a period for the others.
- The client is only ever active on the socket the host fixed (`ClientIsPeer`).  `run`
  returns once stopped, if it has an EVRT socket, and after that everything it started has
  ended and stays ended (`StopReturns`).  It does not say that `run` returns last: the
  receive thread and the audio threads may outlive it for a while, and with them the
  socket, whose port the next session may need (`src/host.rs` 6860).
- A session that streamed takes the pipeline with it, whereas after a failed handshake the
  video goes over TCP (`StreamEndsPipeline`, `VideoFallsBack`), except that the encoder may
  have given up in the short time the dead sender's address was still published
  (`EncoderEndsAlone` says that this is the only way it ends alone).  A gone peer is
  noticed unless the receive thread died of an error (`PeerLossNoticed`).
- Unless a name is lost, each frame on the wire comes behind its codec's name
  (`FramesAnnounced`), and unless anything is lost the first one behind a name is a key
  frame (`KeyFollowsName`).  This is the order on the wire.  At the decoder, names and
  frames come by two channels, and `DecoderInStep` says how far they get out of step: the
  frame the decoder already waits for is decoded with the old codec, and frames that were
  queued before a name are given to the new one, deltas included.  Nothing else is.
- After the client's first wish for a game, no wish, no poll and no deadline changes the
  committed codec or makes EVRTCK of it (`GameChoiceLocked`).  One step does: the
  scheduler's way back from a hardware codec it chose itself, before or without the wish.

### What the violated properties say

Each states what a comment or a test in the code says; `PROJECT.json` quotes it.

- `DeltaOnItsBase`: frame 1 is emitted, 2 is lost, 3 is discarded at the gap and the
  reassembler waits; the first packet of key frame 5 ends the waiting; 4 arrives late,
  follows 3, and is emitted although the decoder never saw 3.
- `ReliefRecovers`: recovery requires a measured presentation delay, which the client
  never sends.
- `FallbackKeepsRelay`: datagrams pass towards the host only.  The client's first request
  is taken for the punch, the repeated one for the confirmation; the client gives up and
  stays on the relay; four seconds later the host's idle timeout stops the pipeline and the
  input loop closes the relay.
- `StopAlwaysReturns`: without an EVRT socket the draining thread waits for the channel to
  close, `run` waits for the thread and holds the channel's other end.
- `KeyFrameIsNew`: the service is restarted, counts from the beginning, and the client's
  reassembler ignores its frames, key frames included, until the old number is passed.

Further disagreements have no run of their own:

- In the media configuration of the queue an overflow lets a delta in when the slot is
  empty (`src/frame_queue.rs` 246); the comment on `prefer_latest` says that the queue
  waits for a key frame.
- Two neighbouring frames swapped inside the window declare the stream broken
  (`src/frame_queue.rs` 792); the comment on the window (574) says a reordered packet
  must not.
- A request accepted by the session may be forgotten by the encoder, and a key frame it
  encodes may be refused by the channel, so that the wait is bounded by the period and the
  retries (`WaitBounded`) and not by the 500 ms of the comment at
  `src/video_pipeline.rs` 1532.
- `run` is said to return "only after capture threads are fully stopped"
  (`src/video_pipeline.rs` 925).  That is so for the threads that capture the screen; those
  that capture audio are not joined (`StopReturns`).
- A key frame that uncovers an older loss is enqueued and then thrown away
  (`src/evrt_client.rs` 379); `FreezeEnds` holds in spite of it.
- The audio mirror over TCP starts after three seconds without EVRT, or when the scheduler
  chose hardware although EVRT is up; the comment (`src/video_pipeline.rs` 529) says that
  EVRT will then never come up, but the sender waits eight seconds for a punch.
- After the scheduler has left EVRTCK, the client's first wish for a hardware codec can be
  overruled by the way back; the comment (`src/video_pipeline.rs` 746) says that the first
  message decides permanently.  `GameChoiceLocked` names that step as its one exception.
- The comment at the feedback channel (`src/evrt_session.rs` 356) says old reports are
  dropped; `try_send` drops the newest.
- The test `adaptive_relief_apply_pending` expects a step at the first report, which the
  grace period of three seconds rules out.

### Bounds, and why they are enough

- `frame_queue`: four frames, sizes 1 and 2, capacity 2 or 3, delays 0 and 1.  Four
  frames fill a queue of two behind an occupied slot and overflow it; sizes make the byte
  limit the tighter one in one configuration and a single frame larger than the limit in
  another.  Safety is proved for any number of frames.
- `reassembler`: four frames, window 1, budget 3.  Frames fall out of the window, the
  budget evicts, and a frame of three packets in two parity groups (of two and of one) can
  be repaired in each of them; the others are of one packet, with a contradictory header,
  a senseless one and a packet above the budget among them.  `reassembler_base` uses the
  program's window of 4.  `MaxParity`, two, bounds the parity packets kept for a frame,
  repeats included.  Safety is proved for all values.
- `idr_recovery`: floors of 1 and 2 ticks, a period of 3, capacity 2 as in the program, up
  to three frames per tick, so that the channel fills and refuses.  `MaxRefused`, two, is
  the number of refused key frames at which a wait is followed no further, so that waits
  with none and with one are measured.  Safety is proved for all values, hence for any
  number of refusals.
- `adaptive_control`: the real thresholds and step sizes; a channel of one report instead
  of eight, since only full or not full matters to the sender and reports do not depend
  on one another; `MaxStrain` caps a score that
  grows without bound at the last step, at the largest threshold.
- `evrt_lifecycle`: two candidates, so that one is given up and its packets come late; the
  encoder gives up after two refusals instead of three.  Neither number enters the safety
  proofs.
- `codec_stream`: two codecs (interchangeable, hence the symmetry), two services of three
  frames each, three datagrams under way, a channel of two frames as in the program, and a
  queue of two, so that a name overtakes more than one frame: a restart behind three frames, a gap and two names in a row fit.  The run
  has no deadlock check, because the bounds on frames and services stop it.
- `codec_negotiation`: three wishes: EVRTCK with two codecs, a codec the client decodes,
  and one it does not.  The state is finite without bounds.

### Fairness, and why the code justifies it

- `FrameQueue`: the decode thread keeps running; `wait_timeout` ends after 20 ms at the
  latest, and a unit gets older than any delay (at most 16 ms) while it is held.  Nothing
  is assumed of the other threads, and a cancelled queue owes nothing.
- `IdrRecovery`: all loops run and time passes (strongly: the feedback loop cannot make
  requests without end within a tick, it sleeps between two of them); of endlessly many key
  frames encoded the channel does not refuse all (the session empties it between two
  frames); and strong fairness says that one of
  the key frames sent now and then arrives whole.  Without the last no protocol without
  retransmission can recover.  Requests are never assumed to arrive.
- `AdaptiveControl`: both loops run, time passes, reports keep arriving now and then.
- `EvrtLifecycle`: threads that can go on do; the deadlines of punch, handshake and client
  pass; the idle timer fires if its peer stays silent; a datagram arrives or is lost some
  time; the input loop looks at its pipeline and stream every second.  Nothing obliges the
  user to close, an address to be reachable, or anything to fail.
- `CodecNegotiation`: the loop and the encoder go on, the deadline passes, and the loop
  times out now and then (strongly: commands such as mouse movements keep it from timing
  out, but a user pauses for 50 ms).  Neither EVRT nor the scheduler has to do anything.

Deadlock is checked in every run but those of `CodecStream`, which its bounds stop, and of
`EvrtLifecycle`, where a session that has ended stops.

## 4. Proofs

Checked by tlapm for all values of the constants that satisfy the named assumptions
(`ConfigAssumption`: the configurations are well typed and allow at least one unit;
`ReassemblerAssumption`: frame numbers are positive, packets well typed;
`GroupsAssumption`: two parity packets of a frame cover the same packets or none in common;
`RecoveryAssumption`: throttles are natural
numbers, capacity, frames per tick and refusals are not zero; `ControlAssumption`: measurements are
well typed, the channel has room; `LifecycleAssumption`: at least one candidate and one
refusal; `StreamAssumption`: bounds are positive; `NegotiationAssumption`: wishes are well
typed and there is one).  Every safety property of the passing runs is proved.

**FoldTheorems.**  Counters that are kept by increments are compared with sums, so the proofs
need facts about sums of any length: that the recursive function behind a fold exists and
is unique (`SumExists`, `SumUnique`), that the total does not depend on which element is
taken first (`TotalRemove`), and what adding, removing, splitting and renaming do to it.
The provers cannot use the library's induction theorems.  Each fact is proved from a
minimal counterexample instead: if some set violated it, one of the violating sets would
have no violating strict subset (`WFMin`), and one step of the recursion refutes that one.

**FrameQueueProofs.**

- `TypeCorrect`: `Spec => []TypeOK`, by one lemma per group of actions.
- `QueueSafety`: `InOrder`, `Conserved`, `ClosedIsEmpty` and `WaitingHoldsNothing`
  together with the types are inductive: order needs that numbers in the queue do not
  exceed `offered`, and the account in `Conserved` needs that the slot is either empty or
  holds one unit.  `FramesAreConserved` and `ClosedStaysEmpty` are two of its parts.
- `QueueImplementsFifo`: `Spec => FifoSpec`.  `HeldIds` maps the two buffers to one set;
  an enqueue is an `Offer` that may lose anything, a pass that moves a unit into the slot
  is a stutter, a delivery is a `Take`, for which `InOrder` shows that the unit is the
  oldest, and the remaining operations are `Lose` or `Close`.
- `QueueWithinLimits`: `Spec => []LimitsHeld`.  A longer queue only arises from `Push`
  after the check; every other path leaves at most one unit.
- `WaitIsHonoured`: `WaitHonoured` speaks of delivered frames only.  `WaitInv` says the same
  of what is still queued or in the slot: until the key frame comes the queue waits, and
  afterwards it holds only frames that are not older than it.
- `BytesAreExact`: `BytesInv`, the counter is the sum.  Each operation appends one unit,
  removes the first, or empties the queue (`BytesAppend`, `BytesTail`, `BytesEmpty`), and
  because the counter is the sum the saturating subtraction never saturates.

**ReassemblerProofs.**  The methods of the reassembler are functions of its state, so each
has a lemma and `on_packet` is their composition.  Most of them only take assemblies away,
start to wait or count (`Reduces`); what is said of each assembly survives that.  `Sound`
joins the types, the exact counter, the window and the contents of assemblies (`Filled`):
an assembly holds indices that arrived and indices that were repaired, each of which made
its parity group full while the others of the group had arrived.  A repair must not rest
on an earlier one (`RepairFilled`): what it uses of its group is in no other group, and
with a repaired packet the group would already be full.  The loop over the kept parity
packets is a recursive function; that it exists and that every turn keeps `Sound`
(`LoopExists`, `LoopSound`) follows from a least counterexample.  `Handed` speaks of the frames handed on: they
are whole, in order and not above `completed`; and if the last completed frame is not the
last one handed on, then the reassembler waits, or has seen a packet of a newer key frame.
That last part is what makes `GapNeedsKeyPacket` inductive; it is also as much as the code
gives, as `DeltaOnItsBase` shows.  The six theorems (`ReassemblerTypeCorrect`,
`BudgetIsExact`, `WindowIsHeld`, `FramesInOrder`, `FramesAreWhole`, `GapsNeedKeyPackets`)
are consequences of `IndInv`.

**IdrRecoveryProofs.**

- `NoStaleDeltaHolds`: the inductive invariant says that once a frame was completed and
  the reassembler is not waiting, a completed last frame was also handed on: a frame is
  completed and not handed on only together with the start of waiting, and waiting ends
  only with a key frame.
- `WaitIsBounded`: `WaitInv` says that while the session waits and no key frame is in the
  channel, the ticks with frames it has waited do not exceed what the refused key frames
  account for (`Reach`) plus the age of the last key frame.  That age passes the period after
  `Period + 1` ticks, and then every encoded frame is a key frame; it resets the age whether
  it is sent or refused.  For EVRTCK `WaitInv` adds that after a refusal the base stays
  marked as spoilt, so that the throttle of requested key frames bounds the age instead.
- `RecoveryTypeCorrect`: `Spec => []TypeOK`.

**EvrtLifecycleProofs.**  `IInv` joins the types and the safety properties with three facts that make
them inductive: a configuration is only ever under way to the peer's socket
(`ConfigToPeer`, so that a client cannot become active elsewhere); before the punch there
is no peer, no published address and no receive thread (`PeerFixed`); an ended TCP sender
or command loop has raised stop, and an encoder that runs has refusals left
(`EncoderState`).  From it follow `TypeCorrect`, `ClientIsPeerHolds`,
`StreamEndsPipelineHolds` and `EncoderEndsAloneHolds`.

**CodecNegotiationProofs.**  `Agree` says that the services run with the preference the loop
believes in.  It is needed because `SubscribeDisplays` restarts services from that belief;
with it `ChoiceIsLocked` (`Spec => GameChoiceLocked`) is a check of each action: of the
scheduler's two steps one finds no EVRTCK to leave, and the other is the exception.
`NegotiationTypeCorrect` is the type invariant.

**CodecStreamProofs.**

- `StreamTypeCorrect`: `Spec => []TypeOK`.
- `DecoderKeepsStep`: whenever the decode thread stands in `dequeue` no frame was decoded
  since the names were read, so at most one is before the next reading (`NamesWait`); and
  the queued frames behind those that a name overtook are of the codec the client knows
  (`CurrentInv`), which rests on `Linked` below.
- `FramesAreAnnounced`: `Linked` says of neighbouring datagrams what the property says of a
  frame and the last name before it: the datagrams under way lead, one by one, from the
  codec the client knows to the one the session announced last.  Losing a frame keeps the
  chain, losing a name breaks it, which is the property's exception.
- `KeyFramesFollowNames` (of the order on the wire): `Keyed`, a frame right behind a name is a key frame, and if the
  last datagram is a name the session still waits for one.

**AdaptiveControlProofs.**

- `ControlTypeCorrect`: the ranges of the jitter delay, the channel and the scores.
- `JitterApproaches`: each pass of the feedback loop takes the delay strictly nearer to the
  target and not past it.  It is the measure that `JitterSettles` needs; the rest of that
  property is fairness.
- `CalmReportsAreHarmless`: `StrainBelow`, the score that is left below the last step is
  less than the threshold a report without strain is judged by.  Without it a score from
  before could push such a report over.
- `BitrateNeverReturns`: `[][relief'.step >= relief.step]_vars`.  The reports in the channel
  carry no presentation delay (`TypeInv`), so the recovery branch is dead for any
  measurements and not only for those of the run that violates `ReliefRecovers`.

**Only model-checked:** the liveness properties `EveryUnitLeaves`, `StopEndsConsumer`,
`FreezeEnds`, `JitterSettles`, `ClientTeardown`, `StopReturns`, `PeerLossNoticed`,
`VideoFallsBack`, `GameCommits` and `SchedulerReturns`, because fairness and ENABLED are
outside the prover's reach.  The five violated properties are shown by their
counterexamples.

## 5. Not modelled, and the plan

In this order:

1. Proofs: what the liveness properties rest on, as far as it is safety: measures that
   shrink with each step, as `JitterApproaches` does for the jitter delay, for the frozen
   picture of `IdrRecovery` and the joins of `EvrtLifecycle`.
2. `EvrtReceiver`: reassembler and queue together at packet level, with the loss check
   between them and the EVRTCK decoder's base; `IdrRecovery`'s client as its abstraction.
3. Packetisation and FEC of `src/evrt.rs` as operators, checked against a reference:
   every frame is split and joined back, and parity repairs exactly one loss per group.
4. Host approval and login; host agent and hotfix queue; launcher and viewer IPC; the
   EVRT2 scheduler and jitter buffer.

Unlikely to be modelled: capture, hardware codecs, pixel arithmetic, user interface,
cryptography and JSON, which are computation or I/O without shared state.
