----------------------------- MODULE IdrRecovery -----------------------------
(***************************************************************************)
(* How an EVRT session gets its picture back after a loss: the encoder     *)
(* loop and its key frame throttles (src/video_pipeline.rs), the sending   *)
(* session (src/evrt_session.rs) and the receiving client                  *)
(* (src/evrt_client.rs) with its reassembler and frame queue, connected by *)
(* a bounded channel of frames and a network that loses datagrams in both  *)
(* directions.                                                             *)
(*                                                                         *)
(* A session uses one codec, its thread keeps running, and the network     *)
(* does not reorder (the module Reassembler treats reordering).  Frame     *)
(* numbers only matter through the reassembler's question whether a frame  *)
(* directly follows the last completed one, so a frame carries just that:  *)
(* whether the frame encoded before it is the one right ahead of it.       *)
(* Time passes in ticks; the encoder may run several times in a tick, and  *)
(* what is in the channel or on the wire is dealt with in the same tick.   *)
(***************************************************************************)
EXTENDS Naturals, Sequences

CONSTANTS
  MinForced,   \* IDR_MIN_FORCED, in ticks
  MinRequested,\* IDR_MIN_REQUESTED
  Period,      \* current_idr_min
  KfLimit,     \* IDR_RATELIMIT_EVRTCK
  LossLimit,   \* the client's pause between two requests after a loss
  Capacity,    \* capacity of the channel from the encoder to the session
  MaxRuns,     \* bound on the frames encoded in a tick
  MaxRefused   \* bound on the refused key frames a wait is followed over

ASSUME RecoveryAssumption ==
  /\ {MinForced, MinRequested, Period, KfLimit, LossLimit} \subseteq Nat
  /\ {Capacity, MaxRuns, MaxRefused} \subseteq Nat \ {0}

VARIABLES
  evrtck,           \* the session's codec is EVRTCK (want_evrtck, is_evrtck)
  \* encode_loop
  since_idr,        \* last_idr.elapsed()
  force,            \* force_recovery_key
  dirty,            \* evrtck_baseline_dirty
  first,            \* no frame was encoded yet
  requested,        \* a request waits in the encoder's channel
  put,              \* the frame encoded last went into the channel
  chan,             \* the channel of encoded frames
  \* run_evrt_session
  request,          \* a request waits for the pipeline's command loop
  waiting_for_idr,
  since_kf,         \* last_kf_request.elapsed()
  kf,               \* a client's request waits in kf_rx
  passed,           \* the frame taken last from the channel was sent
  wire,             \* the frame on its way to the client, if any
  \* the client
  started,          \* latest_completed_id is not None
  whole,            \* the frame that came off the wire last was completed
  waiting_after_loss,
  partial,          \* an unfinished assembly is kept
  waiting_for_keyframe,
  since_request,    \* last_loss_keyframe_request.elapsed()
  asked,            \* a request is on its way to the host
  \* history
  based,            \* the frame that came off the wire last was handed on
  stale,            \* a delta was handed on although its base was not
  ran,              \* frames encoded in this tick
  refused,          \* key frames the full channel refused during the wait
  starved           \* ticks with frames since the session began to wait

encoder == <<evrtck, since_idr, force, dirty, first, put>>
session == <<waiting_for_idr, since_kf, kf, passed>>
client == <<started, whole, waiting_after_loss, partial, waiting_for_keyframe,
            since_request, asked, based, stale>>
wait == <<refused, starved>>
vars == <<encoder, requested, chan, request, session, wire, client, ran, wait>>

Frame == [key : BOOLEAN, follows : BOOLEAN]

Least(a, b) == IF a <= b THEN a ELSE b
Larger(a, b) == IF a <= b THEN b ELSE a

-----------------------------------------------------------------------------
(* encode_loop.  Each pass empties the channel of requests first, whatever *)
(* becomes of the pass.                                                    *)

\* Mutant: without requests there are no key frames.
OnlyOnRequest ==
  \/ force /\ (first \/ since_idr >= MinForced)
  \/ (requested \/ dirty) /\ since_idr >= Least(MinRequested, Period)

PeriodicKey ==
  \/ force /\ (first \/ since_idr >= MinForced)
  \/ (requested \/ dirty) /\ since_idr >= Least(MinRequested, Period)
  \/ since_idr > Period

\* Nothing was captured, the picture has not changed, or encoding failed.
EncodeNothing ==
  /\ requested
  /\ requested' = FALSE
  /\ UNCHANGED <<encoder, chan, request, session, wire, client, ran, wait>>

Encoded ==
  /\ ran < MaxRuns
  /\ ran' = ran + 1
  /\ requested' = FALSE
  /\ first' = FALSE
  /\ since_idr' = IF PeriodicKey THEN 0 ELSE since_idr
  /\ UNCHANGED <<evrtck, request, session, wire, client>>

\* Mutant: the channel has no bound.
EncodeUnbounded ==
  /\ Encoded
  /\ chan' = Append(chan, [key |-> PeriodicKey, follows |-> put])
  /\ put' = TRUE
  /\ force' = (force /\ ~PeriodicKey)
  /\ dirty' = (dirty /\ ~PeriodicKey)
  /\ UNCHANGED wait

EncodeSent ==
  /\ Encoded
  /\ Len(chan) < Capacity
  /\ chan' = Append(chan, [key |-> PeriodicKey, follows |-> put])
  /\ put' = TRUE
  /\ force' = (force /\ ~PeriodicKey)
  /\ dirty' = (dirty /\ ~PeriodicKey)
  /\ UNCHANGED wait

\* A key frame was refused while the session waits; the wait is followed no
\* further once MaxRefused of them were.
RefusedKey ==
  /\ refused' = Least(refused + 1, MaxRefused)
  /\ starved' = IF refused' < MaxRefused THEN starved ELSE 0

\* Mutant: a refused frame leaves no trace with the encoder.
EncodeForgotten ==
  /\ Encoded
  /\ Len(chan) >= Capacity
  /\ put' = FALSE
  /\ IF waiting_for_idr /\ PeriodicKey THEN RefusedKey ELSE UNCHANGED wait
  /\ UNCHANGED <<chan, force, dirty>>

\* The channel is full: the frame is gone, the encoder's base has moved on.
\* A key frame counts as the last one all the same (last_idr).
EncodeRefused ==
  /\ Encoded
  /\ Len(chan) >= Capacity
  /\ put' = FALSE
  /\ dirty' = (dirty \/ evrtck)
  /\ IF waiting_for_idr /\ PeriodicKey THEN RefusedKey ELSE UNCHANGED wait
  /\ UNCHANGED <<chan, force>>

\* The command loop of the pipeline hands a request on to the encoder.
ForwardRequest ==
  /\ request
  /\ request' = FALSE
  /\ requested' = TRUE
  /\ UNCHANGED <<encoder, chan, session, wire, client, ran, wait>>

\* PipelineCmd::RefreshDisplay: the viewer asks for a key frame on the control
\* connection, past the session and whatever that waits for.
RefreshDisplay ==
  /\ ~requested
  /\ requested' = TRUE
  /\ UNCHANGED <<encoder, chan, request, session, wire, client, ran, wait>>

-----------------------------------------------------------------------------
(* The main loop of run_evrt_session.                                      *)

Allowed == ~evrtck \/ since_kf >= KfLimit

SessionAccepts ==
  /\ kf /\ ~waiting_for_idr /\ Allowed
  /\ kf' = FALSE
  /\ waiting_for_idr' = TRUE
  /\ since_kf' = 0
  /\ request' = TRUE
  /\ UNCHANGED <<encoder, requested, chan, passed, wire, client, ran, wait>>

SessionIgnores ==
  /\ kf /\ (waiting_for_idr \/ ~Allowed)
  /\ kf' = FALSE
  /\ UNCHANGED <<encoder, requested, chan, request, waiting_for_idr, since_kf,
                 passed, wire, client, ran, wait>>

SessionSkips ==
  /\ chan # <<>> /\ waiting_for_idr /\ ~Head(chan).key
  /\ chan' = Tail(chan)
  /\ passed' = FALSE
  /\ UNCHANGED <<encoder, requested, request, waiting_for_idr, since_kf, kf, wire,
                 client, ran, wait>>

SessionSends ==
  /\ chan # <<>> /\ (Head(chan).key \/ ~waiting_for_idr)
  /\ wire = <<>>
  /\ chan' = Tail(chan)
  /\ passed' = TRUE
  /\ waiting_for_idr' = FALSE
  /\ wire' = <<[key |-> Head(chan).key, follows |-> Head(chan).follows /\ passed]>>
  /\ refused' = 0 /\ starved' = 0
  /\ UNCHANGED <<encoder, requested, request, since_kf, kf, client, ran>>

-----------------------------------------------------------------------------
(* The client's receive thread: what becomes of the frame on the wire.     *)

Off(f) ==
  /\ wire = <<f>>
  /\ wire' = <<>>
  /\ UNCHANGED <<encoder, requested, chan, request, session, ran, wait>>

\* The check for new drops after each packet; q is what the queue's flag is
\* before it.
LossCheck(dropped, q) ==
  IF dropped /\ since_request >= LossLimit
    THEN /\ asked' = TRUE
         /\ waiting_for_keyframe' = TRUE
         /\ since_request' = 0
    ELSE /\ waiting_for_keyframe' = q
         /\ UNCHANGED <<asked, since_request>>

FrameLost(f) ==
  /\ Off(f)
  /\ whole' = FALSE
  /\ based' = FALSE
  /\ UNCHANGED <<started, waiting_after_loss, partial, waiting_for_keyframe,
                 since_request, asked, stale>>

\* Some packets of a key frame arrive: older assemblies go, waiting ends.
KeyPartial(f) ==
  /\ Off(f) /\ f.key
  /\ waiting_after_loss' = FALSE
  /\ partial' = TRUE
  /\ whole' = FALSE
  /\ based' = FALSE
  /\ LossCheck(partial, waiting_for_keyframe)
  /\ UNCHANGED <<started, stale>>

KeyDone(f) ==
  /\ Off(f) /\ f.key
  /\ waiting_after_loss' = FALSE
  /\ partial' = FALSE
  /\ whole' = TRUE
  /\ started' = TRUE
  /\ based' = TRUE
  /\ UNCHANGED stale

\* A key frame of one packet is enqueued before the check of its packet, one
\* of several packets after the check of its first packet.
KeyOnePacket(f) == KeyDone(f) /\ LossCheck(partial, FALSE)

KeyManyPackets(f) ==
  /\ KeyDone(f)
  /\ waiting_for_keyframe' = FALSE
  /\ IF partial /\ since_request >= LossLimit
       THEN asked' = TRUE /\ since_request' = 0
       ELSE UNCHANGED <<asked, since_request>>

DeltaIgnored(f) ==
  /\ Off(f) /\ ~f.key /\ waiting_after_loss
  /\ whole' = FALSE
  /\ based' = FALSE
  /\ LossCheck(TRUE, waiting_for_keyframe)
  /\ UNCHANGED <<started, waiting_after_loss, partial, stale>>

\* The frame pushes an unfinished one out of the reordering window; whether
\* that one is old enough is a free choice.
DeltaMovesWindow(f) ==
  /\ Off(f) /\ ~f.key /\ ~waiting_after_loss /\ partial
  /\ waiting_after_loss' = TRUE
  /\ partial' = FALSE
  /\ whole' = FALSE
  /\ based' = FALSE
  /\ LossCheck(TRUE, waiting_for_keyframe)
  /\ UNCHANGED <<started, stale>>

DeltaPartial(f) ==
  /\ Off(f) /\ ~f.key /\ ~waiting_after_loss
  /\ partial' = TRUE
  /\ whole' = FALSE
  /\ based' = FALSE
  /\ UNCHANGED <<started, waiting_after_loss, waiting_for_keyframe, since_request,
                 asked, stale>>

\* Mutant: only what the network lost counts as a gap, not what the host gave
\* up.
GapOnWire(f) == started /\ ~whole

\* finalize_frame: frame_id - previous_completed_id # 1.
Gap(f) == started /\ ~(f.follows /\ whole)

DeltaBehindGap(f) ==
  /\ Off(f) /\ ~f.key /\ ~waiting_after_loss /\ Gap(f)
  /\ waiting_after_loss' = TRUE
  /\ whole' = TRUE
  /\ based' = FALSE
  /\ LossCheck(TRUE, waiting_for_keyframe)
  /\ UNCHANGED <<started, partial, stale>>

DeltaDone(f) ==
  /\ Off(f) /\ ~f.key /\ ~waiting_after_loss /\ ~Gap(f)
  /\ whole' = TRUE
  /\ started' = TRUE
  /\ based' = TRUE
  /\ stale' = (stale \/ (started /\ ~(f.follows /\ based)))
  /\ UNCHANGED <<waiting_after_loss, partial, waiting_for_keyframe, since_request,
                 asked>>

Receive ==
  \E f \in Frame :
    \/ FrameLost(f)
    \/ KeyPartial(f)
    \/ KeyOnePacket(f)
    \/ KeyManyPackets(f)
    \/ DeltaIgnored(f)
    \/ DeltaMovesWindow(f)
    \/ DeltaPartial(f)
    \/ DeltaBehindGap(f)
    \/ DeltaDone(f)

\* The feedback loop, under critical pressure with a frame in the queue or in
\* its slot, where the smooth mode keeps one even while the queue waits.
FeedbackCritical ==
  /\ started
  /\ asked' = TRUE
  /\ waiting_for_keyframe' = TRUE
  /\ UNCHANGED <<encoder, requested, chan, request, session, wire, started, whole,
                 waiting_after_loss, partial, since_request, based, stale, ran,
                 wait>>

\* The network carries a request to the host, or loses it.
RequestArrives ==
  /\ asked
  /\ asked' = FALSE
  /\ kf' = TRUE
  /\ UNCHANGED <<encoder, requested, chan, request, waiting_for_idr, since_kf,
                 passed, wire, started, whole, waiting_after_loss, partial,
                 waiting_for_keyframe, since_request, based, stale, ran, wait>>

RequestLost ==
  /\ asked
  /\ asked' = FALSE
  /\ UNCHANGED <<encoder, requested, chan, request, session, wire, started, whole,
                 waiting_after_loss, partial, waiting_for_keyframe, since_request,
                 based, stale, ran, wait>>

-----------------------------------------------------------------------------
\* Time passes.  The clocks stop where nothing depends on them any more.
Tick ==
  /\ chan = <<>> /\ wire = <<>> /\ ~kf /\ ~request
  /\ since_idr' = Least(since_idr + 1, Period + 1)
  /\ since_kf' = Least(since_kf + 1, KfLimit)
  /\ since_request' = Least(since_request + 1, LossLimit)
  /\ ran' = 0
  /\ starved' = IF waiting_for_idr /\ ran > 0 /\ refused < MaxRefused
                  THEN starved + 1 ELSE starved
  /\ UNCHANGED <<evrtck, force, dirty, first, put, requested, chan, request,
                 waiting_for_idr, kf, passed, wire, started, whole,
                 waiting_after_loss, partial, waiting_for_keyframe, asked, based,
                 stale, refused>>

Init ==
  /\ evrtck \in BOOLEAN
  /\ since_idr = 0 /\ force = TRUE /\ dirty = FALSE /\ first = TRUE
  /\ requested = FALSE /\ put = FALSE /\ chan = <<>>
  /\ request = TRUE /\ waiting_for_idr = TRUE /\ since_kf = KfLimit
  /\ kf = FALSE /\ passed = FALSE /\ wire = <<>>
  /\ started = FALSE /\ whole = FALSE /\ waiting_after_loss = FALSE
  /\ partial = FALSE /\ waiting_for_keyframe = FALSE
  /\ since_request = LossLimit /\ asked = FALSE
  /\ based = FALSE /\ stale = FALSE /\ ran = 0 /\ refused = 0 /\ starved = 0

Next ==
  \/ EncodeNothing
  \/ EncodeSent
  \/ EncodeRefused
  \/ ForwardRequest
  \/ RefreshDisplay
  \/ SessionAccepts
  \/ SessionIgnores
  \/ SessionSkips
  \/ SessionSends
  \/ Receive
  \/ FeedbackCritical
  \/ RequestArrives
  \/ RequestLost
  \/ Tick

Spec == Init /\ [][Next]_vars

\* The threads keep running and frames keep being captured.  Of endlessly many
\* key frames the channel does not refuse all, and of those sent, which are
\* larger than a packet, not all are damaged on the way.  Time passes although
\* requests keep being made and answered within a tick.  Requests may all be
\* lost.
Fairness ==
  /\ WF_vars(EncodeSent)
  /\ []<><<Encoded /\ PeriodicKey>>_vars => []<><<EncodeSent /\ PeriodicKey>>_vars
  /\ WF_vars(ForwardRequest)
  /\ WF_vars(SessionAccepts \/ SessionIgnores)
  /\ WF_vars(SessionSkips \/ SessionSends)
  /\ WF_vars(Receive)
  /\ SF_vars(\E f \in Frame : KeyManyPackets(f))
  /\ SF_vars(Tick)

FairSpec == Spec /\ Fairness

-----------------------------------------------------------------------------
(* Properties.                                                             *)

\* Every variable has its type.
TypeOK ==
  /\ {since_idr, since_kf, since_request, ran, refused, starved} \subseteq Nat
  /\ {evrtck, force, dirty, first, requested, put} \subseteq BOOLEAN
  /\ {request, waiting_for_idr, kf, passed} \subseteq BOOLEAN
  /\ {started, whole, waiting_after_loss, partial, waiting_for_keyframe,
      asked} \subseteq BOOLEAN
  /\ {based, stale} \subseteq BOOLEAN
  /\ chan \in Seq(Frame) /\ Len(chan) <= Capacity
  /\ wire \in Seq(Frame) /\ Len(wire) <= 1

\* While packets come in order, no delta is handed to the queue behind a frame
\* that was itself not handed on, wherever between the encoder and the decoder
\* that frame was given up: refused by a full channel, skipped while the
\* session waits, lost, unfinished, or discarded by the reassembler.
NoStaleDelta == ~stale

\* How long the next key frame can be away when one was just refused: EVRTCK
\* marks its base as spoilt and asks for a key frame, under the throttle of the
\* requested ones; the other codecs wait for the next unrequested one.
Retry ==
  IF evrtck THEN Larger(Least(MinRequested, Period), 1) ELSE Period + 1

\* The session ignores every request while it waits and the encoder drops the
\* requests it throttles, yet from the beginning of the wait the session holds
\* deltas back for at most one period of the unrequested key frames, and for
\* one more retry with every key frame that the full channel refuses meanwhile
\* (such a frame resets last_idr although the session goes on waiting).
WaitBounded ==
  waiting_for_idr /\ refused < MaxRefused =>
    starved <= Period + 1 + refused * Retry

\* A frozen client always gets a picture again, even if all its requests are
\* lost, throttled or ignored.
Frozen == waiting_after_loss \/ waiting_for_keyframe

FreezeEnds == Frozen ~> ~Frozen
=============================================================================
