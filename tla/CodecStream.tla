----------------------------- MODULE CodecStream -----------------------------
(***************************************************************************)
(* A live EVRT stream while the host replaces its video service or changes *)
(* the codec: the service with its frame counter (src/video_pipeline.rs),  *)
(* the session that announces a new codec by name before it sends frames   *)
(* of it (src/evrt_session.rs), and the client, where the names go through *)
(* a channel and the frames through reassembler and queue to the decoder   *)
(* (src/evrt_client.rs, src/frame_queue.rs).                               *)
(*                                                                         *)
(* A frame is one datagram here, and datagrams are lost but not reordered: *)
(* module Reassembler is about the rest.  The two copies of a name are one *)
(* datagram, lost only together.  The queue is the lossy queue of module   *)
(* LossyFifo, which module FrameQueue implements.  Which codec a service   *)
(* gets is the subject of module CodecNegotiation; here it is any.         *)
(***************************************************************************)
EXTENDS Naturals, Sequences, SequencesExt

CONSTANTS
  Codecs,      \* the names of the codecs
  Room,        \* capacity of the channel of encoded frames
  Units,       \* frames the client's queue holds at most
  MaxFrames,   \* bound: frames one service encodes
  MaxServices, \* bound: services started on this stream
  MaxNet       \* bound: datagrams under way

ASSUME StreamAssumption ==
  /\ Codecs # {}
  /\ {Room, Units, MaxFrames, MaxServices, MaxNet} \subseteq Nat \ {0}

VARIABLES
  services,           \* how many services have been started
  codec,              \* what the running one encodes with
  frame_id,           \* its frame counter
  evrt_rx,            \* the channel from the service to the session
  current_codec,      \* the codec the session announced last
  waiting_for_idr,    \* the session sends no delta before the next key frame
  net,                \* datagrams under way, oldest first
  completed,          \* latest_completed_id of the reassembler, 0: none
  waiting_after_loss, \* the reassembler takes no delta before a key frame
  codec_change,       \* names received and not yet taken by the decoder
  queue,              \* frames received and not yet taken by the decoder
  at,                 \* where the decoder thread is: "names" or "dequeue"
  decoder,            \* the codec it decodes with
  late,               \* history: frames decoded since the oldest name waits
  overtaken,          \* history: queued frames that the last name overtook
  lost                \* history: the kinds of datagrams that were lost

service == <<services, codec, frame_id>>
session == <<current_codec, waiting_for_idr>>
receiver == <<completed, waiting_after_loss>>
backlog == <<queue, overtaken>>
player == <<at, decoder, late>>
vars == <<service, evrt_rx, session, net, receiver, codec_change, backlog,
          player, lost>>

Frame == [id : 1..MaxFrames, key : BOOLEAN, codec : Codecs]

\* A datagram is a codec's name, TYPE_CODEC_CONFIG, or a frame.
Name(c) == [name |-> c]
IsName(d) == "name" \in DOMAIN d
Datagram == [name : Codecs] \cup Frame

\* The configuration of the session has named a codec, which the client's
\* decoder was opened with; the service may turn out to use another one.
Init ==
  /\ services = 1 /\ codec \in Codecs /\ frame_id = 0
  /\ evrt_rx = <<>>
  /\ current_codec \in Codecs /\ waiting_for_idr = FALSE
  /\ net = <<>>
  /\ completed = 0 /\ waiting_after_loss = FALSE
  /\ codec_change = <<>> /\ queue = <<>>
  /\ at = "names" /\ decoder = current_codec /\ late = 0
  /\ overtaken = 0
  /\ lost = {}

-----------------------------------------------------------------------------
(* The video service.                                                      *)

\* As Encode, but a full channel takes the frame all the same.
EncodeAnyway ==
  /\ frame_id < MaxFrames
  /\ frame_id' = frame_id + 1
  /\ \E key \in BOOLEAN :
       /\ frame_id = 0 => key
       /\ evrt_rx' = Append(evrt_rx,
              [id |-> frame_id + 1, key |-> key, codec |-> codec])
  /\ UNCHANGED <<services, codec, session, net, receiver, codec_change, backlog,
                 player, lost>>

\* A frame is encoded under the next number, the first one of a service as a
\* key frame, and dropped if the channel is full.
Encode ==
  /\ frame_id < MaxFrames
  /\ frame_id' = frame_id + 1
  /\ \E key \in BOOLEAN :
       /\ frame_id = 0 => key
       /\ LET frame == [id |-> frame_id + 1, key |-> key, codec |-> codec]
          IN  evrt_rx' = IF Len(evrt_rx) < Room THEN Append(evrt_rx, frame)
                                                ELSE evrt_rx
  /\ UNCHANGED <<services, codec, session, net, receiver, codec_change, backlog,
                 player, lost>>

\* The codec changes under a running service: want_evrtck was turned, or a
\* backend of the cascade failed.  Nothing asks for a key frame.
CodecChanges ==
  /\ codec' \in Codecs \ {codec}
  /\ UNCHANGED <<services, frame_id, evrt_rx, session, net, receiver,
                 codec_change, backlog, player, lost>>

\* Another display, codec or mode: the service is joined and a new one starts,
\* which counts its frames from the beginning.
Restart ==
  /\ services < MaxServices
  /\ services' = services + 1
  /\ codec' \in Codecs
  /\ frame_id' = 0
  /\ UNCHANGED <<evrt_rx, session, net, receiver, codec_change, backlog,
                 player, lost>>

-----------------------------------------------------------------------------
(* The session: one frame is taken from the channel per iteration.         *)

\* A request for a key frame is accepted.
RequestIdr ==
  /\ ~waiting_for_idr
  /\ waiting_for_idr' = TRUE
  /\ UNCHANGED <<service, evrt_rx, current_codec, net, receiver, codec_change,
                 backlog, player, lost>>

\* The frame is sent, or skipped, in the codec that was announced.
ForwardSame ==
  /\ evrt_rx # <<>> /\ Len(net) < MaxNet
  /\ LET frame == Head(evrt_rx)
         sent == frame.key \/ ~waiting_for_idr
     IN  /\ frame.codec = current_codec
         /\ net' = IF sent THEN Append(net, frame) ELSE net
         /\ waiting_for_idr' = (waiting_for_idr /\ ~frame.key)
  /\ evrt_rx' = Tail(evrt_rx)
  /\ UNCHANGED <<service, current_codec, receiver, codec_change, backlog,
                 player, lost>>

\* As ForwardChanged, but the name is sent behind the frame.
ForwardChangedLate ==
  /\ evrt_rx # <<>> /\ Len(net) + 1 < MaxNet
  /\ LET frame == Head(evrt_rx)
     IN  /\ frame.codec # current_codec
         /\ current_codec' = frame.codec
         /\ net' = net \o (IF frame.key THEN <<frame, Name(frame.codec)>>
                                        ELSE <<Name(frame.codec)>>)
         /\ waiting_for_idr' = ~frame.key
  /\ evrt_rx' = Tail(evrt_rx)
  /\ UNCHANGED <<service, receiver, codec_change, backlog, player, lost>>

\* As ForwardChanged, but a delta does not make the session wait.
ForwardChangedOn ==
  /\ evrt_rx # <<>> /\ Len(net) + 1 < MaxNet
  /\ LET frame == Head(evrt_rx)
     IN  /\ frame.codec # current_codec
         /\ current_codec' = frame.codec
         /\ net' = net \o (IF frame.key THEN <<Name(frame.codec), frame>>
                                        ELSE <<Name(frame.codec)>>)
  /\ waiting_for_idr' = FALSE
  /\ evrt_rx' = Tail(evrt_rx)
  /\ UNCHANGED <<service, receiver, codec_change, backlog, player, lost>>

\* The frame is of another codec: its name is sent, and a key frame behind it;
\* a delta is skipped and the session waits for a key frame.
ForwardChanged ==
  /\ evrt_rx # <<>> /\ Len(net) + 1 < MaxNet
  /\ LET frame == Head(evrt_rx)
     IN  /\ frame.codec # current_codec
         /\ current_codec' = frame.codec
         /\ net' = net \o (IF frame.key THEN <<Name(frame.codec), frame>>
                                        ELSE <<Name(frame.codec)>>)
         /\ waiting_for_idr' = ~frame.key
  /\ evrt_rx' = Tail(evrt_rx)
  /\ UNCHANGED <<service, receiver, codec_change, backlog, player, lost>>

-----------------------------------------------------------------------------
(* The network and the client's receive thread.                            *)

NetLoses ==
  \E i \in 1..Len(net) :
    /\ net' = RemoveAt(net, i)
    /\ lost' = lost \cup {IF IsName(net[i]) THEN "name" ELSE "frame"}
    /\ UNCHANGED <<service, evrt_rx, session, receiver, codec_change, backlog,
                   player>>

\* A name goes straight to the decoder thread, past the frames that are queued.
ReceiveName ==
  /\ net # <<>> /\ IsName(Head(net))
  /\ codec_change' = Append(codec_change, Head(net).name)
  /\ overtaken' = Len(queue)
  /\ net' = Tail(net)
  /\ UNCHANGED <<service, evrt_rx, session, receiver, queue, player, lost>>

\* A frame whose number is not above the last completed one is ignored.
Outdated(frame) == frame.id <= completed

\* A delta that does not continue the numbers of the frame before it.
Gap(frame) == completed # 0 /\ frame.id # completed + 1

Cleared == queue' = <<>> /\ overtaken' = 0

\* A drop the receive thread notices makes the queue wait for a key frame,
\* which empties it, unless it did so less than 250 ms ago.
LossCheck == UNCHANGED backlog \/ Cleared

\* An outdated frame, or a delta while the reassembler waits, is dropped; the
\* latter is noticed.
ReceiveIgnored ==
  /\ net # <<>> /\ ~IsName(Head(net))
  /\ LET frame == Head(net)
     IN  \/ Outdated(frame) /\ UNCHANGED backlog
         \/ ~Outdated(frame) /\ waiting_after_loss /\ ~frame.key /\ LossCheck
  /\ net' = Tail(net)
  /\ UNCHANGED <<service, evrt_rx, session, receiver, codec_change, player,
                 lost>>

\* A delta behind a gap is completed and dropped, and the reassembler waits
\* for a key frame.
ReceiveGap ==
  /\ net # <<>> /\ ~IsName(Head(net))
  /\ LET frame == Head(net)
     IN  /\ ~Outdated(frame) /\ ~frame.key /\ ~waiting_after_loss
         /\ Gap(frame)
         /\ completed' = frame.id
  /\ waiting_after_loss' = TRUE
  /\ LossCheck
  /\ net' = Tail(net)
  /\ UNCHANGED <<service, evrt_rx, session, codec_change, player, lost>>

\* What the queue makes of a frame: it may give up those it holds, and refuse
\* a delta while it waits for a key frame.
Enqueue(frame) ==
  \/ Len(queue) < Units /\ queue' = Append(queue, frame) /\ UNCHANGED overtaken
  \/ queue' = <<frame>> /\ overtaken' = 0
  \/ ~frame.key /\ UNCHANGED backlog

ReceiveFrame ==
  /\ net # <<>> /\ ~IsName(Head(net))
  /\ LET frame == Head(net)
     IN  /\ ~Outdated(frame)
         /\ frame.key \/ ~(waiting_after_loss \/ Gap(frame))
         /\ completed' = frame.id
         /\ waiting_after_loss' = FALSE
         /\ Enqueue(frame)
  /\ net' = Tail(net)
  /\ UNCHANGED <<service, evrt_rx, session, codec_change, player, lost>>

\* Under critical pressure the feedback loop makes the queue wait.
FeedbackCritical ==
  /\ queue # <<>> /\ Cleared
  /\ UNCHANGED <<service, evrt_rx, session, net, receiver, codec_change,
                 player, lost>>

-----------------------------------------------------------------------------
(* The decoder thread.                                                     *)

\* As TakeNames, but one name per turn.
TakeName ==
  /\ at = "names"
  /\ decoder' = IF codec_change = <<>> THEN decoder ELSE Head(codec_change)
  /\ codec_change' = IF codec_change = <<>> THEN <<>> ELSE Tail(codec_change)
  /\ late' = IF codec_change' = <<>> THEN 0 ELSE late
  /\ at' = "dequeue"
  /\ UNCHANGED <<service, evrt_rx, session, net, receiver, backlog, lost>>

\* All names received so far are taken, the last one counts; then the thread
\* waits for a frame.
TakeNames ==
  /\ at = "names"
  /\ decoder' = IF codec_change = <<>> THEN decoder ELSE Last(codec_change)
  /\ codec_change' = <<>> /\ late' = 0
  /\ at' = "dequeue"
  /\ UNCHANGED <<service, evrt_rx, session, net, receiver, backlog, lost>>

\* The frame is decoded with the codec known before the wait for it.
Dequeue ==
  /\ at = "dequeue" /\ queue # <<>>
  /\ queue' = Tail(queue)
  /\ overtaken' = IF overtaken = 0 THEN 0 ELSE overtaken - 1
  /\ late' = IF codec_change = <<>> THEN 0 ELSE late + 1
  /\ at' = "names"
  /\ UNCHANGED <<service, evrt_rx, session, net, receiver, codec_change,
                 decoder, lost>>

Next ==
  \/ Encode \/ CodecChanges \/ Restart
  \/ RequestIdr \/ ForwardSame \/ ForwardChanged
  \/ NetLoses \/ ReceiveName \/ ReceiveIgnored \/ ReceiveGap \/ ReceiveFrame
  \/ FeedbackCritical \/ TakeNames \/ Dequeue

Spec == Init /\ [][Next]_vars

-----------------------------------------------------------------------------
(* Properties.                                                             *)

\* Every variable has its type and the channel its bound.
TypeOK ==
  /\ services \in 1..MaxServices /\ codec \in Codecs
  /\ frame_id \in 0..MaxFrames
  /\ evrt_rx \in Seq(Frame) /\ Len(evrt_rx) <= Room
  /\ current_codec \in Codecs /\ waiting_for_idr \in BOOLEAN
  /\ net \in Seq(Datagram)
  /\ completed \in 0..MaxFrames /\ waiting_after_loss \in BOOLEAN
  /\ codec_change \in Seq(Codecs)
  /\ queue \in Seq(Frame) /\ Len(queue) <= Units
  /\ at \in {"names", "dequeue"} /\ decoder \in Codecs
  /\ late \in Nat /\ overtaken \in 0..Len(queue)
  /\ lost \subseteq {"name", "frame"}

\* The codec the client will know once all names received are taken.
Known == IF codec_change = <<>> THEN decoder ELSE Last(codec_change)

\* The codec it will know when the datagrams before the i-th have come.
KnownBefore(i) ==
  LET names == {j \in 1..(i - 1) : IsName(net[j])}
  IN  IF names = {} THEN Known
      ELSE net[CHOOSE j \in names : \A k \in names : k <= j].name

\* Frames are announced: unless a name was lost, a frame reaches the client
\* behind the name of its codec and before the name of another one
\* (run_evrt_session announces "before" it forwards).
FramesAnnounced ==
  "name" \notin lost =>
    \A i \in 1..Len(net) : ~IsName(net[i]) => net[i].codec = KnownBefore(i)

\* While nothing is lost, the first frame sent behind a name is a key frame, in
\* whatever order codec changes, restarts and requests come (run_evrt_session
\* skips the delta and waits).  This is the order on the wire.  It does not say
\* that a decoder begins with that key frame: the name overtakes what is queued,
\* the queue may give the key frame up for a delta behind it, and after a
\* restart the reassembler may ignore it as outdated (KeyFrameIsNew).
KeyFollowsName ==
  lost = {} => \A i \in 1..Len(net), k \in 1..Len(net) :
    /\ i < k /\ IsName(net[i]) /\ ~IsName(net[k])
    /\ \A j \in (i + 1)..(k - 1) : IsName(net[j])
    => net[k].key

\* Names and frames reach the decoder by two ways (evrt_decode_loop), which puts
\* them out of step in two cases only, unless a name is lost: a name that comes
\* while the decoder waits for a frame is late, by that one frame, and a name
\* that comes while frames are queued is early for these.
DecoderInStep ==
  /\ codec_change # <<>> => late <= 1
  /\ /\ "name" \notin lost
     /\ at = "dequeue" /\ queue # <<>>
     /\ Head(queue).codec # decoder
     => codec_change # <<>> \/ overtaken > 0

\* Key frames "are self-sufficient and are the cure" (finalize_frame), so one
\* that reaches the client in order is not ignored as outdated.
KeyFrameIsNew ==
  net # <<>> /\ ~IsName(Head(net)) /\ Head(net).key => ~Outdated(Head(net))
=============================================================================
