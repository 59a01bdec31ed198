--------------------------- MODULE CodecNegotiation ---------------------------
(***************************************************************************)
(* How the host settles on a codec: the command loop of the video pipeline *)
(* (run and set_subscribed_displays in src/video_pipeline.rs), which hears *)
(* the client's wishes, watches whether EVRT is up, and obeys a scheduler  *)
(* in the encoder that trades EVRTCK for a hardware codec and back.        *)
(*                                                                         *)
(* One turn of the loop polls EVRT, looks at the deadline of the game mode *)
(* and then takes one command or times out; the other threads may act      *)
(* between any two of these steps.  The streaks of frames after which the  *)
(* scheduler speaks up are left out: it may when its loop runs in the      *)
(* right mode.  The requests for key frames that accompany some steps are  *)
(* the subject of module IdrRecovery.  VP9 is the same wish as Auto here,  *)
(* and VP8 is never sent.                                                  *)
(***************************************************************************)
EXTENDS Naturals

CONSTANT
  Wishes   \* what clients say: the codec they prefer and those they decode

Hardware == {"H264", "H265", "AV1"}
Video == [prefer : {"Auto"} \cup Hardware, can : SUBSET Hardware]

ASSUME NegotiationAssumption == Wishes # {} /\ Wishes \subseteq Video

VARIABLES
  pc,            \* the next step of the command loop
  want_evrtck,
  first_codec_set,
  pending,       \* pending_game_video
  committed,     \* game_codec_committed
  client_video,
  service,       \* what the running services were started with
  prev_evrt,     \* the state of EVRT the loop saw last
  mirror,        \* the thread that sends audio over TCP was started
  silicon,       \* evrtck_scheduler_silicon_active
  silicon_requested,
  return_requested,
  encoding,      \* using_evrtck, as read by the encoder's current iteration
  evrt,          \* "punch", "live", then "gone"; evrt_active is set while live
  deadline       \* evrt_punch_deadline has passed

wish == <<first_codec_set, pending, committed, client_video>>
scheduler == <<silicon, silicon_requested, return_requested>>
vars == <<pc, want_evrtck, wish, service, prev_evrt, mirror, scheduler,
          encoding, evrt, deadline>>

\* Auto, and only it, is a wish for EVRTCK.
Evrtck(video) == video.prefer = "Auto"

Init ==
  /\ pc = "poll"
  /\ \E video \in Wishes :
       /\ client_video = video /\ pending = video
       /\ want_evrtck = Evrtck(video)
       /\ service = [video |-> video, evrtck |-> Evrtck(video)]
       /\ encoding = Evrtck(video)
  /\ first_codec_set = FALSE /\ committed = FALSE
  /\ prev_evrt = FALSE /\ mirror = FALSE
  /\ silicon = FALSE /\ silicon_requested = FALSE /\ return_requested = FALSE
  /\ evrt = "punch" /\ deadline = FALSE

\* set_subscribed_displays: a service that was started with something else is
\* joined, and its successor starts with an iteration of its own.
Resubscribe(video, evrtck) ==
  /\ service' = [video |-> video, evrtck |-> evrtck]
  /\ encoding' = IF service' = service THEN encoding ELSE evrtck

-----------------------------------------------------------------------------
(* The command loop.                                                       *)

\* The codec a game is played in over EVRT: the client's choice if it can
\* decode it, or else H265 if it can decode that.
BestPrefer(video) ==
  IF video.prefer \in video.can \/ "H265" \notin video.can
  THEN video.prefer ELSE "H265"

GameMode == ~want_evrtck /\ ~committed

\* As Poll, but the committed codec becomes the wish as well.
PollRewrites ==
  /\ pc = "poll" /\ pc' = "fallback"
  /\ prev_evrt' = (evrt = "live")
  /\ \/ /\ prev_evrt' /\ ~prev_evrt /\ GameMode
        /\ committed' = TRUE
        /\ client_video' = [pending EXCEPT !.prefer = BestPrefer(pending)]
        /\ pending' = client_video'
        /\ Resubscribe(client_video', FALSE)
     \/ /\ ~(prev_evrt' /\ ~prev_evrt /\ GameMode)
        /\ UNCHANGED <<committed, client_video, pending, service, encoding>>
  /\ UNCHANGED <<want_evrtck, first_codec_set, mirror, scheduler, evrt,
                 deadline>>

\* EVRT came up or went down since the last turn; coming up commits the codec
\* of a game.
Poll ==
  /\ pc = "poll" /\ pc' = "fallback"
  /\ prev_evrt' = (evrt = "live")
  /\ \/ /\ prev_evrt' /\ ~prev_evrt /\ GameMode
        /\ committed' = TRUE
        /\ client_video' = [pending EXCEPT !.prefer = BestPrefer(pending)]
        /\ Resubscribe(client_video', FALSE)
     \/ /\ ~(prev_evrt' /\ ~prev_evrt /\ GameMode)
        /\ UNCHANGED <<committed, client_video, service, encoding>>
  /\ UNCHANGED <<want_evrtck, first_codec_set, pending, mirror, scheduler,
                 evrt, deadline>>

\* As Fallback, but only while EVRT is down.
FallbackOffEvrt ==
  /\ pc = "fallback" /\ pc' = "command"
  /\ \/ /\ GameMode /\ deadline /\ ~prev_evrt
        /\ committed' = TRUE /\ mirror' = TRUE
        /\ client_video' = [pending EXCEPT !.prefer = "H264"]
        /\ Resubscribe(client_video', FALSE)
     \/ /\ ~(GameMode /\ deadline /\ ~prev_evrt)
        /\ UNCHANGED <<committed, mirror, client_video, service, encoding>>
  /\ UNCHANGED <<want_evrtck, first_codec_set, pending, prev_evrt, scheduler,
                 evrt, deadline>>

\* Three seconds without a commitment: the game is committed to H264, and the
\* audio goes over TCP from now on.
Fallback ==
  /\ pc = "fallback" /\ pc' = "command"
  /\ \/ /\ GameMode /\ deadline
        /\ committed' = TRUE /\ mirror' = TRUE
        /\ client_video' = [pending EXCEPT !.prefer = "H264"]
        /\ Resubscribe(client_video', FALSE)
     \/ /\ ~(GameMode /\ deadline)
        /\ UNCHANGED <<committed, mirror, client_video, service, encoding>>
  /\ UNCHANGED <<want_evrtck, first_codec_set, pending, prev_evrt, scheduler,
                 evrt, deadline>>

\* The mode after a wish: the first one decides between EVRTCK and a game.
Mode(video) == IF first_codec_set THEN want_evrtck ELSE Evrtck(video)

\* As SetClientCodecGame, but the choice is applied after the commitment too.
SetClientCodecAnyTime(video) ==
  /\ pc = "command" /\ pc' = "poll"
  /\ ~Mode(video)
  /\ first_codec_set' = TRUE /\ want_evrtck' = FALSE
  /\ pending' = video
  /\ client_video' = video
  /\ Resubscribe(video, FALSE)
  /\ UNCHANGED <<committed, prev_evrt, mirror, scheduler, evrt, deadline>>

\* A wish in game mode waits for the commitment and is ignored after it; what
\* the client can decode is noted in any case.
SetClientCodecGame(video) ==
  /\ pc = "command" /\ pc' = "poll"
  /\ ~Mode(video)
  /\ first_codec_set' = TRUE /\ want_evrtck' = FALSE
  /\ pending' = IF committed THEN pending ELSE video
  /\ client_video' = [client_video EXCEPT !.can = video.can]
  /\ UNCHANGED <<committed, service, prev_evrt, mirror, scheduler, encoding,
                 evrt, deadline>>

\* What a wish amounts to in EVRTCK mode: H265 and AV1 only over EVRT.
Effective(video) ==
  IF evrt # "live" /\ video.prefer \in {"H265", "AV1"}
  THEN [video EXCEPT !.prefer = "H264"] ELSE video

\* A wish in EVRTCK mode restarts the services if the preference changes.
SetClientCodecEvrtck(video) ==
  /\ pc = "command" /\ pc' = "poll"
  /\ Mode(video)
  /\ first_codec_set' = TRUE /\ want_evrtck' = TRUE
  /\ client_video' = Effective(video)
  /\ IF client_video'.prefer = client_video.prefer
     THEN UNCHANGED <<service, encoding>>
     ELSE Resubscribe(client_video', TRUE)
  /\ UNCHANGED <<pending, committed, prev_evrt, mirror, scheduler, evrt,
                 deadline>>

\* Other displays are subscribed: with the same set only services that were
\* started with something else are replaced, with another one all are.
SubscribeDisplays ==
  /\ pc = "command" /\ pc' = "poll"
  /\ Resubscribe(client_video, want_evrtck)
  /\ UNCHANGED <<want_evrtck, wish, prev_evrt, mirror, scheduler, evrt,
                 deadline>>

\* A command that changes none of this: frame rate, quality, cursor, refresh.
OtherCommand ==
  /\ pc = "command" /\ pc' = "poll"
  /\ UNCHANGED <<want_evrtck, wish, service, prev_evrt, mirror, scheduler,
                 encoding, evrt, deadline>>

\* evrtck_silicon_prefer: the hardware codecs the scheduler may choose.
SiliconPrefer ==
  IF "H264" \in client_video.can THEN {"H264"}
  ELSE IF evrt # "live" THEN {}
  ELSE IF "H265" \in client_video.can THEN {"H265"}
  ELSE client_video.can \cap {"AV1"}

\* Fifty milliseconds without a command: a request of the scheduler for
\* hardware is taken, and followed from EVRTCK if the client has a codec.
TimeoutSilicon ==
  /\ pc = "command" /\ pc' = "return"
  /\ silicon_requested' = FALSE
  /\ \/ /\ silicon_requested /\ want_evrtck
        /\ \E prefer \in SiliconPrefer :
             client_video' = [client_video EXCEPT !.prefer = prefer]
        /\ want_evrtck' = FALSE /\ silicon' = TRUE
        /\ Resubscribe(client_video', FALSE)
     \/ /\ ~(silicon_requested /\ want_evrtck /\ SiliconPrefer # {})
        /\ UNCHANGED <<client_video, want_evrtck, silicon, service, encoding>>
  /\ UNCHANGED <<first_codec_set, pending, committed, prev_evrt, mirror,
                 return_requested, evrt, deadline>>

\* As TimeoutReturn, but the client's wish stands in its way.
TimeoutReturnUnasked ==
  /\ pc = "return" /\ pc' = "poll"
  /\ return_requested' = FALSE
  /\ \/ /\ return_requested /\ silicon /\ ~first_codec_set
        /\ silicon' = FALSE /\ want_evrtck' = TRUE
        /\ client_video' = [client_video EXCEPT !.prefer = "Auto"]
        /\ Resubscribe(client_video', TRUE)
     \/ /\ ~(return_requested /\ silicon /\ ~first_codec_set)
        /\ UNCHANGED <<client_video, want_evrtck, silicon, service, encoding>>
  /\ UNCHANGED <<first_codec_set, pending, committed, prev_evrt, mirror,
                 silicon_requested, evrt, deadline>>

\* The second half of the time-out: a request to return is taken, and
\* followed if it was the scheduler that left EVRTCK.
TimeoutReturn ==
  /\ pc = "return" /\ pc' = "poll"
  /\ return_requested' = FALSE
  /\ \/ /\ return_requested /\ silicon
        /\ silicon' = FALSE /\ want_evrtck' = TRUE
        /\ client_video' = [client_video EXCEPT !.prefer = "Auto"]
        /\ Resubscribe(client_video', TRUE)
     \/ /\ ~(return_requested /\ silicon)
        /\ UNCHANGED <<client_video, want_evrtck, silicon, service, encoding>>
  /\ UNCHANGED <<first_codec_set, pending, committed, prev_evrt, mirror,
                 silicon_requested, evrt, deadline>>

-----------------------------------------------------------------------------
(* The other threads: the encoder with its scheduler, the EVRT sender, and *)
(* time.                                                                   *)

\* An iteration of encode_loop reads want_evrtck at its start.
EncoderReads ==
  /\ encoding # want_evrtck
  /\ encoding' = want_evrtck
  /\ UNCHANGED <<pc, want_evrtck, wish, service, prev_evrt, mirror, scheduler,
                 evrt, deadline>>

RequestSilicon ==
  /\ encoding
  /\ silicon_requested' = TRUE
  /\ UNCHANGED <<pc, want_evrtck, wish, service, prev_evrt, mirror, silicon,
                 return_requested, encoding, evrt, deadline>>

RequestReturn ==
  /\ ~encoding /\ silicon
  /\ return_requested' = TRUE
  /\ UNCHANGED <<pc, want_evrtck, wish, service, prev_evrt, mirror, silicon,
                 silicon_requested, encoding, evrt, deadline>>

\* The client's punch arrives; evrt_send_loop waits eight seconds for it.
EvrtComesUp ==
  /\ evrt = "punch"
  /\ evrt' = "live"
  /\ UNCHANGED <<pc, want_evrtck, wish, service, prev_evrt, mirror, scheduler,
                 encoding, deadline>>

\* No punch in eight seconds, or the handshake failed.
EvrtGoes ==
  /\ evrt = "live" \/ (evrt = "punch" /\ deadline)
  /\ evrt' = "gone"
  /\ UNCHANGED <<pc, want_evrtck, wish, service, prev_evrt, mirror, scheduler,
                 encoding, deadline>>

DeadlinePasses ==
  /\ ~deadline
  /\ deadline' = TRUE
  /\ UNCHANGED <<pc, want_evrtck, wish, service, prev_evrt, mirror, scheduler,
                 encoding, evrt>>

Command ==
  \/ \E video \in Wishes :
       SetClientCodecGame(video) \/ SetClientCodecEvrtck(video)
  \/ SubscribeDisplays \/ OtherCommand

Next ==
  \/ Poll \/ Fallback \/ Command \/ TimeoutSilicon \/ TimeoutReturn
  \/ EncoderReads \/ RequestSilicon \/ RequestReturn
  \/ EvrtComesUp \/ EvrtGoes \/ DeadlinePasses

Spec == Init /\ [][Next]_vars

\* The loop goes on, and time passes.  A user pauses now and then for fifty
\* milliseconds, or the loop would never time out: every movement of the
\* mouse is a command.
Fairness ==
  /\ WF_vars(Poll \/ Fallback \/ Command \/ TimeoutSilicon \/ TimeoutReturn)
  /\ SF_vars(TimeoutSilicon)
  /\ WF_vars(EncoderReads)
  /\ WF_vars(DeadlinePasses)

FairSpec == Spec /\ Fairness

-----------------------------------------------------------------------------
(* Properties.                                                             *)

Flags ==
  /\ want_evrtck \in BOOLEAN /\ first_codec_set \in BOOLEAN
  /\ committed \in BOOLEAN /\ prev_evrt \in BOOLEAN /\ mirror \in BOOLEAN
  /\ silicon \in BOOLEAN /\ silicon_requested \in BOOLEAN
  /\ return_requested \in BOOLEAN /\ encoding \in BOOLEAN
  /\ deadline \in BOOLEAN

\* Every variable has its type.
TypeOK ==
  /\ Flags
  /\ pc \in {"poll", "fallback", "command", "return"}
  /\ pending \in Wishes /\ client_video \in Video
  /\ service \in [video : Video, evrtck : BOOLEAN]
  /\ evrt \in {"punch", "live", "gone"}

\* Nothing the client says after its first wish makes EVRTCK of a game, and
\* none of its later wishes, no poll of EVRT and no deadline changes a committed
\* preference.  One step leaves a game, the scheduler's own way back from a
\* hardware codec it chose itself; it overrules also a first wish for a game
\* that was heard meanwhile, although that wish should decide permanently, and
\* it is not open where the client chose the game from the start.
GameChoiceLocked ==
  [][first_codec_set /\ ~want_evrtck =>
       \/ /\ ~want_evrtck'
          /\ silicon' => silicon
          /\ committed => service'.video.prefer = service.video.prefer
       \/ silicon /\ return_requested /\ want_evrtck' /\ ~silicon']_vars

\* A game does not wait for its codec for ever, whether EVRT comes up, comes
\* up late or never: it is committed, or the mode changes.
GameCommits == ~want_evrtck ~> committed \/ want_evrtck

\* A request of the scheduler to return to EVRTCK is followed.
SchedulerReturns == silicon /\ return_requested ~> want_evrtck
=============================================================================
