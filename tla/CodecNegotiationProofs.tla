------------------------ MODULE CodecNegotiationProofs ------------------------
(***************************************************************************)
(* Proofs about CodecNegotiation, for any set of wishes.                   *)
(***************************************************************************)
EXTENDS CodecNegotiation, TLAPS

\* The services run with the preference the loop believes in, so that
\* resubscribing displays changes no codec.
Agree == client_video.prefer = service.video.prefer

IInv == TypeOK /\ Agree

\* Changing the preference keeps a value of the type.
LEMMA PreferTyped ==
  ASSUME NEW video \in Video, NEW prefer \in {"Auto"} \cup Hardware
  PROVE  /\ [video EXCEPT !.prefer = prefer] \in Video
         /\ [video EXCEPT !.prefer = prefer].prefer = prefer
  BY DEF Video, Hardware

\* So does changing what the client decodes, and it keeps the preference.
LEMMA CanTyped ==
  ASSUME NEW video \in Video, NEW can \in SUBSET Hardware
  PROVE  /\ [video EXCEPT !.can = can] \in Video
         /\ [video EXCEPT !.can = can].prefer = video.prefer
  BY DEF Video

\* A service that is started anew runs with what it was started with.
LEMMA ResubscribeTyped ==
  ASSUME NEW video \in Video, NEW evrtck \in BOOLEAN, encoding \in BOOLEAN,
         Resubscribe(video, evrtck)
  PROVE  /\ service' \in [video : Video, evrtck : BOOLEAN]
         /\ service'.video = video
         /\ encoding' \in BOOLEAN
  <1>1. service' = [video |-> video, evrtck |-> evrtck]
    BY DEF Resubscribe
  <1>2. encoding' = encoding \/ encoding' = evrtck
    BY DEF Resubscribe
  <1>3. encoding' \in BOOLEAN
    BY <1>2, Zenon
  <1> QED
    BY <1>1, <1>3

\* Wishes are values of the type, and so is the codec chosen for one.
LEMMA WishTyped ==
  ASSUME NEW video \in Wishes
  PROVE  /\ video \in Video
         /\ video.can \in SUBSET Hardware
         /\ BestPrefer(video) \in {"Auto"} \cup Hardware
         /\ Effective(video) \in Video
         /\ Evrtck(video) \in BOOLEAN
  <1>1. video \in Video
    BY NegotiationAssumption
  <1>2. video.can \in SUBSET Hardware /\ video.prefer \in {"Auto"} \cup Hardware
    BY <1>1 DEF Video
  <1>3. BestPrefer(video) \in {"Auto"} \cup Hardware
    BY <1>2 DEF BestPrefer, Hardware
  <1>4. "H264" \in {"Auto"} \cup Hardware
    BY DEF Hardware
  <1>5. Effective(video) \in Video
    BY <1>1, <1>4, PreferTyped DEF Effective
  <1>6. Evrtck(video) \in BOOLEAN
    BY Zenon DEF Evrtck
  <1> QED
    BY <1>1, <1>2, <1>3, <1>5, <1>6

\* The scheduler chooses hardware codecs.
LEMMA SiliconTyped ==
  ASSUME NEW prefer \in SiliconPrefer
  PROVE  prefer \in {"Auto"} \cup Hardware
  BY DEF SiliconPrefer, Hardware

\* Every step keeps the types and the agreement.
LEMMA InvNext == IInv /\ [Next]_vars => IInv'
  <1> SUFFICES ASSUME IInv, [Next]_vars PROVE IInv'
    OBVIOUS
  <1>0. /\ pending \in Video /\ pending.can \in SUBSET Hardware
        /\ BestPrefer(pending) \in {"Auto"} \cup Hardware
        /\ client_video \in Video /\ encoding \in BOOLEAN
    BY WishTyped DEF IInv, TypeOK, Flags
  <1>a. {"H264", "Auto"} \subseteq {"Auto"} \cup Hardware
    BY DEF Hardware
  <1> DEFINE Rest == /\ pc' \in {"poll", "fallback", "command", "return"}
                     /\ pending' \in Wishes /\ client_video' \in Video
                     /\ service' \in [video : Video, evrtck : BOOLEAN]
                     /\ evrt' \in {"punch", "live", "gone"}
                     /\ Agree'
  <1>b. Flags' /\ Rest => IInv'
    BY DEF IInv, TypeOK
  <1> HIDE DEF Rest
  <1> USE DEF IInv, TypeOK, Flags, wish, scheduler
  <1>1. CASE Poll
    <2>1. CASE Resubscribe(client_video', FALSE) /\ client_video' =
                 [pending EXCEPT !.prefer = BestPrefer(pending)]
      <3>1. client_video' \in Video
        BY <2>1, <1>0, PreferTyped
      <3>2. /\ service' \in [video : Video, evrtck : BOOLEAN]
            /\ service'.video = client_video' /\ encoding' \in BOOLEAN
        BY <2>1, <3>1, <1>0, ResubscribeTyped
      <3>3. Flags'
        BY <1>1, <3>2, Zenon DEF Poll
      <3>4. Rest
        BY <1>1, <3>1, <3>2 DEF Poll, Rest, Agree
      <3> QED
        BY <3>3, <3>4, <1>b
    <2>2. CASE UNCHANGED <<committed, client_video, service, encoding>>
      <3>1. Flags'
        BY <1>1, <2>2, Zenon DEF Poll
      <3>2. Rest
        BY <1>1, <2>2 DEF Poll, Rest, Agree
      <3> QED
        BY <3>1, <3>2, <1>b
    <2> QED
      BY <1>1, <2>1, <2>2 DEF Poll
  <1>2. CASE Fallback
    <2>1. CASE Resubscribe(client_video', FALSE) /\ client_video' =
                 [pending EXCEPT !.prefer = "H264"]
      <3>1. client_video' \in Video
        BY <2>1, <1>0, <1>a, PreferTyped
      <3>2. /\ service' \in [video : Video, evrtck : BOOLEAN]
            /\ service'.video = client_video' /\ encoding' \in BOOLEAN
        BY <2>1, <3>1, <1>0, ResubscribeTyped
      <3>3. Flags'
        BY <1>2, <3>2, Zenon DEF Fallback
      <3>4. Rest
        BY <1>2, <3>1, <3>2 DEF Fallback, Rest, Agree
      <3> QED
        BY <3>3, <3>4, <1>b
    <2>2. CASE UNCHANGED <<committed, mirror, client_video, service, encoding>>
      <3>1. Flags'
        BY <1>2, <2>2, Zenon DEF Fallback
      <3>2. Rest
        BY <1>2, <2>2 DEF Fallback, Rest, Agree
      <3> QED
        BY <3>1, <3>2, <1>b
    <2> QED
      BY <1>2, <2>1, <2>2 DEF Fallback
  <1>3. ASSUME NEW video \in Wishes, SetClientCodecGame(video) PROVE IInv'
    <2>1. client_video' \in Video /\ client_video'.prefer = client_video.prefer
      BY <1>3, <1>0, WishTyped, CanTyped DEF SetClientCodecGame
    <2>2. Flags'
      BY <1>3, Zenon DEF SetClientCodecGame
    <2>3. Rest
      BY <1>3, <2>1 DEF SetClientCodecGame, Rest, Agree
    <2> QED
      BY <2>2, <2>3, <1>b
  <1>4. ASSUME NEW video \in Wishes, SetClientCodecEvrtck(video) PROVE IInv'
    <2>1. client_video' \in Video
      BY <1>4, WishTyped DEF SetClientCodecEvrtck
    <2>2. /\ service' \in [video : Video, evrtck : BOOLEAN]
          /\ service'.video.prefer = client_video'.prefer
          /\ encoding' \in BOOLEAN
      <3>1. CASE Resubscribe(client_video', TRUE)
        BY <3>1, <2>1, <1>0, ResubscribeTyped
      <3>2. CASE /\ client_video'.prefer = client_video.prefer
                 /\ UNCHANGED <<service, encoding>>
        BY <3>2 DEF Agree
      <3> QED
        BY <1>4, <3>1, <3>2 DEF SetClientCodecEvrtck
    <2>3. Flags'
      BY <1>4, <2>2, Zenon DEF SetClientCodecEvrtck
    <2>4. Rest
      BY <1>4, <2>1, <2>2 DEF SetClientCodecEvrtck, Rest, Agree
    <2> QED
      BY <2>3, <2>4, <1>b
  <1>5. CASE SubscribeDisplays
    <2>1. /\ service' \in [video : Video, evrtck : BOOLEAN]
          /\ service'.video = client_video /\ encoding' \in BOOLEAN
      BY <1>5, <1>0, ResubscribeTyped DEF SubscribeDisplays
    <2>2. Flags'
      BY <1>5, <2>1, Zenon DEF SubscribeDisplays
    <2>3. Rest
      BY <1>5, <2>1 DEF SubscribeDisplays, Rest, Agree
    <2> QED
      BY <2>2, <2>3, <1>b
  <1>6. CASE OtherCommand
    <2>1. Flags'
      BY <1>6, Zenon DEF OtherCommand
    <2>2. Rest
      BY <1>6 DEF OtherCommand, Rest, Agree
    <2> QED
      BY <2>1, <2>2, <1>b
  <1>7. CASE TimeoutSilicon
    <2>1. CASE UNCHANGED <<client_video, want_evrtck, silicon, service, encoding>>
      <3>1. Flags'
        BY <1>7, <2>1, Zenon DEF TimeoutSilicon
      <3>2. Rest
        BY <1>7, <2>1 DEF TimeoutSilicon, Rest, Agree
      <3> QED
        BY <3>1, <3>2, <1>b
    <2>2. CASE /\ \E prefer \in SiliconPrefer :
                    client_video' = [client_video EXCEPT !.prefer = prefer]
               /\ want_evrtck' = FALSE /\ silicon' = TRUE
               /\ Resubscribe(client_video', FALSE)
      <3>1. client_video' \in Video
        BY <2>2, <1>0, SiliconTyped, PreferTyped
      <3>2. /\ service' \in [video : Video, evrtck : BOOLEAN]
            /\ service'.video = client_video' /\ encoding' \in BOOLEAN
        BY <2>2, <3>1, <1>0, ResubscribeTyped
      <3>3. Flags'
        BY <1>7, <2>2, <3>2, Zenon DEF TimeoutSilicon
      <3>4. Rest
        BY <1>7, <3>1, <3>2 DEF TimeoutSilicon, Rest, Agree
      <3> QED
        BY <3>3, <3>4, <1>b
    <2> QED
      BY <1>7, <2>1, <2>2 DEF TimeoutSilicon
  <1>8. CASE TimeoutReturn
    <2>1. CASE UNCHANGED <<client_video, want_evrtck, silicon, service, encoding>>
      <3>1. Flags'
        BY <1>8, <2>1, Zenon DEF TimeoutReturn
      <3>2. Rest
        BY <1>8, <2>1 DEF TimeoutReturn, Rest, Agree
      <3> QED
        BY <3>1, <3>2, <1>b
    <2>2. CASE /\ silicon' = FALSE /\ want_evrtck' = TRUE
               /\ client_video' = [client_video EXCEPT !.prefer = "Auto"]
               /\ Resubscribe(client_video', TRUE)
      <3>1. client_video' \in Video
        BY <2>2, <1>0, <1>a, PreferTyped
      <3>2. /\ service' \in [video : Video, evrtck : BOOLEAN]
            /\ service'.video = client_video' /\ encoding' \in BOOLEAN
        BY <2>2, <3>1, <1>0, ResubscribeTyped
      <3>3. Flags'
        BY <1>8, <2>2, <3>2, Zenon DEF TimeoutReturn
      <3>4. Rest
        BY <1>8, <3>1, <3>2 DEF TimeoutReturn, Rest, Agree
      <3> QED
        BY <3>3, <3>4, <1>b
    <2> QED
      BY <1>8, <2>1, <2>2 DEF TimeoutReturn
  <1>9. CASE EncoderReads \/ RequestSilicon \/ RequestReturn
    <2>1. Flags'
      BY <1>9, ZenonT(60) DEF EncoderReads, RequestSilicon, RequestReturn
    <2>2. Rest
      BY <1>9 DEF EncoderReads, RequestSilicon, RequestReturn, Rest, Agree
    <2> QED
      BY <2>1, <2>2, <1>b
  <1>10. CASE EvrtComesUp \/ EvrtGoes \/ DeadlinePasses
    <2>1. Flags'
      BY <1>10, ZenonT(60) DEF EvrtComesUp, EvrtGoes, DeadlinePasses
    <2>2. Rest
      BY <1>10 DEF EvrtComesUp, EvrtGoes, DeadlinePasses, Rest, Agree
    <2> QED
      BY <2>1, <2>2, <1>b
  <1>11. CASE UNCHANGED vars
    BY <1>11 DEF vars, Agree
  <1> QED
    BY <1>1, <1>2, <1>3, <1>4, <1>5, <1>6, <1>7, <1>8, <1>9, <1>10, <1>11
       DEF Next, Command

LEMMA InvInit == Init => IInv
  <1> SUFFICES ASSUME Init PROVE IInv
    OBVIOUS
  <1>1. PICK video \in Wishes :
          /\ client_video = video /\ pending = video
          /\ want_evrtck = Evrtck(video)
          /\ service = [video |-> video, evrtck |-> Evrtck(video)]
          /\ encoding = Evrtck(video)
    BY DEF Init
  <1>2. video \in Video /\ Evrtck(video) \in BOOLEAN
    BY WishTyped
  <1>3. Flags
    BY <1>1, <1>2, Zenon DEF Init, Flags
  <1>4. service \in [video : Video, evrtck : BOOLEAN] /\ Agree
    BY <1>1, <1>2 DEF Agree
  <1> QED
    BY <1>1, <1>2, <1>3, <1>4 DEF Init, IInv, TypeOK

LEMMA InvHolds == Spec => []IInv
  BY InvInit, InvNext, PTL DEF Spec

\* Every variable of the command loop keeps its type, for any wishes.
THEOREM NegotiationTypeCorrect == Spec => []TypeOK
  <1>1. IInv => TypeOK
    BY DEF IInv
  <1> QED
    BY <1>1, InvHolds, PTL

\* A game mode is left only by the scheduler's way back from a codec it chose,
\* and a committed codec is not changed before that: a resubscription starts
\* the services with the preference they had (Agree), and of the scheduler's two
\* steps the one finds no EVRTCK to leave while the other returns only from
\* where it led.
THEOREM ChoiceIsLocked == Spec => GameChoiceLocked
  <1> DEFINE Stays == /\ ~want_evrtck'
                      /\ silicon' => silicon
                      /\ committed => service'.video.prefer = service.video.prefer
             Returns == silicon /\ return_requested /\ want_evrtck' /\ ~silicon'
             Locked == first_codec_set /\ ~want_evrtck => Stays \/ Returns
  <1>1. IInv /\ [Next]_vars => [Locked]_vars
    <2> SUFFICES ASSUME IInv, Next, first_codec_set, ~want_evrtck
                 PROVE  Stays \/ Returns
      BY DEF vars
    <2> USE DEF wish, scheduler
    <2>0. want_evrtck = FALSE
      BY Zenon DEF IInv, TypeOK, Flags
    <2>a. ~want_evrtck' /\ silicon' = silicon /\ service' = service => Stays
      OBVIOUS
    <2>1. CASE Poll
      BY <2>1 DEF Poll, GameMode
    <2>2. CASE Fallback
      BY <2>2 DEF Fallback, GameMode
    <2>3. ASSUME NEW video \in Wishes, SetClientCodecGame(video)
          PROVE  ~want_evrtck' /\ silicon' = silicon /\ service' = service
      BY <2>3 DEF SetClientCodecGame
    <2>4. ASSUME NEW video \in Wishes, SetClientCodecEvrtck(video) PROVE FALSE
      BY <2>4 DEF SetClientCodecEvrtck, Mode
    <2>5. CASE SubscribeDisplays
      <3>1. service' = [video |-> client_video, evrtck |-> want_evrtck]
        BY <2>5 DEF SubscribeDisplays, Resubscribe
      <3>2. ~want_evrtck' /\ silicon' = silicon
        BY <2>5 DEF SubscribeDisplays
      <3> QED
        BY <3>1, <3>2 DEF IInv, Agree
    <2>6. CASE OtherCommand
      BY <2>6 DEF OtherCommand
    <2>7. ASSUME TimeoutSilicon
          PROVE  ~want_evrtck' /\ silicon' = silicon /\ service' = service
      BY <2>0, <2>7, Zenon DEF TimeoutSilicon
    <2>8. ASSUME TimeoutReturn PROVE Stays \/ Returns
      <3>1. CASE /\ return_requested /\ silicon
                 /\ silicon' = FALSE /\ want_evrtck' = TRUE
        BY <3>1, Zenon
      <3>2. CASE UNCHANGED <<client_video, want_evrtck, silicon, service, encoding>>
        BY <2>0, <3>2, Zenon
      <3> QED
        BY <2>8, <3>1, <3>2 DEF TimeoutReturn
    <2>9. ASSUME EncoderReads \/ RequestSilicon \/ RequestReturn
          PROVE  ~want_evrtck' /\ silicon' = silicon /\ service' = service
      BY <2>0, <2>9, Zenon DEF EncoderReads, RequestSilicon, RequestReturn
    <2>10. ASSUME EvrtComesUp \/ EvrtGoes \/ DeadlinePasses
           PROVE  ~want_evrtck' /\ silicon' = silicon /\ service' = service
      BY <2>0, <2>10, Zenon DEF EvrtComesUp, EvrtGoes, DeadlinePasses
    <2> HIDE DEF Stays, Returns
    <2> QED
      BY <2>a, <2>1, <2>2, <2>3, <2>4, <2>5, <2>6, <2>7, <2>8, <2>9, <2>10
         DEF Next, Command
  <1> QED
    BY <1>1, InvHolds, PTL DEF Spec, GameChoiceLocked
=============================================================================
