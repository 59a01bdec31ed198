-------------------------- MODULE IdrRecoveryProofs --------------------------
(***************************************************************************)
(* Proofs about IdrRecovery, for every value of the throttles, the period  *)
(* and the capacity of the channel.                                        *)
(***************************************************************************)
EXTENDS IdrRecovery, TLAPS

\* The reassembler's continuity check sees a frame through the flag "whole";
\* unless it is waiting, a completed frame is one that was handed on.
BaseInv ==
  /\ {whole, waiting_after_loss, based, stale} \subseteq BOOLEAN
  /\ whole /\ ~waiting_after_loss => based
  /\ ~stale

\* No delta is handed on whose base was not (DeltaDone behind Gap), wherever
\* the base was given up.
THEOREM NoStaleDeltaHolds == Spec => []NoStaleDelta
<1>1. Init => BaseInv
  BY DEF Init, BaseInv
<1>2. BaseInv /\ [Next]_vars => BaseInv'
  <2> SUFFICES ASSUME BaseInv, [Next]_vars PROVE BaseInv'
    OBVIOUS
  <2> USE DEF BaseInv
  <2>1. CASE UNCHANGED client
    BY <2>1 DEF client
  <2>2. ASSUME NEW f \in Frame, FrameLost(f) PROVE BaseInv'
    BY <2>2 DEF FrameLost
  <2>3. ASSUME NEW f \in Frame, KeyPartial(f) PROVE BaseInv'
    BY <2>3 DEF KeyPartial
  <2>4. ASSUME NEW f \in Frame, KeyDone(f) PROVE BaseInv'
    BY <2>4 DEF KeyDone
  <2>5. ASSUME NEW f \in Frame, DeltaIgnored(f) PROVE BaseInv'
    BY <2>5 DEF DeltaIgnored
  <2>6. ASSUME NEW f \in Frame, DeltaMovesWindow(f) PROVE BaseInv'
    BY <2>6 DEF DeltaMovesWindow
  <2>7. ASSUME NEW f \in Frame, DeltaPartial(f) PROVE BaseInv'
    BY <2>7 DEF DeltaPartial
  <2>8. ASSUME NEW f \in Frame, DeltaBehindGap(f) PROVE BaseInv'
    BY <2>8 DEF DeltaBehindGap
  <2>9. ASSUME NEW f \in Frame, DeltaDone(f) PROVE BaseInv'
    <3>1. ~(started /\ ~(f.follows /\ based))
      BY <2>9 DEF DeltaDone, Gap
    <3> QED
      BY <2>9, <3>1 DEF DeltaDone
  <2>10. CASE Receive
    BY <2>10, <2>2, <2>3, <2>4, <2>5, <2>6, <2>7, <2>8, <2>9
       DEF Receive, KeyOnePacket, KeyManyPackets
  <2>11. CASE FeedbackCritical \/ RequestArrives \/ RequestLost \/ Tick
    BY <2>11 DEF FeedbackCritical, RequestArrives, RequestLost, Tick
  <2>12. CASE EncodeNothing \/ EncodeSent \/ EncodeRefused \/ ForwardRequest
             \/ RefreshDisplay
    BY <2>12, <2>1 DEF EncodeNothing, EncodeSent, EncodeRefused, Encoded,
       ForwardRequest, RefreshDisplay
  <2>13. CASE SessionAccepts \/ SessionIgnores \/ SessionSkips \/ SessionSends
    BY <2>13, <2>1 DEF SessionAccepts, SessionIgnores, SessionSkips, SessionSends
  <2>14. CASE UNCHANGED vars
    BY <2>14, <2>1 DEF vars
  <2> QED
    BY <2>10, <2>11, <2>12, <2>13, <2>14 DEF Next
<1>3. BaseInv => NoStaleDelta
  BY DEF BaseInv, NoStaleDelta
<1> QED
  BY <1>1, <1>2, <1>3, PTL DEF Spec

-----------------------------------------------------------------------------
(* How long the session may wait.                                          *)

KeyComing == \E i \in DOMAIN chan : chan[i].key

\* The bound of WaitBounded, and what of it may be used up when the n-th key
\* frame is refused.
Bound(n, r) == Period + 1 + n * r
Reach(n, r) == IF n = 0 THEN 0 ELSE Bound(n - 1, r)

\* While the session waits, the ticks it has starved since the last refused key
\* frame, or since the wait began, are ticks the encoder's clock has run, unless
\* a key frame is already in the channel; a frame that is encoded when the clock
\* is past the period resets it.  After a refused frame EVRTCK's base is marked
\* as spoilt until a key frame has gone out, and the throttle of the requested
\* key frames applies.
WaitTypes ==
  /\ since_idr \in Nat /\ ran \in Nat /\ starved \in Nat /\ refused \in Nat
  /\ chan \in Seq(Frame)
  /\ waiting_for_idr \in BOOLEAN /\ put \in BOOLEAN

ClockInv ==
  /\ since_idr <= Period + 1
  /\ ran > 0 => since_idr <= Period

Followed == waiting_for_idr /\ refused < MaxRefused

WaitInv ==
  /\ WaitTypes
  /\ ClockInv
  /\ ~waiting_for_idr => starved = 0 /\ refused = 0
  /\ Followed => KeyComing \/ starved <= Reach(refused, Retry) + since_idr
  /\ Followed => starved <= Bound(refused, Retry)
  /\ Followed /\ evrtck /\ refused > 0 =>
       KeyComing \/ (dirty /\ (ran > 0 => since_idr < Retry))

LEMMA NatConstants ==
  /\ Period \in Nat /\ MaxRuns \in Nat /\ Capacity \in Nat
  /\ MinRequested \in Nat /\ MinForced \in Nat
  /\ KfLimit \in Nat /\ LossLimit \in Nat /\ MaxRefused \in Nat
  BY RecoveryAssumption

LEMMA RetryFacts ==
  /\ Retry \in Nat /\ Retry > 0
  /\ ~evrtck => Retry = Period + 1
  /\ evrtck => Least(MinRequested, Period) <= Retry
  BY NatConstants DEF Retry, Larger, Least

\* With every refused key frame the bound grows by one retry.
LEMMA BoundGrows ==
  ASSUME NEW n \in Nat, NEW r \in Nat
  PROVE  /\ Bound(n, r) \in Nat /\ Reach(n, r) \in Nat
         /\ Bound(0, r) = Period + 1 /\ Reach(0, r) = 0
         /\ Reach(n + 1, r) = Bound(n, r)
         /\ Bound(n + 1, r) = Bound(n, r) + r
         /\ n > 0 => Bound(n, r) = Reach(n, r) + r
  <1>1. \A k \in Nat : k * r \in Nat /\ (k + 1) * r = k * r + r /\ 0 * r = 0
    OBVIOUS
  <1>2. \A k \in Nat : Bound(k, r) \in Nat /\ Bound(k + 1, r) = Bound(k, r) + r
    <2> SUFFICES ASSUME NEW k \in Nat
                 PROVE  Bound(k, r) \in Nat /\ Bound(k + 1, r) = Bound(k, r) + r
      OBVIOUS
    <2> DEFINE a == k * r
               b == (k + 1) * r
    <2>1. a \in Nat /\ b = a + r
      BY <1>1
    <2>2. Bound(k, r) = Period + 1 + a /\ Bound(k + 1, r) = Period + 1 + b
      BY DEF Bound
    <2> HIDE DEF a, b
    <2> QED
      BY <2>1, <2>2, NatConstants
  <1>3. Bound(0, r) = Period + 1 /\ Reach(0, r) = 0
    BY <1>1, NatConstants DEF Bound, Reach
  <1>4. Reach(n + 1, r) = Bound(n, r)
    BY DEF Reach
  <1>5. n > 0 => Reach(n, r) \in Nat /\ Bound(n, r) = Reach(n, r) + r
    <2> SUFFICES ASSUME n > 0
                 PROVE  Reach(n, r) \in Nat /\ Bound(n, r) = Reach(n, r) + r
      OBVIOUS
    <2>1. n - 1 \in Nat /\ (n - 1) + 1 = n /\ Reach(n, r) = Bound(n - 1, r)
      BY DEF Reach
    <2>2. Bound(n - 1, r) \in Nat /\ Bound((n - 1) + 1, r) = Bound(n - 1, r) + r
      BY <1>2, <2>1
    <2> QED
      BY <2>1, <2>2
  <1> QED
    BY <1>2, <1>3, <1>4, <1>5

\* Every step that leaves the clock, the channel and the session alone.
waits == <<since_idr, ran, refused, starved, chan, waiting_for_idr, put, evrtck, dirty>>

LEMMA KeepsWait == WaitInv /\ UNCHANGED waits => WaitInv'
  BY DEF WaitInv, WaitTypes, ClockInv, Followed, Retry, waits, KeyComing

LEMMA EncodedClock ==
  ASSUME WaitTypes, ClockInv, Encoded
  PROVE  /\ since_idr' \in Nat /\ ran' \in Nat
         /\ since_idr' <= Period /\ ClockInv'
         /\ PeriodicKey => since_idr' = 0
         /\ ~PeriodicKey => since_idr' = since_idr
         /\ ~PeriodicKey /\ dirty /\ evrtck => since_idr < Retry
         /\ waiting_for_idr' = waiting_for_idr /\ evrtck' = evrtck
         /\ Retry' = Retry
  <1>0. waiting_for_idr' = waiting_for_idr /\ evrtck' = evrtck /\ Retry' = Retry
    BY DEF Encoded, session, Retry
  <1>1. CASE PeriodicKey
    BY <1>0, <1>1, NatConstants DEF WaitTypes, ClockInv, Encoded
  <1>2. CASE ~PeriodicKey
    <2>1. since_idr <= Period
      BY <1>2, NatConstants DEF WaitTypes, PeriodicKey
    <2>2. dirty => ~(since_idr >= Least(MinRequested, Period))
      BY <1>2 DEF PeriodicKey
    <2>3. Least(MinRequested, Period) \in Nat
      BY NatConstants DEF Least
    <2>4. dirty /\ evrtck => since_idr < Retry
      BY <2>2, <2>3, RetryFacts DEF WaitTypes
    <2> QED
      BY <1>0, <1>2, <2>1, <2>4, NatConstants DEF WaitTypes, ClockInv, Encoded
  <1> QED
    BY <1>1, <1>2

\* Counted from the beginning of the wait and in ticks in which frames are
\* encoded, a session that waits for a key frame gets one within the period of
\* the unrequested ones and one retry for every key frame that the full channel
\* refuses, for all values of the throttles and any number of refusals.
THEOREM WaitIsBounded == Spec => []WaitBounded
<1>1. Init => WaitInv
  <2> SUFFICES ASSUME Init PROVE WaitInv
    OBVIOUS
  <2>1. waiting_for_idr \in BOOLEAN /\ put \in BOOLEAN /\ waiting_for_idr
    BY DEF Init
  <2>2. since_idr = 0 /\ ran = 0 /\ refused = 0 /\ starved = 0 /\ chan = <<>>
    BY DEF Init
  <2>3. Reach(0, Retry) = 0 /\ Bound(0, Retry) \in Nat
    BY BoundGrows, RetryFacts
  <2> QED
    BY <2>1, <2>2, <2>3, NatConstants DEF WaitInv, WaitTypes, ClockInv
<1>2. WaitInv /\ [Next]_vars => WaitInv'
  <2> SUFFICES ASSUME WaitInv, [Next]_vars PROVE WaitInv'
    OBVIOUS
  <2>0. WaitTypes /\ ClockInv
    BY DEF WaitInv
  <2>1. CASE EncodeSent
    <3> DEFINE f == [key |-> PeriodicKey, follows |-> put]
    <3>1. chan' = Append(chan, f) /\ starved' = starved /\ refused' = refused
          /\ put' = TRUE /\ Encoded
      BY <2>1 DEF EncodeSent, wait
    <3>2. chan' \in Seq(Frame) /\ (KeyComing => KeyComing')
          /\ (PeriodicKey => KeyComing')
      <4>1. PeriodicKey \in BOOLEAN
        BY Zenon DEF PeriodicKey
      <4>2. f \in Frame
        BY <2>0, <4>1 DEF Frame, WaitTypes
      <4> QED
        BY <2>0, <3>1, <4>2 DEF WaitTypes, KeyComing
    <3>3. /\ since_idr' \in Nat /\ ran' \in Nat /\ ClockInv'
          /\ PeriodicKey \/ since_idr' = since_idr
          /\ PeriodicKey \/ ~dirty \/ ~evrtck \/ since_idr < Retry
          /\ waiting_for_idr' = waiting_for_idr /\ evrtck' = evrtck
          /\ Retry' = Retry
      BY <2>0, <3>1, EncodedClock
    <3>4. WaitTypes' /\ (Followed' <=> Followed)
      BY <2>0, <3>1, <3>2, <3>3 DEF WaitTypes, Followed
    <3>5. Followed => KeyComing' \/ starved <= Reach(refused, Retry) + since_idr'
      BY <3>2, <3>3 DEF WaitInv
    <3>6. dirty /\ ~PeriodicKey => dirty'
      BY <2>1 DEF EncodeSent
    <3>7. Followed /\ evrtck /\ refused > 0 =>
            KeyComing' \/ (dirty' /\ (ran' > 0 => since_idr' < Retry))
      BY <3>2, <3>3, <3>6 DEF WaitInv
    <3> QED
      BY <3>1, <3>3, <3>4, <3>5, <3>7 DEF WaitInv
  <2>2. CASE EncodeRefused
    <3>1. chan' = chan /\ Encoded /\ put' = FALSE /\ (evrtck => dirty')
      BY <2>2 DEF EncodeRefused
    <3>2. KeyComing' <=> KeyComing
      BY <3>1 DEF KeyComing
    <3>3. /\ since_idr' \in Nat /\ ran' \in Nat /\ ClockInv'
          /\ PeriodicKey => since_idr' = 0
          /\ ~PeriodicKey => since_idr' = since_idr
          /\ ~PeriodicKey /\ dirty /\ evrtck => since_idr < Retry
          /\ waiting_for_idr' = waiting_for_idr /\ evrtck' = evrtck
          /\ Retry' = Retry
      BY <2>0, <3>1, EncodedClock
    <3>4. put' \in BOOLEAN
      BY <3>1
    <3>5. CASE waiting_for_idr /\ PeriodicKey
      <4>1. /\ refused' = Least(refused + 1, MaxRefused)
            /\ starved' = IF refused' < MaxRefused THEN starved ELSE 0
        BY <2>2, <3>5 DEF EncodeRefused, RefusedKey
      <4>2. WaitTypes'
        BY <2>0, <3>1, <3>3, <3>4, <4>1, NatConstants DEF WaitTypes, Least
      <4>3. CASE refused' < MaxRefused
        <5>1. refused' = refused + 1 /\ refused < MaxRefused /\ starved' = starved
          BY <2>0, <4>1, <4>3, NatConstants DEF WaitTypes, Least
        <5>2. starved <= Bound(refused, Retry)
          BY <3>5, <5>1 DEF WaitInv, Followed
        <5>3. /\ Reach(refused', Retry) = Bound(refused, Retry)
              /\ Bound(refused', Retry) = Bound(refused, Retry) + Retry
              /\ Bound(refused, Retry) \in Nat
          BY <2>0, <5>1, BoundGrows, RetryFacts DEF WaitTypes
        <5>4. starved' <= Reach(refused', Retry) + since_idr'
          BY <2>0, <3>3, <3>5, <5>1, <5>2, <5>3 DEF WaitTypes
        <5>5. starved' <= Bound(refused', Retry)
          BY <2>0, <5>1, <5>2, <5>3, RetryFacts DEF WaitTypes
        <5>6. since_idr' < Retry
          BY <3>3, <3>5, RetryFacts
        <5> QED
          BY <3>1, <3>3, <3>5, <4>2, <5>4, <5>5, <5>6 DEF WaitInv
      <4>4. CASE ~(refused' < MaxRefused)
        BY <3>3, <3>5, <4>2, <4>4 DEF WaitInv, Followed
      <4> QED
        BY <4>3, <4>4
    <3>6. CASE ~(waiting_for_idr /\ PeriodicKey)
      <4>1. refused' = refused /\ starved' = starved
        BY <2>2, <3>6 DEF EncodeRefused, wait
      <4>2. WaitTypes' /\ (Followed' <=> Followed)
        BY <2>0, <3>1, <3>3, <3>4, <4>1 DEF WaitTypes, Followed
      <4>3. Followed => ~PeriodicKey
        BY <3>6 DEF Followed
      <4>4. Followed => KeyComing \/ starved <= Reach(refused, Retry) + since_idr'
        BY <3>3, <4>3 DEF WaitInv
      <4>5. Followed /\ evrtck /\ refused > 0 =>
              KeyComing \/ (dirty' /\ (ran' > 0 => since_idr' < Retry))
        BY <3>1, <3>3, <4>3 DEF WaitInv
      <4> QED
        BY <3>2, <3>3, <4>1, <4>2, <4>4, <4>5 DEF WaitInv
    <3> QED
      BY <3>5, <3>6
  <2>3. CASE SessionAccepts
    <3>1. /\ starved' = starved /\ refused' = refused /\ chan' = chan
          /\ since_idr' = since_idr /\ ran' = ran /\ put' = put
          /\ evrtck' = evrtck /\ ~waiting_for_idr /\ waiting_for_idr' = TRUE
      BY <2>3 DEF SessionAccepts, encoder, wait
    <3>2. starved = 0 /\ refused = 0
      BY <3>1 DEF WaitInv
    <3>3. waiting_for_idr' \in BOOLEAN /\ Retry' = Retry
      BY <3>1 DEF Retry
    <3>4. Reach(0, Retry) = 0 /\ Bound(0, Retry) \in Nat
      BY BoundGrows, RetryFacts
    <3> QED
      BY <2>0, <3>1, <3>2, <3>3, <3>4 DEF WaitInv, WaitTypes, ClockInv
  <2>4. CASE SessionSkips
    <3>1. KeyComing => KeyComing'
      <4> SUFFICES ASSUME NEW i \in DOMAIN chan, chan[i].key
                   PROVE  KeyComing'
        BY DEF KeyComing
      <4>1. chan # <<>> /\ chan' = Tail(chan) /\ ~chan[1].key /\ chan \in Seq(Frame)
        BY <2>0, <2>4 DEF SessionSkips, WaitTypes
      <4>2. i # 1 /\ i - 1 \in DOMAIN chan' /\ chan'[i - 1] = chan[i]
        BY <4>1
      <4> QED
        BY <4>2 DEF KeyComing
    <3>2. chan' \in Seq(Frame)
      BY <2>0, <2>4 DEF SessionSkips, WaitTypes
    <3>3. UNCHANGED <<since_idr, ran, refused, starved, waiting_for_idr, put,
                      evrtck, dirty>>
      BY <2>4 DEF SessionSkips, encoder, wait
    <3> QED
      BY <2>0, <3>1, <3>2, <3>3 DEF WaitInv, WaitTypes, ClockInv, Followed, Retry
  <2>5. CASE SessionSends
    <3>1. chan' \in Seq(Frame) /\ waiting_for_idr' = FALSE
      BY <2>0, <2>5 DEF SessionSends, WaitTypes
    <3>2. /\ UNCHANGED <<since_idr, ran, put>>
          /\ refused' = 0 /\ starved' = 0
      BY <2>5 DEF SessionSends, encoder
    <3> QED
      BY <2>0, <3>1, <3>2 DEF WaitInv, WaitTypes, ClockInv, Followed
  <2>6. CASE Tick
    <3>1. /\ ~KeyComing /\ ran' = 0
          /\ UNCHANGED <<chan, waiting_for_idr, put, refused, evrtck, dirty>>
      BY <2>6 DEF Tick, KeyComing
    <3>2. since_idr' \in Nat /\ since_idr' <= Period + 1 /\ since_idr <= since_idr'
      BY <2>0, <2>6, NatConstants DEF Tick, Least, WaitTypes, ClockInv
    <3>3. Retry' = Retry /\ (Followed' <=> Followed)
      BY <3>1 DEF Retry, Followed
    <3>4. starved' \in Nat
      BY <2>0, <2>6 DEF Tick, WaitTypes
    <3>5. WaitTypes' /\ ClockInv'
      BY <2>0, <3>1, <3>2, <3>4 DEF WaitTypes, ClockInv
    <3>6. Bound(refused, Retry) \in Nat /\ Reach(refused, Retry) \in Nat
      BY <2>0, BoundGrows, RetryFacts DEF WaitTypes
    <3>7. CASE Followed /\ ran > 0
      <4>1. starved <= Reach(refused, Retry) + since_idr /\ since_idr <= Period
        BY <2>0, <3>1, <3>7 DEF WaitInv, ClockInv
      <4>2. starved' = starved + 1
        BY <2>6, <3>7 DEF Tick, Followed
      <4>3. since_idr' = since_idr + 1
        BY <2>0, <2>6, <4>1, NatConstants DEF Tick, Least, WaitTypes
      <4>4. Bound(refused, Retry) >= Reach(refused, Retry) + since_idr + 1
        <5>1. CASE refused = 0
          <6>1. Bound(0, Retry) = Period + 1 /\ Reach(0, Retry) = 0
            BY BoundGrows, RetryFacts
          <6> QED
            BY <2>0, <4>1, <5>1, <6>1, NatConstants DEF WaitTypes
        <5>2. CASE refused > 0
          <6>1. Bound(refused, Retry) = Reach(refused, Retry) + Retry
            BY <2>0, <5>2, BoundGrows, RetryFacts DEF WaitTypes
          <6>2. since_idr + 1 <= Retry
            <7>1. CASE evrtck
              BY <2>0, <3>1, <3>7, <5>2, <7>1, RetryFacts DEF WaitInv, WaitTypes
            <7>2. CASE ~evrtck
              BY <2>0, <4>1, <7>2, RetryFacts, NatConstants DEF WaitTypes
            <7> QED
              BY <7>1, <7>2
          <6> QED
            BY <2>0, <3>6, <6>1, <6>2, RetryFacts DEF WaitTypes
        <5> QED
          BY <2>0, <5>1, <5>2 DEF WaitTypes
      <4>5. /\ starved' <= Reach(refused, Retry) + since_idr'
            /\ starved' <= Bound(refused, Retry)
        BY <2>0, <3>6, <4>1, <4>2, <4>3, <4>4 DEF WaitTypes
      <4> QED
        BY <3>1, <3>3, <3>5, <3>7, <4>5 DEF WaitInv, Followed
    <3>8. CASE ~(Followed /\ ran > 0)
      <4>1. starved' = starved
        BY <2>6, <3>8 DEF Tick, Followed
      <4>2. Followed => starved' <= Reach(refused, Retry) + since_idr'
        BY <2>0, <3>1, <3>2, <3>6, <4>1 DEF WaitInv, WaitTypes
      <4> QED
        BY <3>1, <3>3, <3>5, <4>1, <4>2 DEF WaitInv
    <3> QED
      BY <3>7, <3>8
  <2>7. CASE Receive
    <3>1. UNCHANGED waits
      BY <2>7 DEF Receive, FrameLost, KeyPartial, KeyOnePacket, KeyManyPackets,
         KeyDone, DeltaIgnored, DeltaMovesWindow, DeltaPartial, DeltaBehindGap,
         DeltaDone, Off, encoder, session, wait, waits
    <3> QED
      BY <3>1, KeepsWait
  <2>8. CASE EncodeNothing \/ ForwardRequest \/ RefreshDisplay \/ SessionIgnores
    <3>1. UNCHANGED waits
      BY <2>8 DEF EncodeNothing, ForwardRequest, RefreshDisplay, SessionIgnores,
         encoder, session, wait, waits
    <3> QED
      BY <3>1, KeepsWait
  <2>9. CASE FeedbackCritical \/ RequestArrives \/ RequestLost \/ UNCHANGED vars
    <3>1. UNCHANGED waits
      BY <2>9 DEF FeedbackCritical, RequestArrives, RequestLost, encoder, session,
         wait, vars, waits
    <3> QED
      BY <3>1, KeepsWait
  <2> QED
    BY <2>1, <2>2, <2>3, <2>4, <2>5, <2>6, <2>7, <2>8, <2>9 DEF Next
<1>3. WaitInv => WaitBounded
  BY DEF WaitInv, WaitBounded, Followed, Bound
<1> QED
  BY <1>1, <1>2, <1>3, PTL DEF Spec

-----------------------------------------------------------------------------
(* Types.                                                                  *)

NatTypes == {since_idr, since_kf, since_request, ran, refused, starved} \subseteq Nat

HostTypes ==
  /\ {evrtck, force, dirty, first, requested, put} \subseteq BOOLEAN
  /\ {request, waiting_for_idr, kf, passed} \subseteq BOOLEAN

ClientTypes ==
  /\ {started, whole, waiting_after_loss, partial, waiting_for_keyframe,
      asked} \subseteq BOOLEAN
  /\ {based, stale} \subseteq BOOLEAN

FrameTypes ==
  /\ chan \in Seq(Frame) /\ Len(chan) <= Capacity
  /\ wire \in Seq(Frame) /\ Len(wire) <= 1

LEMMA KeyBoolean == PeriodicKey \in BOOLEAN
  BY Zenon DEF PeriodicKey

\* Every variable has its type, and the channel and the wire keep to their
\* capacities.
THEOREM RecoveryTypeCorrect == Spec => []TypeOK
<1>1. Init => TypeOK
  <2> SUFFICES ASSUME Init PROVE TypeOK
    OBVIOUS
  <2>1. NatTypes
    BY NatConstants DEF Init, NatTypes
  <2>2. HostTypes /\ ClientTypes
    BY Zenon DEF Init, HostTypes, ClientTypes
  <2>3. FrameTypes
    BY NatConstants DEF Init, FrameTypes
  <2> QED
    BY <2>1, <2>2, <2>3 DEF TypeOK, NatTypes, HostTypes, ClientTypes, FrameTypes
<1>2. TypeOK /\ [Next]_vars => TypeOK'
  <2> SUFFICES ASSUME TypeOK, [Next]_vars PROVE TypeOK'
    OBVIOUS
  <2>0. NatTypes /\ HostTypes /\ ClientTypes /\ FrameTypes
    BY DEF TypeOK, NatTypes, HostTypes, ClientTypes, FrameTypes
  <2>n. NatTypes'
    <3>1. CASE EncodeSent \/ EncodeRefused
      <4>1. /\ since_idr \in Nat /\ since_kf \in Nat /\ since_request \in Nat
            /\ ran \in Nat /\ refused \in Nat /\ starved \in Nat
        BY <2>0 DEF NatTypes
      <4>2. Encoded
        BY <3>1 DEF EncodeSent, EncodeRefused
      <4>3. /\ since_idr' \in Nat /\ since_kf' \in Nat /\ since_request' \in Nat
            /\ ran' \in Nat
        BY <4>1, <4>2 DEF Encoded, session, client
      <4>4. refused' \in Nat /\ starved' \in Nat
        BY <3>1, <4>1, NatConstants DEF EncodeSent, EncodeRefused, RefusedKey, Least,
           wait
      <4> QED
        BY <4>3, <4>4 DEF NatTypes
    <3>2. CASE Tick
      <4> SUFFICES {since_idr, since_kf, since_request, ran, refused, starved}' \subseteq Nat
        BY DEF NatTypes
      <4>1. \A a, b \in Nat : Least(a, b) \in Nat
        BY DEF Least
      <4>2. /\ since_idr \in Nat /\ since_kf \in Nat
            /\ since_request \in Nat /\ refused \in Nat /\ starved \in Nat
        BY <2>0 DEF NatTypes
      <4>3. /\ since_idr' \in Nat /\ since_kf' \in Nat
            /\ since_request' \in Nat /\ ran' = 0
        BY <3>2, <4>1, <4>2, NatConstants DEF Tick
      <4>4. refused' \in Nat /\ starved' \in Nat
        BY <3>2, <4>2 DEF Tick
      <4> QED
        BY <4>3, <4>4
    <3>3. CASE SessionAccepts \/ SessionIgnores \/ SessionSkips \/ SessionSends
      BY <2>0, <3>3 DEF NatTypes, SessionAccepts, SessionIgnores, SessionSkips,
         SessionSends, encoder, client, wait
    <3>4. CASE Receive
      <4>1. UNCHANGED <<since_idr, since_kf, ran, refused, starved>>
        BY <3>4 DEF Receive, FrameLost, KeyPartial, KeyOnePacket, KeyManyPackets,
           KeyDone, DeltaIgnored, DeltaMovesWindow, DeltaPartial, DeltaBehindGap,
           DeltaDone, Off, encoder, session, wait
      <4>2. since_request' \in {since_request, 0}
        BY <3>4, Zenon DEF Receive, FrameLost, KeyPartial, KeyOnePacket,
           KeyManyPackets, DeltaIgnored, DeltaMovesWindow, DeltaPartial,
           DeltaBehindGap, DeltaDone, LossCheck
      <4> QED
        BY <2>0, <4>1, <4>2 DEF NatTypes
    <3>5. CASE \/ EncodeNothing \/ ForwardRequest \/ RefreshDisplay
               \/ FeedbackCritical
               \/ RequestArrives \/ RequestLost \/ UNCHANGED vars
      BY <2>0, <3>5 DEF NatTypes, EncodeNothing, ForwardRequest, RefreshDisplay,
         FeedbackCritical, RequestArrives, RequestLost, encoder, session, client,
         wait, vars
    <3> QED
      BY <3>1, <3>2, <3>3, <3>4, <3>5 DEF Next
  <2>h. HostTypes'
    <3>1. CASE EncodeSent \/ EncodeRefused
      BY <2>0, <3>1, KeyBoolean, Zenon DEF HostTypes, EncodeSent, EncodeRefused,
         Encoded, session
    <3>2. CASE Tick
      BY <2>0, <3>2, Zenon DEF HostTypes, Tick
    <3>3. CASE SessionAccepts \/ SessionIgnores \/ SessionSkips \/ SessionSends
      BY <2>0, <3>3, Zenon DEF HostTypes, SessionAccepts, SessionIgnores,
         SessionSkips, SessionSends, encoder
    <3>4. CASE Receive
      <4>1. UNCHANGED <<encoder, requested, request, session>>
        BY <3>4, Zenon DEF Receive, FrameLost, KeyPartial, KeyOnePacket,
           KeyManyPackets, KeyDone, DeltaIgnored, DeltaMovesWindow, DeltaPartial,
           DeltaBehindGap, DeltaDone, Off
      <4> QED
        BY <2>0, <4>1, Zenon DEF HostTypes, encoder, session
    <3>5. CASE \/ EncodeNothing \/ ForwardRequest \/ RefreshDisplay
               \/ FeedbackCritical
               \/ RequestArrives \/ RequestLost \/ UNCHANGED vars
      BY <2>0, <3>5, Zenon DEF HostTypes, EncodeNothing, ForwardRequest,
         RefreshDisplay, FeedbackCritical, RequestArrives, RequestLost, encoder, session, vars
    <3> QED
      BY <3>1, <3>2, <3>3, <3>4, <3>5 DEF Next
  <2>c. ClientTypes'
    <3>1. CASE UNCHANGED client
      BY <2>0, <3>1, Zenon DEF ClientTypes, client
    <3>2. CASE Receive
      <4> PICK f \in Frame :
            \/ FrameLost(f) \/ KeyPartial(f) \/ KeyOnePacket(f)
            \/ KeyManyPackets(f) \/ DeltaIgnored(f) \/ DeltaMovesWindow(f)
            \/ DeltaPartial(f) \/ DeltaBehindGap(f) \/ DeltaDone(f)
        BY <3>2, Zenon DEF Receive
      <4>1. CASE FrameLost(f) \/ DeltaPartial(f) \/ DeltaDone(f)
        BY <2>0, <4>1, Zenon DEF ClientTypes, FrameLost, DeltaPartial, DeltaDone
      <4>2. CASE KeyManyPackets(f)
        BY <2>0, <4>2, Zenon DEF ClientTypes, KeyManyPackets, KeyDone
      <4>3. ASSUME NEW d, NEW q \in BOOLEAN, LossCheck(d, q)
            PROVE  {waiting_for_keyframe, asked}' \subseteq BOOLEAN
        BY <2>0, <4>3, Zenon DEF ClientTypes, LossCheck
      <4>4. {waiting_for_keyframe, FALSE} \subseteq BOOLEAN
        BY <2>0, Zenon DEF ClientTypes
      <4>5. CASE KeyPartial(f) \/ KeyOnePacket(f) \/ DeltaIgnored(f)
                 \/ DeltaMovesWindow(f) \/ DeltaBehindGap(f)
        <5>1. {waiting_for_keyframe, asked}' \subseteq BOOLEAN
          BY <4>3, <4>4, <4>5, Zenon DEF KeyPartial, KeyOnePacket, DeltaIgnored,
             DeltaMovesWindow, DeltaBehindGap
        <5>2. {started, whole, waiting_after_loss, partial, based, stale}'
                \subseteq BOOLEAN
          BY <2>0, <4>5, Zenon DEF ClientTypes, KeyPartial, KeyOnePacket, KeyDone,
             DeltaIgnored, DeltaMovesWindow, DeltaBehindGap
        <5> QED
          BY <5>1, <5>2, Zenon DEF ClientTypes
      <4> QED
        BY <4>1, <4>2, <4>5
    <3>3. CASE FeedbackCritical \/ RequestArrives \/ RequestLost
      BY <2>0, <3>3, Zenon DEF ClientTypes, FeedbackCritical, RequestArrives,
         RequestLost
    <3>4. CASE Tick
      BY <2>0, <3>4, Zenon DEF ClientTypes, Tick
    <3>5. CASE \/ EncodeSent \/ EncodeRefused \/ EncodeNothing \/ ForwardRequest
               \/ RefreshDisplay \/ SessionAccepts \/ SessionIgnores \/ SessionSkips
               \/ SessionSends \/ UNCHANGED vars
      BY <3>1, <3>5, Zenon DEF EncodeSent, EncodeRefused, Encoded, EncodeNothing,
         ForwardRequest, RefreshDisplay, SessionAccepts, SessionIgnores, SessionSkips,
         SessionSends, vars
    <3> QED
      BY <3>2, <3>3, <3>4, <3>5 DEF Next
  <2>f. FrameTypes'
    <3>1. CASE UNCHANGED <<chan, wire>>
      BY <2>0, <3>1 DEF FrameTypes
    <3>2. CASE EncodeSent
      <4> DEFINE f == [key |-> PeriodicKey, follows |-> put]
      <4>1. f \in Frame
        BY <2>0, KeyBoolean DEF Frame, HostTypes
      <4>2. chan' = Append(chan, f) /\ Len(chan) < Capacity /\ wire' = wire
        BY <3>2 DEF EncodeSent, Encoded
      <4> QED
        BY <2>0, <4>1, <4>2, NatConstants DEF FrameTypes
    <3>3. CASE SessionSkips
      BY <2>0, <3>3, NatConstants DEF FrameTypes, SessionSkips
    <3>4. CASE SessionSends
      <4> DEFINE f == [key |-> Head(chan).key, follows |-> Head(chan).follows /\ passed]
      <4>1. Head(chan) \in Frame
        BY <2>0, <3>4 DEF FrameTypes, SessionSends
      <4>2. (Head(chan).follows /\ passed) \in BOOLEAN /\ Head(chan).key \in BOOLEAN
        BY <4>1 DEF Frame
      <4>3. f \in Frame
        BY <4>2 DEF Frame
      <4>4. wire' = <<f>> /\ chan' = Tail(chan) /\ chan # <<>>
        BY <3>4 DEF SessionSends
      <4> QED
        BY <2>0, <4>3, <4>4, NatConstants DEF FrameTypes
    <3>5. CASE Receive
      <4>1. chan' = chan /\ wire' = <<>>
        BY <3>5, Zenon DEF Receive, FrameLost, KeyPartial, KeyOnePacket,
           KeyManyPackets, KeyDone, DeltaIgnored, DeltaMovesWindow, DeltaPartial,
           DeltaBehindGap, DeltaDone, Off
      <4> QED
        BY <2>0, <4>1 DEF FrameTypes
    <3>6. CASE \/ EncodeRefused \/ EncodeNothing \/ ForwardRequest \/ RefreshDisplay
               \/ SessionAccepts \/ SessionIgnores \/ FeedbackCritical
               \/ RequestArrives \/ RequestLost \/ Tick \/ UNCHANGED vars
      BY <3>1, <3>6, Zenon DEF EncodeRefused, Encoded, EncodeNothing,
         ForwardRequest, RefreshDisplay, SessionAccepts, SessionIgnores, FeedbackCritical,
         RequestArrives, RequestLost, Tick, vars
    <3> QED
      BY <3>2, <3>3, <3>4, <3>5, <3>6 DEF Next
  <2> QED
    BY <2>n, <2>h, <2>c, <2>f DEF TypeOK, NatTypes, HostTypes, ClientTypes, FrameTypes
<1> QED
  BY <1>1, <1>2, PTL DEF Spec
=============================================================================
