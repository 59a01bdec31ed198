-------------------------- MODULE CodecStreamProofs --------------------------
(***************************************************************************)
(* Proofs about CodecStream, for any capacities and any number of codecs,  *)
(* frames and services.                                                    *)
(***************************************************************************)
EXTENDS CodecStream, FoldTheorems, TLAPS

-----------------------------------------------------------------------------
(* Types.                                                                  *)

\* The bounds, one by one.
LEMMA Bounds ==
  /\ Room \in Nat \ {0} /\ Units \in Nat \ {0} /\ MaxFrames \in Nat \ {0}
  /\ MaxServices \in Nat \ {0} /\ MaxNet \in Nat \ {0}
  BY StreamAssumption

\* A datagram is a name or a frame, told apart by its fields.
LEMMA DatagramKinds ==
  ASSUME NEW d \in Datagram
  PROVE  /\ IsName(d) => d \in [name : Codecs] /\ d.name \in Codecs
         /\ ~IsName(d) => d \in Frame
  BY DEF Datagram, Frame, IsName

\* A name is one of the datagrams.
LEMMA NameKind ==
  ASSUME NEW c \in Codecs
  PROVE  Name(c) \in Datagram /\ IsName(Name(c)) /\ Name(c).name = c
  BY DEF Name, Datagram, IsName

\* The empty sequence is the one of length zero.
LEMMA EmptyLen ==
  ASSUME NEW S, NEW s \in Seq(S)
  PROVE  s = <<>> <=> Len(s) = 0
  OBVIOUS

\* What is left when one element of a sequence is taken out.
LEMMA RemoveAtProperties ==
  ASSUME NEW S, NEW s \in Seq(S), NEW i \in 1..Len(s)
  PROVE  /\ RemoveAt(s, i) \in Seq(S)
         /\ Len(RemoveAt(s, i)) = Len(s) - 1
         /\ \A j \in 1..(Len(s) - 1) :
              RemoveAt(s, i)[j] = IF j < i THEN s[j] ELSE s[j + 1]
  <1> DEFINE a == SubSeq(s, 1, i - 1)
             b == SubSeq(s, i + 1, Len(s))
  <1>1. /\ a \in Seq(S) /\ Len(a) = i - 1
        /\ \A j \in 1..(i - 1) : a[j] = s[j]
    OBVIOUS
  <1>2. /\ b \in Seq(S) /\ Len(b) = Len(s) - i
        /\ \A j \in 1..(Len(s) - i) : b[j] = s[i + j]
    OBVIOUS
  <1>3. RemoveAt(s, i) = a \o b
    BY DEF RemoveAt
  <1> HIDE DEF a, b
  <1>4. /\ a \o b \in Seq(S) /\ Len(a \o b) = Len(a) + Len(b)
        /\ \A j \in 1..(Len(a) + Len(b)) :
             (a \o b)[j] = IF j <= Len(a) THEN a[j] ELSE b[j - Len(a)]
    <2>1. a \in Seq(S) /\ b \in Seq(S)
      BY <1>1, <1>2
    <2> QED
      BY <2>1
  <1>5. ASSUME NEW j \in 1..(Len(s) - 1)
        PROVE  (a \o b)[j] = IF j < i THEN s[j] ELSE s[j + 1]
    <2>1. j \in 1..(Len(a) + Len(b)) /\ Len(a) = i - 1 /\ Len(s) \in Nat
      BY <1>1, <1>2
    <2>2. CASE j < i
      <3>1. j \in 1..(i - 1) /\ j <= Len(a)
        BY <2>1, <2>2
      <3>2. (a \o b)[j] = a[j] /\ a[j] = s[j]
        BY <1>1, <1>4, <2>1, <3>1
      <3> QED
        BY <2>2, <3>2
    <2>3. CASE ~(j < i)
      <3> DEFINE m == j - (i - 1)
      <3>1. m \in 1..(Len(s) - i) /\ ~(j <= Len(a)) /\ i + m = j + 1
        BY <2>1, <2>3
      <3>2. (a \o b)[j] = b[m]
        BY <1>4, <2>1, <3>1
      <3>3. b[m] = s[i + m]
        BY <1>2, <3>1
      <3> QED
        BY <2>3, <3>1, <3>2, <3>3
    <2> QED
      BY <2>2, <2>3
  <1>6. Len(a) + Len(b) = Len(s) - 1
    BY <1>1, <1>2
  <1> QED
    BY <1>3, <1>4, <1>5, <1>6

\* The service.
LEMMA ServiceType ==
  ASSUME TypeOK, Encode \/ CodecChanges \/ Restart
  PROVE  TypeOK'
  <1> USE Bounds DEF TypeOK, session, receiver, player, backlog
  <1>1. CASE Encode
    <2> USE <1>1 DEF Encode
    <2>1. PICK key \in BOOLEAN :
            LET frame == [id |-> frame_id + 1, key |-> key, codec |-> codec]
            IN  evrt_rx' = IF Len(evrt_rx) < Room THEN Append(evrt_rx, frame)
                                                  ELSE evrt_rx
      OBVIOUS
    <2>2. [id |-> frame_id + 1, key |-> key, codec |-> codec] \in Frame
      BY DEF Frame
    <2>3. evrt_rx' \in Seq(Frame) /\ Len(evrt_rx') <= Room
      BY <2>1, <2>2
    <2> QED
      BY <2>3
  <1>2. CASE CodecChanges
    BY <1>2 DEF CodecChanges
  <1>3. CASE Restart
    BY <1>3 DEF Restart
  <1> QED
    BY <1>1, <1>2, <1>3

\* The session.
LEMMA SessionType ==
  ASSUME TypeOK, RequestIdr \/ ForwardSame \/ ForwardChanged
  PROVE  TypeOK'
  <1> USE Bounds DEF TypeOK, service, session, receiver, player, backlog
  <1>1. CASE RequestIdr
    BY <1>1 DEF RequestIdr
  <1>2. ASSUME evrt_rx # <<>>
        PROVE  /\ Head(evrt_rx) \in Frame /\ Head(evrt_rx) \in Datagram
               /\ Head(evrt_rx).codec \in Codecs
               /\ Head(evrt_rx).key \in BOOLEAN
               /\ Tail(evrt_rx) \in Seq(Frame)
               /\ Len(Tail(evrt_rx)) <= Room
    <2>1. /\ Head(evrt_rx) \in Frame /\ Tail(evrt_rx) \in Seq(Frame)
          /\ Len(Tail(evrt_rx)) <= Room
      BY <1>2
    <2> QED
      BY <2>1 DEF Datagram, Frame
  <1>3. CASE ForwardSame
    <2>1. net' \in Seq(Datagram) /\ waiting_for_idr' \in BOOLEAN
      BY <1>2, <1>3 DEF ForwardSame
    <2> QED
      BY <1>2, <1>3, <2>1 DEF ForwardSame
  <1>4. CASE ForwardChanged
    <2>1. Name(Head(evrt_rx).codec) \in Datagram
      BY <1>2, <1>4, NameKind DEF ForwardChanged
    <2>2. net' \in Seq(Datagram) /\ waiting_for_idr' \in BOOLEAN
      BY <1>2, <1>4, <2>1 DEF ForwardChanged
    <2> QED
      BY <1>2, <1>4, <2>2 DEF ForwardChanged
  <1> QED
    BY <1>1, <1>3, <1>4

\* The network and the receive thread.
LEMMA ReceiverType ==
  ASSUME TypeOK,
         \/ NetLoses \/ ReceiveName \/ ReceiveIgnored \/ ReceiveGap
         \/ ReceiveFrame \/ FeedbackCritical
  PROVE  TypeOK'
  <1> USE Bounds DEF TypeOK, service, session, receiver, player, backlog
  <1>0. ASSUME LossCheck
        PROVE  /\ queue' \in Seq(Frame) /\ Len(queue') <= Units
               /\ overtaken' \in 0..Len(queue')
    <2>1. CASE UNCHANGED backlog
      BY <2>1
    <2>2. CASE Cleared
      BY <2>2 DEF Cleared
    <2> QED
      BY <1>0, <2>1, <2>2 DEF LossCheck
  <1>1. ASSUME net # <<>>
        PROVE  Head(net) \in Datagram /\ Tail(net) \in Seq(Datagram)
    BY <1>1
  <1>2. CASE NetLoses
    <2>1. net' \in Seq(Datagram)
      BY <1>2, RemoveAtProperties DEF NetLoses
    <2>2. lost' \subseteq {"name", "frame"}
      BY <1>2 DEF NetLoses
    <2> QED
      BY <1>2, <2>1, <2>2 DEF NetLoses
  <1>3. CASE ReceiveName
    <2>1. Head(net).name \in Codecs
      BY <1>1, <1>3, DatagramKinds DEF ReceiveName
    <2>2. codec_change' \in Seq(Codecs)
      BY <1>3, <2>1 DEF ReceiveName
    <2>3. overtaken' \in 0..Len(queue') /\ net' \in Seq(Datagram)
      BY <1>1, <1>3 DEF ReceiveName
    <2> QED
      BY <1>3, <2>2, <2>3 DEF ReceiveName
  <1>4. CASE ReceiveIgnored
    <2>1. LossCheck
      BY <1>4 DEF ReceiveIgnored, LossCheck
    <2> QED
      BY <1>0, <1>1, <1>4, <2>1 DEF ReceiveIgnored
  <1>5. ASSUME net # <<>>, ~IsName(Head(net))
        PROVE  Head(net) \in Frame /\ Head(net).id \in 1..MaxFrames
    <2>1. Head(net) \in Frame
      BY <1>1, <1>5, DatagramKinds
    <2> QED
      BY <2>1 DEF Frame
  <1>6. CASE ReceiveGap
    <2>1. /\ queue' \in Seq(Frame) /\ Len(queue') <= Units
          /\ overtaken' \in 0..Len(queue')
      BY <1>0, <1>6 DEF ReceiveGap
    <2>2. completed' \in 0..MaxFrames
      BY <1>5, <1>6 DEF ReceiveGap
    <2> QED
      BY <1>1, <1>6, <2>1, <2>2 DEF ReceiveGap
  <1>7. CASE ReceiveFrame
    <2>1. Head(net) \in Frame
      BY <1>5, <1>7 DEF ReceiveFrame
    <2>2. Enqueue(Head(net))
      BY <1>7 DEF ReceiveFrame
    <2>3. /\ queue' \in Seq(Frame) /\ Len(queue') <= Units
          /\ overtaken' \in 0..Len(queue')
      <3>1. CASE /\ Len(queue) < Units /\ queue' = Append(queue, Head(net))
                 /\ UNCHANGED overtaken
        BY <2>1, <3>1
      <3>2. CASE queue' = <<Head(net)>> /\ overtaken' = 0
        BY <2>1, <3>2
      <3>3. CASE UNCHANGED backlog
        BY <3>3
      <3> QED
        BY <2>2, <3>1, <3>2, <3>3 DEF Enqueue
    <2>4. completed' \in 0..MaxFrames
      BY <1>5, <1>7 DEF ReceiveFrame
    <2> QED
      BY <1>1, <1>7, <2>3, <2>4 DEF ReceiveFrame
  <1>8. CASE FeedbackCritical
    BY <1>8 DEF FeedbackCritical, Cleared
  <1> QED
    BY <1>2, <1>3, <1>4, <1>6, <1>7, <1>8

\* The decoder thread.
LEMMA DecoderType ==
  ASSUME TypeOK, TakeNames \/ Dequeue
  PROVE  TypeOK'
  <1> USE Bounds DEF TypeOK, service, session, receiver, backlog
  <1>1. CASE TakeNames
    BY <1>1 DEF TakeNames, Last
  <1>2. CASE Dequeue
    BY <1>2 DEF Dequeue
  <1> QED
    BY <1>1, <1>2

\* Every variable of the stream keeps its type, and the two bounded buffers,
\* the encoder's channel and the client's queue, stay within their bounds.
THEOREM StreamTypeCorrect == Spec => []TypeOK
  <1>1. Init => TypeOK
    <2> SUFFICES ASSUME Init PROVE TypeOK
      OBVIOUS
    <2>1. /\ evrt_rx \in Seq(Frame) /\ Len(evrt_rx) <= Room
          /\ queue \in Seq(Frame) /\ Len(queue) <= Units
          /\ net \in Seq(Datagram) /\ codec_change \in Seq(Codecs)
      BY Bounds DEF Init
    <2>2. services \in 1..MaxServices /\ frame_id \in 0..MaxFrames
      BY Bounds DEF Init
    <2>3. completed \in 0..MaxFrames /\ late \in Nat /\ overtaken \in 0..Len(queue)
      BY Bounds DEF Init
    <2> QED
      BY <2>1, <2>2, <2>3 DEF Init, TypeOK
  <1>2. TypeOK /\ [Next]_vars => TypeOK'
    <2> SUFFICES ASSUME TypeOK, [Next]_vars PROVE TypeOK'
      OBVIOUS
    <2>1. CASE UNCHANGED vars
      BY <2>1 DEF TypeOK, vars, service, session, receiver, player, backlog
    <2> QED
      BY <2>1, ServiceType, SessionType, ReceiverType, DecoderType DEF Next
  <1> QED
    BY <1>1, <1>2, PTL DEF Spec

-----------------------------------------------------------------------------
(* Names and frames.                                                       *)

\* The codec the client works with behind a datagram: a name's or a frame's.
Tag(d) == IF IsName(d) THEN d.name ELSE d.codec

\* What FramesAnnounced says of a frame and the last name before it, said of
\* each datagram and the one right before it: the datagrams n lead a client
\* that works with the codec from to the codec to.
Linked(n, from, to) ==
  /\ n # <<>> => IsName(n[1]) \/ n[1].codec = from
  /\ \A i \in 1..(Len(n) - 1) : IsName(n[i + 1]) \/ n[i + 1].codec = Tag(n[i])
  /\ n = <<>> => to = from
  /\ n # <<>> => to = Tag(n[Len(n)])

\* The datagrams under way lead from what the client knows to what the
\* session announced last.
AnnouncedInv == "name" \notin lost => Linked(net, Known, current_codec)

\* A frame right behind a name is a key frame, and a session whose last
\* datagram was a name waits for one.
Keyed(n, waits) ==
  /\ \A i \in 1..(Len(n) - 1) : IsName(n[i]) /\ ~IsName(n[i + 1]) => n[i + 1].key
  /\ n # <<>> => (IsName(n[Len(n)]) => waits)

KeyedInv == lost = {} => Keyed(net, waiting_for_idr)

\* Receiving the first datagram.
LEMMA LinkTail ==
  ASSUME NEW n \in Seq(Datagram), n # <<>>, NEW from, NEW to,
         Linked(n, from, to)
  PROVE  /\ Linked(Tail(n), Tag(Head(n)), to)
         /\ ~IsName(Head(n)) => Tag(Head(n)) = from
  <1>1. /\ Head(n) = n[1] /\ Len(n) \in Nat \ {0}
        /\ Tail(n) \in Seq(Datagram) /\ Len(Tail(n)) = Len(n) - 1
        /\ \A i \in 1..(Len(n) - 1) : Tail(n)[i] = n[i + 1]
    OBVIOUS
  <1>2. ~IsName(Head(n)) => Tag(Head(n)) = from
    BY <1>1 DEF Linked, Tag
  <1>3. CASE Len(n) = 1
    <2>1. Tail(n) = <<>>
      <3>1. Len(Tail(n)) = 0 /\ Tail(n) \in Seq(Datagram)
        BY <1>1, <1>3
      <3> QED
        BY <3>1, EmptyLen
    <2>2. to = Tag(Head(n))
      BY <1>1, <1>3 DEF Linked
    <2> QED
      BY <1>2, <2>1, <2>2 DEF Linked
  <1>4. CASE Len(n) > 1
    <2> DEFINE t == Tail(n)
    <2>1. Tail(n) # <<>> /\ Len(t) \in Nat \ {0}
      <3>1. Len(Tail(n)) \in Nat \ {0} /\ Tail(n) \in Seq(Datagram)
        BY <1>1, <1>4
      <3>2. Tail(n) # <<>>
        BY <3>1, EmptyLen
      <3> QED
        BY <3>1, <3>2
    <2>2. IsName(t[1]) \/ t[1].codec = Tag(Head(n))
      BY <1>1, <1>4 DEF Linked
    <2>3. ASSUME NEW i \in 1..(Len(t) - 1)
          PROVE  IsName(t[i + 1]) \/ t[i + 1].codec = Tag(t[i])
      <3>1. i + 1 \in 1..(Len(n) - 1) /\ i \in 1..(Len(n) - 1)
        BY <1>1
      <3>2. t[i] = n[i + 1] /\ t[i + 1] = n[(i + 1) + 1]
        BY <1>1, <3>1
      <3> QED
        BY <3>1, <3>2 DEF Linked
    <2>4. to = Tag(t[Len(t)])
      BY <1>1, <1>4 DEF Linked
    <2> HIDE DEF t
    <2> QED
      BY <1>2, <2>1, <2>2, <2>3, <2>4 DEF Linked, t
  <1> QED
    BY <1>1, <1>3, <1>4

\* Sending one more datagram.
LEMMA LinkAppend ==
  ASSUME NEW n \in Seq(Datagram), NEW from, NEW to, Linked(n, from, to),
         NEW d \in Datagram, IsName(d) \/ d.codec = to
  PROVE  Linked(Append(n, d), from, Tag(d))
  <1> DEFINE m == Append(n, d)
  <1>1. /\ m # <<>> /\ Len(n) \in Nat /\ Len(m) = Len(n) + 1
        /\ m[Len(n) + 1] = d
        /\ \A i \in 1..Len(n) : m[i] = n[i]
    OBVIOUS
  <1> HIDE DEF m
  <1>2. IsName(m[1]) \/ m[1].codec = from
    <2>1. CASE n = <<>>
      BY <1>1, <2>1 DEF Linked
    <2>2. CASE n # <<>>
      BY <1>1, <2>2 DEF Linked
    <2> QED
      BY <2>1, <2>2
  <1>3. ASSUME NEW i \in 1..(Len(m) - 1)
        PROVE  IsName(m[i + 1]) \/ m[i + 1].codec = Tag(m[i])
    <2>1. CASE i = Len(n)
      <3>1. n # <<>> /\ m[i] = n[Len(n)] /\ m[i + 1] = d
        BY <1>1, <2>1
      <3> QED
        BY <3>1 DEF Linked
    <2>2. CASE i # Len(n)
      <3>1. i \in 1..(Len(n) - 1) /\ m[i] = n[i] /\ m[i + 1] = n[i + 1]
        BY <1>1, <2>2
      <3> QED
        BY <3>1 DEF Linked
    <2> QED
      BY <2>1, <2>2
  <1>4. Tag(d) = Tag(m[Len(m)])
    BY <1>1
  <1>5. Linked(m, from, Tag(d))
    BY <1>1, <1>2, <1>3, <1>4 DEF Linked
  <1> QED
    BY <1>5 DEF m

\* Losing a frame on the way.
LEMMA LinkRemove ==
  ASSUME NEW n \in Seq(Datagram), NEW from, NEW to, Linked(n, from, to),
         NEW k \in 1..Len(n), ~IsName(n[k])
  PROVE  Linked(RemoveAt(n, k), from, to)
  <1> DEFINE m == RemoveAt(n, k)
  <1>1. /\ m \in Seq(Datagram) /\ Len(n) \in Nat /\ Len(m) = Len(n) - 1
        /\ \A j \in 1..(Len(n) - 1) : m[j] = IF j < k THEN n[j] ELSE n[j + 1]
    BY RemoveAtProperties
  <1> HIDE DEF m
  <1>2. Tag(n[k]) = IF k = 1 THEN from ELSE Tag(n[k - 1])
    <2>1. Tag(n[k]) = n[k].codec
      BY DEF Tag
    <2>2. CASE k = 1
      BY <1>1, <2>1, <2>2 DEF Linked
    <2>3. CASE k # 1
      <3>1. k - 1 \in 1..(Len(n) - 1) /\ (k - 1) + 1 = k
        BY <1>1, <2>3
      <3> QED
        BY <2>1, <2>3, <3>1 DEF Linked
    <2> QED
      BY <2>2, <2>3
  <1>3. ASSUME m # <<>> PROVE IsName(m[1]) \/ m[1].codec = from
    <2>1. Len(n) > 1
      BY <1>1, <1>3
    <2>2. CASE k = 1
      <3>1. m[1] = n[1 + 1] /\ 1 \in 1..(Len(n) - 1)
        BY <1>1, <2>1, <2>2
      <3> QED
        BY <1>2, <2>2, <3>1 DEF Linked
    <2>3. CASE k # 1
      <3>1. m[1] = n[1] /\ n # <<>>
        BY <1>1, <2>1, <2>3
      <3> QED
        BY <3>1 DEF Linked
    <2> QED
      BY <2>2, <2>3
  <1>4. ASSUME NEW i \in 1..(Len(m) - 1)
        PROVE  IsName(m[i + 1]) \/ m[i + 1].codec = Tag(m[i])
    <2>0. i \in 1..(Len(n) - 1) /\ i + 1 \in 1..(Len(n) - 1)
      BY <1>1
    <2>1. /\ i \in 1..(Len(n) - 1) /\ i + 1 \in 1..(Len(n) - 1)
          /\ m[i] = IF i < k THEN n[i] ELSE n[i + 1]
          /\ m[i + 1] = IF i + 1 < k THEN n[i + 1] ELSE n[(i + 1) + 1]
      BY <1>1, <2>0
    <2>2. CASE i + 1 < k \/ k <= i
      <3>1. \/ m[i] = n[i] /\ m[i + 1] = n[i + 1]
            \/ m[i] = n[i + 1] /\ m[i + 1] = n[(i + 1) + 1]
        BY <2>1, <2>2
      <3> QED
        BY <2>1, <3>1 DEF Linked
    <2>3. CASE k = i + 1
      <3>1. m[i] = n[k - 1] /\ m[i + 1] = n[k + 1] /\ k \in 1..(Len(n) - 1) /\ k # 1
        BY <2>1, <2>3
      <3>2. IsName(n[k + 1]) \/ n[k + 1].codec = Tag(n[k])
        BY <3>1 DEF Linked
      <3> QED
        BY <1>2, <3>1, <3>2
    <2> QED
      BY <1>1, <2>2, <2>3
  <1>5. ASSUME m = <<>> PROVE to = from
    <2>1. Len(n) = 1 /\ k = 1 /\ n # <<>>
      <3>1. Len(m) = 0
        BY <1>5
      <3>2. Len(m) = Len(n) - 1 /\ Len(n) \in Nat
        BY <1>1
      <3>3. Len(n) = 1
        BY <3>1, <3>2
      <3> QED
        BY <3>3
    <2> QED
      BY <1>2, <2>1 DEF Linked
  <1>6. ASSUME m # <<>> PROVE to = Tag(m[Len(m)])
    <2>1. Len(n) > 1 /\ n # <<>> /\ Len(n) - 1 \in 1..(Len(n) - 1)
      BY <1>1, <1>6
    <2>2. to = Tag(n[Len(n)])
      BY <2>1 DEF Linked
    <2>3. CASE k = Len(n)
      <3>1. m[Len(m)] = n[k - 1] /\ k # 1
        BY <1>1, <2>1, <2>3
      <3> QED
        BY <1>2, <2>2, <2>3, <3>1
    <2>4. CASE k # Len(n)
      <3>1. m[Len(m)] = n[Len(n)]
        BY <1>1, <2>1, <2>4
      <3> QED
        BY <2>2, <3>1
    <2> QED
      BY <2>3, <2>4
  <1>7. Linked(m, from, to)
    BY <1>3, <1>4, <1>5, <1>6 DEF Linked
  <1> QED
    BY <1>7 DEF m

\* A name and a frame behind it are two datagrams, one after the other.
LEMMA TwoDatagrams ==
  ASSUME NEW n \in Seq(Datagram), NEW d \in Datagram, NEW e \in Datagram
  PROVE  /\ n \o <<d>> = Append(n, d)
         /\ n \o <<d, e>> = Append(Append(n, d), e)
  OBVIOUS

\* How the datagrams under way change when the session sends.
LEMMA Sends ==
  ASSUME TypeOK, ForwardSame \/ ForwardChanged
  PROVE  LET frame == Head(evrt_rx)
             name == Name(frame.codec)
         IN  /\ frame \in Datagram /\ ~IsName(frame) /\ Tag(frame) = frame.codec
             /\ frame.key \in BOOLEAN
             /\ name \in Datagram /\ IsName(name) /\ Tag(name) = frame.codec
             /\ \/ /\ current_codec' = current_codec
                   /\ \/ UNCHANGED <<net, waiting_for_idr>>
                      \/ /\ frame.codec = current_codec
                         /\ frame.key \/ ~waiting_for_idr
                         /\ net' = Append(net, frame)
                         /\ waiting_for_idr' = (waiting_for_idr /\ ~frame.key)
                \/ /\ current_codec' = frame.codec
                   /\ waiting_for_idr' = ~frame.key
                   /\ \/ ~frame.key /\ net' = Append(net, name)
                      \/ frame.key /\ net' = Append(Append(net, name), frame)
  <1> DEFINE frame == Head(evrt_rx)
             name == Name(frame.codec)
  <1>1. evrt_rx # <<>>
    BY DEF ForwardSame, ForwardChanged
  <1>2. frame \in Frame
    BY <1>1 DEF TypeOK
  <1>3. /\ frame \in Datagram /\ ~IsName(frame) /\ Tag(frame) = frame.codec
        /\ frame.key \in BOOLEAN /\ frame.codec \in Codecs
    BY <1>2 DEF Frame, Datagram, IsName, Tag
  <1>4. name \in Datagram /\ IsName(name) /\ Tag(name) = frame.codec
    BY <1>3, NameKind DEF Tag
  <1>5. net \in Seq(Datagram) /\ waiting_for_idr \in BOOLEAN
    BY DEF TypeOK
  <1>6. CASE ForwardSame
    <2>1. /\ frame.codec = current_codec
          /\ net' = IF frame.key \/ ~waiting_for_idr THEN Append(net, frame) ELSE net
          /\ waiting_for_idr' = (waiting_for_idr /\ ~frame.key)
          /\ current_codec' = current_codec
      BY <1>6 DEF ForwardSame
    <2> HIDE DEF frame
    <2>2. CASE frame.key \/ ~waiting_for_idr
      BY <1>3, <1>4, <2>1, <2>2 DEF frame
    <2>3. CASE ~frame.key /\ waiting_for_idr
      BY <1>3, <1>4, <2>1, <2>3 DEF frame
    <2> QED
      BY <1>3, <1>5, <2>2, <2>3
  <1>7. CASE ForwardChanged
    <2>1. /\ current_codec' = frame.codec
          /\ net' = net \o (IF frame.key THEN <<name, frame>> ELSE <<name>>)
          /\ waiting_for_idr' = ~frame.key
      BY <1>7 DEF ForwardChanged
    <2>2. frame.key => net' = Append(Append(net, name), frame)
      BY <1>3, <1>4, <1>5, <2>1, TwoDatagrams
    <2>3. ~frame.key => net' = Append(net, name)
      BY <1>3, <1>4, <1>5, <2>1, TwoDatagrams
    <2> QED
      BY <1>3, <1>4, <2>1, <2>2, <2>3
  <1> QED
    BY <1>6, <1>7

\* How they change when the receive thread takes one.
LEMMA Receives ==
  ASSUME TypeOK,
         ReceiveName \/ ReceiveIgnored \/ ReceiveGap \/ ReceiveFrame
  PROVE  /\ net # <<>> /\ net' = Tail(net)
         /\ UNCHANGED <<lost, current_codec, waiting_for_idr>>
         /\ IsName(Head(net)) => Known' = Tag(Head(net))
         /\ ~IsName(Head(net)) => Known' = Known
  <1>1. /\ net # <<>> /\ net' = Tail(net)
        /\ UNCHANGED <<lost, current_codec, waiting_for_idr>>
    BY DEF ReceiveName, ReceiveIgnored, ReceiveGap, ReceiveFrame, session
  <1>2. CASE ReceiveName
    <2>1. IsName(Head(net)) /\ codec_change' = Append(codec_change, Head(net).name)
      BY <1>2 DEF ReceiveName
    <2>2. codec_change' # <<>> /\ Last(codec_change') = Head(net).name
      <3>1. codec_change \in Seq(Codecs)
        BY DEF TypeOK
      <3> QED
        BY <2>1, <3>1 DEF Last
    <2> QED
      BY <1>1, <2>1, <2>2 DEF Known, Tag
  <1>3. CASE ReceiveIgnored \/ ReceiveGap \/ ReceiveFrame
    BY <1>1, <1>3 DEF ReceiveIgnored, ReceiveGap, ReceiveFrame, Known, player
  <1> QED
    BY <1>2, <1>3

\* AnnouncedInv is an invariant, given the types.
LEMMA AnnouncedStep ==
  ASSUME TypeOK, AnnouncedInv, [Next]_vars
  PROVE  AnnouncedInv'
  <1>1. net \in Seq(Datagram)
    BY DEF TypeOK
  <1>2. ASSUME UNCHANGED <<net, current_codec, lost>>, Known' = Known
        PROVE  AnnouncedInv'
    BY <1>2 DEF AnnouncedInv, Linked
  <1>3. CASE Encode \/ CodecChanges \/ Restart \/ RequestIdr \/ FeedbackCritical
             \/ Dequeue \/ UNCHANGED vars
    <2>1. UNCHANGED <<net, current_codec, lost, codec_change, decoder>>
      BY <1>3 DEF Encode, CodecChanges, Restart, RequestIdr, FeedbackCritical,
                  Dequeue, vars, session, player
    <2> QED
      BY <1>2, <2>1 DEF Known
  <1>4. CASE TakeNames
    <2>1. Known' = Known /\ UNCHANGED <<net, current_codec, lost>>
      BY <1>4 DEF TakeNames, Known, session
    <2> QED
      BY <1>2, <2>1
  <1>5. CASE ForwardSame \/ ForwardChanged
    <2> SUFFICES ASSUME "name" \notin lost'
                 PROVE  Linked(net', Known', current_codec')
      BY DEF AnnouncedInv
    <2>1. lost' = lost /\ Known' = Known
      BY <1>5 DEF ForwardSame, ForwardChanged, Known, player
    <2>2. Linked(net, Known, current_codec)
      BY <2>1 DEF AnnouncedInv
    <2> DEFINE frame == Head(evrt_rx)
               name == Name(frame.codec)
    <2>3. /\ frame \in Datagram /\ Tag(frame) = frame.codec
          /\ name \in Datagram /\ IsName(name) /\ Tag(name) = frame.codec
          /\ \/ current_codec' = current_codec /\ net' = net
             \/ /\ current_codec' = current_codec /\ frame.codec = current_codec
                /\ net' = Append(net, frame)
             \/ current_codec' = frame.codec /\ net' = Append(net, name)
             \/ /\ current_codec' = frame.codec
                /\ net' = Append(Append(net, name), frame)
      BY <1>5, Sends
    <2> HIDE DEF frame, name
    <2>4. CASE current_codec' = current_codec /\ net' = net
      BY <2>1, <2>2, <2>4
    <2>5. CASE /\ current_codec' = current_codec /\ frame.codec = current_codec
               /\ net' = Append(net, frame)
      BY <1>1, <2>1, <2>2, <2>3, <2>5, LinkAppend
    <2>6. Linked(Append(net, name), Known, frame.codec)
      BY <1>1, <2>2, <2>3, LinkAppend
    <2>7. Linked(Append(Append(net, name), frame), Known, frame.codec)
      <3>1. Append(net, name) \in Seq(Datagram)
        BY <1>1, <2>3
      <3> QED
        BY <2>3, <2>6, <3>1, LinkAppend
    <2> QED
      BY <2>1, <2>3, <2>4, <2>5, <2>6, <2>7
  <1>6. CASE NetLoses
    <2> SUFFICES ASSUME "name" \notin lost'
                 PROVE  Linked(net', Known', current_codec')
      BY DEF AnnouncedInv
    <2>1. PICK i \in 1..Len(net) :
            /\ net' = RemoveAt(net, i)
            /\ lost' = lost \cup {IF IsName(net[i]) THEN "name" ELSE "frame"}
      BY <1>6 DEF NetLoses
    <2>2. ~IsName(net[i]) /\ "name" \notin lost
      BY <2>1
    <2>3. Known' = Known /\ current_codec' = current_codec
      BY <1>6 DEF NetLoses, Known, session, player
    <2> QED
      BY <1>1, <2>1, <2>2, <2>3, LinkRemove DEF AnnouncedInv
  <1>7. CASE ReceiveName \/ ReceiveIgnored \/ ReceiveGap \/ ReceiveFrame
    <2>1. /\ net # <<>> /\ net' = Tail(net)
          /\ UNCHANGED <<lost, current_codec>>
          /\ IsName(Head(net)) => Known' = Tag(Head(net))
          /\ ~IsName(Head(net)) => Known' = Known
      BY <1>7, Receives
    <2> SUFFICES ASSUME "name" \notin lost
                 PROVE  Linked(Tail(net), Known', current_codec)
      BY <2>1 DEF AnnouncedInv
    <2>2. /\ Linked(Tail(net), Tag(Head(net)), current_codec)
          /\ ~IsName(Head(net)) => Tag(Head(net)) = Known
      BY <1>1, <2>1, LinkTail DEF AnnouncedInv
    <2> QED
      BY <2>1, <2>2
  <1> QED
    BY <1>3, <1>4, <1>5, <1>6, <1>7 DEF Next

\* Between the last name and a frame behind it the codec stays the same.
LEMMA LinkedMeansKnown ==
  ASSUME TypeOK, Linked(net, Known, current_codec),
         NEW i \in 1..Len(net), ~IsName(net[i])
  PROVE  net[i].codec = KnownBefore(i)
  <1> DEFINE names == {j \in 1..(i - 1) : IsName(net[j])}
  <1>1. Len(net) \in Nat /\ net # <<>>
    BY DEF TypeOK
  <1>2. ASSUME NEW m \in 0..(i - 1), NEW c,
               \A j \in (m + 1)..i : ~IsName(net[j]),
               Tag(net[m + 1]) = c
        PROVE  net[i].codec = c
    <2> DEFINE T == {j \in (m + 1)..i : Tag(net[j]) # c}
    <2>1. CASE T = {}
      BY <2>1 DEF Tag
    <2>2. CASE T # {}
      <3>1. PICK k \in T : \A j \in T : k <= j
        <4>1. T \in SUBSET Nat
          OBVIOUS
        <4> HIDE DEF T
        <4> QED
          BY <2>2, <4>1, LeastNatural
      <3>2. k # m + 1 /\ k \in (m + 1)..i
        BY <1>2
      <3>3. k - 1 \in (m + 1)..i /\ k - 1 \notin T
        BY <3>1, <3>2
      <3>4. Tag(net[k - 1]) = c
        BY <3>3
      <3>5. k - 1 \in 1..(Len(net) - 1) /\ (k - 1) + 1 = k /\ ~IsName(net[k])
        BY <1>1, <1>2, <3>2
      <3>6. net[k].codec = Tag(net[k - 1])
        BY <3>5 DEF Linked
      <3>7. Tag(net[k]) = net[k].codec
        BY <3>5 DEF Tag
      <3> QED
        BY <3>1, <3>4, <3>6, <3>7
    <2> QED
      BY <2>1, <2>2
  <1>3. CASE names = {}
    <2>1. KnownBefore(i) = Known
      BY <1>3 DEF KnownBefore
    <2>2. \A j \in 1..i : ~IsName(net[j])
      BY <1>3
    <2>3. Tag(net[1]) = Known
      BY <1>1, <2>2 DEF Linked, Tag
    <2> QED
      BY <1>2, <2>1, <2>2, <2>3
  <1>4. CASE names # {}
    <2> DEFINE last == CHOOSE j \in names : \A k \in names : k <= j
    <2>1. \E j \in names : \A k \in names : k <= j
      <3>1. names \in SUBSET (0..(i - 1)) /\ i - 1 \in Nat
        OBVIOUS
      <3> HIDE DEF names
      <3> QED
        BY <1>4, <3>1, GreatestBelow
    <2>2. last \in names /\ \A k \in names : k <= last
      BY <2>1
    <2>3. KnownBefore(i) = net[last].name
      BY <1>4 DEF KnownBefore
    <2> HIDE DEF last
    <2>4. last \in 1..(i - 1) /\ IsName(net[last])
      BY <2>2
    <2>5. ASSUME NEW j \in (last + 1)..i PROVE ~IsName(net[j])
      BY <2>2, <2>4
    <2>6. Tag(net[last + 1]) = net[last].name
      <3>1. last \in 1..(Len(net) - 1) /\ last + 1 \in (last + 1)..i
        BY <1>1, <2>4
      <3>2. ~IsName(net[last + 1])
        BY <2>5, <3>1
      <3> QED
        BY <2>4, <3>1, <3>2 DEF Linked, Tag
    <2> QED
      BY <1>2, <2>3, <2>4, <2>5, <2>6
  <1> QED
    BY <1>3, <1>4

\* Unless a name is lost, a frame reaches the client behind the name of its
\* codec and before that of another one (run_evrt_session announces first).
THEOREM FramesAreAnnounced == Spec => []FramesAnnounced
  <1>1. Init => AnnouncedInv
    BY DEF Init, AnnouncedInv, Linked, Known
  <1>2. TypeOK /\ AnnouncedInv /\ [Next]_vars => AnnouncedInv'
    BY AnnouncedStep
  <1>3. TypeOK /\ AnnouncedInv => FramesAnnounced
    BY LinkedMeansKnown DEF AnnouncedInv, FramesAnnounced
  <1> QED
    BY <1>1, <1>2, <1>3, StreamTypeCorrect, PTL DEF Spec

-----------------------------------------------------------------------------
(* Key frames behind names.                                                *)

LEMMA KeyedTail ==
  ASSUME NEW n \in Seq(Datagram), n # <<>>, NEW w, Keyed(n, w)
  PROVE  Keyed(Tail(n), w)
  <1>1. /\ Len(n) \in Nat \ {0} /\ Len(Tail(n)) = Len(n) - 1
        /\ \A i \in 1..(Len(n) - 1) : Tail(n)[i] = n[i + 1]
    OBVIOUS
  <1>2. ASSUME NEW i \in 1..(Len(Tail(n)) - 1)
        PROVE  /\ i + 1 \in 1..(Len(n) - 1)
               /\ Tail(n)[i] = n[i + 1] /\ Tail(n)[i + 1] = n[(i + 1) + 1]
    <2>1. i \in 1..(Len(n) - 1) /\ i + 1 \in 1..(Len(n) - 1)
      BY <1>1
    <2> QED
      BY <1>1, <2>1
  <1>3. ASSUME Tail(n) # <<>> PROVE Tail(n)[Len(Tail(n))] = n[Len(n)]
    <2>1. Tail(n) \in Seq(Datagram)
      OBVIOUS
    <2>2. Len(Tail(n)) # 0
      BY <1>3, <2>1, EmptyLen
    <2> QED
      BY <1>1, <2>2
  <1> QED
    BY <1>2, <1>3 DEF Keyed

LEMMA KeyedAppend ==
  ASSUME NEW n \in Seq(Datagram), NEW w, Keyed(n, w), NEW d, NEW v,
         IsName(d) => v, IsName(d) \/ d.key \/ ~w
  PROVE  Keyed(Append(n, d), v)
  <1> DEFINE m == Append(n, d)
  <1>1. /\ m # <<>> /\ Len(n) \in Nat /\ Len(m) = Len(n) + 1
        /\ m[Len(n) + 1] = d
        /\ \A i \in 1..Len(n) : m[i] = n[i]
    OBVIOUS
  <1> HIDE DEF m
  <1>2. ASSUME NEW i \in 1..(Len(m) - 1), IsName(m[i]), ~IsName(m[i + 1])
        PROVE  m[i + 1].key
    <2>1. CASE i = Len(n)
      <3>1. n # <<>> /\ m[i] = n[Len(n)] /\ m[i + 1] = d
        BY <1>1, <2>1
      <3> QED
        BY <1>2, <3>1 DEF Keyed
    <2>2. CASE i # Len(n)
      <3>1. i \in 1..(Len(n) - 1) /\ m[i] = n[i] /\ m[i + 1] = n[i + 1]
        BY <1>1, <2>2
      <3> QED
        BY <1>2, <3>1 DEF Keyed
    <2> QED
      BY <2>1, <2>2
  <1>3. Keyed(m, v)
    BY <1>1, <1>2 DEF Keyed
  <1> QED
    BY <1>3 DEF m

LEMMA KeyedStep ==
  ASSUME TypeOK, KeyedInv, [Next]_vars
  PROVE  KeyedInv'
  <1>1. net \in Seq(Datagram)
    BY DEF TypeOK
  <1>2. CASE Encode \/ CodecChanges \/ Restart \/ FeedbackCritical
             \/ TakeNames \/ Dequeue \/ UNCHANGED vars
    <2>1. UNCHANGED <<net, waiting_for_idr, lost>>
      BY <1>2 DEF Encode, CodecChanges, Restart, FeedbackCritical, TakeNames,
                  Dequeue, vars, session
    <2> QED
      BY <2>1 DEF KeyedInv, Keyed
  <1>3. CASE RequestIdr
    <2>1. UNCHANGED <<net, lost>> /\ waiting_for_idr' = TRUE
      BY <1>3 DEF RequestIdr
    <2> QED
      BY <2>1 DEF KeyedInv, Keyed
  <1>4. CASE ForwardSame \/ ForwardChanged
    <2> SUFFICES ASSUME lost' = {} PROVE Keyed(net', waiting_for_idr')
      BY DEF KeyedInv
    <2>1. lost' = lost
      BY <1>4 DEF ForwardSame, ForwardChanged
    <2>2. Keyed(net, waiting_for_idr)
      BY <2>1 DEF KeyedInv
    <2> DEFINE frame == Head(evrt_rx)
               name == Name(frame.codec)
    <2>3. /\ frame \in Datagram /\ ~IsName(frame) /\ frame.key \in BOOLEAN
          /\ name \in Datagram /\ IsName(name)
          /\ \/ net' = net /\ waiting_for_idr' = waiting_for_idr
             \/ /\ frame.key \/ ~waiting_for_idr
                /\ net' = Append(net, frame)
             \/ /\ ~frame.key /\ net' = Append(net, name)
                /\ waiting_for_idr' = ~frame.key
             \/ frame.key /\ net' = Append(Append(net, name), frame)
      BY <1>4, Sends
    <2> HIDE DEF frame, name
    <2>4. CASE net' = net /\ waiting_for_idr' = waiting_for_idr
      BY <2>2, <2>4
    <2>5. CASE (frame.key \/ ~waiting_for_idr) /\ net' = Append(net, frame)
      BY <1>1, <2>2, <2>3, <2>5, KeyedAppend
    <2>6. Keyed(Append(net, name), TRUE)
      BY <1>1, <2>2, <2>3, KeyedAppend
    <2>7. CASE /\ ~frame.key /\ net' = Append(net, name)
               /\ waiting_for_idr' = ~frame.key
      <3>1. waiting_for_idr' = TRUE
        BY <2>7
      <3> QED
        BY <2>6, <2>7, <3>1
    <2>8. CASE frame.key /\ net' = Append(Append(net, name), frame)
      <3>1. Append(net, name) \in Seq(Datagram)
        BY <1>1, <2>3
      <3> QED
        BY <2>3, <2>6, <2>8, <3>1, KeyedAppend
    <2> QED
      BY <2>3, <2>4, <2>5, <2>7, <2>8
  <1>5. CASE NetLoses
    <2>1. lost' # {}
      BY <1>5 DEF NetLoses
    <2> QED
      BY <2>1 DEF KeyedInv
  <1>6. CASE ReceiveName \/ ReceiveIgnored \/ ReceiveGap \/ ReceiveFrame
    <2>1. /\ net # <<>> /\ net' = Tail(net)
          /\ UNCHANGED <<lost, waiting_for_idr>>
      BY <1>6, Receives
    <2> QED
      BY <1>1, <2>1, KeyedTail DEF KeyedInv
  <1> QED
    BY <1>2, <1>3, <1>4, <1>5, <1>6 DEF Next

\* While nothing is lost, the first frame behind a name is a key frame, in
\* whatever order codec changes, restarts and requests come.
THEOREM KeyFramesFollowNames == Spec => []KeyFollowsName
  <1>1. Init => KeyedInv
    BY DEF Init, KeyedInv, Keyed
  <1>2. TypeOK /\ KeyedInv /\ [Next]_vars => KeyedInv'
    BY KeyedStep
  <1>3. TypeOK /\ KeyedInv => KeyFollowsName
    <2> SUFFICES ASSUME TypeOK, Keyed(net, waiting_for_idr),
                        NEW i \in 1..Len(net), NEW k \in 1..Len(net),
                        i < k, IsName(net[i]), ~IsName(net[k]),
                        \A j \in (i + 1)..(k - 1) : IsName(net[j])
                 PROVE  net[k].key
      BY DEF KeyedInv, KeyFollowsName
    <2>1. k - 1 \in 1..(Len(net) - 1) /\ (k - 1) + 1 = k
      BY DEF TypeOK
    <2>2. IsName(net[k - 1])
      OBVIOUS
    <2> QED
      BY <2>1, <2>2 DEF Keyed
  <1> QED
    BY <1>1, <1>2, <1>3, StreamTypeCorrect, PTL DEF Spec

-----------------------------------------------------------------------------
(* Names and frames at the decoder.                                        *)

\* Names wait for one frame at most, and for none once the decoder thread has
\* taken all of them and stands in dequeue.
NamesWait ==
  /\ late \in 0..1
  /\ at = "dequeue" => late = 0

\* The frames behind those that the last name overtook are of the codec that
\* the client knows.
Current(q, n, c) == \A i \in 1..Len(q) : i > n => q[i].codec = c

CurrentInv == "name" \notin lost => Current(queue, overtaken, Known)

\* Only the decoder thread lets a name wait, and for one frame.
LEMMA NamesWaitStep ==
  ASSUME NamesWait, [Next]_vars
  PROVE  NamesWait'
  <1> USE DEF NamesWait
  <1>1. ASSUME UNCHANGED player PROVE NamesWait'
    BY <1>1 DEF player
  <1>2. CASE Encode \/ CodecChanges \/ Restart
    BY <1>1, <1>2 DEF Encode, CodecChanges, Restart
  <1>3. CASE RequestIdr \/ ForwardSame \/ ForwardChanged
    BY <1>1, <1>3 DEF RequestIdr, ForwardSame, ForwardChanged
  <1>4. CASE NetLoses
    BY <1>1, <1>4 DEF NetLoses
  <1>5. CASE \/ ReceiveName \/ ReceiveIgnored \/ ReceiveGap \/ ReceiveFrame
             \/ FeedbackCritical
    BY <1>1, <1>5 DEF ReceiveName, ReceiveIgnored, ReceiveGap, ReceiveFrame,
                      FeedbackCritical
  <1>6. CASE TakeNames
    BY <1>6 DEF TakeNames
  <1>7. CASE Dequeue
    BY <1>7 DEF Dequeue
  <1>8. CASE UNCHANGED vars
    BY <1>1, <1>8 DEF vars
  <1> QED
    BY <1>2, <1>3, <1>4, <1>5, <1>6, <1>7, <1>8 DEF Next

\* A frame is queued in the codec the client knows, because it was announced.
LEMMA CurrentStep ==
  ASSUME TypeOK, AnnouncedInv, CurrentInv, [Next]_vars
  PROVE  CurrentInv'
  <1>1. /\ queue \in Seq(Frame) /\ net \in Seq(Datagram)
        /\ overtaken \in 0..Len(queue) /\ Len(queue) \in Nat
    BY DEF TypeOK
  <1>2. ASSUME UNCHANGED <<queue, overtaken>>, Known' = Known,
               "name" \in lost => "name" \in lost'
        PROVE  CurrentInv'
    BY <1>2 DEF CurrentInv, Current
  <1>3. ASSUME queue' = <<>> PROVE CurrentInv'
    BY <1>3 DEF CurrentInv, Current
  <1>4. CASE \/ Encode \/ CodecChanges \/ Restart \/ RequestIdr \/ ForwardSame
             \/ ForwardChanged \/ UNCHANGED vars
    <2>1. UNCHANGED <<queue, overtaken, lost, codec_change, decoder>>
      BY <1>4 DEF Encode, CodecChanges, Restart, RequestIdr, ForwardSame,
                  ForwardChanged, vars, backlog, player
    <2> QED
      BY <1>2, <2>1 DEF Known
  <1>5. CASE NetLoses
    <2>1. UNCHANGED <<queue, overtaken, codec_change, decoder>> /\ lost \subseteq lost'
      BY <1>5 DEF NetLoses, backlog, player
    <2> QED
      BY <1>2, <2>1 DEF Known
  <1>6. CASE ReceiveName
    <2>1. overtaken' = Len(queue') /\ Len(queue') \in Nat
      BY <1>1, <1>6 DEF ReceiveName
    <2> QED
      BY <2>1 DEF CurrentInv, Current
  <1>7. CASE ReceiveIgnored \/ ReceiveGap \/ FeedbackCritical
    <2>1. /\ UNCHANGED <<queue, overtaken>> \/ queue' = <<>>
          /\ UNCHANGED <<codec_change, decoder, lost>>
      BY <1>7 DEF ReceiveIgnored, ReceiveGap, FeedbackCritical, LossCheck, Cleared,
                  backlog, player
    <2> QED
      BY <1>2, <1>3, <2>1 DEF Known
  <1>8. CASE ReceiveFrame
    <2> DEFINE frame == Head(net)
    <2>1. /\ net # <<>> /\ ~IsName(frame) /\ Enqueue(frame)
          /\ UNCHANGED <<codec_change, decoder, lost>>
      BY <1>8 DEF ReceiveFrame, player
    <2>2. Known' = Known
      BY <2>1 DEF Known
    <2>3. "name" \notin lost => frame.codec = Known
      BY <1>1, <2>1, LinkTail DEF AnnouncedInv, Tag
    <2> HIDE DEF frame
    <2>4. CASE queue' = Append(queue, frame) /\ UNCHANGED overtaken
      <3>1. /\ Len(queue') = Len(queue) + 1 /\ queue'[Len(queue) + 1] = frame
            /\ \A i \in 1..Len(queue) : queue'[i] = queue[i]
        BY <1>1, <2>4
      <3>2. ASSUME "name" \notin lost, NEW i \in 1..Len(queue'), i > overtaken
            PROVE  queue'[i].codec = Known
        <4>1. i \in 1..Len(queue) \/ i = Len(queue) + 1
          BY <1>1, <3>1
        <4> QED
          BY <2>3, <3>1, <3>2, <4>1 DEF CurrentInv, Current
      <3> QED
        BY <2>1, <2>2, <2>4, <3>2 DEF CurrentInv, Current
    <2>5. CASE queue' = <<frame>>
      <3>1. \A i \in 1..Len(queue') : queue'[i] = frame
        BY <2>5
      <3> QED
        BY <2>1, <2>2, <2>3, <3>1 DEF CurrentInv, Current
    <2>6. CASE UNCHANGED backlog
      BY <1>2, <2>1, <2>2, <2>6 DEF backlog
    <2> QED
      BY <2>1, <2>4, <2>5, <2>6 DEF Enqueue
  <1>9. CASE TakeNames
    <2>1. Known' = Known /\ UNCHANGED <<queue, overtaken, lost>>
      BY <1>9 DEF TakeNames, Known, backlog
    <2> QED
      BY <1>2, <2>1
  <1>10. CASE Dequeue
    <2>1. /\ queue # <<>> /\ queue' = Tail(queue)
          /\ overtaken' = IF overtaken = 0 THEN 0 ELSE overtaken - 1
          /\ Known' = Known /\ lost' = lost
      BY <1>10 DEF Dequeue, Known
    <2>2. /\ Len(queue') = Len(queue) - 1
          /\ \A i \in 1..(Len(queue) - 1) : queue'[i] = queue[i + 1]
      BY <1>1, <2>1
    <2>3. ASSUME "name" \notin lost, NEW i \in 1..Len(queue'), i > overtaken'
          PROVE  queue'[i].codec = Known
      <3>1. i + 1 \in 1..Len(queue) /\ i + 1 > overtaken /\ i \in 1..(Len(queue) - 1)
        BY <1>1, <2>1, <2>2, <2>3
      <3> QED
        BY <2>2, <2>3, <3>1 DEF CurrentInv, Current
    <2> QED
      BY <2>1, <2>3 DEF CurrentInv, Current
  <1> QED
    BY <1>4, <1>5, <1>6, <1>7, <1>8, <1>9, <1>10 DEF Next

\* However long the queue and the channel of names: unless a name is lost, the
\* decoder meets a frame of another codec than its own only behind a name that
\* came while it waited for this frame, or in front of one that overtook it.
THEOREM DecoderKeepsStep == Spec => []DecoderInStep
  <1>1. Init => NamesWait /\ CurrentInv /\ AnnouncedInv
    BY DEF Init, NamesWait, CurrentInv, Current, AnnouncedInv, Linked, Known
  <1>2. NamesWait /\ [Next]_vars => NamesWait'
    BY NamesWaitStep
  <1>3. TypeOK /\ AnnouncedInv /\ [Next]_vars => AnnouncedInv'
    BY AnnouncedStep
  <1>4. TypeOK /\ AnnouncedInv /\ CurrentInv /\ [Next]_vars => CurrentInv'
    BY CurrentStep
  <1>5. TypeOK /\ NamesWait /\ CurrentInv => DecoderInStep
    <2> SUFFICES ASSUME TypeOK, NamesWait, CurrentInv PROVE DecoderInStep
      OBVIOUS
    <2>1. codec_change # <<>> => late <= 1
      BY DEF NamesWait
    <2>2. ASSUME "name" \notin lost, queue # <<>>, codec_change = <<>>,
                 ~(overtaken > 0)
          PROVE  Head(queue).codec = decoder
      <3>1. /\ overtaken = 0 /\ 1 \in 1..Len(queue) /\ Head(queue) = queue[1]
            /\ 1 > overtaken
        BY <2>2 DEF TypeOK
      <3> QED
        BY <2>2, <3>1 DEF CurrentInv, Current, Known
    <2> QED
      BY <2>1, <2>2 DEF DecoderInStep
  <1> QED
    BY <1>1, <1>2, <1>3, <1>4, <1>5, StreamTypeCorrect, PTL DEF Spec
=============================================================================
