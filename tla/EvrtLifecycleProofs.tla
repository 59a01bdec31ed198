------------------------- MODULE EvrtLifecycleProofs -------------------------
(***************************************************************************)
(* Proofs about EvrtLifecycle, for any number of candidate addresses and   *)
(* any number of refusals the encoder puts up with.                        *)
(***************************************************************************)
EXTENDS EvrtLifecycle, TLAPS

\* A configuration is on its way to the peer's socket only.
ConfigToPeer == \A s \in Socket : Cfg(s) \in net => s = peer

\* The sender has no peer before the punch, publishes none before the punch
\* and after its end, and has no receive thread before it streams; a client
\* that was started uses one of its sockets.
PeerFixed ==
  /\ sender \in {"drain", "punch"} => peer = 0
  /\ sender \in {"drain", "punch", "stopped"} => evrt_active = 0
  /\ sender \in {"drain", "punch", "handshake"} => recv = "none"
  /\ client # "off" => attempt # 0

\* An encoder that ended is not in the middle of a frame, one that runs may
\* still be refused, and neither the TCP sender nor the command loop ends
\* without raising stop.
EncoderState ==
  /\ ~service => route = "none"
  /\ service => spins < SpinLimit
  /\ ~tcp => stop
  /\ run # "running" => stop

\* The inductive invariant.
IInv ==
  /\ TypeOK
  /\ ClientIsPeer /\ StreamEndsPipeline /\ EncoderEndsAlone
  /\ ConfigToPeer /\ PeerFixed /\ EncoderState

\* The flags of all the threads are Booleans in every step.
LEMMA FlagsNext == Flags /\ [Next]_vars => Flags'
  <1> SUFFICES ASSUME Flags, [Next]_vars PROVE Flags'
    OBVIOUS
  <1> USE DEF Flags, host, guest
  <1>1. ASSUME NEW m \in net, SenderPunched(m) PROVE Flags'
    BY <1>1, Zenon DEF SenderPunched
  <1>2. ASSUME NEW m \in net, HandshakeConfirmed(m) PROVE Flags'
    BY <1>2, Zenon DEF HandshakeConfirmed
  <1>3. CASE SenderPunchTimeout
    BY <1>3, Zenon DEF SenderPunchTimeout
  <1>4. CASE HandshakeRepeats
    BY <1>4, Zenon DEF HandshakeRepeats
  <1>5. CASE HandshakeFails
    BY <1>5, Zenon DEF HandshakeFails
  <1>6. CASE StreamSends
    BY <1>6, Zenon DEF StreamSends
  <1>7. CASE StreamSendFails
    BY <1>7, Zenon DEF StreamSendFails
  <1>8. CASE StreamEnds
    BY <1>8, Zenon DEF StreamEnds
  <1>9. CASE SenderClears
    BY <1>9, Zenon DEF SenderClears
  <1>10. ASSUME NEW m \in net, HostReceives(m) PROVE Flags'
    BY <1>10, Zenon DEF HostReceives
  <1>11. CASE HostIdle
    BY <1>11, Zenon DEF HostIdle
  <1>12. CASE HostReceiveError
    BY <1>12, Zenon DEF HostReceiveError
  <1>13. CASE HostReceiveStops
    BY <1>13, Zenon DEF HostReceiveStops
  <1>14. CASE EncodeStarts
    BY <1>14, Zenon DEF EncodeStarts
  <1>15. CASE EncodeSends
    BY <1>15, Zenon DEF EncodeSends
  <1>16. CASE EncodeRefused
    BY <1>16, Zenon DEF EncodeRefused
  <1>17. CASE EncodeDisconnected
    BY <1>17, Zenon DEF EncodeDisconnected
  <1>18. CASE EncodeStops
    BY <1>18, Zenon DEF EncodeStops
  <1>19. CASE TcpSendFails
    BY <1>19, Zenon DEF TcpSendFails
  <1>20. CASE TcpStops
    BY <1>20, Zenon DEF TcpStops
  <1>21. CASE SubscribeDisplays
    BY <1>21, Zenon DEF SubscribeDisplays
  <1>22. CASE RunStops
    BY <1>22, Zenon DEF RunStops
  <1>23. CASE RunReturns
    BY <1>23, Zenon DEF RunReturns
  <1>24. CASE InputEnds
    BY <1>24, Zenon DEF InputEnds
  <1>25. CASE StartEvrt
    BY <1>25, Zenon DEF StartEvrt
  <1>26. CASE ClientRepeats
    BY <1>26, Zenon DEF ClientRepeats
  <1>27. CASE ClientConfigured
    BY <1>27, Zenon DEF ClientConfigured
  <1>28. CASE ClientGivesUp
    BY <1>28, Zenon DEF ClientGivesUp
  <1>29. CASE ClientReceiveFails
    BY <1>29, Zenon DEF ClientReceiveFails
  <1>30. CASE ClientReceiveStops
    BY <1>30, Zenon DEF ClientReceiveStops
  <1>31. CASE ClientFeedback
    BY <1>31, Zenon DEF ClientFeedback
  <1>32. CASE ClientLoopEnds
    BY <1>32, Zenon DEF ClientLoopEnds
  <1>33. CASE ClientJoins
    BY <1>33, Zenon DEF ClientJoins
  <1>34. CASE ClientCloses
    BY <1>34, Zenon DEF ClientCloses
  <1>35. CASE ClientReadFails
    BY <1>35, Zenon DEF ClientReadFails
  <1>36. ASSUME NEW m \in net, NetLoses(m) PROVE Flags'
    BY <1>36, Zenon DEF NetLoses
  <1>37. CASE RelayBreaks
    BY <1>37, Zenon DEF RelayBreaks
  <1>38. CASE MirrorStarts
    BY <1>38, Zenon DEF MirrorStarts
  <1>39. CASE AudioFails
    BY <1>39, Zenon DEF AudioFails
  <1>40. CASE AudioStops
    BY <1>40, Zenon DEF AudioStops
  <1>41. CASE UNCHANGED vars
    BY <1>41 DEF vars
  <1> QED
    BY <1>1, <1>2, <1>3, <1>4, <1>5, <1>6, <1>7, <1>8, <1>9, <1>10, <1>11,
       <1>12, <1>13, <1>14, <1>15, <1>16, <1>17, <1>18, <1>19, <1>20, <1>21,
       <1>22, <1>23, <1>24, <1>25, <1>26, <1>27, <1>28, <1>29, <1>30, <1>31,
       <1>32, <1>33, <1>34, <1>35, <1>36, <1>37, <1>38, <1>39, <1>40,
       <1>41 DEF Next, Sender, HostReceiver, Audio, Encoder, Pipeline, EvrtClient,
       RelaySession, Network

\* The invariant holds when a session begins.
LEMMA InitIInv == Init => IInv
  <1> SUFFICES ASSUME Init PROVE IInv
    OBVIOUS
  <1> USE LifecycleAssumption DEF Init
  <1>1. Flags
    BY Zenon DEF Flags
  <1>2. TypeOK
    BY <1>1 DEF TypeOK
  <1>3. ClientIsPeer /\ StreamEndsPipeline /\ EncoderEndsAlone
    BY DEF ClientIsPeer, StreamEndsPipeline, EncoderEndsAlone
  <1>4. ConfigToPeer /\ PeerFixed /\ EncoderState
    BY DEF ConfigToPeer, PeerFixed, EncoderState
  <1> QED
    BY <1>2, <1>3, <1>4 DEF IInv

\* Every step of every thread, of the network and of the user preserves it.
LEMMA NextIInv == IInv /\ [Next]_vars => IInv'
  <1> SUFFICES ASSUME IInv, [Next]_vars PROVE IInv'
    OBVIOUS
  <1>0. Flags'
    BY FlagsNext DEF IInv, TypeOK
  <1> USE LifecycleAssumption, <1>0 DEF IInv, TypeOK, ClientIsPeer,
     StreamEndsPipeline, EncoderEndsAlone, ConfigToPeer, PeerFixed, EncoderState,
     host, guest
  <1>1. ASSUME NEW m \in net, SenderPunched(m) PROVE IInv'
    BY <1>1 DEF SenderPunched, ToClient, Socket, Packet, Ctrl, Cfg
  <1>2. ASSUME NEW m \in net, HandshakeConfirmed(m) PROVE IInv'
    BY <1>2 DEF HandshakeConfirmed, ToClient, Socket, Packet, Ctrl, Cfg
  <1>3. CASE SenderPunchTimeout
    BY <1>3 DEF SenderPunchTimeout
  <1>4. CASE HandshakeRepeats
    BY <1>4 DEF HandshakeRepeats, ToClient, Socket, Packet, Ctrl, Cfg
  <1>5. CASE HandshakeFails
    BY <1>5 DEF HandshakeFails
  <1>6. CASE StreamSends
    BY <1>6 DEF StreamSends, ToClient, Socket, Packet, Ctrl, Cfg
  <1>7. CASE StreamSendFails
    BY <1>7 DEF StreamSendFails
  <1>8. CASE StreamEnds
    BY <1>8 DEF StreamEnds
  <1>9. CASE SenderClears
    BY <1>9 DEF SenderClears
  <1>10. ASSUME NEW m \in net, HostReceives(m) PROVE IInv'
    BY <1>10 DEF HostReceives, Socket, Packet, Ctrl, Cfg
  <1>11. CASE HostIdle
    BY <1>11 DEF HostIdle
  <1>12. CASE HostReceiveError
    BY <1>12 DEF HostReceiveError
  <1>13. CASE HostReceiveStops
    BY <1>13 DEF HostReceiveStops
  <1>14. CASE EncodeStarts
    BY <1>14 DEF EncodeStarts
  <1>15. CASE EncodeSends
    BY <1>15 DEF EncodeSends
  <1>16. CASE EncodeRefused
    BY <1>16 DEF EncodeRefused
  <1>17. CASE EncodeDisconnected
    BY <1>17 DEF EncodeDisconnected
  <1>18. CASE EncodeStops
    BY <1>18 DEF EncodeStops
  <1>19. CASE TcpSendFails
    BY <1>19 DEF TcpSendFails
  <1>20. CASE TcpStops
    BY <1>20 DEF TcpStops
  <1>21. CASE SubscribeDisplays
    BY <1>21 DEF SubscribeDisplays
  <1>22. CASE RunStops
    BY <1>22 DEF RunStops
  <1>23. CASE RunReturns
    BY <1>23 DEF RunReturns
  <1>24. CASE InputEnds
    BY <1>24 DEF InputEnds
  <1>25. CASE StartEvrt
    BY <1>25 DEF StartEvrt, Socket, Packet, Ctrl, Cfg
  <1>26. CASE ClientRepeats
    BY <1>26 DEF ClientRepeats, Socket, Packet, Ctrl, Cfg
  <1>27. CASE ClientConfigured
    BY <1>27 DEF ClientConfigured, Socket, Packet, Ctrl, Cfg
  <1>28. CASE ClientGivesUp
    BY <1>28 DEF ClientGivesUp, Socket, Packet, Ctrl, Cfg
  <1>29. CASE ClientReceiveFails
    BY <1>29 DEF ClientReceiveFails
  <1>30. CASE ClientReceiveStops
    BY <1>30 DEF ClientReceiveStops
  <1>31. CASE ClientFeedback
    BY <1>31 DEF ClientFeedback, Socket, Packet, Ctrl, Cfg
  <1>32. CASE ClientLoopEnds
    BY <1>32 DEF ClientLoopEnds
  <1>33. CASE ClientJoins
    BY <1>33 DEF ClientJoins
  <1>34. CASE ClientCloses
    BY <1>34 DEF ClientCloses
  <1>35. CASE ClientReadFails
    BY <1>35 DEF ClientReadFails
  <1>36. ASSUME NEW m \in net, NetLoses(m) PROVE IInv'
    BY <1>36 DEF NetLoses, Socket, Packet, Ctrl, Cfg
  <1>37. CASE RelayBreaks
    BY <1>37 DEF RelayBreaks
  <1>38. CASE MirrorStarts
    BY <1>38 DEF MirrorStarts
  <1>39. CASE AudioFails
    BY <1>39 DEF AudioFails
  <1>40. CASE AudioStops
    BY <1>40 DEF AudioStops
  <1>41. CASE UNCHANGED vars
    BY <1>41 DEF vars
  <1> QED
    BY <1>1, <1>2, <1>3, <1>4, <1>5, <1>6, <1>7, <1>8, <1>9, <1>10, <1>11,
       <1>12, <1>13, <1>14, <1>15, <1>16, <1>17, <1>18, <1>19, <1>20, <1>21,
       <1>22, <1>23, <1>24, <1>25, <1>26, <1>27, <1>28, <1>29, <1>30, <1>31,
       <1>32, <1>33, <1>34, <1>35, <1>36, <1>37, <1>38, <1>39, <1>40,
       <1>41 DEF Next, Sender, HostReceiver, Audio, Encoder, Pipeline, EvrtClient,
       RelaySession, Network

\* The invariant holds throughout.
LEMMA Invariant == Spec => []IInv
  BY InitIInv, NextIInv, PTL DEF Spec

\* Every variable keeps its type; in particular the encoder counts its
\* refusals up to its limit and no further.
THEOREM TypeCorrect == Spec => []TypeOK
<1>1. IInv => TypeOK
  BY DEF IInv
<1> QED
  BY <1>1, Invariant, PTL

\* However many sockets the client tried before and however late their
\* packets arrive, it is connected from the one the host fixed as its peer.
THEOREM ClientIsPeerHolds == Spec => []ClientIsPeer
<1>1. IInv => ClientIsPeer
  BY DEF IInv
<1> QED
  BY <1>1, Invariant, PTL

\* An EVRT session that has streamed ends only together with the pipeline.
THEOREM StreamEndsPipelineHolds == Spec => []StreamEndsPipeline
<1>1. IInv => StreamEndsPipeline
  BY DEF IInv
<1> QED
  BY <1>1, Invariant, PTL

\* In a pipeline that runs on the encoder ends only by the refusals of a
\* sender whose handshake failed.
THEOREM EncoderEndsAloneHolds == Spec => []EncoderEndsAlone
<1>1. IInv => EncoderEndsAlone
  BY DEF IInv
<1> QED
  BY <1>1, Invariant, PTL
=============================================================================
