---------------------------- MODULE EvrtLifecycle ----------------------------
(***************************************************************************)
(* How the direct UDP path of a session comes up, breaks and is taken      *)
(* down next to the TCP relay: on the host the input loop of the relay     *)
(* session (src/host.rs), the video pipeline with its encoder service, TCP *)
(* sender and EVRT sender (src/video_pipeline.rs) and the EVRT session     *)
(* with its receive thread (src/evrt_session.rs); on the client the relay  *)
(* session (src/transport.rs) and the EVRT client, which tries the host's  *)
(* addresses one after the other, each from a socket of its own            *)
(* (src/evrt_client.rs).                                                   *)
(*                                                                         *)
(* Datagrams may be lost and overtake each other; the repeats of both      *)
(* sides stand for duplicates.  Only the packets that move the handshake   *)
(* are kept: "ctrl" is an authenticated control message of the client,     *)
(* "cfg" the host's session configuration.  Frames and audio feed idle     *)
(* timers and nothing else here.  There is no clock: a time-out may strike *)
(* whenever its loop runs, and the fairness below says when it must.       *)
(***************************************************************************)
EXTENDS Naturals

CONSTANTS
  Candidates,  \* how many addresses of the host the client tries
  SpinLimit    \* refused frames after which the encoder gives up

ASSUME LifecycleAssumption == {Candidates, SpinLimit} \subseteq Nat \ {0}

VARIABLES
  relay,       \* the TCP stream between client and host is up
  \* the host
  input,       \* the input loop of the relay session
  run,         \* video_pipeline::run: "running", "joining" or "returned"
  stop,        \* the pipeline's stop flag, shared with the EVRT session
  tcp,         \* tcp_send_loop is running
  service,     \* encode_loop is running
  route,       \* where the frame being encoded will go
  spins,       \* evrt_disconnect_spins
  sender,      \* the thread of evrt_send_loop
  peer,        \* peer_addr, the client's socket; 0: none yet
  evrt_active, \* the same, as the encoder sees it
  recv,        \* the receive thread of run_evrt_session
  audio,       \* a thread that captures audio is running
  \* the network
  net,
  \* the client
  session,     \* the relay session: "open", "closed" or "failed"
  client,      \* the EVRT thread
  attempt,     \* the candidate, and the socket it is tried from
  evrt_stop,   \* the stop flag of the session's EVRT threads
  c_recv       \* the client's receive thread is running

host == <<input, run, stop, tcp, service, route, spins, sender, peer,
          evrt_active, recv, audio>>
guest == <<session, client, attempt, evrt_stop, c_recv>>
vars == <<relay, host, net, guest>>

Socket == 1..Candidates
Packet == [kind : {"ctrl", "cfg"}, sock : Socket]
Ctrl(s) == [kind |-> "ctrl", sock |-> s]
Cfg(s) == [kind |-> "cfg", sock |-> s]

\* What a configuration sent to socket s adds to the network: nothing if the
\* client has left the socket, or has a configuration and would only update
\* the figures it shows.
ToClient(s) == IF client = "wait" /\ attempt = s THEN {Cfg(s)} ELSE {}

Init ==
  /\ relay = TRUE
  /\ input = TRUE /\ run = "running"
  /\ stop = FALSE
  /\ tcp = TRUE
  /\ service = TRUE /\ route = "none" /\ spins = 0
  \* without a socket a thread only drains the frames meant for EVRT
  /\ sender \in {"punch", "drain"}
  /\ peer = 0 /\ evrt_active = 0
  /\ recv = "none" /\ audio = FALSE
  /\ net = {}
  /\ session = "open"
  /\ client = "off" /\ attempt = 0 /\ evrt_stop = FALSE
  /\ c_recv = FALSE

HasSocket == sender # "drain"

-----------------------------------------------------------------------------
(* The host's EVRT sender: evrt_send_loop and run_evrt_session.            *)

\* The first authenticated control message fixes the peer; the session starts
\* by sending it the configuration.
SenderPunched(m) ==
  /\ sender = "punch" /\ ~stop
  /\ m \in net /\ m.kind = "ctrl"
  /\ peer' = m.sock /\ evrt_active' = m.sock
  /\ sender' = "handshake"
  /\ net' = (net \ {m}) \cup ToClient(m.sock)
  /\ UNCHANGED <<relay, input, run, stop, tcp, service, route, spins, recv,
                 audio, guest>>

\* Stop, or nobody came within eight seconds: the thread is gone for good.
SenderPunchTimeout ==
  /\ sender = "punch"
  /\ sender' = "stopped"
  /\ UNCHANGED <<relay, input, run, stop, tcp, service, route, spins, peer,
                 evrt_active, recv, audio, net, guest>>

\* A read time-out, a packet of another socket or one that confirms nothing:
\* the configuration is sent again.
HandshakeRepeats ==
  /\ sender = "handshake" /\ ~stop
  /\ \E taken \in {{}} \cup {{Ctrl(s)} : s \in Socket \ {peer}} :
       net' = (net \ taken) \cup ToClient(peer)
  /\ UNCHANGED <<relay, host, guest>>

\* As HandshakeConfirmed, but the peer follows whoever speaks last.
HandshakeRelocks(m) ==
  /\ sender = "handshake" /\ ~stop
  /\ m \in net /\ m.kind = "ctrl"
  /\ sender' = "stream" /\ recv' = "running" /\ audio' = TRUE
  /\ peer' = m.sock /\ evrt_active' = m.sock
  /\ net' = net \ {m}
  /\ UNCHANGED <<relay, input, run, stop, tcp, service, route, spins, guest>>

\* A control message of the peer confirms it.  If the client's screen is
\* smaller the corrected configuration goes out.  Two threads start that nobody
\* joins, one that receives and one that captures audio.
HandshakeConfirmed(m) ==
  /\ sender = "handshake" /\ ~stop
  /\ m \in net /\ m.kind = "ctrl" /\ m.sock = peer
  /\ sender' = "stream" /\ recv' = "running" /\ audio' = TRUE
  /\ net' \in {net \ {m}, (net \ {m}) \cup ToClient(peer)}
  /\ UNCHANGED <<relay, input, run, stop, tcp, service, route, spins, peer,
                 evrt_active, guest>>

\* As HandshakeFails, but without the deadline.
HandshakeWaits ==
  /\ sender = "handshake" /\ stop
  /\ sender' = "unwind"
  /\ UNCHANGED <<relay, input, run, stop, tcp, service, route, spins, peer,
                 evrt_active, recv, audio, net, guest>>

\* Stop, five seconds without a confirmation, or a failed send: the session
\* returns an error, which drops the receiving end of the frame channel, and
\* leaves the pipeline's stop flag alone.
HandshakeFails ==
  /\ sender = "handshake"
  /\ sender' = "unwind"
  /\ UNCHANGED <<relay, input, run, stop, tcp, service, route, spins, peer,
                 evrt_active, recv, audio, net, guest>>

\* The main loop sends frames, and a configuration every two seconds.
StreamSends ==
  /\ sender = "stream" /\ ~stop
  /\ net' = net \cup ToClient(peer)
  /\ UNCHANGED <<relay, host, guest>>

\* A packet of a frame could not be sent: the whole pipeline is stopped.
StreamSendFails ==
  /\ sender = "stream" /\ ~stop
  /\ stop' = TRUE
  /\ UNCHANGED <<relay, input, run, tcp, service, route, spins, sender, peer,
                 evrt_active, recv, audio, net, guest>>

\* As StreamEnds, but the loop also ends with the receive thread, as if the
\* channels to it were watched.
StreamEndsWithReceiver ==
  /\ sender = "stream" /\ (stop \/ recv # "running")
  /\ sender' = "unwind"
  /\ UNCHANGED <<relay, input, run, stop, tcp, service, route, spins, peer,
                 evrt_active, recv, audio, net, guest>>

\* The loop ends by the stop flag alone: the pipeline keeps an end of the
\* frame channel as long as it runs, so the channel is never disconnected.
StreamEnds ==
  /\ sender = "stream" /\ stop
  /\ sender' = "unwind"
  /\ UNCHANGED <<relay, input, run, stop, tcp, service, route, spins, peer,
                 evrt_active, recv, audio, net, guest>>

\* evrt_send_loop withdraws the address and returns.
SenderClears ==
  /\ sender = "unwind"
  /\ evrt_active' = 0
  /\ sender' = "stopped"
  /\ UNCHANGED <<relay, input, run, stop, tcp, service, route, spins, peer,
                 recv, audio, net, guest>>

-----------------------------------------------------------------------------
(* The host's receive thread.                                              *)

\* A control message is taken; one of another socket is ignored.
HostReceives(m) ==
  /\ recv = "running" /\ ~stop
  /\ m \in net /\ m.kind = "ctrl"
  /\ net' = net \ {m}
  /\ UNCHANGED <<relay, host, guest>>

\* As HostIdle, but only the thread ends.
HostIdleAlone ==
  /\ recv = "running" /\ ~stop
  /\ recv' = "ended"
  /\ UNCHANGED <<relay, input, run, stop, tcp, service, route, spins, sender,
                 peer, evrt_active, audio, net, guest>>

\* Four seconds without a packet of the peer: the pipeline is stopped.
HostIdle ==
  /\ recv = "running" /\ ~stop
  /\ recv' = "ended"
  /\ stop' = TRUE
  /\ UNCHANGED <<relay, input, run, tcp, service, route, spins, sender, peer,
                 evrt_active, audio, net, guest>>

\* An error of the socket ends the thread, and nothing else.
HostReceiveError ==
  /\ recv = "running" /\ ~stop
  /\ recv' = "failed"
  /\ UNCHANGED <<relay, input, run, stop, tcp, service, route, spins, sender,
                 peer, evrt_active, audio, net, guest>>

HostReceiveStops ==
  /\ recv = "running" /\ stop
  /\ recv' = "ended"
  /\ UNCHANGED <<relay, input, run, stop, tcp, service, route, spins, sender,
                 peer, evrt_active, audio, net, guest>>

-----------------------------------------------------------------------------
(* The threads that capture audio: the session's, and the mirror that the  *)
(* command loop starts if a game has no EVRT in time.  Both run            *)
(* run_audio_capture until stop, and nobody joins them.                    *)

\* Whether and when a game misses its deadline is a free choice.
MirrorStarts ==
  /\ run = "running" /\ ~audio
  /\ audio' = TRUE
  /\ UNCHANGED <<relay, input, run, stop, tcp, service, route, spins, sender,
                 peer, evrt_active, recv, net, guest>>

\* The device cannot be opened or does not start.
AudioFails ==
  /\ audio /\ ~stop
  /\ audio' = FALSE
  /\ UNCHANGED <<relay, input, run, stop, tcp, service, route, spins, sender,
                 peer, evrt_active, recv, net, guest>>

\* As AudioStops, but the thread watches its session instead of the flag.
AudioStopsWithSession ==
  /\ audio /\ sender = "unwind"
  /\ audio' = FALSE
  /\ UNCHANGED <<relay, input, run, stop, tcp, service, route, spins, sender,
                 peer, evrt_active, recv, net, guest>>

AudioStops ==
  /\ audio /\ stop
  /\ audio' = FALSE
  /\ UNCHANGED <<relay, input, run, stop, tcp, service, route, spins, sender,
                 peer, evrt_active, recv, net, guest>>

-----------------------------------------------------------------------------
(* The pipeline: encoder service, TCP sender, command loop; the input loop *)
(* of the relay session.                                                   *)

\* An iteration of encode_loop reads evrt_active once, at its start.
EncodeStarts ==
  /\ service /\ route = "none" /\ ~stop
  /\ route' = IF evrt_active # 0 THEN "evrt" ELSE "tcp"
  /\ UNCHANGED <<relay, input, run, stop, tcp, service, spins, sender, peer,
                 evrt_active, recv, audio, net, guest>>

\* The frame goes where the iteration began: into the channel of the EVRT
\* sender, which takes or refuses it for lack of room, to the TCP sender, or,
\* if nothing changed on the screen, nowhere.
EncodeSends ==
  /\ route = "evrt" => sender \in {"punch", "handshake", "stream", "drain"}
  /\ route = "tcp" => tcp
  /\ route # "none"
  /\ route' = "none"
  /\ spins' \in {spins} \cup {n \in {0} : route = "evrt"}
  /\ UNCHANGED <<relay, input, run, stop, tcp, service, sender, peer,
                 evrt_active, recv, audio, net, guest>>

\* As EncodeRefused, but the encoder never gives up.
EncodeRefusedOn ==
  /\ route = "evrt" /\ sender \in {"unwind", "stopped"}
  /\ route' = "none"
  /\ spins' = spins + 1
  /\ UNCHANGED <<relay, input, run, stop, tcp, service, sender, peer,
                 evrt_active, recv, audio, net, guest>>

\* The EVRT sender is gone although its address was still published: the
\* frame is lost, and after a few of them the encoder gives up.
EncodeRefused ==
  /\ route = "evrt" /\ sender \in {"unwind", "stopped"}
  /\ route' = "none"
  /\ spins' = spins + 1
  /\ \/ spins' < SpinLimit /\ UNCHANGED service
     \/ spins' >= SpinLimit /\ service' = FALSE
  /\ UNCHANGED <<relay, input, run, stop, tcp, sender, peer, evrt_active,
                 recv, audio, net, guest>>

\* The TCP sender is gone: the encoder ends.
EncodeDisconnected ==
  /\ route = "tcp" /\ ~tcp
  /\ route' = "none" /\ service' = FALSE
  /\ UNCHANGED <<relay, input, run, stop, tcp, spins, sender, peer,
                 evrt_active, recv, audio, net, guest>>

EncodeStops ==
  /\ service /\ route = "none" /\ stop
  /\ service' = FALSE
  /\ UNCHANGED <<relay, input, run, stop, tcp, route, spins, sender, peer,
                 evrt_active, recv, audio, net, guest>>

\* set_subscribed_displays waits for the service to end and starts another.
SubscribeDisplays ==
  /\ run = "running" /\ route = "none"
  /\ service' = TRUE /\ spins' = 0
  /\ UNCHANGED <<relay, input, run, stop, tcp, route, sender, peer,
                 evrt_active, recv, audio, net, guest>>

\* As TcpSendFails, but the flag is not raised on the way out.
TcpSendFailsAlone ==
  /\ tcp /\ ~stop
  /\ tcp' = FALSE
  /\ UNCHANGED <<relay, input, run, stop, service, route, spins, sender, peer,
                 evrt_active, recv, audio, net, guest>>

\* A write failed or timed out: the TCP sender stops the pipeline.
TcpSendFails ==
  /\ tcp /\ ~stop
  /\ tcp' = FALSE
  /\ stop' = TRUE
  /\ UNCHANGED <<relay, input, run, service, route, spins, sender, peer,
                 evrt_active, recv, audio, net, guest>>

TcpStops ==
  /\ tcp /\ stop
  /\ tcp' = FALSE
  /\ UNCHANGED <<relay, input, run, stop, service, route, spins, sender, peer,
                 evrt_active, recv, audio, net, guest>>

\* The command loop sees the stop flag, or the Stop command of an input loop
\* that ended, and goes on to join its threads.
RunStops ==
  /\ run = "running" /\ (stop \/ ~input)
  /\ run' = "joining"
  /\ stop' = TRUE
  /\ UNCHANGED <<relay, input, tcp, service, route, spins, sender, peer,
                 evrt_active, recv, audio, net, guest>>

\* Every service and worker thread has ended; the receive thread and those that
\* capture audio are not waited for.  A draining thread never ends: its channel
\* closes only when run itself lets go of the sending end.
RunReturns ==
  /\ run = "joining"
  /\ ~service /\ ~tcp /\ sender = "stopped"
  /\ run' = "returned"
  /\ UNCHANGED <<relay, input, stop, tcp, service, route, spins, sender, peer,
                 evrt_active, recv, audio, net, guest>>

\* The input loop ends with its pipeline, with the stream, or because the
\* owner of the device says so, and shuts the stream down.
InputEnds ==
  /\ input
  /\ input' = FALSE /\ relay' = FALSE
  /\ UNCHANGED <<run, stop, tcp, service, route, spins, sender, peer,
                 evrt_active, recv, audio, net, guest>>

-----------------------------------------------------------------------------
(* The client: the relay session and the EVRT thread it starts once.       *)

StartEvrt ==
  /\ session = "open" /\ client = "off" /\ HasSocket
  /\ client' = "wait" /\ attempt' = 1
  /\ net' = net \cup {Ctrl(1)}
  /\ UNCHANGED <<relay, host, session, evrt_stop, c_recv>>

\* No packet for 300 ms: RequestKeyFrame is sent again.
ClientRepeats ==
  /\ client = "wait" /\ ~evrt_stop
  /\ net' = net \cup {Ctrl(attempt)}
  /\ UNCHANGED <<relay, host, guest>>

\* The first configuration starts the receive and the decode thread.
ClientConfigured ==
  /\ client = "wait" /\ ~evrt_stop
  /\ Cfg(attempt) \in net
  /\ net' = net \ {Cfg(attempt)}
  /\ client' = "active"
  /\ c_recv' = TRUE
  /\ UNCHANGED <<relay, host, session, attempt, evrt_stop>>

\* Deadline, stop or a receive error: the next candidate gets a new socket,
\* one that cannot be opened is passed over, and after the last one, or with
\* stop raised, the relay alone is left.
ClientGivesUp ==
  /\ client = "wait"
  /\ \/ /\ ~evrt_stop
        /\ \E s \in (attempt + 1)..Candidates :
             /\ attempt' = s
             /\ net' = (net \ {Cfg(attempt)}) \cup {Ctrl(s)}
        /\ UNCHANGED client
     \/ /\ client' = "relay"
        /\ net' = net \ {Cfg(attempt)}
        /\ UNCHANGED attempt
  /\ UNCHANGED <<relay, host, session, evrt_stop, c_recv>>

\* Six seconds without a packet, or a receive error.
ClientReceiveFails ==
  /\ c_recv /\ ~evrt_stop
  /\ evrt_stop' = TRUE /\ c_recv' = FALSE
  /\ UNCHANGED <<relay, host, net, session, client, attempt>>

ClientReceiveStops ==
  /\ c_recv /\ evrt_stop
  /\ c_recv' = FALSE
  /\ UNCHANGED <<relay, host, net, session, client, attempt, evrt_stop>>

\* The feedback loop: every 70 or 150 ms a control message.
ClientFeedback ==
  /\ client = "active" /\ ~evrt_stop
  /\ net' = net \cup {Ctrl(attempt)}
  /\ UNCHANGED <<relay, host, guest>>

ClientLoopEnds ==
  /\ client = "active" /\ evrt_stop
  /\ client' = "joining"
  /\ UNCHANGED <<relay, host, net, session, attempt, evrt_stop, c_recv>>

ClientJoins ==
  /\ client = "joining" /\ ~c_recv
  /\ client' = "ended"
  /\ UNCHANGED <<relay, host, net, session, attempt, evrt_stop, c_recv>>

\* The user closes the session.
ClientCloses ==
  /\ session = "open"
  /\ session' = "closed" /\ evrt_stop' = TRUE
  /\ relay' = FALSE
  /\ UNCHANGED <<host, net, client, attempt, c_recv>>

\* As ClientReadFails, but the EVRT threads are forgotten.
ClientReadFailsOnly ==
  /\ session = "open" /\ ~relay
  /\ session' = "failed"
  /\ UNCHANGED <<relay, host, net, client, attempt, evrt_stop, c_recv>>

\* Reading the relay fails.
ClientReadFails ==
  /\ session = "open" /\ ~relay
  /\ session' = "failed" /\ evrt_stop' = TRUE
  /\ UNCHANGED <<relay, host, net, client, attempt, c_recv>>

-----------------------------------------------------------------------------
(* The networks.                                                           *)

NetLoses(m) ==
  /\ m \in net
  /\ net' = net \ {m}
  /\ UNCHANGED <<relay, host, guest>>

RelayBreaks ==
  /\ relay
  /\ relay' = FALSE
  /\ UNCHANGED <<host, net, guest>>

Sender ==
  \/ \E m \in net : SenderPunched(m) \/ HandshakeConfirmed(m)
  \/ SenderPunchTimeout \/ HandshakeRepeats \/ HandshakeFails
  \/ StreamSends \/ StreamSendFails \/ StreamEnds \/ SenderClears

HostReceiver ==
  \/ \E m \in net : HostReceives(m)
  \/ HostIdle \/ HostReceiveError \/ HostReceiveStops

Audio == MirrorStarts \/ AudioFails \/ AudioStops

Encoder ==
  \/ EncodeStarts \/ EncodeSends \/ EncodeRefused \/ EncodeDisconnected
  \/ EncodeStops

Pipeline ==
  \/ TcpSendFails \/ TcpStops
  \/ SubscribeDisplays \/ RunStops \/ RunReturns \/ InputEnds

EvrtClient ==
  \/ StartEvrt \/ ClientRepeats \/ ClientConfigured \/ ClientGivesUp
  \/ ClientReceiveFails \/ ClientReceiveStops
  \/ ClientFeedback \/ ClientLoopEnds \/ ClientJoins

RelaySession == ClientCloses \/ ClientReadFails

Network ==
  \/ \E m \in net : NetLoses(m)
  \/ RelayBreaks

Next ==
  \/ Sender \/ HostReceiver \/ Audio \/ Encoder \/ Pipeline
  \/ EvrtClient \/ RelaySession \/ Network

Spec == Init /\ [][Next]_vars

\* Nothing the peer sent is on its way, and it sends nothing more.
Silent ==
  /\ Ctrl(peer) \notin net
  /\ ~(client \in {"wait", "active"} /\ attempt = peer)

\* The steps of the threads on their way to an end.  A session has only so
\* many of each, so that none of them can starve another for ever and one
\* fairness condition stands for those of all the threads of a side.
HostGoesOn ==
  \/ SenderPunchTimeout \/ HandshakeFails \/ StreamEnds \/ SenderClears
  \/ TcpStops \/ RunStops \/ RunReturns
  \/ InputEnds /\ (run = "returned" \/ ~relay)

ClientGoesOn ==
  \/ ClientGivesUp \/ ClientLoopEnds \/ ClientJoins
  \/ ClientReceiveStops \/ ClientReadFails

\* A thread that can go on does.  Deadlines are absolute and pass: that of the
\* punch, of the handshake, and of the client's wait for a configuration.  The
\* host's idle timer fires if it stays silent.  A datagram is delivered or
\* lost some time.  The input loop looks at its pipeline and its stream every
\* second.  Nothing obliges a user to close, a candidate to be reachable, a
\* write or a socket to fail, a device to fail, or a screen to change.
Fairness ==
  /\ WF_vars(HostGoesOn)
  /\ WF_vars((HostIdle /\ Silent) \/ HostReceiveStops \/ AudioStops)
  /\ WF_vars(Encoder)
  /\ WF_vars(ClientGoesOn)
  /\ \A s \in Socket : WF_vars(NetLoses(Ctrl(s)))

FairSpec == Spec /\ Fairness

-----------------------------------------------------------------------------
(* Properties.                                                             *)

Flags ==
  /\ relay \in BOOLEAN /\ input \in BOOLEAN /\ stop \in BOOLEAN
  /\ tcp \in BOOLEAN /\ service \in BOOLEAN /\ audio \in BOOLEAN
  /\ evrt_stop \in BOOLEAN /\ c_recv \in BOOLEAN

\* Every variable has its type.
TypeOK ==
  /\ Flags
  /\ run \in {"running", "joining", "returned"}
  /\ route \in {"none", "evrt", "tcp"}
  /\ spins \in 0..SpinLimit
  /\ sender \in {"drain", "punch", "handshake", "stream", "unwind", "stopped"}
  /\ {peer, evrt_active, attempt} \subseteq 0..Candidates
  /\ recv \in {"none", "running", "failed", "ended"}
  /\ net \subseteq Packet
  /\ session \in {"open", "closed", "failed"}
  /\ client \in {"off", "wait", "active", "relay", "joining", "ended"}

\* A client that is connected is connected from the socket the host fixed as
\* its peer, whatever sockets it used and gave up before and however late
\* their packets come (evrt_send_loop, try_evrt_candidates).
ClientIsPeer == client \in {"active", "joining", "ended"} => attempt = peer

\* A session that has streamed takes the pipeline with it: after it there is
\* no falling back to the relay, only after a handshake that failed.
StreamEndsPipeline ==
  recv # "none" /\ sender \in {"unwind", "stopped"} => stop

\* The encoder ends alone, in a pipeline that runs on, only if it was refused
\* by a sender whose handshake had failed and that had not yet withdrawn the
\* peer's address: never because of a session that streamed.
EncoderEndsAlone ==
  ~service /\ ~stop =>
    spins = SpinLimit /\ recv = "none" /\ sender \in {"unwind", "stopped"}

\* The client's EVRT threads end with its relay session (run_session: "so that
\* the threads do not keep sending UDP to the host").
ClientTeardown == session # "open" ~> client \in {"off", "relay", "ended"}

\* A pipeline that is told to stop returns, unless it has no EVRT socket.  It
\* does not wait for the session's receive thread nor for the threads that
\* capture audio, which may outlive it ("run() only returns after capture
\* threads are fully stopped" holds of those of the screen); but they end too,
\* and nothing of the pipeline runs again.  Until then they keep the socket, and
\* with it a fixed port, from the next session.
Over ==
  /\ run = "returned"
  /\ ~service /\ ~tcp /\ sender = "stopped" /\ evrt_active = 0
  /\ recv # "running" /\ ~audio

StopReturns == stop /\ HasSocket ~> []Over

\* The host notices that a peer is gone and stops sending to it, unless its
\* receive thread ended by an error.
PeerLossNoticed ==
  evrt_active # 0 /\ client \in {"relay", "ended"} ~>
    evrt_active = 0 \/ recv = "failed"

\* A client left with the relay gets its video there, unless the session ends
\* or one of the two threads above died.
VideoFallsBack ==
  client = "relay" /\ HasSocket ~>
    route = "tcp" \/ stop \/ ~service \/ recv = "failed"

\* Of the three that raise stop, the TCP sender has ended by then and the
\* command loop has left its loop, so what is left is the EVRT session.
StoppedByEvrt == stop /\ tcp /\ run = "running"

\* If EVRT does not come up "the client stays on TCP relay"
\* (relay_session_inner): the host does not end the session over it.
FallbackKeepsRelay ==
  ~(client = "relay" /\ session = "open" /\ StoppedByEvrt)

\* A pipeline that is told to stop returns, with or without an EVRT socket.
StopAlwaysReturns == stop ~> run = "returned"
=============================================================================
