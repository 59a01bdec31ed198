---------------------------- MODULE MCReassembler ----------------------------
(* Small streams for the model checker: the datagrams a run lets arrive.    *)
EXTENDS Reassembler

\* The packets of frames that are split into the given number of packets.
Datagrams(ids, count, size) ==
  {[id |-> id, index |-> i, count |-> count, size |-> size]
     : id \in ids, i \in 0..(count - 1)}

\* The parity packets of a frame of the given number of packets, in groups of
\* at most size packets (build_fec_packets).
ParityOf(id, count, size) ==
  {[id |-> id, base |-> b,
    group |-> IF count - b < size THEN count - b ELSE size]
     : b \in {i \in 0..(count - 1) : i % size = 0}}

\* Frames of one packet, and one of three in two parity groups, a frame that is
\* also announced with a different packet count, a header that makes no sense,
\* and a packet that is larger than the whole budget.
MixedIds == 1..4
MixedPackets ==
  Datagrams({2}, 3, 1) \cup Datagrams({1, 3}, 1, 2) \cup Datagrams({4}, 1, 1)
    \cup {[id |-> 1, index |-> 0, count |-> 2, size |-> 1],
          [id |-> 4, index |-> 0, count |-> 4, size |-> 1],
          [id |-> 4, index |-> 0, count |-> 1, size |-> 9]}
MixedParity == ParityOf(2, 3, 2)

\* Frames of one packet, the last one of two.
Ids5 == 1..5
Stream5 == Datagrams(1..4, 1, 1) \cup Datagrams({5}, 2, 1)
NoParity == {}
=============================================================================
