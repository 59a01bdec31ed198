------------------------------ MODULE LossyFifo ------------------------------
(***************************************************************************)
(* What the receiver's frame queue promises its two threads, without its   *)
(* buffers: frames are offered under increasing numbers, the queue may     *)
(* lose any of those it holds at any time, and it hands out the oldest     *)
(* frame it still holds.  Nothing is handed out twice, out of order, or    *)
(* after the queue is closed.  The module FrameQueue implements it.        *)
(***************************************************************************)
EXTENDS Naturals

VARIABLES
  sent,      \* number of frames offered so far
  pending,   \* the numbers of the frames the queue still holds
  last,      \* the number of the frame handed out last, 0 before the first
  open       \* FALSE once the queue is closed

avars == <<sent, pending, last, open>>

AInit ==
  /\ sent = 0
  /\ pending = {}
  /\ last = 0
  /\ open = TRUE

\* A frame arrives; it, and any frame held, may be lost at once.
Offer ==
  /\ open
  /\ sent' = sent + 1
  /\ pending' \in SUBSET (pending \cup {sent + 1})
  /\ UNCHANGED <<last, open>>

\* The queue gives frames up.
Lose ==
  /\ pending' \in SUBSET pending
  /\ UNCHANGED <<sent, last, open>>

\* The oldest frame held is handed out.
Take ==
  /\ open
  /\ \E n \in pending :
       /\ \A m \in pending : n <= m
       /\ last' = n
       /\ pending' = pending \ {n}
  /\ UNCHANGED <<sent, open>>

\* Closing is final and empties the queue.
Close ==
  /\ open' = FALSE
  /\ pending' = {}
  /\ UNCHANGED <<sent, last>>

ANext == Offer \/ Lose \/ Take \/ Close

ASpec == AInit /\ [][ANext]_avars
==============================================================================
