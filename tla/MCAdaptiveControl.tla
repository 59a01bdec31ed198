-------------------------- MODULE MCAdaptiveControl --------------------------
(* Measurements for the model checker, on both sides of the thresholds.     *)
EXTENDS AdaptiveControl

Sample(a, d, q, n, f) == [arrival |-> a, decode |-> d, queued |-> q, drops |-> n, fps |-> f]

\* A client that keeps up, with gaps between the packets; one that has a
\* frame waiting as well; one whose decoder is slow (not slow for the smooth
\* mode), very slow, or behind.
MixedSamples ==
  {Sample(40, 5, 0, 0, 60), Sample(40, 5, 1, 0, 60), Sample(5, 25, 0, 0, 60),
   Sample(5, 50, 3, 4, 60), Sample(5, 5, 1, 0, 20)}

CalmOrCritical == {Sample(5, 5, 0, 0, 60), Sample(5, 50, 3, 4, 60)}
=============================================================================
