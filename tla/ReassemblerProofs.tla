-------------------------- MODULE ReassemblerProofs --------------------------
(***************************************************************************)
(* What holds of the reassembler for every stream, window and budget.      *)
(*                                                                         *)
(* The methods of ChannelReassembler are functions of its state, so each   *)
(* has its lemma: most of them only take assemblies away (Reduces), and    *)
(* whatever is said of each assembly survives that.  Sound is the          *)
(* invariant of a single state; the rest of the inductive invariant        *)
(* relates it to the frames handed on.                                     *)
(***************************************************************************)
EXTENDS Reassembler, FoldTheorems, TLAPS

-----------------------------------------------------------------------------
(* The invariant.                                                          *)

\* The fields of the reassembler and their types.
Fields(r) ==
  r = [frames |-> r.frames, pending_fec |-> r.pending_fec, seen |-> r.seen,
       completed |-> r.completed, waiting |-> r.waiting, dropped |-> r.dropped,
       last_dropped |-> r.last_dropped, buffered |-> r.buffered]

Shaped(r) ==
  /\ Fields(r)
  /\ DOMAIN r.frames \in SUBSET FrameIds /\ IsFiniteSet(DOMAIN r.frames)
  /\ \A id \in DOMAIN r.frames : r.frames[id] \in Assembly
  /\ DOMAIN r.pending_fec \in SUBSET FrameIds
  /\ \A id \in DOMAIN r.pending_fec : r.pending_fec[id] \in Seq(Parity)
  /\ r.seen \in Nat /\ r.completed \in Nat /\ r.waiting \in BOOLEAN
  /\ r.dropped \in Nat /\ r.last_dropped \in Nat /\ r.buffered \in Nat

\* The memory counter is right, and within the budget.
Exact(r) ==
  r.buffered = BytesOf(r, DOMAIN r.frames) /\ r.buffered <= MaxBuffer

InWindow(r) ==
  /\ \A id \in DOMAIN r.frames : id <= r.seen /\ r.seen <= id + Window
  /\ r.completed <= r.seen

\* The indices of a frame's packets, of those that announce count packets, in
\* a set of packets.
ArrivedOf(id, count, G) ==
  {p.index : p \in {x \in G \cap Packets : x.id = id /\ x.count = count}}

\* The packet is the only one of its parity group that did not arrive.
Repairable(k, f, A) == k \in Group(f) /\ \A j \in Group(f) : j = k \/ j \in A

\* An assembly holds packets that arrived and repaired ones, each of which made
\* its parity group full.
Filled(a, id, G) ==
  LET A == ArrivedOf(id, a.count, G)
  IN  \A k \in a.parts :
        \/ k \in A
        \/ \E f \in G \cap Parity :
             f.id = id /\ Group(f) \subseteq a.parts /\ Repairable(k, f, A)

\* An assembly is of the stream.
Assembled(a, id, G, K) ==
  /\ \E p \in Packets : p.count = a.count
  /\ a.parts \subseteq 0..(a.count - 1)
  /\ a.key = (id \in K)
  /\ Filled(a, id, G)

Contents(r, G, K) ==
  /\ \A id \in DOMAIN r.frames : Assembled(r.frames[id], id, G, K)
  /\ \A id \in DOMAIN r.pending_fec : \A n \in 1..Len(r.pending_fec[id]) :
       r.pending_fec[id][n] \in G \cap Parity /\ r.pending_fec[id][n].id = id

Sound(r, G, K) == Shaped(r) /\ Exact(r) /\ InWindow(r) /\ Contents(r, G, K)

\* What remains to be said of the frames handed on: they are whole, in order,
\* and if the last completed frame is not the last one handed on, then the
\* reassembler waits for a key frame or has seen something of one.
WholeIn(id, G) ==
  \E c \in {p.count : p \in Packets} :
    LET A == ArrivedOf(id, c, G)
    IN  \A k \in (0..(c - 1)) \ A :
          \E f \in G \cap Parity : f.id = id /\ Repairable(k, f, A)

KeySeenAfter(id, G, K) == \E p \in G : p.id \in K /\ p.id > id

Handed(e, r, G, K) ==
  /\ e \in Seq(FrameIds)
  /\ \A i, j \in DOMAIN e : i < j => e[i] < e[j]
  /\ \A i \in DOMAIN e : e[i] <= r.completed
  /\ \A i \in DOMAIN e : WholeIn(e[i], G)
  /\ \A i \in DOMAIN e :
       (i > 1 /\ e[i] \notin K /\ e[i] # e[i - 1] + 1) => KeySeenAfter(e[i - 1], G, K)
  /\ e # <<>> => \/ r.completed = e[Len(e)]
                 \/ r.waiting
                 \/ KeySeenAfter(e[Len(e)], G, K)

IndInv ==
  /\ keys \in SUBSET FrameIds
  /\ got \in SUBSET (Packets \cup Parity)
  /\ Sound(re, got, keys)
  /\ Handed(emitted, re, got, keys)

LEMMA IdsAreNumbers == \A id \in FrameIds : id \in Nat /\ id # 0
BY ReassemblerAssumption

-----------------------------------------------------------------------------
(* The bytes of a set of frames.                                           *)

AnyOf == [s \in SUBSET FrameIds |-> CHOOSE x \in s : TRUE]

SizesIn(r, S) == [x \in S |-> r.frames[x].bytes]

Summable(r, S) ==
  S \in SUBSET FrameIds /\ IsFiniteSet(S) /\ \A x \in S : r.frames[x].bytes \in Nat

LEMMA AnyOfChooses ==
  ASSUME NEW S \in SUBSET FrameIds
  PROVE  Chooses(AnyOf, S)
BY DEF AnyOf, Chooses

\* The fold of the model is a total.
LEMMA BytesOfIsTotal ==
  ASSUME NEW r, NEW S, Summable(r, S)
  PROVE  /\ BytesOf(r, S) = Total(AnyOf, SizesIn(r, S), S)
         /\ Numbers(SizesIn(r, S), S)
         /\ Chooses(AnyOf, S)
         /\ IsFiniteSet(S)
<1> DEFINE c == AnyOf
           f == SizesIn(r, S)
<1>1. S \in SUBSET FrameIds /\ IsFiniteSet(S) /\ Chooses(c, S)
  BY AnyOfChooses DEF Summable
<1>2. Numbers(f, S)
  BY DEF Numbers, SizesIn, Summable
<1> DEFINE P(g) == g = [s \in SUBSET S |->
                    IF s = {} THEN 0
                    ELSE r.frames[CHOOSE x \in s : TRUE].bytes + g[s \ {CHOOSE x \in s : TRUE}]]
<1>3. BytesOf(r, S) = (CHOOSE g : P(g))[S]
  BY DEF BytesOf, MapThenSumSet, MapThenFoldSet
<1>4. ASSUME NEW g PROVE P(g) <=> IsSum(g, c, f, S)
  <2>1. ASSUME NEW s \in SUBSET S, s # {}
        PROVE  c[s] = (CHOOSE x \in s : TRUE) /\ f[c[s]] = r.frames[CHOOSE x \in s : TRUE].bytes
    <3>1. c[s] = (CHOOSE x \in s : TRUE)
      BY <1>1 DEF AnyOf
    <3>2. c[s] \in S
      BY <1>1, <2>1 DEF Chooses
    <3> QED
      BY <3>1, <3>2 DEF SizesIn
  <2> HIDE DEF c, f
  <2>2. [s \in SUBSET S |->
           IF s = {} THEN 0
           ELSE r.frames[CHOOSE x \in s : TRUE].bytes + g[s \ {CHOOSE x \in s : TRUE}]]
          = [s \in SUBSET S |-> IF s = {} THEN 0 ELSE f[c[s]] + g[s \ {c[s]}]]
    BY <2>1, ZenonT(60)
  <2> QED
    BY <2>2 DEF IsSum
<1> HIDE DEF c, f
<1>5. \E g : P(g)
  <2>1. PICK g : IsSum(g, c, f, S)
    BY <1>1, <1>2, FoldIsTotal
  <2> HIDE DEF P
  <2> QED
    BY <1>4, <2>1
<1>6. P(CHOOSE g : P(g))
  BY <1>5
<1> DEFINE h == CHOOSE g : P(g)
<1>7. BytesOf(r, S) = h[S]
  BY <1>3
<1> HIDE DEF h, P
<1>8. IsSum(h, c, f, S)
  BY <1>4, <1>6 DEF h
<1>9. h[S] = Total(c, f, S)
  BY <1>1, <1>2, <1>8, FoldIsTotal
<1> QED
  BY <1>1, <1>2, <1>7, <1>9 DEF c, f

LEMMA BytesOfNat ==
  ASSUME NEW r, NEW S, Summable(r, S)
  PROVE  BytesOf(r, S) \in Nat
BY BytesOfIsTotal, TotalNat

LEMMA BytesOfNone ==
  ASSUME NEW r
  PROVE  BytesOf(r, {}) = 0
<1>1. Summable(r, {})
  BY FS_EmptySet DEF Summable
<1> QED
  BY <1>1, BytesOfIsTotal, TotalStep

\* Only the sizes of the frames in the set count.
LEMMA BytesOfAgree ==
  ASSUME NEW r, NEW q, NEW S, Summable(r, S),
         \A x \in S : q.frames[x].bytes = r.frames[x].bytes
  PROVE  BytesOf(q, S) = BytesOf(r, S) /\ Summable(q, S)
<1>1. Summable(q, S)
  BY DEF Summable
<1>2. \A x \in S : SizesIn(q, S)[x] = SizesIn(r, S)[x]
  BY DEF SizesIn
<1>3. Chooses(AnyOf, S) /\ IsFiniteSet(S)
  BY BytesOfIsTotal
<1>4. Total(AnyOf, SizesIn(q, S), S) = Total(AnyOf, SizesIn(r, S), S)
  BY <1>2, <1>3, TotalAgree
<1> QED
  BY <1>1, <1>4, BytesOfIsTotal

LEMMA SummablePart ==
  ASSUME NEW r, NEW S, Summable(r, S), NEW U \in SUBSET S
  PROVE  Summable(r, U)
BY FS_Subset DEF Summable

\* A set of frames and the others together hold all the bytes.
LEMMA BytesOfSplit ==
  ASSUME NEW r, NEW S, Summable(r, S), NEW U \in SUBSET S
  PROVE  BytesOf(r, S) = BytesOf(r, U) + BytesOf(r, S \ U)
<1> DEFINE f == SizesIn(r, S)
<1>1. /\ Chooses(AnyOf, S) /\ IsFiniteSet(S) /\ Numbers(f, S)
      /\ BytesOf(r, S) = Total(AnyOf, f, S)
  BY BytesOfIsTotal
<1>2. ASSUME NEW V \in SUBSET S
      PROVE  BytesOf(r, V) = Total(AnyOf, f, V)
  <2>1. Summable(r, V)
    BY SummablePart
  <2>2. \A x \in V : SizesIn(r, V)[x] = f[x]
    BY DEF SizesIn
  <2>3. Chooses(AnyOf, V) /\ IsFiniteSet(V) /\ BytesOf(r, V) = Total(AnyOf, SizesIn(r, V), V)
    BY <2>1, BytesOfIsTotal
  <2> HIDE DEF f
  <2> QED
    BY <2>2, <2>3, TotalAgree
<1> HIDE DEF f
<1>3. Total(AnyOf, f, S) = Total(AnyOf, f, U) + Total(AnyOf, f, S \ U)
  BY <1>1, TotalSplit
<1> QED
  BY <1>1, <1>2, <1>3

LEMMA BytesOfOne ==
  ASSUME NEW r, NEW x, Summable(r, {x})
  PROVE  BytesOf(r, {x}) = r.frames[x].bytes
<1> DEFINE S == {x}
           f == SizesIn(r, S)
<1>1. Chooses(AnyOf, S) /\ IsFiniteSet(S) /\ BytesOf(r, S) = Total(AnyOf, f, S)
      /\ Numbers(f, S)
  BY BytesOfIsTotal
<1>2. x \in S /\ S \ {x} = {} /\ f[x] = r.frames[x].bytes /\ f[x] \in Nat
  BY DEF SizesIn, Summable
<1> HIDE DEF S, f
<1>3. Total(AnyOf, f, S) = f[x] + Total(AnyOf, f, S \ {x})
  BY <1>1, <1>2, TotalRemove
<1>4. Total(AnyOf, f, {}) = 0
  BY <1>1, FS_EmptySet, TotalStep DEF Chooses
<1> QED
  BY <1>1, <1>2, <1>3, <1>4 DEF S

-----------------------------------------------------------------------------
(* Methods that only take away.                                            *)

\* q is r with some assemblies and parity packets gone, and maybe waiting.
Reduces(q, r) ==
  /\ Shaped(q) /\ Exact(q)
  /\ DOMAIN q.frames \subseteq DOMAIN r.frames
  /\ \A id \in DOMAIN q.frames : q.frames[id] = r.frames[id]
  /\ DOMAIN q.pending_fec \subseteq DOMAIN r.pending_fec
  /\ \A id \in DOMAIN q.pending_fec : q.pending_fec[id] = r.pending_fec[id]
  /\ q.seen = r.seen /\ q.completed = r.completed
  /\ r.waiting => q.waiting

LEMMA ReducesSelf ==
  ASSUME NEW r, Shaped(r), Exact(r)
  PROVE  Reduces(r, r)
BY DEF Reduces

LEMMA ReducesTwice ==
  ASSUME NEW r, NEW q, NEW s, Reduces(q, r), Reduces(s, q)
  PROVE  Reduces(s, r)
BY DEF Reduces

\* What is said of each assembly survives.
LEMMA ReducesSound ==
  ASSUME NEW r, NEW q, NEW G, NEW K, Sound(r, G, K), Reduces(q, r)
  PROVE  Sound(q, G, K)
<1>1. Shaped(q) /\ Exact(q)
  BY DEF Reduces
<1>2. InWindow(q)
  BY DEF Reduces, Sound, InWindow
<1>3. Contents(q, G, K)
  BY DEF Reduces, Sound, Contents
<1> QED
  BY <1>1, <1>2, <1>3 DEF Sound

LEMMA ShapedSums ==
  ASSUME NEW r, Shaped(r)
  PROVE  Summable(r, DOMAIN r.frames)
BY DEF Shaped, Summable, Assembly

\* The counter stays right when the assemblies stay.
LEMMA ExactKept ==
  ASSUME NEW r, NEW q, Shaped(r), Exact(r), q.frames = r.frames, q.buffered = r.buffered
  PROVE  Exact(q)
<1>1. Summable(r, DOMAIN r.frames)
  BY ShapedSums
<1>2. BytesOf(q, DOMAIN r.frames) = BytesOf(r, DOMAIN r.frames)
  BY <1>1, BytesOfAgree
<1> QED
  BY <1>2 DEF Exact

LEMMA CalledReduces ==
  ASSUME NEW r, Shaped(r), Exact(r)
  PROVE  Reduces(Called(r), r) /\ Called(r).waiting = r.waiting
<1> DEFINE q == Called(r)
<1>1. /\ q.frames = r.frames /\ q.pending_fec = r.pending_fec /\ q.seen = r.seen
      /\ q.completed = r.completed /\ q.waiting = r.waiting /\ q.dropped = 0
      /\ q.last_dropped = r.last_dropped /\ q.buffered = r.buffered /\ Fields(q)
  BY DEF Shaped, Fields, Called
<1> HIDE DEF q
<1>2. Shaped(q)
  BY <1>1 DEF Shaped
<1>3. Exact(q)
  BY <1>1, ExactKept
<1>4. Reduces(q, r)
  BY <1>1, <1>2, <1>3 DEF Reduces
<1> QED
  BY <1>1, <1>4 DEF q

\* The counters of lost frames change nothing else.
Counted(r, id, n) == [r EXCEPT !.last_dropped = id, !.dropped = n]

LEMMA CountReduces ==
  ASSUME NEW r, Shaped(r), Exact(r), NEW id \in Nat, NEW n \in Nat
  PROVE  /\ Reduces(Counted(r, id, n), r)
         /\ Counted(r, id, n).frames = r.frames
         /\ Counted(r, id, n).waiting = r.waiting
<1> DEFINE q == Counted(r, id, n)
<1>1. /\ q.frames = r.frames /\ q.pending_fec = r.pending_fec /\ q.seen = r.seen
      /\ q.completed = r.completed /\ q.waiting = r.waiting /\ q.dropped = n
      /\ q.last_dropped = id /\ q.buffered = r.buffered /\ Fields(q)
  <2>1. Fields(r)
    BY DEF Shaped
  <2>2. q = [r EXCEPT !.last_dropped = id, !.dropped = n]
    BY DEF Counted
  <2> HIDE DEF q
  <2>3. q = [frames |-> r.frames, pending_fec |-> r.pending_fec, seen |-> r.seen,
             completed |-> r.completed, waiting |-> r.waiting, dropped |-> n,
             last_dropped |-> id, buffered |-> r.buffered]
    BY <2>1, <2>2 DEF Fields
  <2> QED
    BY <2>3 DEF Fields
<1> HIDE DEF q
<1>2. Shaped(q)
  BY <1>1 DEF Shaped
<1>3. Exact(q)
  BY <1>1, ExactKept
<1>4. Reduces(q, r)
  BY <1>1, <1>2, <1>3 DEF Reduces
<1> QED
  BY <1>1, <1>4 DEF q

LEMMA MarkReduces ==
  ASSUME NEW r, Shaped(r), Exact(r), NEW id \in Nat
  PROVE  /\ Reduces(MarkFrameDropped(r, id), r)
         /\ MarkFrameDropped(r, id).frames = r.frames
         /\ MarkFrameDropped(r, id).waiting = r.waiting
<1> DEFINE n == IF r.last_dropped = id THEN r.dropped ELSE r.dropped + 1
<1>1. n \in Nat /\ MarkFrameDropped(r, id) = Counted(r, id, n)
  BY DEF Shaped, MarkFrameDropped, Counted
<1> HIDE DEF n
<1> QED
  BY <1>1, CountReduces

LEMMA WaitReduces ==
  ASSUME NEW r, Shaped(r), Exact(r)
  PROVE  Reduces(StartWaiting(r), r) /\ StartWaiting(r).waiting
<1> DEFINE q == StartWaiting(r)
           w == TRUE
<1>1. /\ q.frames = r.frames /\ q.pending_fec = r.pending_fec /\ q.seen = r.seen
      /\ q.completed = r.completed /\ q.waiting = w /\ q.dropped = r.dropped
      /\ q.last_dropped = r.last_dropped /\ q.buffered = r.buffered /\ Fields(q)
  <2>1. Fields(r)
    BY DEF Shaped
  <2>2. q = [r EXCEPT !.waiting = w]
    BY DEF StartWaiting
  <2> HIDE DEF q, w
  <2>3. q = [frames |-> r.frames, pending_fec |-> r.pending_fec, seen |-> r.seen,
             completed |-> r.completed, waiting |-> w, dropped |-> r.dropped,
             last_dropped |-> r.last_dropped, buffered |-> r.buffered]
    BY <2>1, <2>2 DEF Fields
  <2> QED
    BY <2>3 DEF Fields
<1> HIDE DEF q
<1>2. Shaped(q)
  BY <1>1 DEF Shaped
<1>3. Exact(q)
  BY <1>1, ExactKept
<1>4. Reduces(q, r)
  BY <1>1, <1>2, <1>3 DEF Reduces
<1> QED
  BY <1>1, <1>4 DEF q

LEMMA WaitUnlessKeyReduces ==
  ASSUME NEW r, Shaped(r), Exact(r), NEW key
  PROVE  Reduces(WaitUnlessKey(r, key), r)
BY WaitReduces, ReducesSelf DEF WaitUnlessKey

\* The memory of a forgotten frame is given back, and no more: the saturating
\* subtraction never saturates.
LEMMA ForgetReduces ==
  ASSUME NEW r, Shaped(r), Exact(r), NEW ids
  PROVE  /\ Reduces(Forget(r, ids), r)
         /\ DOMAIN Forget(r, ids).frames = DOMAIN r.frames \ ids
         /\ DOMAIN Forget(r, ids).pending_fec = DOMAIN r.pending_fec \ ids
         /\ Forget(r, ids).dropped = r.dropped
         /\ Forget(r, ids).waiting = r.waiting
<1> DEFINE q == Forget(r, ids)
           D == DOMAIN r.frames
           U == ids \cap D
<1>1. /\ q.frames = [x \in D \ ids |-> r.frames[x]]
      /\ q.pending_fec = [x \in DOMAIN r.pending_fec \ ids |-> r.pending_fec[x]]
      /\ q.buffered = SaturatingSub(r.buffered, BytesOf(r, U))
      /\ q.seen = r.seen /\ q.completed = r.completed /\ q.waiting = r.waiting
      /\ q.dropped = r.dropped /\ q.last_dropped = r.last_dropped /\ Fields(q)
  <2> DEFINE a == [x \in D \ ids |-> r.frames[x]]
             b == [x \in DOMAIN r.pending_fec \ ids |-> r.pending_fec[x]]
             c == SaturatingSub(r.buffered, BytesOf(r, U))
  <2>1. Fields(r)
    BY DEF Shaped
  <2>2. q = [r EXCEPT !.frames = a, !.pending_fec = b, !.buffered = c]
    BY DEF Forget, Restrict
  <2> HIDE DEF q, a, b, c
  <2>3. q = [frames |-> a, pending_fec |-> b, seen |-> r.seen,
             completed |-> r.completed, waiting |-> r.waiting, dropped |-> r.dropped,
             last_dropped |-> r.last_dropped, buffered |-> c]
    BY <2>1, <2>2 DEF Fields
  <2> QED
    BY <2>3 DEF Fields, a, b, c
<1>2. Summable(r, D)
  BY ShapedSums
<1>3. U \in SUBSET D /\ D \ U = D \ ids /\ D \ ids \in SUBSET D
  OBVIOUS
<1> HIDE DEF q, D, U
<1>4. BytesOf(r, D) = BytesOf(r, U) + BytesOf(r, D \ ids)
  BY <1>2, <1>3, BytesOfSplit
<1>5. /\ Summable(r, U) /\ Summable(r, D \ ids)
      /\ BytesOf(r, U) \in Nat /\ BytesOf(r, D \ ids) \in Nat
  BY <1>2, <1>3, SummablePart, BytesOfNat
<1>6. BytesOf(q, D \ ids) = BytesOf(r, D \ ids)
  <2>1. \A x \in D \ ids : q.frames[x].bytes = r.frames[x].bytes
    BY <1>1
  <2> QED
    BY <1>5, <2>1, BytesOfAgree
<1>7. r.buffered = BytesOf(r, D) /\ r.buffered <= MaxBuffer
  BY DEF Exact, D
<1>8. q.buffered = BytesOf(q, D \ ids) /\ q.buffered \in Nat /\ q.buffered <= MaxBuffer
  <2>1. q.buffered = BytesOf(r, D \ ids)
    BY <1>1, <1>4, <1>5, <1>7 DEF SaturatingSub
  <2>2. MaxBuffer \in Nat
    BY ReassemblerAssumption
  <2> QED
    BY <1>4, <1>5, <1>6, <1>7, <2>1, <2>2
<1>9. DOMAIN q.frames = D \ ids /\ DOMAIN q.pending_fec = DOMAIN r.pending_fec \ ids
  BY <1>1
<1>10. Exact(q)
  BY <1>8, <1>9 DEF Exact
<1>11. Shaped(q)
  <2>1. IsFiniteSet(D \ ids) /\ D \ ids \in SUBSET FrameIds
    BY <1>5 DEF Summable
  <2>2. \A x \in D \ ids : q.frames[x] \in Assembly
    BY <1>1 DEF Shaped, D
  <2>3. /\ DOMAIN q.pending_fec \in SUBSET FrameIds
        /\ \A x \in DOMAIN q.pending_fec : q.pending_fec[x] \in Seq(Parity)
    BY <1>1 DEF Shaped
  <2>4. /\ r.seen \in Nat /\ r.completed \in Nat /\ r.waiting \in BOOLEAN
        /\ r.dropped \in Nat /\ r.last_dropped \in Nat
    BY DEF Shaped
  <2> QED
    BY <1>1, <1>8, <1>9, <2>1, <2>2, <2>3, <2>4 DEF Shaped
<1>12. Reduces(q, r)
  BY <1>1, <1>9, <1>10, <1>11 DEF Reduces, D
<1> QED
  BY <1>1, <1>9, <1>12 DEF q, D

LEMMA DropFrameReduces ==
  ASSUME NEW r, Shaped(r), Exact(r), NEW id \in Nat
  PROVE  /\ Reduces(DropFrame(r, id), r)
         /\ DropFrame(r, id).waiting = r.waiting
         /\ DOMAIN DropFrame(r, id).frames = DOMAIN r.frames \ {id}
<1> DEFINE q == Forget(r, {id})
<1>1. /\ Reduces(q, r) /\ q.waiting = r.waiting
      /\ DOMAIN q.frames = DOMAIN r.frames \ {id}
  BY ForgetReduces
<1>2. Shaped(q) /\ Exact(q)
  BY <1>1 DEF Reduces
<1>3. DropFrame(r, id) = IF id \in DOMAIN r.frames THEN MarkFrameDropped(q, id) ELSE q
  BY DEF DropFrame
<1> HIDE DEF q
<1>4. /\ Reduces(MarkFrameDropped(q, id), q) /\ MarkFrameDropped(q, id).frames = q.frames
      /\ MarkFrameDropped(q, id).waiting = q.waiting
  BY <1>2, MarkReduces
<1>5. Reduces(MarkFrameDropped(q, id), r)
  BY <1>1, <1>4, ReducesTwice
<1> QED
  BY <1>1, <1>3, <1>4, <1>5

\* A set of frames is forgotten and counted, with some frame marked last.
Dropped(r, ids, last, one) ==
  [Forget(r, ids) EXCEPT !.last_dropped = last, !.dropped = @ + Cardinality(ids) - one]

LEMMA ForgetCounts ==
  ASSUME NEW r, Shaped(r), Exact(r), NEW ids \in SUBSET DOMAIN r.frames,
         NEW last \in ids, NEW one, one = 0 \/ one = 1
  PROVE  /\ Reduces(Dropped(r, ids, last, one), r)
         /\ Dropped(r, ids, last, one).waiting = r.waiting
         /\ DOMAIN Dropped(r, ids, last, one).frames = DOMAIN r.frames \ ids
<1> DEFINE g == Forget(r, ids)
           n == g.dropped + Cardinality(ids) - one
<1>1. /\ Reduces(g, r) /\ g.waiting = r.waiting
      /\ DOMAIN g.frames = DOMAIN r.frames \ ids
  BY ForgetReduces
<1>2. Shaped(g) /\ Exact(g)
  BY <1>1 DEF Reduces
<1>3. last \in Nat /\ IsFiniteSet(ids)
  BY IdsAreNumbers, FS_Subset DEF Shaped
<1>4. Cardinality(ids) \in Nat /\ Cardinality(ids) # 0
  BY <1>3, FS_EmptySet, FS_CardinalityType
<1>5. n \in Nat
  BY <1>2, <1>4 DEF Shaped
<1> DEFINE q == Counted(g, last, n)
<1> HIDE DEF g, n
<1>6. Reduces(q, g) /\ q.frames = g.frames /\ q.waiting = g.waiting
  BY <1>2, <1>3, <1>5, CountReduces
<1>7. Reduces(q, r)
  BY <1>1, <1>6, ReducesTwice
<1>8. q = Dropped(r, ids, last, one)
  BY DEF g, n, Dropped, Counted
<1> HIDE DEF q
<1> QED
  BY <1>1, <1>6, <1>7, <1>8

LEMMA DropFramesReduces ==
  ASSUME NEW r, Shaped(r), Exact(r), NEW ids \in SUBSET DOMAIN r.frames,
         NEW q \in DropFrames(r, ids)
  PROVE  /\ Reduces(q, r) /\ q.waiting = r.waiting
         /\ DOMAIN q.frames = DOMAIN r.frames \ ids
<1>0. ASSUME NEW l \in ids, NEW one, one = 0 \/ one = 1
      PROVE  /\ Reduces(Dropped(r, ids, l, one), r)
             /\ Dropped(r, ids, l, one).waiting = r.waiting
             /\ DOMAIN Dropped(r, ids, l, one).frames = DOMAIN r.frames \ ids
  BY <1>0, ForgetCounts
<1>1. CASE ids = {}
  BY <1>1, ReducesSelf DEF DropFrames
<1>2. CASE ids # {}
  <2>1. PICK order \in [first : ids, last : ids] :
          q = [Forget(r, ids) EXCEPT
                 !.last_dropped = order.last,
                 !.dropped = @ + Cardinality(ids)
                               - (IF order.first = r.last_dropped THEN 1 ELSE 0)]
    BY <1>2 DEF DropFrames
  <2> DEFINE one == IF order.first = r.last_dropped THEN 1 ELSE 0
             l == order.last
  <2>2. l \in ids /\ (one = 0 \/ one = 1)
    OBVIOUS
  <2>3. q = Dropped(r, ids, l, one)
    BY <2>1 DEF Dropped
  <2> HIDE DEF one, l
  <2>4. /\ Reduces(Dropped(r, ids, l, one), r)
        /\ Dropped(r, ids, l, one).waiting = r.waiting
        /\ DOMAIN Dropped(r, ids, l, one).frames = DOMAIN r.frames \ ids
    BY <1>0, <2>2
  <2> QED
    BY <2>3, <2>4
<1> QED
  BY <1>1, <1>2

LEMMA DropOlderReduces ==
  ASSUME NEW r, Shaped(r), Exact(r), NEW id, NEW q \in DropOlderThan(r, id)
  PROVE  /\ Reduces(q, r) /\ q.waiting = r.waiting
         /\ DOMAIN q.frames = DOMAIN r.frames \ Older(r, id)
<1> DEFINE b == [x \in {f \in DOMAIN r.pending_fec : f >= id} |-> r.pending_fec[x]]
           s == [r EXCEPT !.pending_fec = b]
<1>1. /\ s.frames = r.frames /\ s.pending_fec = b /\ s.seen = r.seen
      /\ s.completed = r.completed /\ s.waiting = r.waiting /\ s.dropped = r.dropped
      /\ s.last_dropped = r.last_dropped /\ s.buffered = r.buffered /\ Fields(s)
  <2>1. Fields(r)
    BY DEF Shaped
  <2> HIDE DEF b
  <2>2. s = [frames |-> r.frames, pending_fec |-> b, seen |-> r.seen,
             completed |-> r.completed, waiting |-> r.waiting, dropped |-> r.dropped,
             last_dropped |-> r.last_dropped, buffered |-> r.buffered]
    BY <2>1 DEF Fields
  <2> HIDE DEF s
  <2> QED
    BY <2>2 DEF Fields
<1>2. q \in DropFrames(s, Older(r, id))
  BY DEF DropOlderThan, Restrict
<1> HIDE DEF s
<1>3. Shaped(s)
  BY <1>1 DEF Shaped
<1>4. Exact(s)
  BY <1>1, ExactKept
<1>5. Reduces(s, r)
  BY <1>1, <1>3, <1>4 DEF Reduces
<1>6. Older(r, id) \in SUBSET DOMAIN s.frames
  BY <1>1 DEF Older
<1>7. /\ Reduces(q, s) /\ q.waiting = s.waiting
      /\ DOMAIN q.frames = DOMAIN s.frames \ Older(r, id)
  BY <1>2, <1>3, <1>4, <1>6, DropFramesReduces
<1> QED
  BY <1>1, <1>5, <1>7, ReducesTwice

LEMMA DropVictimsReduces ==
  ASSUME NEW r, Shaped(r), Exact(r), NEW ids \in SUBSET DOMAIN r.frames
  PROVE  /\ Reduces(DropVictims(r, ids), r)
         /\ DOMAIN DropVictims(r, ids).frames = DOMAIN r.frames \ ids
<1>1. CASE ids = {}
  BY <1>1, ReducesSelf DEF DropVictims
<1>2. CASE ids # {}
  <2> DEFINE one == IF Min(ids) = r.last_dropped THEN 1 ELSE 0
             l == Max(ids)
  <2>1. IsFiniteSet(ids) /\ \A x \in ids : x \in Int
    <3>1. IsFiniteSet(ids)
      BY FS_Subset DEF Shaped
    <3>2. \A x \in ids : x \in FrameIds
      BY DEF Shaped
    <3>3. \A x \in ids : x \in Int
      BY <3>2, IdsAreNumbers
    <3> QED
      BY <3>1, <3>3
  <2>2. \E m \in ids : \A n \in ids : m >= n
    BY <1>2, <2>1, GreatestElement
  <2>3. l \in ids /\ (one = 0 \/ one = 1)
    BY <2>2 DEF Max
  <2>4. DropVictims(r, ids) = Dropped(r, ids, l, one)
    BY <1>2 DEF DropVictims, Dropped
  <2> HIDE DEF one, l
  <2>5. /\ Reduces(Dropped(r, ids, l, one), r)
        /\ DOMAIN Dropped(r, ids, l, one).frames = DOMAIN r.frames \ ids
    BY <1>2, <2>3, ForgetCounts
  <2> QED
    BY <2>4, <2>5
<1> QED
  BY <1>1, <1>2

\* Room for some bytes: older frames may go, but not the one that asks,
\* unless the answer is no; if it is yes, the bytes fit the budget.
LEMMA ReserveReduces ==
  ASSUME NEW r, Shaped(r), Exact(r), NEW bytes, NEW id \in Nat, NEW key
  PROVE  LET room == ReserveBuffer(r, bytes, id, key)
         IN  /\ Reduces(room.re, r)
             /\ room.ok => /\ ~(room.re.buffered + bytes > MaxBuffer)
                           /\ id \in DOMAIN r.frames => id \in DOMAIN room.re.frames
<1> DEFINE room == ReserveBuffer(r, bytes, id, key)
           victims == Victims(r, bytes, id)
           freed == DropVictims(r, victims)
<1>1. victims \in SUBSET (DOMAIN r.frames \ {id})
  BY DEF Victims
<1>2. room = IF bytes > MaxBuffer
               THEN [ok |-> FALSE, re |-> WaitUnlessKey(DropFrame(r, id), key)]
             ELSE IF freed.buffered + bytes > MaxBuffer
               THEN [ok |-> FALSE, re |-> WaitUnlessKey(DropFrame(freed, id), key)]
             ELSE IF victims # {} /\ ~key
               THEN [ok |-> FALSE,
                     re |-> StartWaiting(MarkFrameDropped(DropFrame(freed, id), id))]
             ELSE [ok |-> TRUE, re |-> freed]
  BY DEF ReserveBuffer
<1> HIDE DEF victims, room
<1>3. Reduces(freed, r) /\ DOMAIN freed.frames = DOMAIN r.frames \ victims
  BY <1>1, DropVictimsReduces
<1> HIDE DEF freed
<1>4. Shaped(freed) /\ Exact(freed)
  BY <1>3 DEF Reduces
<1>5. ASSUME NEW s, Shaped(s), Exact(s), Reduces(s, r)
      PROVE  /\ Reduces(WaitUnlessKey(DropFrame(s, id), key), r)
             /\ Reduces(StartWaiting(MarkFrameDropped(DropFrame(s, id), id)), r)
  <2> DEFINE d == DropFrame(s, id)
             m == MarkFrameDropped(d, id)
  <2>1. Reduces(d, s)
    BY <1>5, DropFrameReduces
  <2> HIDE DEF d
  <2>2. Shaped(d) /\ Exact(d) /\ Reduces(d, r)
    BY <1>5, <2>1, ReducesTwice DEF Reduces
  <2>3. Reduces(WaitUnlessKey(d, key), d) /\ Reduces(m, d)
    BY <2>2, WaitUnlessKeyReduces, MarkReduces
  <2> HIDE DEF m
  <2>4. Shaped(m) /\ Exact(m) /\ Reduces(m, r)
    BY <2>2, <2>3, ReducesTwice DEF Reduces
  <2>5. Reduces(StartWaiting(m), m)
    BY <2>4, WaitReduces
  <2>6. Reduces(WaitUnlessKey(d, key), r) /\ Reduces(StartWaiting(m), r)
    BY <2>2, <2>3, <2>4, <2>5, ReducesTwice
  <2> QED
    BY <2>6 DEF d, m
<1>6. Reduces(r, r)
  BY ReducesSelf
<1>7. CASE bytes > MaxBuffer
  <2>1. room = [ok |-> FALSE, re |-> WaitUnlessKey(DropFrame(r, id), key)]
    BY <1>2, <1>7
  <2>2. ~room.ok /\ room.re = WaitUnlessKey(DropFrame(r, id), key)
    BY <2>1
  <2>3. Reduces(room.re, r)
    BY <1>5, <1>6, <2>2
  <2> QED
    BY <2>2, <2>3 DEF room
<1>8. CASE ~(bytes > MaxBuffer) /\ freed.buffered + bytes > MaxBuffer
  <2>1. room = [ok |-> FALSE, re |-> WaitUnlessKey(DropFrame(freed, id), key)]
    BY <1>2, <1>8
  <2>2. ~room.ok /\ room.re = WaitUnlessKey(DropFrame(freed, id), key)
    BY <2>1
  <2>3. Reduces(room.re, r)
    BY <1>3, <1>4, <1>5, <2>2
  <2> QED
    BY <2>2, <2>3 DEF room
<1>9. CASE /\ ~(bytes > MaxBuffer) /\ ~(freed.buffered + bytes > MaxBuffer)
           /\ victims # {} /\ ~key
  <2>1. room = [ok |-> FALSE, re |-> StartWaiting(MarkFrameDropped(DropFrame(freed, id), id))]
    BY <1>2, <1>9
  <2>2. ~room.ok /\ room.re = StartWaiting(MarkFrameDropped(DropFrame(freed, id), id))
    BY <2>1
  <2>3. Reduces(room.re, r)
    BY <1>3, <1>4, <1>5, <2>2
  <2> QED
    BY <2>2, <2>3 DEF room
<1>10. CASE /\ ~(bytes > MaxBuffer) /\ ~(freed.buffered + bytes > MaxBuffer)
            /\ ~(victims # {} /\ ~key)
  <2>1. room = [ok |-> TRUE, re |-> freed]
    BY <1>2, <1>10
  <2>2. room.re = freed
    BY <2>1
  <2>3. id \in DOMAIN r.frames => id \in DOMAIN freed.frames
    BY <1>1, <1>3
  <2> QED
    BY <1>3, <1>10, <2>2, <2>3 DEF room
<1> QED
  BY <1>7, <1>8, <1>9, <1>10

-----------------------------------------------------------------------------
(* Methods that add.                                                       *)

\* Packets that arrive take nothing from what is assembled.
LEMMA AssembledMore ==
  ASSUME NEW a, NEW id, NEW G, NEW H, G \subseteq H, NEW K, Assembled(a, id, G, K)
  PROVE  Assembled(a, id, H, K)
<1>1. \A c : ArrivedOf(id, c, G) \subseteq ArrivedOf(id, c, H)
  BY DEF ArrivedOf
<1>2. Filled(a, id, G)
  BY DEF Assembled
<1>3. ASSUME NEW k, NEW f, Repairable(k, f, ArrivedOf(id, a.count, G))
      PROVE  Repairable(k, f, ArrivedOf(id, a.count, H))
  BY <1>1, <1>3 DEF Repairable
<1>4. Filled(a, id, H)
  BY <1>1, <1>2, <1>3 DEF Filled
<1> QED
  BY <1>4 DEF Assembled

LEMMA SoundMore ==
  ASSUME NEW r, NEW G, NEW H, G \subseteq H, NEW K, Sound(r, G, K)
  PROVE  Sound(r, H, K)
<1>1. \A id \in DOMAIN r.frames : Assembled(r.frames[id], id, H, K)
  BY AssembledMore DEF Sound, Contents
<1>2. \A id \in DOMAIN r.pending_fec : \A n \in 1..Len(r.pending_fec[id]) :
        r.pending_fec[id][n] \in H \cap Parity /\ r.pending_fec[id][n].id = id
  BY DEF Sound, Contents
<1> QED
  BY <1>1, <1>2 DEF Sound, Contents

\* q is r with the assembly of one frame, inside the window, new or replaced
\* by b.
Replaces(q, r, id, b) ==
  /\ Fields(q)
  /\ DOMAIN q.frames = DOMAIN r.frames \cup {id}
  /\ \A x \in DOMAIN r.frames \ {id} : q.frames[x] = r.frames[x]
  /\ q.frames[id] = b
  /\ q.pending_fec = r.pending_fec
  /\ q.seen = r.seen /\ q.completed = r.completed /\ q.waiting = r.waiting
  /\ q.dropped = r.dropped /\ q.last_dropped = r.last_dropped

LEMMA ReplaceSound ==
  ASSUME NEW r, NEW G, NEW K, Sound(r, G, K), NEW q, NEW id \in FrameIds, NEW b \in Assembly,
         Replaces(q, r, id, b), Assembled(b, id, G, K),
         id <= r.seen, r.seen <= id + Window,
         q.buffered = b.bytes + BytesOf(r, DOMAIN r.frames \ {id}),
         q.buffered <= MaxBuffer
  PROVE  Sound(q, G, K)
<1> DEFINE D == DOMAIN r.frames
           E == D \cup {id}
<1>1. Shaped(r) /\ Exact(r) /\ InWindow(r) /\ Contents(r, G, K)
  BY DEF Sound
<1>2. DOMAIN q.frames = E
  BY DEF Replaces
<1>3. \A x \in E : q.frames[x] = IF x = id THEN b ELSE r.frames[x]
  BY DEF Replaces
<1>4. E \in SUBSET FrameIds /\ IsFiniteSet(E)
  BY <1>1, FS_AddElement DEF Shaped
<1>5. \A x \in E : q.frames[x] \in Assembly
  BY <1>1, <1>3 DEF Shaped
<1>6. Summable(q, E)
  BY <1>4, <1>5 DEF Summable, Assembly
<1>7. E \ {id} = D \ {id} /\ {id} \in SUBSET E /\ D \ {id} \in SUBSET D
  OBVIOUS
<1>8. Summable(r, D \ {id}) /\ Summable(q, {id})
  BY <1>1, <1>6, <1>7, ShapedSums, SummablePart
<1> HIDE DEF E
<1>9. BytesOf(q, E) = BytesOf(q, {id}) + BytesOf(q, E \ {id})
  BY <1>6, <1>7, BytesOfSplit
<1>10. BytesOf(q, {id}) = b.bytes
  BY <1>8, BytesOfOne DEF Replaces
<1>11. BytesOf(q, D \ {id}) = BytesOf(r, D \ {id})
  <2>1. \A x \in D \ {id} : q.frames[x].bytes = r.frames[x].bytes
    BY DEF Replaces
  <2> QED
    BY <1>8, <2>1, BytesOfAgree
<1>12. q.buffered = BytesOf(q, E) /\ BytesOf(q, E) \in Nat
  BY <1>6, <1>7, <1>9, <1>10, <1>11, BytesOfNat
<1>13. Exact(q)
  BY <1>2, <1>12 DEF Exact
<1>14. Shaped(q)
  BY <1>1, <1>2, <1>4, <1>5, <1>12 DEF Shaped, Replaces
<1>15. InWindow(q)
  <2>1. \A x \in E : x <= q.seen /\ q.seen <= x + Window
    BY <1>1 DEF InWindow, Replaces, E
  <2> QED
    BY <1>1, <1>2, <2>1 DEF InWindow, Replaces
<1>16. Contents(q, G, K)
  <2>1. \A x \in E : Assembled(q.frames[x], x, G, K)
    BY <1>1, <1>3 DEF Contents, E
  <2> QED
    BY <1>1, <1>2, <2>1 DEF Contents, Replaces
<1> QED
  BY <1>13, <1>14, <1>15, <1>16 DEF Sound

LEMMA OpenSound ==
  ASSUME NEW r, NEW G, NEW K, Sound(r, G, K), NEW p \in Packets, NEW key, key = (p.id \in K),
         p.id <= r.seen, r.seen <= p.id + Window
  PROVE  LET q == OpenAssembly(r, p, key)
         IN  /\ Sound(q, G, K) /\ p.id \in DOMAIN q.frames
             /\ q.seen = r.seen /\ q.completed = r.completed /\ q.waiting = r.waiting
<1>1. CASE p.id \in DOMAIN r.frames
  BY <1>1 DEF OpenAssembly
<1>2. CASE p.id \notin DOMAIN r.frames
  <2> DEFINE id == p.id
             D == DOMAIN r.frames
             b == [count |-> p.count, key |-> key, parts |-> {}, bytes |-> 0]
             fr == [x \in D \cup {id} |-> IF x = id THEN b ELSE r.frames[x]]
             q == [r EXCEPT !.frames = fr]
  <2>1. OpenAssembly(r, p, key) = q
    BY <1>2 DEF OpenAssembly
  <2>2. Shaped(r) /\ Exact(r)
    BY DEF Sound
  <2>3. id \in FrameIds /\ p.count \in Nat
    BY ReassemblerAssumption
  <2>4. b \in Assembly /\ b.bytes = 0 /\ b.parts = {} /\ b.count = p.count /\ b.key = key
    <3>1. key \in BOOLEAN
      OBVIOUS
    <3> QED
      BY <2>3, <3>1 DEF Assembly
  <2> HIDE DEF b
  <2>5. Assembled(b, id, G, K)
    BY <2>4 DEF Assembled, Filled
  <2>6. DOMAIN fr = D \cup {id} /\ fr[id] = b /\ \A x \in D \ {id} : fr[x] = r.frames[x]
    OBVIOUS
  <2> HIDE DEF fr
  <2>7. q = [frames |-> fr, pending_fec |-> r.pending_fec, seen |-> r.seen,
             completed |-> r.completed, waiting |-> r.waiting, dropped |-> r.dropped,
             last_dropped |-> r.last_dropped, buffered |-> r.buffered]
    BY <2>2 DEF Shaped, Fields
  <2> HIDE DEF q
  <2>8. /\ q.frames = fr /\ q.pending_fec = r.pending_fec /\ q.seen = r.seen
        /\ q.completed = r.completed /\ q.waiting = r.waiting /\ q.dropped = r.dropped
        /\ q.last_dropped = r.last_dropped /\ q.buffered = r.buffered /\ Fields(q)
    BY <2>7 DEF Fields
  <2>9. Replaces(q, r, id, b)
    BY <2>6, <2>8 DEF Replaces
  <2>10. /\ D \ {id} = D /\ r.buffered = BytesOf(r, D) /\ r.buffered <= MaxBuffer
         /\ r.buffered \in Nat
    BY <1>2, <2>2 DEF Exact, Shaped
  <2>11. /\ q.buffered = b.bytes + BytesOf(r, D \ {id}) /\ q.buffered <= MaxBuffer
    <3> HIDE DEF D, id
    <3>1. BytesOf(r, D \ {id}) = r.buffered
      BY <2>10
    <3> QED
      BY <2>4, <2>8, <2>10, <3>1
  <2>12. Sound(q, G, K)
    BY <2>3, <2>4, <2>5, <2>9, <2>11, ReplaceSound
  <2> QED
    BY <2>1, <2>6, <2>8, <2>12
<1> QED
  BY <1>1, <1>2

\* A packet is put in its place: one that arrived, or a repaired one.
Put(a, index, size) == [a EXCEPT !.parts = @ \cup {index}, !.bytes = @ + size]

LEMMA PutAssembly ==
  ASSUME NEW a \in Assembly, NEW index \in Nat, NEW size \in Nat
  PROVE  LET b == Put(a, index, size)
         IN  /\ b \in Assembly /\ b.count = a.count /\ b.key = a.key
             /\ b.bytes = a.bytes + size /\ b.parts = a.parts \cup {index}
<1> DEFINE b == Put(a, index, size)
           x == a.parts \cup {index}
           y == a.bytes + size
<1>1. x \in SUBSET Nat /\ y \in Nat /\ a.count \in Nat /\ a.key \in BOOLEAN
  BY DEF Assembly
<1>2. b = [a EXCEPT !.parts = x, !.bytes = y]
  BY DEF Put
<1> HIDE DEF b, x, y
<1>3. b = [count |-> a.count, key |-> a.key, parts |-> x, bytes |-> y]
  BY <1>2 DEF Assembly
<1>4. b.count = a.count /\ b.key = a.key /\ b.bytes = y /\ b.parts = x
  BY <1>3
<1>5. b \in Assembly
  BY <1>1, <1>3 DEF Assembly
<1> QED
  BY <1>4, <1>5 DEF b, x, y

Stored(r, fr, n) == [r EXCEPT !.frames = fr, !.buffered = n]

LEMMA StoredFields ==
  ASSUME NEW r, Fields(r), NEW fr, NEW n
  PROVE  LET q == Stored(r, fr, n)
         IN  /\ q.frames = fr /\ q.pending_fec = r.pending_fec /\ q.seen = r.seen
             /\ q.completed = r.completed /\ q.waiting = r.waiting /\ q.dropped = r.dropped
             /\ q.last_dropped = r.last_dropped /\ q.buffered = n /\ Fields(q)
<1> DEFINE q == Stored(r, fr, n)
<1>0. q = [r EXCEPT !.frames = fr, !.buffered = n]
  BY DEF Stored
<1> HIDE DEF q
<1>1. q = [frames |-> fr, pending_fec |-> r.pending_fec, seen |-> r.seen,
           completed |-> r.completed, waiting |-> r.waiting, dropped |-> r.dropped,
           last_dropped |-> r.last_dropped, buffered |-> n]
  BY <1>0 DEF Fields
<1>2. /\ q.frames = fr /\ q.pending_fec = r.pending_fec /\ q.seen = r.seen
      /\ q.completed = r.completed /\ q.waiting = r.waiting /\ q.dropped = r.dropped
      /\ q.last_dropped = r.last_dropped /\ q.buffered = n /\ Fields(q)
  BY <1>1 DEF Fields
<1> QED
  BY <1>2 DEF q

LEMMA SetPartSound ==
  ASSUME NEW r, NEW G, NEW K, Sound(r, G, K), NEW id \in DOMAIN r.frames,
         NEW index \in Nat, index < r.frames[id].count, NEW size \in Nat,
         ~(r.buffered + size > MaxBuffer),
         Filled(Put(r.frames[id], index, size), id, G)
  PROVE  LET q == SetPart(r, id, index, size)
         IN  /\ Sound(q, G, K) /\ q.seen = r.seen /\ q.completed = r.completed
             /\ q.waiting = r.waiting
<1> DEFINE D == DOMAIN r.frames
           a == r.frames[id]
           b == Put(a, index, size)
           fr == [r.frames EXCEPT ![id] = b]
           n == r.buffered + size
           q == Stored(r, fr, n)
<1>1. Shaped(r) /\ Exact(r) /\ InWindow(r) /\ Contents(r, G, K)
  BY DEF Sound
<1>2. Fields(r)
  BY <1>1 DEF Shaped
<1>3. SetPart(r, id, index, size) = q
  <2>1. SetPart(r, id, index, size)
          = [r EXCEPT !.frames[id].parts = @ \cup {index},
                      !.frames[id].bytes = @ + size,
                      !.buffered = @ + size]
    BY DEF SetPart
  <2> QED
    BY <1>2, <2>1 DEF Fields, Put, Stored
<1>4. a \in Assembly /\ Assembled(a, id, G, K)
  BY <1>1 DEF Shaped, Contents
<1>5. Filled(b, id, G)
  OBVIOUS
<1>6. b \in Assembly /\ b.count = a.count /\ b.key = a.key /\ b.bytes = a.bytes + size
      /\ b.parts = a.parts \cup {index}
  <2>1. a \in Assembly
    BY <1>4
  <2> HIDE DEF a
  <2> QED
    BY <2>1, PutAssembly, ZenonT(60)
<1> HIDE DEF b
<1>7. Assembled(b, id, G, K)
  <2>1. index \in 0..(a.count - 1)
    BY <1>4 DEF Assembly
  <2> QED
    BY <1>4, <1>5, <1>6, <2>1 DEF Assembled
<1>8. DOMAIN fr = D \cup {id} /\ fr[id] = b /\ \A x \in D \ {id} : fr[x] = r.frames[x]
  OBVIOUS
<1> HIDE DEF fr, n
<1>9. /\ q.frames = fr /\ q.pending_fec = r.pending_fec /\ q.seen = r.seen
       /\ q.completed = r.completed /\ q.waiting = r.waiting /\ q.dropped = r.dropped
       /\ q.last_dropped = r.last_dropped /\ q.buffered = n /\ Fields(q)
  BY <1>2, StoredFields
<1> HIDE DEF q
<1>10. Replaces(q, r, id, b)
  BY <1>8, <1>9 DEF Replaces
<1>11. /\ r.buffered = BytesOf(r, D) /\ BytesOf(r, D) = a.bytes + BytesOf(r, D \ {id})
       /\ BytesOf(r, D \ {id}) \in Nat /\ a.bytes \in Nat
  <2>1. Summable(r, D) /\ {id} \in SUBSET D /\ D \ {id} \in SUBSET D
    BY <1>1, ShapedSums
  <2>2. BytesOf(r, D) = BytesOf(r, {id}) + BytesOf(r, D \ {id})
    BY <2>1, BytesOfSplit
  <2>3. Summable(r, {id}) /\ Summable(r, D \ {id})
    BY <2>1, SummablePart
  <2>4. BytesOf(r, {id}) = a.bytes /\ BytesOf(r, D \ {id}) \in Nat
    BY <2>3, BytesOfOne, BytesOfNat
  <2> QED
    BY <1>1, <1>4, <2>2, <2>4 DEF Exact, Assembly
<1>12. MaxBuffer \in Nat
  BY ReassemblerAssumption
<1>13. q.buffered = b.bytes + BytesOf(r, D \ {id}) /\ q.buffered <= MaxBuffer
  BY <1>6, <1>9, <1>11, <1>12 DEF n
<1>14. id \in FrameIds /\ id <= r.seen /\ r.seen <= id + Window
  BY <1>1 DEF Shaped, InWindow
<1>15. Sound(q, G, K)
  BY <1>6, <1>7, <1>10, <1>13, <1>14, ReplaceSound
<1> QED
  BY <1>3, <1>9, <1>15

\* q comes after r within a call that does not finish a frame.
Follows(q, r) ==
  q.seen = r.seen /\ q.completed = r.completed /\ (r.waiting => q.waiting)

LEMMA SizeOfNat ==
  ASSUME NEW id, NEW index
  PROVE  SizeOf(id, index) \in Nat
<1> DEFINE ps == {p \in Packets : p.id = id /\ p.index = index}
<1>1. SizeOf(id, index) = IF ps = {} THEN 0 ELSE (CHOOSE p \in ps : TRUE).size
  BY DEF SizeOf
<1>2. CASE ps = {}
  BY <1>1, <1>2
<1>3. CASE ps # {}
  <2>1. (CHOOSE p \in ps : TRUE) \in ps
    BY <1>3
  <2>2. \A p \in ps : p.size \in Nat
    BY ReassemblerAssumption
  <2> HIDE DEF ps
  <2> QED
    BY <1>1, <1>3, <2>1, <2>2
<1> QED
  BY <1>2, <1>3

\* The other packets of the group of a repaired packet all arrived: one that
\* was itself repaired made its group full, and groups do not overlap.
LEMMA RepairFilled ==
  ASSUME NEW G, NEW id, NEW a \in Assembly, Filled(a, id, G),
         NEW f \in G \cap Parity, f.id = id,
         NEW index \in Nat, Missing(a, f) = {index}, NEW size \in Nat
  PROVE  Filled(Put(a, index, size), id, G)
<1> DEFINE b == Put(a, index, size)
           A == ArrivedOf(id, a.count, G)
           F == Group(f)
<1>1. b.count = a.count /\ b.parts = a.parts \cup {index}
  BY PutAssembly
<1>2. F \ a.parts = {index}
  BY DEF Missing
<1> HIDE DEF b, A, F
<1>3. index \in F /\ index \notin a.parts /\ F \subseteq b.parts
      /\ \A j \in F : j = index \/ j \in a.parts
  BY <1>1, <1>2
<1>4. ASSUME NEW k \in a.parts
      PROVE  \/ k \in A
             \/ \E g \in G \cap Parity :
                  g.id = id /\ Group(g) \subseteq a.parts /\ Repairable(k, g, A)
  BY DEF Filled, A
<1>5. ASSUME NEW j \in F, j # index
      PROVE  j \in A
  <2>1. SUFFICES ASSUME NEW g \in G \cap Parity, g.id = id, Group(g) \subseteq a.parts,
                        Repairable(j, g, A)
                 PROVE  FALSE
    BY <1>3, <1>4, <1>5
  <2>2. j \in Group(g)
    BY <2>1 DEF Repairable
  <2>3. f = g \/ F \cap Group(g) = {}
    BY <2>1, GroupsAssumption DEF F
  <2>4. CASE f = g
    BY <1>3, <2>1, <2>4 DEF F
  <2>5. CASE F \cap Group(g) = {}
    BY <1>5, <2>2, <2>5
  <2> QED
    BY <2>3, <2>4, <2>5
<1>6. Repairable(index, f, A) /\ Group(f) \subseteq b.parts
  BY <1>3, <1>5 DEF Repairable, F
<1>7. \A k \in b.parts :
        \/ k \in A
        \/ \E g \in G \cap Parity :
             g.id = id /\ Group(g) \subseteq b.parts /\ Repairable(k, g, A)
  <2>1. TAKE k \in b.parts
  <2>2. CASE k = index
    BY <1>6, <2>2
  <2>3. CASE k \in a.parts
    BY <1>1, <1>4, <2>3
  <2> QED
    BY <1>1, <2>2, <2>3
<1> QED
  BY <1>1, <1>7 DEF Filled, A, b

\* One turn of the loop of try_fec_recover.
LEMMA RepairSound ==
  ASSUME NEW r, NEW G, NEW K, Sound(r, G, K), NEW id \in FrameIds,
         NEW f \in G \cap Parity, f.id = id
  PROVE  Sound(Repair(r, id, f), G, K) /\ Follows(Repair(r, id, f), r)
<1> DEFINE q == Repair(r, id, f)
           a == r.frames[id]
           lost == Missing(a, f)
           index == CHOOSE i \in lost : TRUE
           size == SizeOf(id, index)
           room == ReserveBuffer(r, size, id, a.key)
           idle == id \notin DOMAIN r.frames \/ Complete(r, id)
<1>1. q = IF idle THEN r
          ELSE IF Cardinality(lost) # 1 THEN r
          ELSE IF ~room.ok \/ index >= a.count THEN room.re
          ELSE SetPart(room.re, id, index, size)
  BY DEF Repair
<1>2. CASE idle
  <2>1. q = r
    BY <1>1, <1>2
  <2> HIDE DEF q
  <2> QED
    BY <2>1 DEF Follows, q
<1>3. CASE ~idle /\ Cardinality(lost) # 1
  <2>1. q = r
    BY <1>1, <1>3
  <2> HIDE DEF q
  <2> QED
    BY <2>1 DEF Follows, q
<1>4. CASE ~idle /\ Cardinality(lost) = 1
  <2>1. /\ id \in DOMAIN r.frames
        /\ q = IF ~room.ok \/ index >= a.count THEN room.re
               ELSE SetPart(room.re, id, index, size)
    BY <1>1, <1>4
  <2>2. Shaped(r) /\ Exact(r) /\ Contents(r, G, K)
    BY DEF Sound
  <2>4. lost = Group(f) \ a.parts
    BY DEF Missing
  <2>5. IsFiniteSet(lost) /\ \A x \in lost : x \in Nat
    <3>1. f.base \in Nat /\ f.base + f.group - 1 \in Int
      BY ReassemblerAssumption
    <3>2. IsFiniteSet(Group(f)) /\ \A x \in Group(f) : x \in Nat
      BY <3>1, FS_Interval DEF Group
    <3> QED
      BY <2>4, <3>2, FS_Subset
  <2>6. \E x : lost = {x}
    <3> HIDE DEF lost
    <3> QED
      BY <1>4, <2>5, FS_Singleton
  <2>7. lost = {index}
    <3> HIDE DEF lost
    <3> QED
      BY <2>6
  <2> HIDE DEF lost, index
  <2>8. index \in Nat /\ size \in Nat
    BY <2>5, <2>7, SizeOfNat
  <2>9. a \in Assembly /\ Assembled(a, id, G, K) /\ id \in Nat
    BY <2>1, <2>2, IdsAreNumbers DEF Shaped, Contents
  <2>10. Filled(Put(a, index, size), id, G)
    <3>1. Missing(a, f) = {index} /\ Filled(a, id, G)
      BY <2>7, <2>9 DEF Assembled, lost
    <3> HIDE DEF a, size
    <3> QED
      BY <2>8, <2>9, <3>1, RepairFilled
  <2>11. /\ Reduces(room.re, r)
         /\ room.ok => ~(room.re.buffered + size > MaxBuffer) /\ id \in DOMAIN room.re.frames
    BY <2>1, <2>2, <2>9, ReserveReduces
  <2> DEFINE s == room.re
             ok == room.ok
  <2>12. /\ q = IF ~ok \/ index >= a.count THEN s ELSE SetPart(s, id, index, size)
         /\ Reduces(s, r)
         /\ ok => ~(s.buffered + size > MaxBuffer) /\ id \in DOMAIN s.frames
    BY <2>1, <2>11
  <2> HIDE DEF room, s, ok, q, size
  <2>13. Sound(s, G, K) /\ Follows(s, r)
    BY <2>12, ReducesSound DEF Reduces, Follows
  <2>14. CASE ~ok \/ index >= a.count
    <3>1. q = s
      BY <2>12, <2>14
    <3> QED
      BY <2>13, <3>1 DEF q
  <2>15. CASE ok /\ ~(index >= a.count)
    <3>1. q = SetPart(s, id, index, size)
      BY <2>12, <2>15
    <3>2. id \in DOMAIN s.frames /\ s.frames[id] = a
      BY <2>12, <2>15 DEF Reduces
    <3>3. index < a.count
      BY <2>8, <2>9, <2>15 DEF Assembly
    <3> HIDE DEF a
    <3>4. Filled(Put(s.frames[id], index, size), id, G) /\ index < s.frames[id].count
      BY <2>10, <3>2, <3>3
    <3>5. ~(s.buffered + size > MaxBuffer)
      BY <2>12, <2>15
    <3>6. /\ Sound(q, G, K) /\ q.seen = s.seen /\ q.completed = s.completed
          /\ q.waiting = s.waiting
      BY <2>8, <2>13, <3>1, <3>2, <3>4, <3>5, SetPartSound
    <3> QED
      BY <2>13, <3>6 DEF Follows, q
  <2> QED
    BY <2>14, <2>15
<1> QED
  BY <1>2, <1>3, <1>4

\* The whole loop: by induction on the parity packets kept.
IsLoop(g, r, id, fecs, m) ==
  g = [n \in 0..m |-> IF n = 0 THEN r ELSE Repair(g[n - 1], id, fecs[n])]

LEMMA LoopExists ==
  ASSUME NEW r, NEW id, NEW fecs, NEW m \in Nat
  PROVE  \E g : IsLoop(g, r, id, fecs, m)
<1> DEFINE T == {n \in Nat : ~\E g : IsLoop(g, r, id, fecs, n)}
<1> SUFFICES ASSUME T # {} PROVE FALSE
  OBVIOUS
<1>1. PICK k \in T : \A n \in T : k <= n
  BY LeastNatural
<1>2. CASE k = 0
  <2> DEFINE g == [n \in 0..0 |-> r]
  <2>1. g = [n \in 0..0 |-> IF n = 0 THEN r ELSE Repair(g[n - 1], id, fecs[n])]
    OBVIOUS
  <2> HIDE DEF g
  <2>2. IsLoop(g, r, id, fecs, 0)
    BY <2>1 DEF IsLoop
  <2> QED
    BY <1>1, <1>2, <2>2
<1>3. CASE k # 0
  <2>1. k - 1 \in Nat /\ k - 1 \notin T
    BY <1>1, <1>3
  <2>2. PICK h : IsLoop(h, r, id, fecs, k - 1)
    BY <2>1
  <2> DEFINE g == [n \in 0..k |-> IF n = k THEN Repair(h[n - 1], id, fecs[n]) ELSE h[n]]
  <2>3. \A n \in 0..(k - 1) :
          h[n] = IF n = 0 THEN r ELSE Repair(h[n - 1], id, fecs[n])
    BY <2>2 DEF IsLoop
  <2>4. \A n \in 0..k : n # 0 => n - 1 \in 0..k /\ n - 1 # k
    BY <2>1
  <2>5. \A n \in 0..k : n # 0 => g[n - 1] = h[n - 1]
    BY <2>4
  <2>6. \A n \in 0..k : n # k => n \in 0..(k - 1)
    BY <2>1
  <2>7. \A n \in 0..k : g[n] = IF n = 0 THEN r ELSE Repair(g[n - 1], id, fecs[n])
    <3> SUFFICES ASSUME NEW n \in 0..k
                 PROVE  g[n] = IF n = 0 THEN r ELSE Repair(g[n - 1], id, fecs[n])
      OBVIOUS
    <3>1. g[n] = IF n = k THEN Repair(h[n - 1], id, fecs[n]) ELSE h[n]
      OBVIOUS
    <3> HIDE DEF g
    <3>2. CASE n = k
      BY <1>3, <2>5, <3>1, <3>2
    <3>3. CASE n # k
      BY <2>3, <2>5, <2>6, <3>1, <3>3
    <3> QED
      BY <3>2, <3>3
  <2>8. DOMAIN g = 0..k /\ g = [n \in 0..k |-> g[n]]
    OBVIOUS
  <2> HIDE DEF g
  <2>9. IsLoop(g, r, id, fecs, k)
    BY <2>7, <2>8 DEF IsLoop
  <2> QED
    BY <1>1, <2>9
<1> QED
  BY <1>2, <1>3

LEMMA LoopSound ==
  ASSUME NEW r, NEW G, NEW K, Sound(r, G, K), NEW id \in FrameIds, NEW fecs, NEW m \in Nat,
         \A n \in 1..m : fecs[n] \in G \cap Parity /\ fecs[n].id = id,
         NEW g, IsLoop(g, r, id, fecs, m)
  PROVE  Sound(g[m], G, K) /\ Follows(g[m], r)
<1> DEFINE Good(n) == Sound(g[n], G, K) /\ Follows(g[n], r)
           T == {n \in Nat : n <= m /\ ~Good(n)}
<1>1. \A n \in 0..m : g[n] = IF n = 0 THEN r ELSE Repair(g[n - 1], id, fecs[n])
  BY DEF IsLoop
<1> SUFFICES ASSUME T # {} PROVE FALSE
  OBVIOUS
<1>2. PICK k \in T : \A n \in T : k <= n
  BY LeastNatural
<1>3. CASE k = 0
  <2>1. g[0] = r
    BY <1>1
  <2>2. Good(0)
    BY <2>1 DEF Follows
  <2> QED
    BY <1>2, <1>3, <2>2
<1>4. CASE k # 0
  <2>1. k \in 1..m /\ k \in 0..m /\ k - 1 \in Nat /\ k - 1 <= m /\ k - 1 \notin T
    BY <1>2, <1>4
  <2>2. Good(k - 1)
    BY <2>1
  <2> DEFINE s == g[k - 1]
             f == fecs[k]
  <2>3. g[k] = Repair(s, id, f) /\ f \in G \cap Parity /\ f.id = id
    BY <1>1, <1>4, <2>1
  <2>4. Sound(s, G, K) /\ Follows(s, r)
    BY <2>2
  <2> HIDE DEF s, f
  <2>5. Sound(g[k], G, K) /\ Follows(g[k], s)
    BY <2>3, <2>4, RepairSound
  <2>6. Follows(g[k], r)
    BY <2>4, <2>5 DEF Follows
  <2> QED
    BY <1>2, <2>5, <2>6
<1> QED
  BY <1>3, <1>4

LEMMA TryFecSound ==
  ASSUME NEW r, NEW G, NEW K, Sound(r, G, K), NEW id \in FrameIds
  PROVE  Sound(TryFecRecover(r, id), G, K) /\ Follows(TryFecRecover(r, id), r)
<1>1. CASE id \notin DOMAIN r.pending_fec
  BY <1>1 DEF TryFecRecover, Follows
<1>2. CASE id \in DOMAIN r.pending_fec
  <2> DEFINE fecs == r.pending_fec[id]
             m == Len(fecs)
             P(g) == g = [n \in 0..m |-> IF n = 0 THEN r ELSE Repair(g[n - 1], id, fecs[n])]
             h == CHOOSE g : P(g)
  <2>1. TryFecRecover(r, id) = h[m]
    BY <1>2 DEF TryFecRecover
  <2>2. /\ m \in Nat
        /\ \A n \in 1..m : fecs[n] \in G \cap Parity /\ fecs[n].id = id
    BY <1>2 DEF Sound, Shaped, Contents
  <2> HIDE DEF fecs, m
  <2>3. ASSUME NEW g PROVE P(g) <=> IsLoop(g, r, id, fecs, m)
    BY DEF IsLoop
  <2>4. PICK g : IsLoop(g, r, id, fecs, m)
    BY <2>2, LoopExists
  <2>5. P(g)
    BY <2>3, <2>4
  <2>6. P(h)
    BY <2>5
  <2> HIDE DEF P, h
  <2>7. IsLoop(h, r, id, fecs, m)
    BY <2>3, <2>6
  <2>8. Sound(h[m], G, K) /\ Follows(h[m], r)
    BY <2>2, <2>7, LoopSound
  <2> QED
    BY <2>1, <2>8
<1> QED
  BY <1>1, <1>2

LEMMA PlaceSound ==
  ASSUME NEW r, NEW G, Sound(r, G, keys), NEW p \in G \cap Packets, ~Malformed(p),
         p.id \in DOMAIN r.frames
  PROVE  Sound(Place(r, p), G, keys) /\ Follows(Place(r, p), r)
<1> DEFINE q == Place(r, p)
           id == p.id
           key == id \in keys
           a == r.frames[id]
           room == ReserveBuffer(r, p.size, id, key)
           set == SetPart(room.re, id, p.index, p.size)
<1>1. q = IF a.count # p.count THEN WaitUnlessKey(DropFrame(r, id), key)
          ELSE IF p.index \in a.parts THEN r
          ELSE IF ~room.ok THEN room.re
          ELSE TryFecRecover(set, id)
  BY DEF Place
<1>2. Shaped(r) /\ Exact(r) /\ Contents(r, G, keys)
  BY DEF Sound
<1>3. /\ id \in FrameIds /\ p.index \in Nat /\ p.count \in Nat /\ p.size \in Nat
      /\ id \in Nat
  BY ReassemblerAssumption
<1>4. a \in Assembly /\ Assembled(a, id, G, keys)
  BY <1>2 DEF Shaped, Contents
<1>5. CASE a.count # p.count
  <2>1. q = WaitUnlessKey(DropFrame(r, id), key)
    BY <1>1, <1>5
  <2> DEFINE d == DropFrame(r, id)
  <2>2. Reduces(d, r)
    BY <1>2, <1>3, DropFrameReduces
  <2> HIDE DEF d, q
  <2>3. Reduces(WaitUnlessKey(d, key), d)
    BY <2>2, WaitUnlessKeyReduces DEF Reduces
  <2>4. Reduces(q, r)
    BY <2>1, <2>2, <2>3, ReducesTwice DEF d
  <2> QED
    BY <2>4, ReducesSound DEF Reduces, Follows, q
<1>6. CASE a.count = p.count /\ p.index \in a.parts
  <2>1. q = r
    BY <1>1, <1>6
  <2> HIDE DEF q
  <2> QED
    BY <2>1 DEF Follows, q
<1>7. CASE a.count = p.count /\ p.index \notin a.parts
  <2> DEFINE s == room.re
             ok == room.ok
  <2>1. /\ Reduces(s, r)
        /\ ok => ~(s.buffered + p.size > MaxBuffer) /\ id \in DOMAIN s.frames
    BY <1>2, <1>3, ReserveReduces
  <2>2. q = IF ~ok THEN s ELSE TryFecRecover(SetPart(s, id, p.index, p.size), id)
    BY <1>1, <1>7
  <2> HIDE DEF room, s, ok, q
  <2>3. Sound(s, G, keys) /\ Follows(s, r)
    BY <2>1, ReducesSound DEF Reduces, Follows
  <2>4. CASE ~ok
    <3>1. q = s
      BY <2>2, <2>4
    <3> QED
      BY <2>3, <3>1 DEF q
  <2>5. CASE ok
    <3>1. q = TryFecRecover(SetPart(s, id, p.index, p.size), id)
      BY <2>2, <2>5
    <3>2. id \in DOMAIN s.frames /\ s.frames[id] = a /\ ~(s.buffered + p.size > MaxBuffer)
      BY <2>1, <2>5 DEF Reduces
    <3>3. p.index < a.count
      BY <1>3, <1>7 DEF Malformed
    <3>4. Filled(Put(a, p.index, p.size), id, G)
      <4> DEFINE b == Put(a, p.index, p.size)
                 A == ArrivedOf(id, a.count, G)
      <4>1. b.count = a.count /\ b.parts = a.parts \cup {p.index}
        <5>1. \A c \in Assembly : \A i, z \in Nat :
                Put(c, i, z).count = c.count /\ Put(c, i, z).parts = c.parts \cup {i}
          BY PutAssembly
        <5>2. a \in Assembly /\ p.index \in Nat /\ p.size \in Nat
          BY <1>3, <1>4
        <5> HIDE DEF a
        <5> QED
          BY <5>1, <5>2
      <4> HIDE DEF b
      <4>2. p.index \in A
        BY <1>7 DEF ArrivedOf
      <4>3. ASSUME NEW k \in b.parts
            PROVE  \/ k \in A
                   \/ \E f \in G \cap Parity :
                        f.id = id /\ Group(f) \subseteq b.parts /\ Repairable(k, f, A)
        <5>1. CASE k = p.index
          BY <4>2, <5>1
        <5>2. CASE k \in a.parts
          <6>1. \/ k \in A
                \/ \E f \in G \cap Parity :
                     f.id = id /\ Group(f) \subseteq a.parts /\ Repairable(k, f, A)
            BY <1>4, <5>2 DEF Assembled, Filled
          <6> HIDE DEF a, A
          <6> QED
            BY <4>1, <6>1
        <5> QED
          BY <4>1, <4>3, <5>1, <5>2
      <4> QED
        BY <4>1, <4>3 DEF Filled, b
    <3> DEFINE u == SetPart(s, id, p.index, p.size)
    <3>5. /\ Sound(u, G, keys) /\ u.seen = s.seen /\ u.completed = s.completed
          /\ u.waiting = s.waiting
      <4> HIDE DEF a
      <4>1. Filled(Put(s.frames[id], p.index, p.size), id, G) /\ p.index < s.frames[id].count
        BY <3>2, <3>3, <3>4
      <4> HIDE DEF id
      <4> QED
        BY <1>3, <2>3, <3>2, <4>1, SetPartSound
    <3> HIDE DEF u
    <3>6. Sound(TryFecRecover(u, id), G, keys) /\ Follows(TryFecRecover(u, id), u)
      BY <1>3, <3>5, TryFecSound
    <3>7. q = TryFecRecover(u, id)
      BY <3>1 DEF u
    <3> QED
      BY <2>3, <3>5, <3>6, <3>7 DEF Follows, q
  <2> QED
    BY <2>4, <2>5
<1> QED
  BY <1>5, <1>6, <1>7

-----------------------------------------------------------------------------
(* A finished frame.                                                       *)

WithCompleted(r, id) == [r EXCEPT !.completed = id]

LEMMA CompletedFields ==
  ASSUME NEW r, Fields(r), NEW id
  PROVE  LET q == WithCompleted(r, id)
         IN  /\ q.frames = r.frames /\ q.pending_fec = r.pending_fec /\ q.seen = r.seen
             /\ q.completed = id /\ q.waiting = r.waiting /\ q.dropped = r.dropped
             /\ q.last_dropped = r.last_dropped /\ q.buffered = r.buffered /\ Fields(q)
<1> DEFINE q == WithCompleted(r, id)
<1>0. q = [r EXCEPT !.completed = id]
  BY DEF WithCompleted
<1> HIDE DEF q
<1>1. q = [frames |-> r.frames, pending_fec |-> r.pending_fec, seen |-> r.seen,
           completed |-> id, waiting |-> r.waiting, dropped |-> r.dropped,
           last_dropped |-> r.last_dropped, buffered |-> r.buffered]
  BY <1>0 DEF Fields
<1>2. /\ q.frames = r.frames /\ q.pending_fec = r.pending_fec /\ q.seen = r.seen
      /\ q.completed = id /\ q.waiting = r.waiting /\ q.dropped = r.dropped
      /\ q.last_dropped = r.last_dropped /\ q.buffered = r.buffered /\ Fields(q)
  BY <1>1 DEF Fields
<1> QED
  BY <1>2 DEF q

WithWaiting(r, w) == [r EXCEPT !.waiting = w]

LEMMA WaitingFields ==
  ASSUME NEW r, Fields(r), NEW w
  PROVE  LET q == WithWaiting(r, w)
         IN  /\ q.frames = r.frames /\ q.pending_fec = r.pending_fec /\ q.seen = r.seen
             /\ q.completed = r.completed /\ q.waiting = w /\ q.dropped = r.dropped
             /\ q.last_dropped = r.last_dropped /\ q.buffered = r.buffered /\ Fields(q)
<1> DEFINE q == WithWaiting(r, w)
<1>0. q = [r EXCEPT !.waiting = w]
  BY DEF WithWaiting
<1> HIDE DEF q
<1>1. q = [frames |-> r.frames, pending_fec |-> r.pending_fec, seen |-> r.seen,
           completed |-> r.completed, waiting |-> w, dropped |-> r.dropped,
           last_dropped |-> r.last_dropped, buffered |-> r.buffered]
  BY <1>0 DEF Fields
<1>2. /\ q.frames = r.frames /\ q.pending_fec = r.pending_fec /\ q.seen = r.seen
      /\ q.completed = r.completed /\ q.waiting = w /\ q.dropped = r.dropped
      /\ q.last_dropped = r.last_dropped /\ q.buffered = r.buffered /\ Fields(q)
  BY <1>1 DEF Fields
<1> QED
  BY <1>2 DEF q

\* An end to the waiting changes nothing else.
LEMMA UnwaitSound ==
  ASSUME NEW r, NEW G, NEW K, Sound(r, G, K), NEW w \in BOOLEAN
  PROVE  LET q == WithWaiting(r, w)
         IN  /\ Sound(q, G, K) /\ q.seen = r.seen /\ q.completed = r.completed
             /\ q.frames = r.frames
<1> DEFINE q == WithWaiting(r, w)
<1>1. Shaped(r) /\ Exact(r) /\ InWindow(r) /\ Contents(r, G, K) /\ Fields(r)
  BY DEF Sound, Shaped
<1>2. /\ q.frames = r.frames /\ q.pending_fec = r.pending_fec /\ q.seen = r.seen
      /\ q.completed = r.completed /\ q.waiting = w /\ q.dropped = r.dropped
      /\ q.last_dropped = r.last_dropped /\ q.buffered = r.buffered /\ Fields(q)
  BY <1>1, WaitingFields
<1> HIDE DEF q
<1>3. Shaped(q)
  BY <1>1, <1>2 DEF Shaped
<1>4. Exact(q)
  BY <1>1, <1>2, ExactKept
<1>5. InWindow(q) /\ Contents(q, G, K)
  BY <1>1, <1>2 DEF InWindow, Contents
<1> QED
  BY <1>2, <1>3, <1>4, <1>5 DEF Sound, q

\* A complete frame is taken out and is the latest completed one; if it is not
\* handed on, the reassembler waits for a key frame.
LEMMA FinalizeSound ==
  ASSUME NEW r, NEW G, NEW K, Sound(r, G, K), NEW id \in FrameIds
  PROVE  LET q == Finalize(r, id)
         IN  /\ Sound(q, G, K) /\ q.seen = r.seen
             /\ ~Complete(r, id) => q = r /\ ~Emits(r, id)
             /\ Complete(r, id) => q.completed = id
             /\ Complete(r, id) /\ ~Emits(r, id) => q.waiting
<1> DEFINE q == Finalize(r, id)
           g == Forget(r, {id})
           done == WithCompleted(g, id)
           key == r.frames[id].key
<1>1. q = IF ~Complete(r, id) THEN r
          ELSE IF key THEN WithWaiting(done, FALSE)
          ELSE IF r.waiting THEN MarkFrameDropped(done, id)
          ELSE IF Gap(r, id) THEN StartWaiting(MarkFrameDropped(done, id))
          ELSE done
  BY DEF Finalize, WithCompleted, WithWaiting
<1>2. Emits(r, id) <=> Complete(r, id) /\ (key \/ (~r.waiting /\ ~Gap(r, id)))
  BY DEF Emits
<1>3. Shaped(r) /\ Exact(r) /\ InWindow(r) /\ Contents(r, G, K)
  BY DEF Sound
<1>4. CASE ~Complete(r, id)
  <2>1. q = r
    BY <1>1, <1>4
  <2> HIDE DEF q
  <2> QED
    BY <1>2, <1>4, <2>1 DEF q
<1>5. CASE Complete(r, id)
  <2>1. id \in DOMAIN r.frames /\ id \in Nat
    BY <1>5, IdsAreNumbers DEF Complete
  <2>2. Reduces(g, r) /\ g.waiting = r.waiting
    BY <1>3, ForgetReduces
  <2> HIDE DEF g
  <2>3. Sound(g, G, K) /\ Shaped(g) /\ Exact(g) /\ Fields(g) /\ g.seen = r.seen
    BY <2>2, ReducesSound DEF Reduces, Shaped
  <2>4. /\ done.frames = g.frames /\ done.pending_fec = g.pending_fec /\ done.seen = g.seen
        /\ done.completed = id /\ done.waiting = g.waiting /\ done.dropped = g.dropped
        /\ done.last_dropped = g.last_dropped /\ done.buffered = g.buffered /\ Fields(done)
    BY <2>3, CompletedFields
  <2> HIDE DEF done
  <2>5. Sound(done, G, K)
    <3>1. Shaped(done)
      BY <2>1, <2>3, <2>4 DEF Shaped
    <3>2. Exact(done)
      BY <2>3, <2>4, ExactKept
    <3>3. id <= r.seen
      BY <1>3, <2>1 DEF InWindow
    <3>4. InWindow(done) /\ Contents(done, G, K)
      BY <2>3, <2>4, <3>3 DEF Sound, InWindow, Contents
    <3> QED
      BY <3>1, <3>2, <3>4 DEF Sound
  <2>6. Shaped(done) /\ Exact(done)
    BY <2>5 DEF Sound
  <2> DEFINE m == MarkFrameDropped(done, id)
  <2>7. Reduces(m, done) /\ m.waiting = done.waiting
    BY <2>1, <2>6, MarkReduces
  <2> HIDE DEF m
  <2>8. Sound(m, G, K) /\ Shaped(m) /\ Exact(m) /\ m.seen = r.seen /\ m.completed = id
    BY <2>3, <2>4, <2>5, <2>7, ReducesSound DEF Reduces
  <2>9. CASE key
    <3>1. q = WithWaiting(done, FALSE)
      BY <1>1, <1>5, <2>9
    <3>2. Sound(q, G, K) /\ q.seen = done.seen /\ q.completed = done.completed
      BY <2>5, <3>1, UnwaitSound
    <3> HIDE DEF q, key
    <3> QED
      BY <1>2, <1>5, <2>3, <2>4, <2>9, <3>2 DEF q
  <2>10. CASE ~key /\ r.waiting
    <3>1. q = m
      BY <1>1, <1>5, <2>10 DEF m
    <3> HIDE DEF q
    <3> QED
      BY <1>5, <2>2, <2>4, <2>7, <2>8, <2>10, <3>1 DEF q
  <2>11. CASE ~key /\ ~r.waiting /\ Gap(r, id)
    <3>1. q = StartWaiting(m)
      BY <1>1, <1>5, <2>11 DEF m
    <3>2. Reduces(q, m) /\ q.waiting
      BY <2>8, <3>1, WaitReduces
    <3> HIDE DEF q
    <3>3. Sound(q, G, K) /\ q.seen = m.seen /\ q.completed = m.completed
      BY <2>8, <3>2, ReducesSound DEF Reduces
    <3> QED
      BY <1>5, <2>8, <3>2, <3>3 DEF q
  <2>12. CASE ~key /\ ~r.waiting /\ ~Gap(r, id)
    <3>1. q = done /\ Emits(r, id)
      BY <1>1, <1>2, <1>5, <2>12
    <3> HIDE DEF q
    <3> QED
      BY <1>5, <2>3, <2>4, <2>5, <3>1 DEF q
  <2> QED
    BY <2>9, <2>10, <2>11, <2>12
<1> QED
  BY <1>4, <1>5

\* All packets of a complete assembly arrived, but for the repaired ones.
LEMMA CompleteIsWhole ==
  ASSUME NEW r, NEW G, NEW K, Sound(r, G, K), NEW id, Complete(r, id)
  PROVE  WholeIn(id, G)
<1> DEFINE a == r.frames[id]
           c == a.count
           A == ArrivedOf(id, c, G)
<1>1. id \in DOMAIN r.frames /\ Cardinality(a.parts) = c
  BY DEF Complete
<1>2. a \in Assembly /\ Assembled(a, id, G, K)
  BY <1>1 DEF Sound, Shaped, Contents
<1>3. c \in Nat /\ a.parts \subseteq 0..(c - 1) /\ Filled(a, id, G)
      /\ c \in {p.count : p \in Packets}
  BY <1>2 DEF Assembly, Assembled
<1>4. a.parts = 0..(c - 1)
  <2>1. IsFiniteSet(0..(c - 1)) /\ Cardinality(0..(c - 1)) = c
    <3> HIDE DEF c
    <3>1. 0 \in Int /\ c - 1 \in Int
      BY <1>3
    <3>2. /\ IsFiniteSet(0..(c - 1))
          /\ Cardinality(0..(c - 1)) = IF 0 > c - 1 THEN 0 ELSE (c - 1) - 0 + 1
      BY <3>1, FS_Interval
    <3> QED
      BY <1>3, <3>2
  <2>2. a.parts \in SUBSET (0..(c - 1))
    BY <1>3
  <2> HIDE DEF a, c
  <2> QED
    BY <1>1, <2>1, <2>2, FS_Subset
<1>5. \A k \in (0..(c - 1)) \ A :
        \E f \in G \cap Parity : f.id = id /\ Repairable(k, f, A)
  BY <1>3, <1>4 DEF Filled
<1> QED
  BY <1>3, <1>5 DEF WholeIn

LEMMA WholeMore ==
  ASSUME NEW id, NEW G, NEW H, G \subseteq H, WholeIn(id, G)
  PROVE  WholeIn(id, H)
<1>1. PICK c \in {p.count : p \in Packets} :
        \A k \in (0..(c - 1)) \ ArrivedOf(id, c, G) :
          \E f \in G \cap Parity : f.id = id /\ Repairable(k, f, ArrivedOf(id, c, G))
  BY DEF WholeIn
<1> DEFINE A == ArrivedOf(id, c, G)
           B == ArrivedOf(id, c, H)
<1>2. A \subseteq B
  BY DEF ArrivedOf
<1> HIDE DEF A, B
<1>3. ASSUME NEW k, NEW f, Repairable(k, f, A)
      PROVE  Repairable(k, f, B)
  BY <1>2, <1>3 DEF Repairable
<1>4. \A k \in (0..(c - 1)) \ B : \E f \in H \cap Parity : f.id = id /\ Repairable(k, f, B)
  BY <1>1, <1>2, <1>3 DEF A
<1> QED
  BY <1>4 DEF WholeIn, B

\* A call that finishes no frame, in which a wait ends only with a packet of
\* a newer key frame.
LEMMA HandedKept ==
  ASSUME NEW e, NEW r, NEW G, NEW K, Handed(e, r, G, K), NEW q, NEW H, G \subseteq H,
         r.completed \in Nat, q.completed = r.completed,
         \A p \in H : p.id \in Nat,
         r.waiting => q.waiting \/ KeySeenAfter(r.completed, H, K)
  PROVE  Handed(e, q, H, K)
<1>1. \A i \in DOMAIN e : WholeIn(e[i], H)
  BY WholeMore DEF Handed
<1>2. \A n : KeySeenAfter(n, G, K) => KeySeenAfter(n, H, K)
  BY DEF KeySeenAfter
<1>3. e # <<>> => \/ q.completed = e[Len(e)]
                  \/ q.waiting
                  \/ KeySeenAfter(e[Len(e)], H, K)
  <2>1. SUFFICES ASSUME e # <<>>, r.waiting, KeySeenAfter(r.completed, H, K)
                 PROVE  KeySeenAfter(e[Len(e)], H, K)
    BY <1>2 DEF Handed
  <2>2. e \in Seq(FrameIds) /\ Len(e) \in DOMAIN e
    BY <2>1 DEF Handed
  <2>3. e[Len(e)] <= r.completed /\ e[Len(e)] \in Nat
    BY <2>2, IdsAreNumbers DEF Handed
  <2> QED
    BY <2>1, <2>3 DEF KeySeenAfter
<1> QED
  BY <1>1, <1>2, <1>3 DEF Handed

\* A frame is finished behind the latest completed one.
LEMMA HandedFinal ==
  ASSUME NEW e, NEW r, NEW G, NEW K, Handed(e, r, G, K), Sound(r, G, K),
         NEW id \in FrameIds, r.completed < id,
         NEW d, d = IF Emits(r, id) THEN Append(e, id) ELSE e
  PROVE  Handed(d, Finalize(r, id), G, K)
<1> DEFINE q == Finalize(r, id)
<1>1. /\ ~Complete(r, id) => q = r /\ ~Emits(r, id)
      /\ Complete(r, id) => q.completed = id
      /\ Complete(r, id) /\ ~Emits(r, id) => q.waiting
  BY FinalizeSound
<1> HIDE DEF q
<1>2. id \in Nat /\ r.completed \in Nat /\ e \in Seq(FrameIds)
  BY IdsAreNumbers DEF Sound, Shaped, Handed
<1>3. \A i \in DOMAIN e : e[i] <= r.completed /\ e[i] \in Nat
  <2>1. \A i \in DOMAIN e : e[i] <= r.completed
    BY DEF Handed
  <2>2. \A i \in DOMAIN e : e[i] \in FrameIds
    BY <1>2
  <2> QED
    BY <2>1, <2>2, IdsAreNumbers
<1>4. CASE ~Complete(r, id)
  <2>1. q = r /\ d = e
    BY <1>1, <1>4
  <2> QED
    BY <2>1 DEF q
<1>5. CASE Complete(r, id) /\ ~Emits(r, id)
  <2>1. q.completed = id /\ q.waiting /\ d = e
    BY <1>1, <1>5
  <2>2. \A i \in DOMAIN e : e[i] <= id
    BY <1>2, <1>3
  <2>3. Handed(e, q, G, K)
    BY <2>1, <2>2 DEF Handed
  <2> QED
    BY <2>1, <2>3 DEF q
<1>6. CASE Complete(r, id) /\ Emits(r, id)
  <2> DEFINE n == Len(e)
  <2>1. /\ d = Append(e, id) /\ q.completed = id /\ n \in Nat /\ DOMAIN e = 1..n
        /\ DOMAIN d = 1..(n + 1) /\ Len(d) = n + 1 /\ d[n + 1] = id
        /\ d \in Seq(FrameIds) /\ d # <<>>
        /\ \A i \in 1..n : d[i] = e[i]
    BY <1>1, <1>2, <1>6
  <2>2. \A i, j \in DOMAIN d : i < j => d[i] < d[j]
    <3>1. SUFFICES ASSUME NEW i \in 1..(n + 1), NEW j \in 1..(n + 1), i < j
                   PROVE  d[i] < d[j]
      BY <2>1
    <3>2. i \in 1..n
      BY <2>1, <3>1
    <3>3. CASE j = n + 1
      BY <1>2, <1>3, <2>1, <3>2, <3>3
    <3>4. CASE j # n + 1
      <4>1. j \in 1..n
        BY <2>1, <3>4
      <4>2. e[i] < e[j]
        BY <2>1, <3>1, <3>2, <4>1 DEF Handed
      <4> QED
        BY <2>1, <3>2, <4>1, <4>2
    <3> QED
      BY <3>3, <3>4
  <2>3. \A i \in DOMAIN d : d[i] <= q.completed
    <3>1. SUFFICES ASSUME NEW i \in 1..(n + 1) PROVE d[i] <= id
      BY <2>1
    <3>2. CASE i = n + 1
      BY <1>2, <2>1, <3>2
    <3>3. CASE i \in 1..n
      BY <1>2, <1>3, <2>1, <3>3
    <3> QED
      BY <2>1, <3>2, <3>3
  <2>4. \A i \in DOMAIN d : WholeIn(d[i], G)
    <3>1. WholeIn(id, G)
      BY <1>6, CompleteIsWhole
    <3>2. SUFFICES ASSUME NEW i \in 1..(n + 1) PROVE WholeIn(d[i], G)
      BY <2>1
    <3>3. CASE i = n + 1
      BY <2>1, <3>1, <3>3
    <3>4. CASE i \in 1..n
      BY <2>1, <3>4 DEF Handed
    <3> QED
      BY <2>1, <3>3, <3>4
  <2>5. ASSUME NEW i \in DOMAIN d, i > 1, d[i] \notin K, d[i] # d[i - 1] + 1
        PROVE  KeySeenAfter(d[i - 1], G, K)
    <3>1. i - 1 \in 1..n /\ i \in 1..(n + 1)
      BY <2>1, <2>5
    <3>2. CASE i \in 1..n
      <4>1. d[i] = e[i] /\ d[i - 1] = e[i - 1]
        BY <2>1, <3>1, <3>2
      <4> QED
        BY <2>1, <2>5, <3>2, <4>1 DEF Handed
    <3>3. CASE i = n + 1
      <4>1. n \in 1..n /\ d[i] = id /\ d[i - 1] = e[n] /\ e # <<>>
        BY <2>1, <3>1, <3>3
      <4>2. id \notin K /\ id # e[n] + 1
        BY <2>5, <4>1
      <4>3. ~r.frames[id].key
        <5>1. Assembled(r.frames[id], id, G, K)
          BY <1>6 DEF Sound, Contents, Complete
        <5> QED
          BY <4>2, <5>1 DEF Assembled
      <4>4. ~r.waiting /\ ~Gap(r, id)
        BY <1>6, <4>3 DEF Emits
      <4>5. e[n] <= r.completed /\ e[n] \in Nat /\ e[n] # 0
        BY <1>2, <1>3, <2>1, <4>1, IdsAreNumbers
      <4>6. id - r.completed = 1
        BY <1>2, <4>4, <4>5 DEF Gap
      <4>7. r.completed # e[n]
        BY <1>2, <4>2, <4>5, <4>6
      <4> QED
        BY <4>1, <4>4, <4>7 DEF Handed
    <3> QED
      BY <2>1, <3>1, <3>2, <3>3
  <2>6. q.completed = d[Len(d)]
    BY <2>1
  <2> HIDE DEF n
  <2>7. Handed(d, q, G, K)
    BY <2>1, <2>2, <2>3, <2>4, <2>5, <2>6 DEF Handed
  <2> QED
    BY <2>7 DEF q
<1> QED
  BY <1>4, <1>5, <1>6

-----------------------------------------------------------------------------
(* The calls.                                                              *)

LEMMA CalledSound ==
  ASSUME NEW r, NEW G, NEW K, Sound(r, G, K)
  PROVE  /\ Sound(Called(r), G, K) /\ Called(r).seen = r.seen
         /\ Called(r).completed = r.completed /\ Called(r).waiting = r.waiting
<1>1. Shaped(r) /\ Exact(r)
  BY DEF Sound
<1>2. Reduces(Called(r), r) /\ Called(r).waiting = r.waiting
  BY <1>1, CalledReduces
<1> QED
  BY <1>2, ReducesSound DEF Reduces

WithSeen(r, id) == [r EXCEPT !.seen = id]

LEMMA SeenFields ==
  ASSUME NEW r, Fields(r), NEW id
  PROVE  LET q == WithSeen(r, id)
         IN  /\ q.frames = r.frames /\ q.pending_fec = r.pending_fec /\ q.seen = id
             /\ q.completed = r.completed /\ q.waiting = r.waiting /\ q.dropped = r.dropped
             /\ q.last_dropped = r.last_dropped /\ q.buffered = r.buffered /\ Fields(q)
<1> DEFINE q == WithSeen(r, id)
<1>0. q = [r EXCEPT !.seen = id]
  BY DEF WithSeen
<1> HIDE DEF q
<1>1. q = [frames |-> r.frames, pending_fec |-> r.pending_fec, seen |-> id,
           completed |-> r.completed, waiting |-> r.waiting, dropped |-> r.dropped,
           last_dropped |-> r.last_dropped, buffered |-> r.buffered]
  BY <1>0 DEF Fields
<1>2. /\ q.frames = r.frames /\ q.pending_fec = r.pending_fec /\ q.seen = id
      /\ q.completed = r.completed /\ q.waiting = r.waiting /\ q.dropped = r.dropped
      /\ q.last_dropped = r.last_dropped /\ q.buffered = r.buffered /\ Fields(q)
  BY <1>1 DEF Fields
<1> QED
  BY <1>2 DEF q

\* When the window moves, what falls out of it is dropped.
LEMMA WindowMovedSound ==
  ASSUME NEW G, Sound(re, G, keys), NEW p \in Packets, ~TooOld(p.id), NEW q \in WindowMoved(p)
  PROVE  /\ Sound(q, G, keys) /\ q.completed = re.completed /\ q.waiting = re.waiting
         /\ p.id <= q.seen /\ q.seen <= p.id + Window
<1> DEFINE id == p.id
           c == Called(re)
<1>1. id \in FrameIds /\ id \in Nat /\ Window \in Nat /\ re.seen \in Nat
      /\ re.completed \in Nat
  BY ReassemblerAssumption, IdsAreNumbers DEF Sound, Shaped
<1>2. /\ Sound(c, G, keys) /\ c.seen = re.seen /\ c.completed = re.completed
      /\ c.waiting = re.waiting
  BY CalledSound
<1>3. Shaped(c) /\ Exact(c) /\ InWindow(c) /\ Contents(c, G, keys) /\ Fields(c)
  BY <1>2 DEF Sound, Shaped
<1>4. CASE ~(id > re.seen)
  <2>1. q = c
    BY <1>4 DEF WindowMoved
  <2>2. id <= re.seen /\ re.seen <= id + Window
    BY <1>1, <1>4 DEF TooOld
  <2> HIDE DEF c
  <2> QED
    BY <1>2, <2>1, <2>2
<1>5. CASE id > re.seen
  <2> DEFINE s == WithSeen(c, id)
             low == SaturatingSub(id, Window)
  <2>1. q \in DropOlderThan(s, low)
    BY <1>5 DEF WindowMoved, WithSeen
  <2> HIDE DEF c
  <2>2. /\ s.frames = c.frames /\ s.pending_fec = c.pending_fec /\ s.seen = id
        /\ s.completed = c.completed /\ s.waiting = c.waiting /\ s.dropped = c.dropped
        /\ s.last_dropped = c.last_dropped /\ s.buffered = c.buffered /\ Fields(s)
    BY <1>3, SeenFields
  <2> HIDE DEF s
  <2>3. Shaped(s)
    BY <1>1, <1>3, <2>2 DEF Shaped
  <2>4. Exact(s)
    BY <1>3, <2>2, ExactKept
  <2> HIDE DEF low
  <2>5. /\ Reduces(q, s) /\ q.waiting = s.waiting
        /\ DOMAIN q.frames = DOMAIN s.frames \ Older(s, low)
    BY <2>1, <2>3, <2>4, DropOlderReduces
  <2>6. low \in Nat /\ id <= low + Window
    BY <1>1 DEF low, SaturatingSub
  <2>7. ASSUME NEW x \in DOMAIN q.frames PROVE x <= id /\ id <= x + Window
    <3>1. x \in DOMAIN c.frames /\ ~(x < low)
      BY <2>2, <2>5 DEF Older
    <3>2. x \in Nat /\ x <= re.seen
      BY <1>2, <1>3, <3>1, IdsAreNumbers DEF InWindow, Shaped
    <3> QED
      BY <1>1, <1>5, <2>6, <3>1, <3>2
  <2>8. InWindow(q)
    <3>1. q.seen = id /\ q.completed = re.completed
      BY <1>2, <2>2, <2>5 DEF Reduces
    <3>2. re.completed <= re.seen
      BY <1>2, <1>3 DEF InWindow
    <3>3. re.completed <= id
      BY <1>1, <1>5, <3>2
    <3> QED
      BY <2>7, <3>1, <3>3 DEF InWindow
  <2>9. Contents(q, G, keys)
    BY <1>3, <2>2, <2>5 DEF Contents, Reduces
  <2>10. Sound(q, G, keys)
    BY <2>5, <2>8, <2>9 DEF Sound, Reduces
  <2>11. q.seen = id /\ q.completed = re.completed /\ q.waiting = re.waiting
    BY <1>2, <2>2, <2>5 DEF Reduces
  <2> QED
    BY <1>1, <2>10, <2>11
<1> QED
  BY <1>4, <1>5

\* The states in which a packet meets its assembly.
LEMMA AdmittedSound ==
  ASSUME NEW G, Sound(re, G, keys), NEW p \in Packets, ~TooOld(p.id), NEW q \in Admitted(p)
  PROVE  /\ Sound(q, G, keys) /\ p.id \in DOMAIN q.frames /\ q.completed = re.completed
         /\ p.id \notin keys => q.waiting = re.waiting
<1> DEFINE key == p.id \in keys
           cleared == IF key
                        THEN UNION {DropOlderThan([r EXCEPT !.waiting = FALSE], p.id)
                                    : r \in WindowMoved(p)}
                        ELSE WindowMoved(p)
<1>1. PICK s \in cleared : q = OpenAssembly(s, p, key)
  BY DEF Admitted
<1>2. /\ Sound(s, G, keys) /\ s.completed = re.completed
      /\ p.id \notin keys => s.waiting = re.waiting
      /\ p.id <= s.seen /\ s.seen <= p.id + Window
  <2>1. CASE ~key
    <3>1. s \in WindowMoved(p)
      BY <2>1
    <3> HIDE DEF cleared
    <3> QED
      BY <3>1, WindowMovedSound
  <2>2. CASE key
    <3>1. PICK r \in WindowMoved(p) : s \in DropOlderThan(WithWaiting(r, FALSE), p.id)
      BY <2>2 DEF WithWaiting
    <3> HIDE DEF cleared
    <3>2. /\ Sound(r, G, keys) /\ r.completed = re.completed
          /\ p.id <= r.seen /\ r.seen <= p.id + Window
      BY <3>1, WindowMovedSound
    <3> DEFINE w == WithWaiting(r, FALSE)
    <3>3. Sound(w, G, keys) /\ w.seen = r.seen /\ w.completed = r.completed
      BY <3>2, UnwaitSound
    <3>4. s \in DropOlderThan(w, p.id)
      BY <3>1
    <3> HIDE DEF w
    <3>5. Shaped(w) /\ Exact(w)
      BY <3>3 DEF Sound
    <3>6. Reduces(s, w)
      BY <3>4, <3>5, DropOlderReduces
    <3>7. Sound(s, G, keys) /\ s.seen = w.seen /\ s.completed = w.completed
      BY <3>3, <3>6, ReducesSound DEF Reduces
    <3> QED
      BY <2>2, <3>2, <3>3, <3>7
  <2> QED
    BY <2>1, <2>2
<1> HIDE DEF cleared
<1>3. /\ Sound(q, G, keys) /\ p.id \in DOMAIN q.frames
      /\ q.completed = s.completed /\ q.waiting = s.waiting
  BY <1>1, <1>2, OpenSound
<1> QED
  BY <1>2, <1>3

LEMMA StoreParitySound ==
  ASSUME NEW r, NEW G, NEW K, Sound(r, G, K), NEW f \in G \cap Parity
  PROVE  Sound(StoreParity(r, f), G, K) /\ Follows(StoreParity(r, f), r)
<1> DEFINE q == StoreParity(r, f)
           P == DOMAIN r.pending_fec
           kept == Kept(r, f.id)
           new == Append(kept, f)
           b == [id \in P \cup {f.id} |-> IF id = f.id THEN new ELSE r.pending_fec[id]]
<1>1. Shaped(r) /\ Exact(r) /\ InWindow(r) /\ Contents(r, G, K) /\ Fields(r)
  BY DEF Sound, Shaped
<1>2. f.id \in FrameIds
  BY ReassemblerAssumption
<1>3. /\ kept \in Seq(Parity)
      /\ \A n \in 1..Len(kept) : kept[n] \in G \cap Parity /\ kept[n].id = f.id
  <2>1. CASE f.id \in P
    <3>1. kept = r.pending_fec[f.id]
      BY <2>1 DEF Kept
    <3>2. r.pending_fec[f.id] \in Seq(Parity)
      BY <1>1, <2>1 DEF Shaped
    <3>3. \A n \in 1..Len(r.pending_fec[f.id]) :
            r.pending_fec[f.id][n] \in G \cap Parity /\ r.pending_fec[f.id][n].id = f.id
      BY <1>1, <2>1 DEF Contents
    <3> HIDE DEF kept
    <3> QED
      BY <3>1, <3>2, <3>3
  <2>2. CASE f.id \notin P
    <3>1. kept = <<>>
      BY <2>2 DEF Kept
    <3> HIDE DEF kept
    <3> QED
      BY <3>1
  <2> QED
    BY <2>1, <2>2
<1>4. q = [r EXCEPT !.pending_fec = b]
  <2>1. b = [id \in P \cup {f.id} |->
               IF id = f.id THEN Append(Kept(r, id), f) ELSE r.pending_fec[id]]
    OBVIOUS
  <2> QED
    BY <2>1 DEF StoreParity
<1>12. /\ new \in Seq(Parity)
       /\ \A n \in 1..Len(new) : new[n] \in G \cap Parity /\ new[n].id = f.id
  <2> HIDE DEF kept
  <2> QED
    BY <1>3
<1> HIDE DEF new
<1>5. /\ DOMAIN b = P \cup {f.id} /\ b[f.id] = new
      /\ \A id \in P \ {f.id} : b[id] = r.pending_fec[id]
  OBVIOUS
<1> HIDE DEF q, b
<1>6. q = [frames |-> r.frames, pending_fec |-> b, seen |-> r.seen,
           completed |-> r.completed, waiting |-> r.waiting, dropped |-> r.dropped,
           last_dropped |-> r.last_dropped, buffered |-> r.buffered]
  BY <1>1, <1>4 DEF Fields
<1>7. /\ q.frames = r.frames /\ q.pending_fec = b /\ q.seen = r.seen
      /\ q.completed = r.completed /\ q.waiting = r.waiting /\ q.dropped = r.dropped
      /\ q.last_dropped = r.last_dropped /\ q.buffered = r.buffered /\ Fields(q)
  BY <1>6 DEF Fields
<1>8. Shaped(q)
  <2>1. DOMAIN b \in SUBSET FrameIds
    BY <1>1, <1>2, <1>5 DEF Shaped
  <2>2. \A id \in DOMAIN b : b[id] \in Seq(Parity)
    BY <1>1, <1>5, <1>12 DEF Shaped
  <2> QED
    BY <1>1, <1>7, <2>1, <2>2 DEF Shaped
<1>9. Exact(q)
  BY <1>1, <1>7, ExactKept
<1>10. Contents(q, G, K)
  <2>1. ASSUME NEW id \in DOMAIN b
        PROVE  \A n \in 1..Len(b[id]) : b[id][n] \in G \cap Parity /\ b[id][n].id = id
    <3>1. CASE id = f.id
      BY <1>5, <1>12, <3>1
    <3>2. CASE id # f.id
      BY <1>1, <1>5, <3>2 DEF Contents
    <3> QED
      BY <3>1, <3>2
  <2> QED
    BY <1>1, <1>7, <2>1 DEF Contents
<1>11. InWindow(q)
  BY <1>1, <1>7 DEF InWindow
<1> QED
  BY <1>7, <1>8, <1>9, <1>10, <1>11 DEF Sound, Follows, q

\* What a call does to the invariant: the packet is recorded as arrived, and
\* the reassembler goes through a state s from which the frame of the packet
\* may be finished.
LEMMA CallKeeps ==
  ASSUME IndInv, NEW p \in Packets \cup Parity, Arrives(p),
         Sound(re', got', keys), Handed(emitted', re', got', keys)
  PROVE  IndInv'
<1>1. keys' = keys /\ got' = got \cup {p}
  BY DEF Arrives
<1> QED
  BY <1>1 DEF IndInv

\* A call that only takes away.
LEMMA QuietCall ==
  ASSUME IndInv, NEW p \in Packets \cup Parity, Arrives(p), emitted' = emitted,
         Sound(re', got', keys), re'.completed = re.completed, re.waiting => re'.waiting
  PROVE  IndInv'
<1>1. got' = got \cup {p} /\ got \subseteq got'
  BY DEF Arrives
<1>2. \A x \in got' : x.id \in Nat
  BY <1>1, ReassemblerAssumption, IdsAreNumbers DEF IndInv
<1>3. re.completed \in Nat
  BY DEF IndInv, Sound, Shaped
<1>4. Handed(emitted, re', got', keys)
  BY <1>1, <1>2, <1>3, HandedKept DEF IndInv
<1> QED
  BY <1>4, CallKeeps

\* A call that ends with finalize_frame in state s.
LEMMA FinalCall ==
  ASSUME IndInv, NEW p \in Packets \cup Parity, Arrives(p), ~TooOld(p.id), NEW s,
         Sound(s, got', keys), s.completed = re.completed,
         re.waiting => s.waiting \/ p.id \in keys,
         re' = Finalize(s, p.id), Emit(s, p.id)
  PROVE  IndInv'
<1>1. got' = got \cup {p} /\ got \subseteq got' /\ p \in got'
  BY DEF Arrives
<1>2. \A x \in got' : x.id \in Nat
  BY <1>1, ReassemblerAssumption, IdsAreNumbers DEF IndInv
<1>3. re.completed \in Nat /\ p.id \in FrameIds /\ p.id \in Nat
  BY ReassemblerAssumption, IdsAreNumbers DEF IndInv, Sound, Shaped
<1>4. re.completed < p.id
  BY <1>3 DEF TooOld
<1>5. re.waiting => s.waiting \/ KeySeenAfter(re.completed, got', keys)
  BY <1>1, <1>3, <1>4 DEF KeySeenAfter
<1>6. Handed(emitted, s, got', keys)
  BY <1>1, <1>2, <1>3, <1>5, HandedKept DEF IndInv
<1>7. emitted' = IF Emits(s, p.id) THEN Append(emitted, p.id) ELSE emitted
  BY DEF Emit
<1>8. Handed(emitted', re', got', keys)
  BY <1>3, <1>4, <1>6, <1>7, HandedFinal
<1>9. Sound(re', got', keys)
  BY <1>3, FinalizeSound
<1> QED
  BY <1>8, <1>9, CallKeeps

LEMMA PacketStep ==
  ASSUME IndInv, NEW p \in Packets, OnPacket(p)
  PROVE  IndInv'
<1> DEFINE G == got \cup {p}
<1>1. Arrives(p) /\ got' = G
  BY DEF OnPacket, OnMalformed, OnOld, OnDeltaWhileWaiting, OnLoss, OnData, Arrives
<1>2. Sound(re, G, keys)
  BY SoundMore DEF IndInv
<1>3. /\ Sound(Called(re), G, keys) /\ Called(re).completed = re.completed
      /\ Called(re).waiting = re.waiting
  BY <1>2, CalledSound
<1>4. p.id \in Nat /\ p.id \in FrameIds /\ p \in G \cap Packets
  BY ReassemblerAssumption, IdsAreNumbers
<1> HIDE DEF G
<1>5. ASSUME NEW s, Sound(s, G, keys)
      PROVE  LET q == MarkFrameDropped(s, p.id)
             IN  Sound(q, G, keys) /\ q.completed = s.completed /\ q.waiting = s.waiting
  <2> DEFINE q == MarkFrameDropped(s, p.id)
  <2>1. Reduces(q, s) /\ q.waiting = s.waiting
    BY <1>4, <1>5, MarkReduces DEF Sound
  <2> HIDE DEF q
  <2>2. Sound(q, G, keys) /\ q.completed = s.completed
    BY <1>5, <2>1, ReducesSound DEF Reduces
  <2> QED
    BY <2>1, <2>2 DEF q
<1>6. CASE OnMalformed(p) \/ OnDeltaWhileWaiting(p)
  <2>1. re' = MarkFrameDropped(Called(re), p.id) /\ emitted' = emitted
    BY <1>6 DEF OnMalformed, OnDeltaWhileWaiting
  <2>2. Sound(re', G, keys) /\ re'.completed = re.completed /\ re'.waiting = re.waiting
    BY <1>3, <1>5, <2>1
  <2> QED
    BY <1>1, <2>1, <2>2, QuietCall
<1>7. CASE OnOld(p)
  <2>1. re' = Called(re) /\ emitted' = emitted
    BY <1>7 DEF OnOld
  <2> QED
    BY <1>1, <1>3, <2>1, QuietCall
<1>8. CASE OnLoss(p)
  <2>1. PICK r1 \in WindowMoved(p) :
          \E r2 \in DropOlderThan(StartWaiting(r1), p.id + 1) : re' = MarkFrameDropped(r2, p.id)
    BY <1>8 DEF OnLoss
  <2>2. PICK r2 \in DropOlderThan(StartWaiting(r1), p.id + 1) : re' = MarkFrameDropped(r2, p.id)
    BY <2>1
  <2>3. emitted' = emitted /\ ~TooOld(p.id)
    BY <1>8 DEF OnLoss, Considered
  <2>4. Sound(r1, G, keys) /\ r1.completed = re.completed /\ r1.waiting = re.waiting
    BY <1>2, <2>1, <2>3, WindowMovedSound
  <2> DEFINE w == StartWaiting(r1)
  <2>5. Reduces(w, r1)
    BY <2>4, WaitReduces DEF Sound
  <2>6. r2 \in DropOlderThan(w, p.id + 1)
    BY <2>2
  <2> HIDE DEF w
  <2>7. Reduces(r2, w)
    BY <2>5, <2>6, DropOlderReduces DEF Reduces
  <2>8. Reduces(r2, r1)
    BY <2>5, <2>7, ReducesTwice
  <2>9. Sound(r2, G, keys) /\ r2.completed = re.completed /\ (re.waiting => r2.waiting)
    BY <2>4, <2>8, ReducesSound DEF Reduces
  <2>10. Sound(re', G, keys) /\ re'.completed = re.completed /\ (re.waiting => re'.waiting)
    BY <1>5, <2>2, <2>9
  <2> QED
    BY <1>1, <2>3, <2>10, QuietCall
<1>9. CASE OnData(p)
  <2>1. PICK r \in Admitted(p) : re' = Finalize(Place(r, p), p.id) /\ Emit(Place(r, p), p.id)
    BY <1>9 DEF OnData
  <2>2. ~TooOld(p.id) /\ ~Malformed(p)
    BY <1>9 DEF OnData, Considered
  <2>3. /\ Sound(r, G, keys) /\ p.id \in DOMAIN r.frames /\ r.completed = re.completed
        /\ p.id \notin keys => r.waiting = re.waiting
    BY <1>2, <2>1, <2>2, AdmittedSound
  <2> DEFINE s == Place(r, p)
  <2>4. Sound(s, G, keys) /\ Follows(s, r)
    BY <1>4, <2>2, <2>3, PlaceSound
  <2>5. re' = Finalize(s, p.id) /\ Emit(s, p.id)
    BY <2>1
  <2> HIDE DEF s
  <2>6. s.completed = re.completed /\ (re.waiting => s.waiting \/ p.id \in keys)
    BY <2>3, <2>4 DEF Follows
  <2> QED
    BY <1>1, <2>2, <2>4, <2>5, <2>6, FinalCall
<1> QED
  BY <1>6, <1>7, <1>8, <1>9 DEF OnPacket

LEMMA ParityStep ==
  ASSUME IndInv, NEW f \in Parity, OnFecPacket(f)
  PROVE  IndInv'
<1> DEFINE G == got \cup {f}
<1>1. Arrives(f) /\ got' = G
  BY DEF OnFecPacket, OnFecOld, OnFecStored, Arrives
<1>2. Sound(re, G, keys)
  BY SoundMore DEF IndInv
<1>3. /\ Sound(Called(re), G, keys) /\ Called(re).completed = re.completed
      /\ Called(re).waiting = re.waiting
  BY <1>2, CalledSound
<1>4. f.id \in FrameIds /\ f \in G \cap Parity
  BY ReassemblerAssumption
<1> HIDE DEF G
<1>5. CASE OnFecOld(f)
  <2>1. re' = Called(re) /\ emitted' = emitted
    BY <1>5 DEF OnFecOld
  <2> QED
    BY <1>1, <1>3, <2>1, QuietCall
<1>6. CASE OnFecStored(f)
  <2> DEFINE stored == StoreParity(Called(re), f)
             tried == TryFecRecover(stored, f.id)
  <2>1. Sound(stored, G, keys) /\ Follows(stored, Called(re))
    BY <1>3, <1>4, StoreParitySound
  <2>2. /\ ~TooOld(f.id)
        /\ \/ re' = Finalize(tried, f.id) /\ Emit(tried, f.id)
           \/ re' = stored /\ emitted' = emitted
    BY <1>6 DEF OnFecStored
  <2> HIDE DEF stored
  <2>3. Sound(tried, G, keys) /\ Follows(tried, stored)
    BY <1>4, <2>1, TryFecSound
  <2> HIDE DEF tried
  <2>4. /\ stored.completed = re.completed /\ (re.waiting => stored.waiting)
        /\ tried.completed = re.completed /\ (re.waiting => tried.waiting)
    BY <1>3, <2>1, <2>3 DEF Follows
  <2>5. CASE re' = Finalize(tried, f.id) /\ Emit(tried, f.id)
    BY <1>1, <2>2, <2>3, <2>4, <2>5, FinalCall
  <2>6. CASE re' = stored /\ emitted' = emitted
    BY <1>1, <2>1, <2>4, <2>6, QuietCall
  <2> QED
    BY <2>2, <2>5, <2>6
<1> QED
  BY <1>5, <1>6 DEF OnFecPacket

LEMMA IndStep == IndInv /\ [Next]_rvars => IndInv'
<1> SUFFICES ASSUME IndInv, [Next]_rvars PROVE IndInv'
  OBVIOUS
<1>1. CASE UNCHANGED rvars
  BY <1>1 DEF rvars, IndInv
<1> QED
  BY <1>1, PacketStep, ParityStep DEF Next

LEMMA IndInit == Init => IndInv
<1> SUFFICES ASSUME Init PROVE IndInv
  OBVIOUS
<1> DEFINE none == [id \in {} |-> 0]
<1>1. re = [frames |-> none, pending_fec |-> none, seen |-> 0, completed |-> 0,
            waiting |-> FALSE, dropped |-> 0, last_dropped |-> 0, buffered |-> 0]
  BY DEF Init, New
<1>2. DOMAIN none = {}
  OBVIOUS
<1> HIDE DEF none
<1>3. /\ re.frames = none /\ re.pending_fec = none /\ re.seen = 0 /\ re.completed = 0
      /\ re.waiting = FALSE /\ re.dropped = 0 /\ re.last_dropped = 0 /\ re.buffered = 0
      /\ Fields(re)
  BY <1>1 DEF Fields
<1>4. Shaped(re)
  <2>1. DOMAIN re.frames = {} /\ DOMAIN re.pending_fec = {}
    BY <1>2, <1>3
  <2>2. IsFiniteSet(DOMAIN re.frames)
    BY <2>1, FS_EmptySet
  <2>3. re.waiting \in BOOLEAN
    BY <1>3
  <2>4. /\ re.seen \in Nat /\ re.completed \in Nat
        /\ re.dropped \in Nat /\ re.last_dropped \in Nat /\ re.buffered \in Nat
    BY <1>3
  <2>5. /\ DOMAIN re.frames \in SUBSET FrameIds
        /\ DOMAIN re.pending_fec \in SUBSET FrameIds
    BY <2>1
  <2>6. /\ \A id \in DOMAIN re.frames : re.frames[id] \in Assembly
        /\ \A id \in DOMAIN re.pending_fec : re.pending_fec[id] \in Seq(Parity)
    BY <2>1
  <2> QED
    BY <1>3, <2>2, <2>3, <2>4, <2>5, <2>6 DEF Shaped
<1>5. Exact(re)
  BY <1>2, <1>3, BytesOfNone, ReassemblerAssumption DEF Exact
<1>6. InWindow(re) /\ Contents(re, got, keys)
  BY <1>2, <1>3 DEF InWindow, Contents
<1>7. Handed(emitted, re, got, keys)
  <2>1. emitted = <<>> /\ emitted \in Seq(FrameIds) /\ DOMAIN emitted = {}
    BY DEF Init
  <2> QED
    BY <2>1 DEF Handed
<1> QED
  BY <1>4, <1>5, <1>6, <1>7 DEF Init, IndInv, Sound

LEMMA Invariance == Spec => []IndInv
BY IndInit, IndStep, PTL DEF Spec

-----------------------------------------------------------------------------
(* The theorems.                                                           *)

\* Every field of the reassembler keeps its type under any arrival of packets.
THEOREM ReassemblerTypeCorrect == Spec => []TypeOK
<1>1. IndInv => TypeOK
  BY DEF IndInv, Sound, Shaped, Handed, TypeOK
<1> QED
  BY <1>1, Invariance, PTL

\* The memory counter is exactly what the assemblies hold and stays within the
\* budget, whatever is dropped, repaired, repeated or refused: no path through
\* on_packet or on_fec_packet leaks or gives back twice.
THEOREM BudgetIsExact == Spec => []BudgetExact
<1>1. IndInv => BudgetExact
  BY DEF IndInv, Sound, Exact, BudgetExact
<1> QED
  BY <1>1, Invariance, PTL

\* Assemblies exist only inside the reordering window (drop_older_than and the
\* early returns for old packets).
THEOREM WindowIsHeld == Spec => []WindowHeld
<1>1. IndInv => WindowHeld
  BY DEF IndInv, Sound, InWindow, WindowHeld
<1> QED
  BY <1>1, Invariance, PTL

\* No frame is handed on twice or behind a newer one, however packets repeat
\* and overtake each other.
THEOREM FramesInOrder == Spec => []EmittedInOrder
<1>1. IndInv => EmittedInOrder
  BY DEF IndInv, Handed, EmittedInOrder
<1> QED
  BY <1>1, Invariance, PTL

\* A frame handed on is whole: each of its packets arrived, or is the only one
\* of its parity group that did not, and the parity packet of the group came
\* (is_complete, try_fec_recover).  A repair never rests on another one.
THEOREM FramesAreWhole == Spec => []EmittedWhole
<1>1. IndInv => EmittedWhole
  <2>1. SUFFICES ASSUME IndInv, NEW i \in DOMAIN emitted
                 PROVE  \E c \in {p.count : p \in Packets} :
                          LET lost == (0..(c - 1)) \ ArrivedOf(emitted[i], c, got)
                          IN  \A k \in lost :
                                \E f \in got \cap Parity :
                                  f.id = emitted[i] /\ Group(f) \cap lost = {k}
    BY DEF EmittedWhole, ArrivedOf
  <2>2. PICK c \in {p.count : p \in Packets} :
          \A k \in (0..(c - 1)) \ ArrivedOf(emitted[i], c, got) :
            \E f \in got \cap Parity :
              f.id = emitted[i] /\ Repairable(k, f, ArrivedOf(emitted[i], c, got))
    BY <2>1 DEF IndInv, Handed, WholeIn
  <2> DEFINE A == ArrivedOf(emitted[i], c, got)
             lost == (0..(c - 1)) \ A
  <2>3. ASSUME NEW k \in lost, NEW f, Repairable(k, f, A)
        PROVE  Group(f) \cap lost = {k}
    <3> HIDE DEF A
    <3> QED
      BY <2>3 DEF Repairable
  <2> QED
    BY <2>2, <2>3
<1> QED
  BY <1>1, Invariance, PTL

\* No silent gap: a delta that does not follow the frame handed on before it is
\* handed on only when something of a newer key frame has arrived.
THEOREM GapsNeedKeyPackets == Spec => []GapNeedsKeyPacket
<1>1. IndInv => GapNeedsKeyPacket
  BY DEF IndInv, Handed, KeySeenAfter, GapNeedsKeyPacket
<1> QED
  BY <1>1, Invariance, PTL
=============================================================================
