---------------------------- MODULE FoldTheorems ----------------------------
(***************************************************************************)
(* Facts about data that other proofs rest on: every set of numbers has a  *)
(* least element, and what a sum over a finite set is, in whatever order   *)
(* the fold of the community modules takes its elements.                   *)
(*                                                                         *)
(* The library's induction theorems are not used.  Instead, a statement    *)
(* about all numbers or all finite sets is proved from a minimal           *)
(* counterexample, which exists because < on Nat and the strict subsets of *)
(* a finite set are well founded (WFMin).                                  *)
(***************************************************************************)
EXTENDS Integers, FiniteSets, FiniteSetTheorems, WellFoundedInduction, TLAPS

NatLess == {p \in Nat \X Nat : p[1] < p[2]}

\* A set of natural numbers that is not empty has a least element.
LEMMA LeastNatural ==
  ASSUME NEW T \in SUBSET Nat, T # {}
  PROVE  \E m \in T : \A n \in T : m <= n
  <1>1. IsWellFoundedOn(NatLess, Nat)
    BY NatLessThanWellFounded DEF OpToRel, NatLess
  <1>2. PICK m \in T : \A n \in T : ~(<<n, m>> \in NatLess)
    BY <1>1, WFMin
  <1>3. \A n \in T : ~(n < m)
    BY <1>2 DEF NatLess
  <1> QED
    BY <1>3

\* A bounded set of numbers that is not empty has a greatest element.
LEMMA GreatestBelow ==
  ASSUME NEW b \in Nat, NEW T \in SUBSET (0..b), T # {}
  PROVE  \E m \in T : \A n \in T : n <= m
  <1> DEFINE R == {k \in Nat : b - k \in T}
  <1>1. PICK t \in T : TRUE
    OBVIOUS
  <1>2. b - t \in R
    BY <1>1
  <1>3. PICK k \in R : \A n \in R : k <= n
    BY <1>2, LeastNatural
  <1>4. \A n \in T : b - n \in R
    OBVIOUS
  <1>5. ASSUME NEW n \in T PROVE n <= b - k
    <2>1. k <= b - n /\ k \in Nat /\ n \in Int
      BY <1>3, <1>4
    <2> QED
      BY <2>1
  <1> QED
    BY <1>3, <1>5

\* A collection of subsets of a finite set has a minimal member.
LEMMA MinimalSubset ==
  ASSUME NEW S, IsFiniteSet(S), NEW T \in SUBSET SUBSET S, T # {}
  PROVE  \E m \in T : \A u \in T : u \subseteq m => u = m
  <1>1. IsWellFoundedOn(StrictSubsetOrdering(S), SUBSET S)
    BY FS_StrictSubsetOrderingWellFounded, FS_FiniteSubsetsOfFinite
  <1>2. PICK m \in T : \A u \in T : ~(<<u, m>> \in StrictSubsetOrdering(S))
    BY <1>1, WFMin
  <1>3. ASSUME NEW u \in T, u \subseteq m, u # m PROVE FALSE
    BY <1>2, <1>3 DEF StrictSubsetOrdering
  <1> QED
    BY <1>3

\* A finite set of integers that is not empty has a greatest element.
LEMMA GreatestElement ==
  ASSUME NEW S, IsFiniteSet(S), \A x \in S : x \in Int, S # {}
  PROVE  \E m \in S : \A n \in S : m >= n
  <1> DEFINE Good(s) == s # {} => \E m \in s : \A n \in s : m >= n
             T == {s \in SUBSET S : ~Good(s)}
  <1> SUFFICES ASSUME T # {} PROVE FALSE
    OBVIOUS
  <1>1. PICK s \in T : \A u \in T : u \subseteq s => u = s
    <2>1. T \in SUBSET SUBSET S
      OBVIOUS
    <2> HIDE DEF T
    <2> QED
      BY <2>1, MinimalSubset
  <1>2. PICK x \in s : TRUE
    OBVIOUS
  <1>3. Good(s \ {x})
    <2>1. s \ {x} \in SUBSET S /\ s \ {x} \subseteq s /\ s \ {x} # s
      BY <1>2
    <2>2. s \ {x} \notin T
      <3> HIDE DEF T
      <3> QED
        BY <1>1, <2>1
    <2> QED
      BY <2>1, <2>2
  <1>4. CASE s \ {x} = {}
    BY <1>2, <1>4
  <1>5. CASE s \ {x} # {}
    <2>1. PICK m \in s \ {x} : \A n \in s \ {x} : m >= n
      BY <1>3, <1>5
    <2>2. x \in Int /\ m \in Int /\ \A n \in s : n \in Int
      OBVIOUS
    <2>3. CASE m >= x
      BY <2>1, <2>2, <2>3
    <2>4. CASE x >= m
      <3>1. \A n \in s : x >= n
        BY <2>1, <2>2, <2>4
      <3> QED
        BY <3>1
    <2> QED
      BY <2>2, <2>3, <2>4
  <1> QED
    BY <1>4, <1>5

-----------------------------------------------------------------------------
(* Sums.  f gives each element its number and c chooses, from each subset, *)
(* the element that is added next.                                         *)

Chooses(c, S) == \A s \in SUBSET S : s # {} => c[s] \in s

Numbers(f, S) == \A x \in S : f[x] \in Nat

IsSum(g, c, f, S) ==
  g = [s \in SUBSET S |-> IF s = {} THEN 0 ELSE f[c[s]] + g[s \ {c[s]}]]

Total(c, f, S) == (CHOOSE g : IsSum(g, c, f, S))[S]

\* Two sums agree on every set they are both defined on.
LEMMA SumUnique ==
  ASSUME NEW S, IsFiniteSet(S), NEW U \in SUBSET S, NEW c, Chooses(c, S),
         NEW f, NEW g, NEW h, IsSum(g, c, f, S), IsSum(h, c, f, U)
  PROVE  \A s \in SUBSET U : g[s] = h[s]
  <1> DEFINE T == {s \in SUBSET U : g[s] # h[s]}
  <1> SUFFICES ASSUME T # {} PROVE FALSE
    OBVIOUS
  <1>1. PICK s \in T : \A u \in T : u \subseteq s => u = s
    <2>1. T \in SUBSET SUBSET S
      OBVIOUS
    <2> HIDE DEF T
    <2> QED
      BY <2>1, MinimalSubset
  <1>2. g[s] = IF s = {} THEN 0 ELSE f[c[s]] + g[s \ {c[s]}]
    BY DEF IsSum
  <1>3. h[s] = IF s = {} THEN 0 ELSE f[c[s]] + h[s \ {c[s]}]
    BY DEF IsSum
  <1>4. s # {}
    BY <1>2, <1>3
  <1>5. c[s] \in s
    BY <1>4 DEF Chooses
  <1>6. s \ {c[s]} \notin T
    BY <1>1, <1>5
  <1> QED
    BY <1>2, <1>3, <1>6

\* The recursive equation of a sum over a finite set has a solution.
LEMMA SumExists ==
  ASSUME NEW S, IsFiniteSet(S), NEW c, Chooses(c, S), NEW f
  PROVE  \E g : IsSum(g, c, f, S)
  <1> DEFINE T == {s \in SUBSET S : ~\E g : IsSum(g, c, f, s)}
  <1> SUFFICES ASSUME T # {} PROVE FALSE
    OBVIOUS
  <1>1. PICK U \in T : \A u \in T : u \subseteq U => u = U
    <2>1. T \in SUBSET SUBSET S
      OBVIOUS
    <2> HIDE DEF T
    <2> QED
      BY <2>1, MinimalSubset
  <1>0. ASSUME NEW u \in SUBSET S, NEW v \in SUBSET u, NEW a, NEW b,
               IsSum(a, c, f, u), IsSum(b, c, f, v)
        PROVE  a[v] = b[v]
    <2>1. IsFiniteSet(u)
      BY FS_Subset
    <2>2. Chooses(c, u)
      BY DEF Chooses
    <2>3. \A s \in SUBSET v : a[s] = b[s]
      BY <1>0, <2>1, <2>2, SumUnique
    <2> QED
      BY <2>3
  <1> DEFINE h == [s \in SUBSET U |-> CHOOSE g : IsSum(g, c, f, s)]
             rest(s) == s \ {c[s]}
             k == [s \in SUBSET U |->
                     IF s = {} THEN 0 ELSE f[c[s]] + h[rest(s)][rest(s)]]
  <1>2. ASSUME NEW s \in SUBSET U, s # U PROVE IsSum(h[s], c, f, s)
    <2>1. s \notin T
      BY <1>1, <1>2
    <2>2. \E g : IsSum(g, c, f, s)
      BY <2>1
    <2> QED
      BY <2>2
  <1>3. ASSUME NEW u \in SUBSET U, u # U PROVE k[u] = h[u][u]
    <2>1. IsSum(h[u], c, f, u)
      BY <1>2, <1>3
    <2>2. h[u][u] = IF u = {} THEN 0 ELSE f[c[u]] + h[u][rest(u)]
      BY <2>1 DEF IsSum
    <2>3. CASE u = {}
      BY <2>2, <2>3
    <2>4. CASE u # {}
      <3>1. c[u] \in u
        BY <2>4 DEF Chooses
      <3>2. rest(u) \in SUBSET u /\ rest(u) # U
        BY <3>1
      <3>3. IsSum(h[rest(u)], c, f, rest(u))
        BY <1>2, <3>2
      <3>4. h[u][rest(u)] = h[rest(u)][rest(u)]
        <4>1. rest(u) \in SUBSET u /\ u \in SUBSET S
          BY <3>2
        <4> HIDE DEF T, h, rest, k
        <4> QED
          BY <1>0, <2>1, <3>3, <4>1
      <3> QED
        BY <2>2, <2>4, <3>4
    <2> QED
      BY <2>3, <2>4
  <1>4. ASSUME NEW s \in SUBSET U, s # {}
        PROVE  rest(s) \in SUBSET U /\ rest(s) # U
    BY <1>4 DEF Chooses
  <1>5. ASSUME NEW s \in SUBSET U
        PROVE  k[s] = IF s = {} THEN 0 ELSE f[c[s]] + k[rest(s)]
    <2>1. CASE s = {}
      BY <2>1
    <2>2. CASE s # {}
      <3>1. rest(s) \in SUBSET U /\ rest(s) # U
        BY <1>4, <2>2
      <3>2. k[rest(s)] = h[rest(s)][rest(s)]
        BY <1>3, <3>1
      <3>3. k[s] = f[c[s]] + h[rest(s)][rest(s)]
        BY <2>2
      <3> QED
        BY <2>2, <3>2, <3>3
    <2> QED
      BY <2>1, <2>2
  <1>6. IsSum(k, c, f, U)
    <2>1. k = [s \in SUBSET U |-> k[s]]
      OBVIOUS
    <2> HIDE DEF k
    <2> QED
      BY <1>5, <2>1 DEF IsSum
  <1> QED
    BY <1>6

\* A total is the element chosen first and the total of the others.
LEMMA TotalStep ==
  ASSUME NEW S, IsFiniteSet(S), NEW c, Chooses(c, S), NEW f
  PROVE  /\ S = {} => Total(c, f, S) = 0
         /\ S # {} => /\ c[S] \in S
                      /\ Total(c, f, S) = f[c[S]] + Total(c, f, S \ {c[S]})
  <1> DEFINE U == S \ {c[S]}
             g == CHOOSE a : IsSum(a, c, f, S)
             h == CHOOSE a : IsSum(a, c, f, U)
  <1>1. IsSum(g, c, f, S)
    BY SumExists
  <1>2. U \in SUBSET S /\ IsFiniteSet(U) /\ Chooses(c, U)
    BY FS_Subset DEF Chooses
  <1>3. IsSum(h, c, f, U)
    <2> HIDE DEF U
    <2> QED
      BY <1>2, SumExists
  <1>4. g[U] = h[U]
    <2> HIDE DEF U, g, h
    <2>1. \A s \in SUBSET U : g[s] = h[s]
      BY <1>1, <1>2, <1>3, SumUnique
    <2> QED
      BY <2>1
  <1>5. g[S] = IF S = {} THEN 0 ELSE f[c[S]] + g[U]
    <2> HIDE DEF g
    <2> QED
      BY <1>1 DEF IsSum
  <1>6. Total(c, f, S) = g[S] /\ Total(c, f, U) = h[U]
    BY DEF Total
  <1>7. S # {} => c[S] \in S
    BY DEF Chooses
  <1> HIDE DEF g, h
  <1> QED
    BY <1>4, <1>5, <1>6, <1>7

\* The total of natural numbers is one.
LEMMA TotalNat ==
  ASSUME NEW S, IsFiniteSet(S), NEW c, Chooses(c, S), NEW f, Numbers(f, S)
  PROVE  Total(c, f, S) \in Nat
  <1> DEFINE T == {s \in SUBSET S : Total(c, f, s) \notin Nat}
  <1> SUFFICES ASSUME T # {} PROVE FALSE
    OBVIOUS
  <1>1. PICK s \in T : \A u \in T : u \subseteq s => u = s
    <2>1. T \in SUBSET SUBSET S
      OBVIOUS
    <2> HIDE DEF T
    <2> QED
      BY <2>1, MinimalSubset
  <1>2. IsFiniteSet(s) /\ Chooses(c, s)
    BY FS_Subset DEF Chooses
  <1>3. s # {} /\ c[s] \in s /\ Total(c, f, s) = f[c[s]] + Total(c, f, s \ {c[s]})
    BY <1>2, TotalStep
  <1>4. s \ {c[s]} \notin T
    BY <1>1, <1>3
  <1> QED
    BY <1>3, <1>4 DEF Numbers

\* Which element is taken away first does not matter.
LEMMA TotalRemove ==
  ASSUME NEW S, IsFiniteSet(S), NEW c, Chooses(c, S), NEW f, Numbers(f, S),
         NEW x \in S
  PROVE  Total(c, f, S) = f[x] + Total(c, f, S \ {x})
  <1> DEFINE Good(s) == \A y \in s : Total(c, f, s) = f[y] + Total(c, f, s \ {y})
             T == {s \in SUBSET S : ~Good(s)}
  <1> SUFFICES ASSUME T # {} PROVE FALSE
    OBVIOUS
  <1>1. PICK s \in T : \A u \in T : u \subseteq s => u = s
    <2>1. T \in SUBSET SUBSET S
      OBVIOUS
    <2> HIDE DEF T
    <2> QED
      BY <2>1, MinimalSubset
  <1>2. PICK y \in s : Total(c, f, s) # f[y] + Total(c, f, s \ {y})
    OBVIOUS
  <1>3. ASSUME NEW u \in SUBSET S
        PROVE  IsFiniteSet(u) /\ Chooses(c, u) /\ Numbers(f, u)
    BY FS_Subset DEF Chooses, Numbers
  <1> DEFINE a == c[s]
  <1>4. a \in s /\ Total(c, f, s) = f[a] + Total(c, f, s \ {a})
    BY <1>2, <1>3, TotalStep
  <1>5. a # y
    BY <1>2, <1>4
  <1>6. Good(s \ {a}) /\ Good(s \ {y})
    BY <1>1, <1>2, <1>4
  <1> HIDE DEF a
  <1>7. Total(c, f, s \ {a}) = f[y] + Total(c, f, (s \ {a}) \ {y})
    BY <1>2, <1>5, <1>6
  <1>8. Total(c, f, s \ {y}) = f[a] + Total(c, f, (s \ {y}) \ {a})
    BY <1>4, <1>5, <1>6
  <1> DEFINE r == (s \ {a}) \ {y}
  <1>9. (s \ {y}) \ {a} = r
    OBVIOUS
  <1>10. f[a] \in Nat /\ f[y] \in Nat
    BY <1>4 DEF Numbers
  <1>11. Total(c, f, r) \in Nat
    <2>1. r \in SUBSET S
      OBVIOUS
    <2> HIDE DEF r
    <2> QED
      BY <1>3, <2>1, TotalNat
  <1>12. Total(c, f, s) = f[a] + (f[y] + Total(c, f, r))
    BY <1>4, <1>7
  <1>13. f[y] + Total(c, f, s \ {y}) = f[y] + (f[a] + Total(c, f, r))
    BY <1>8, <1>9
  <1> HIDE DEF r
  <1>14. f[a] + (f[y] + Total(c, f, r)) = f[y] + (f[a] + Total(c, f, r))
    BY <1>10, <1>11
  <1> QED
    BY <1>2, <1>12, <1>13, <1>14

\* The total of a set is that of a part and that of the rest.
LEMMA TotalSplit ==
  ASSUME NEW S, IsFiniteSet(S), NEW c, Chooses(c, S), NEW f, Numbers(f, S),
         NEW U \in SUBSET S
  PROVE  Total(c, f, S) = Total(c, f, U) + Total(c, f, S \ U)
  <1> DEFINE Good(u) == Total(c, f, S) = Total(c, f, u) + Total(c, f, S \ u)
             T == {u \in SUBSET S : ~Good(u)}
  <1> SUFFICES ASSUME T # {} PROVE FALSE
    OBVIOUS
  <1>1. PICK u \in T : \A v \in T : v \subseteq u => v = u
    <2>1. T \in SUBSET SUBSET S
      OBVIOUS
    <2> HIDE DEF T
    <2> QED
      BY <2>1, MinimalSubset
  <1>2. ASSUME NEW v \in SUBSET S
        PROVE  /\ IsFiniteSet(v) /\ Chooses(c, v) /\ Numbers(f, v)
               /\ Total(c, f, v) \in Nat
    <2>1. IsFiniteSet(v) /\ Chooses(c, v) /\ Numbers(f, v)
      BY FS_Subset DEF Chooses, Numbers
    <2> QED
      BY <2>1, TotalNat
  <1>3. u # {}
    <2>1. Total(c, f, {}) = 0
      <3>1. IsFiniteSet({}) /\ Chooses(c, {})
        BY <1>2
      <3> QED
        BY <3>1, TotalStep
    <2>2. S \ {} = S /\ Total(c, f, S) \in Nat
      BY <1>2
    <2>3. Good({})
      BY <2>1, <2>2
    <2> QED
      BY <2>3
  <1>4. PICK x \in u : TRUE
    BY <1>3
  <1> DEFINE v == u \ {x}
  <1>5. Good(v)
    BY <1>1, <1>4
  <1>6. Total(c, f, u) = f[x] + Total(c, f, v)
    BY <1>2, <1>4, TotalRemove
  <1>7. Total(c, f, S \ v) = f[x] + Total(c, f, S \ u)
    <2> DEFINE w == S \ v
    <2>1. w \in SUBSET S /\ x \in w /\ w \ {x} = S \ u
      BY <1>4
    <2> HIDE DEF w
    <2>2. Total(c, f, w) = f[x] + Total(c, f, w \ {x})
      BY <1>2, <2>1, TotalRemove
    <2> QED
      BY <2>1, <2>2 DEF w
  <1>8. /\ f[x] \in Nat /\ Total(c, f, v) \in Nat
        /\ Total(c, f, S \ u) \in Nat
    BY <1>2, <1>4 DEF Numbers
  <1>9. ~Good(u)
    OBVIOUS
  <1> HIDE DEF v, T
  <1> QED
    BY <1>5, <1>6, <1>7, <1>8, <1>9

\* A total depends only on the numbers of the elements that are added.
LEMMA TotalAgree ==
  ASSUME NEW S, IsFiniteSet(S), NEW c, Chooses(c, S), NEW f, NEW g,
         \A x \in S : f[x] = g[x]
  PROVE  Total(c, f, S) = Total(c, g, S)
  <1> DEFINE T == {s \in SUBSET S : Total(c, f, s) # Total(c, g, s)}
  <1> SUFFICES ASSUME T # {} PROVE FALSE
    OBVIOUS
  <1>1. PICK s \in T : \A u \in T : u \subseteq s => u = s
    <2>1. T \in SUBSET SUBSET S
      OBVIOUS
    <2> HIDE DEF T
    <2> QED
      BY <2>1, MinimalSubset
  <1>2. IsFiniteSet(s) /\ Chooses(c, s)
    BY FS_Subset DEF Chooses
  <1>3. s = {} => Total(c, f, s) = 0 /\ Total(c, g, s) = 0
    BY <1>2, TotalStep
  <1>4. s # {}
    BY <1>3
  <1>5. c[s] \in s /\ Total(c, f, s) = f[c[s]] + Total(c, f, s \ {c[s]})
    BY <1>2, <1>4, TotalStep
  <1>6. Total(c, g, s) = g[c[s]] + Total(c, g, s \ {c[s]})
    BY <1>2, <1>4, TotalStep
  <1>7. s \ {c[s]} \notin T
    BY <1>1, <1>5
  <1> QED
    BY <1>5, <1>6, <1>7

\* Totals over two sets are equal when the elements correspond one to one and
\* corresponding elements have the same number, whatever the choices.
LEMMA TotalRename ==
  ASSUME NEW S, IsFiniteSet(S), NEW c, Chooses(c, S), NEW f,
         NEW V, IsFiniteSet(V), NEW d, Chooses(d, V), NEW g, Numbers(g, V),
         NEW b, \A x \in S : b[x] \in V /\ f[x] = g[b[x]],
         \A x, y \in S : b[x] = b[y] => x = y
  PROVE  Total(c, f, S) = Total(d, g, {b[x] : x \in S})
  <1> DEFINE im(s) == {b[x] : x \in s}
             T == {s \in SUBSET S : Total(c, f, s) # Total(d, g, im(s))}
  <1> SUFFICES ASSUME T # {} PROVE FALSE
    OBVIOUS
  <1>1. PICK s \in T : \A u \in T : u \subseteq s => u = s
    <2>1. T \in SUBSET SUBSET S
      OBVIOUS
    <2> HIDE DEF T
    <2> QED
      BY <2>1, MinimalSubset
  <1>2. IsFiniteSet(s) /\ Chooses(c, s)
    BY FS_Subset DEF Chooses
  <1>3. im(s) \subseteq V
    OBVIOUS
  <1>4. IsFiniteSet(im(s)) /\ Chooses(d, im(s)) /\ Numbers(g, im(s))
    <2> HIDE DEF im
    <2> QED
      BY <1>3, FS_Subset DEF Chooses, Numbers
  <1>5. s # {}
    <2>1. ASSUME s = {} PROVE FALSE
      <3>1. im(s) = {}
        BY <2>1
      <3> HIDE DEF im
      <3>2. Total(c, f, s) = 0 /\ Total(d, g, im(s)) = 0
        BY <1>2, <1>4, <2>1, <3>1, TotalStep
      <3> QED
        BY <3>2
    <2> QED
      BY <2>1
  <1> DEFINE x == c[s]
  <1>6. x \in s /\ Total(c, f, s) = f[x] + Total(c, f, s \ {x})
    BY <1>2, <1>5, TotalStep
  <1> HIDE DEF x
  <1>7. im(s) \ {b[x]} = im(s \ {x})
    BY <1>6
  <1>8. b[x] \in im(s) /\ f[x] = g[b[x]]
    BY <1>6
  <1>9. Total(d, g, im(s)) = g[b[x]] + Total(d, g, im(s) \ {b[x]})
    <2> HIDE DEF im
    <2> QED
      BY <1>4, <1>8, TotalRemove
  <1>10. Total(c, f, s \ {x}) = Total(d, g, im(s \ {x}))
    BY <1>1, <1>6
  <1>11. Total(c, f, s) # Total(d, g, im(s))
    OBVIOUS
  <1> HIDE DEF im, T
  <1> QED
    BY <1>6, <1>7, <1>8, <1>9, <1>10, <1>11

-----------------------------------------------------------------------------
(* Folds.                                                                  *)

\* A fold that adds the chosen element last.
IsFold(h, c, f, S) ==
  h = [s \in SUBSET S |-> IF s = {} THEN 0 ELSE h[s \ {c[s]}] + f[c[s]]]

\* The values of a fold, in either order, are natural numbers.
LEMMA FoldNat ==
  ASSUME NEW S, IsFiniteSet(S), NEW c, Chooses(c, S), NEW f, Numbers(f, S),
         NEW h, IsSum(h, c, f, S) \/ IsFold(h, c, f, S)
  PROVE  \A s \in SUBSET S : h[s] \in Nat
  <1> DEFINE T == {s \in SUBSET S : h[s] \notin Nat}
  <1> SUFFICES ASSUME T # {} PROVE FALSE
    OBVIOUS
  <1>1. PICK s \in T : \A u \in T : u \subseteq s => u = s
    <2>1. T \in SUBSET SUBSET S
      OBVIOUS
    <2> HIDE DEF T
    <2> QED
      BY <2>1, MinimalSubset
  <1>2. \/ h[s] = IF s = {} THEN 0 ELSE f[c[s]] + h[s \ {c[s]}]
        \/ h[s] = IF s = {} THEN 0 ELSE h[s \ {c[s]}] + f[c[s]]
    BY DEF IsSum, IsFold
  <1>3. s # {}
    BY <1>2
  <1>4. c[s] \in s /\ f[c[s]] \in Nat
    BY <1>3 DEF Chooses, Numbers
  <1>5. s \ {c[s]} \notin T
    BY <1>1, <1>4
  <1> QED
    BY <1>2, <1>3, <1>4, <1>5

\* Both orders are the same.
LEMMA FoldIsSum ==
  ASSUME NEW S, IsFiniteSet(S), NEW c, Chooses(c, S), NEW f, Numbers(f, S), NEW h
  PROVE  IsFold(h, c, f, S) <=> IsSum(h, c, f, S)
  <1> SUFFICES ASSUME IsFold(h, c, f, S) \/ IsSum(h, c, f, S)
               PROVE  IsFold(h, c, f, S) <=> IsSum(h, c, f, S)
    OBVIOUS
  <1>1. \A s \in SUBSET S : h[s] \in Nat
    BY FoldNat
  <1>2. ASSUME NEW s \in SUBSET S, s # {}
        PROVE  h[s \ {c[s]}] + f[c[s]] = f[c[s]] + h[s \ {c[s]}]
    <2>1. f[c[s]] \in Nat
      BY <1>2 DEF Chooses, Numbers
    <2> QED
      BY <1>1, <2>1
  <1>3. [s \in SUBSET S |-> IF s = {} THEN 0 ELSE h[s \ {c[s]}] + f[c[s]]]
          = [s \in SUBSET S |-> IF s = {} THEN 0 ELSE f[c[s]] + h[s \ {c[s]}]]
    BY <1>2
  <1> QED
    BY <1>3 DEF IsFold, IsSum

\* A fold exists, and each one computes the total.
LEMMA FoldIsTotal ==
  ASSUME NEW S, IsFiniteSet(S), NEW c, Chooses(c, S), NEW f, Numbers(f, S)
  PROVE  /\ \E h : IsFold(h, c, f, S)
         /\ \E h : IsSum(h, c, f, S)
         /\ \A h : IsFold(h, c, f, S) \/ IsSum(h, c, f, S) => h[S] = Total(c, f, S)
  <1> DEFINE g == CHOOSE a : IsSum(a, c, f, S)
  <1>1. IsSum(g, c, f, S)
    BY SumExists
  <1>2. Total(c, f, S) = g[S]
    BY DEF Total
  <1> HIDE DEF g
  <1>3. IsFold(g, c, f, S)
    BY <1>1, FoldIsSum
  <1>4. ASSUME NEW h, IsFold(h, c, f, S) \/ IsSum(h, c, f, S)
        PROVE  h[S] = Total(c, f, S)
    <2>1. IsSum(h, c, f, S)
      BY <1>4, FoldIsSum
    <2>2. S \in SUBSET S
      OBVIOUS
    <2>3. \A s \in SUBSET S : g[s] = h[s]
      BY <1>1, <2>1, <2>2, SumUnique
    <2> QED
      BY <1>2, <2>2, <2>3
  <1> QED
    BY <1>1, <1>3, <1>4
=============================================================================
