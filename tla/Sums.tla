-------------------------------- MODULE Sums --------------------------------
(***************************************************************************)
(* What the proofs need of recursion: of SumFunctionOnSet, which the       *)
(* library defines by recursion over the subsets of the index set, that    *)
(* the recursion has a solution, that the order of the summands does not   *)
(* matter, and how a sum follows its summands; of a function over the      *)
(* positions of a sequence, that it can be built from one position to the  *)
(* next.  Induction is replaced by a smallest counterexample throughout.   *)
(***************************************************************************)
EXTENDS Naturals, FiniteSets, Functions, FiniteSetTheorems, TLAPS

(* The element a fold takes out of s.                                      *)
Elem(s) == CHOOSE x \in s : TRUE

(* g holds the sums of f over the subsets of S.                            *)
IsSum(g, f, S) ==
  g = [s \in SUBSET S |-> IF s = {} THEN 0 ELSE f[Elem(s)] + g[s \ {Elem(s)}]]

(* A nonempty set of subsets of a finite set has a smallest one.           *)
LEMMA SmallestSet ==
  ASSUME NEW S, IsFiniteSet(S), NEW T \in SUBSET (SUBSET S), T # {}
  PROVE  \E s \in T : \A u \in T : u \subseteq s => u = s
<1>1. IsWellFoundedOn(StrictSubsetOrdering(S), SUBSET S)
  BY FS_StrictSubsetOrderingWellFounded, FS_FiniteSubsetsOfFinite
<1>2. PICK s \in T : \A u \in T : <<u, s>> \notin StrictSubsetOrdering(S)
  BY <1>1, WFMin
<1>3. \A u \in T : u \subseteq s => u = s
  BY <1>2 DEF StrictSubsetOrdering
<1> QED BY <1>3

(* It is an element, if there is one.                                      *)
LEMMA ElemIn == \A s : s # {} => Elem(s) \in s
BY DEF Elem

(* Two solutions of the recursion agree where both are defined.            *)
LEMMA SumUnique ==
  ASSUME NEW f, NEW S, NEW T, NEW g, NEW h, IsSum(g, f, S), IsSum(h, f, T),
         NEW s, s \subseteq S, s \subseteq T, IsFiniteSet(s)
  PROVE  g[s] = h[s]
<1> DEFINE Bad == {u \in SUBSET s : g[u] # h[u]}
<1> SUFFICES ASSUME Bad # {} PROVE FALSE
  OBVIOUS
<1>1. PICK u \in Bad : \A v \in Bad : v \subseteq u => v = u
  <2>1. Bad \in SUBSET (SUBSET s)
    OBVIOUS
  <2> HIDE DEF Bad
  <2> QED BY <2>1, SmallestSet
<1>2. u \in SUBSET S /\ u \in SUBSET T
  OBVIOUS
<1>3. CASE u = {}
  BY <1>2, <1>3 DEF IsSum
<1>4. CASE u # {}
  <2> DEFINE v == u \ {Elem(u)}
  <2>1. v \subseteq u /\ v # u
    BY <1>4, ElemIn
  <2>2. g[v] = h[v]
    BY <1>1, <2>1
  <2>3. g[u] = f[Elem(u)] + g[v]
    BY <1>2, <1>4 DEF IsSum
  <2>4. h[u] = f[Elem(u)] + h[v]
    BY <1>2, <1>4 DEF IsSum
  <2> QED BY <2>2, <2>3, <2>4
<1> QED BY <1>3, <1>4

(* The recursion has a solution.                                           *)
LEMMA SumExists ==
  ASSUME NEW f, NEW S, IsFiniteSet(S)
  PROVE  \E g : IsSum(g, f, S)
<1> DEFINE Bad == {s \in SUBSET S : ~ \E g : IsSum(g, f, s)}
<1> SUFFICES ASSUME Bad # {} PROVE FALSE
  OBVIOUS
<1>1. PICK s \in Bad : \A v \in Bad : v \subseteq s => v = s
  <2>1. Bad \in SUBSET (SUBSET S)
    OBVIOUS
  <2> HIDE DEF Bad
  <2> QED BY <2>1, SmallestSet
<1> DEFINE G(v) == CHOOSE g : IsSum(g, f, v)
           h == [u \in SUBSET s |-> IF u = {} THEN 0
                                    ELSE f[Elem(u)] + G(u \ {Elem(u)})[u \ {Elem(u)}]]
<1>2. \A v \in SUBSET s : v # s => IsSum(G(v), f, v)
  BY <1>1
<1>3. \A v \in SUBSET s : IsFiniteSet(v)
  BY FS_Subset
<1>4. ASSUME NEW u \in SUBSET s, u # s PROVE h[u] = G(u)[u]
  <2>1. CASE u = {}
    <3>1. IsSum(G(u), f, u)
      BY <1>2, <1>4
    <3> HIDE DEF G
    <3>2. G(u)[u] = 0
      BY <2>1, <3>1 DEF IsSum
    <3> QED BY <2>1, <3>2
  <2>2. CASE u # {}
    <3> DEFINE v == u \ {Elem(u)}
    <3>1. v \subseteq u /\ v # s /\ v \in SUBSET s
      BY <2>2, ElemIn
    <3>2. IsSum(G(u), f, u) /\ IsSum(G(v), f, v)
      BY <1>2, <1>4, <3>1
    <3> HIDE DEF G
    <3>3. G(u)[u] = f[Elem(u)] + G(u)[v]
      BY <2>2, <3>2 DEF IsSum
    <3>4. G(u)[v] = G(v)[v]
      BY <3>1, <3>2, <1>3, SumUnique
    <3>5. h[u] = f[Elem(u)] + G(v)[v]
      BY <2>2
    <3> QED BY <3>3, <3>4, <3>5
  <2> QED BY <2>1, <2>2
<1>5. \A u \in SUBSET s : u # {} => h[u] = f[Elem(u)] + h[u \ {Elem(u)}]
  <2> SUFFICES ASSUME NEW u \in SUBSET s, u # {}
               PROVE  h[u] = f[Elem(u)] + h[u \ {Elem(u)}]
    OBVIOUS
  <2> DEFINE v == u \ {Elem(u)}
  <2>1. v \in SUBSET s /\ v # s
    BY ElemIn
  <2>2. h[v] = G(v)[v]
    BY <2>1, <1>4
  <2> HIDE DEF G
  <2>3. h[u] = f[Elem(u)] + G(v)[v]
    OBVIOUS
  <2> QED BY <2>2, <2>3
<1>6. h[{}] = 0
  OBVIOUS
<1>7. h = [u \in SUBSET s |-> h[u]]
  OBVIOUS
<1> HIDE DEF h
<1>8. IsSum(h, f, s)
  BY <1>5, <1>6, <1>7 DEF IsSum
<1> QED BY <1>1, <1>8

(* SumFunctionOnSet is its value at the whole set.                         *)
LEMMA SumIs ==
  ASSUME NEW f, NEW S
  PROVE  SumFunctionOnSet(f, S) = (CHOOSE g : IsSum(g, f, S))[S]
BY DEF SumFunctionOnSet, FoldFunctionOnSet, MapThenFoldSet, IsSum, Elem

(* The empty sum.                                                          *)
LEMMA SumEmpty == \A f : SumFunctionOnSet(f, {}) = 0
<1> SUFFICES ASSUME NEW f PROVE SumFunctionOnSet(f, {}) = 0
  OBVIOUS
<1> DEFINE g == CHOOSE g : IsSum(g, f, {})
<1>1. IsSum(g, f, {})
  BY SumExists, FS_EmptySet
<1> HIDE DEF g
<1>2. g[{}] = 0
  BY <1>1 DEF IsSum
<1> QED BY <1>2, SumIs DEF g

(* One step of the recursion.                                              *)
LEMMA SumStep ==
  ASSUME NEW f, NEW S, IsFiniteSet(S), S # {}
  PROVE  SumFunctionOnSet(f, S) = f[Elem(S)] + SumFunctionOnSet(f, S \ {Elem(S)})
<1> DEFINE T == S \ {Elem(S)}
           g == CHOOSE g : IsSum(g, f, S)
           h == CHOOSE h : IsSum(h, f, T)
<1>1. IsFiniteSet(T) /\ T \subseteq S
  BY FS_Subset
<1>2. IsSum(g, f, S)
  BY SumExists
<1>3. IsSum(h, f, T)
  BY SumExists, <1>1
<1>4. SumFunctionOnSet(f, S) = g[S] /\ SumFunctionOnSet(f, T) = h[T]
  BY SumIs
<1> HIDE DEF g, h
<1>5. g[S] = f[Elem(S)] + g[T]
  BY <1>2 DEF IsSum
<1>6. g[T] = h[T]
  BY <1>1, <1>2, <1>3, SumUnique
<1> QED BY <1>4, <1>5, <1>6

(* A sum of natural numbers is one.                                        *)
LEMMA SumNat ==
  ASSUME NEW D, NEW f \in [D -> Nat], NEW S \in SUBSET D, IsFiniteSet(S)
  PROVE  SumFunctionOnSet(f, S) \in Nat
<1> DEFINE Bad == {s \in SUBSET S : SumFunctionOnSet(f, s) \notin Nat}
<1> SUFFICES ASSUME Bad # {} PROVE FALSE
  OBVIOUS
<1>1. PICK s \in Bad : \A v \in Bad : v \subseteq s => v = s
  <2>1. Bad \in SUBSET (SUBSET S)
    OBVIOUS
  <2> HIDE DEF Bad
  <2> QED BY <2>1, SmallestSet
<1>2. s # {} /\ IsFiniteSet(s)
  <2>1. SumFunctionOnSet(f, {}) \in Nat
    BY SumEmpty
  <2> QED BY <1>1, <2>1, FS_Subset
<1> DEFINE v == s \ {Elem(s)}
<1>3. Elem(s) \in D /\ v \in SUBSET s /\ v # s
  BY <1>2, ElemIn
<1>4. SumFunctionOnSet(f, v) \in Nat
  BY <1>1, <1>3
<1>5. SumFunctionOnSet(f, s) = f[Elem(s)] + SumFunctionOnSet(f, v)
  BY <1>2, SumStep
<1>6. f[Elem(s)] \in Nat
  BY <1>3
<1>7. SumFunctionOnSet(f, s) \in Nat
  BY <1>4, <1>5, <1>6
<1> QED BY <1>1, <1>7

(* Any element may be the one that is added last: order does not matter.   *)
LEMMA SumAdd ==
  ASSUME NEW D, NEW f \in [D -> Nat], NEW S \in SUBSET D, IsFiniteSet(S),
         NEW x \in D, x \notin S
  PROVE  SumFunctionOnSet(f, S \cup {x}) = f[x] + SumFunctionOnSet(f, S)
<1> DEFINE Bad == {s \in SUBSET S : \E y \in D \ s :
                     SumFunctionOnSet(f, s \cup {y}) # f[y] + SumFunctionOnSet(f, s)}
<1> SUFFICES ASSUME Bad # {} PROVE FALSE
  OBVIOUS
<1>1. PICK s \in Bad : \A v \in Bad : v \subseteq s => v = s
  <2>1. Bad \in SUBSET (SUBSET S)
    OBVIOUS
  <2> HIDE DEF Bad
  <2> QED BY <2>1, SmallestSet
<1>2. PICK y \in D \ s :
        SumFunctionOnSet(f, s \cup {y}) # f[y] + SumFunctionOnSet(f, s)
  BY <1>1
<1> DEFINE t == s \cup {y}
           z == Elem(t)
<1>3. IsFiniteSet(s) /\ IsFiniteSet(t) /\ t # {} /\ t \subseteq D /\ s \subseteq D
  BY FS_Subset, FS_AddElement
<1>4. z \in t
  BY <1>3, ElemIn
<1>5. SumFunctionOnSet(f, t) = f[z] + SumFunctionOnSet(f, t \ {z})
  BY <1>3, SumStep
<1> HIDE DEF z
<1>6. CASE z = y
  <2>1. t \ {z} = s
    BY <1>6
  <2> QED BY <1>2, <1>5, <1>6, <2>1
<1>7. CASE z # y
  <2> DEFINE v == s \ {z}
  <2>1. z \in s /\ z \in D /\ t \ {z} = v \cup {y} /\ s = v \cup {z}
    BY <1>3, <1>4, <1>7
  <2>2. v \notin Bad /\ v \in SUBSET S /\ IsFiniteSet(v) /\ v \in SUBSET D
    BY <1>1, <1>3, <2>1, FS_Subset
  <2>3. \A w \in D \ v : SumFunctionOnSet(f, v \cup {w}) = f[w] + SumFunctionOnSet(f, v)
    BY <2>2
  <2> DEFINE n == SumFunctionOnSet(f, v)
  <2>4. SumFunctionOnSet(f, t) = f[z] + (f[y] + n)
    BY <1>5, <2>1, <2>3
  <2>5. SumFunctionOnSet(f, s) = f[z] + n
    BY <2>1, <2>3
  <2>6. n \in Nat /\ f[y] \in Nat /\ f[z] \in Nat
    BY <2>1, <2>2, SumNat
  <2> HIDE DEF n, t, v, Bad
  <2>7. SumFunctionOnSet(f, t) = f[y] + SumFunctionOnSet(f, s)
    BY <2>4, <2>5, <2>6
  <2> QED BY <1>2, <2>7 DEF t
<1> QED BY <1>6, <1>7

(* Functions that agree on a set have the same sum over it.                *)
LEMMA SumAgree ==
  ASSUME NEW S, IsFiniteSet(S), NEW f, NEW g, \A x \in S : f[x] = g[x]
  PROVE  SumFunctionOnSet(f, S) = SumFunctionOnSet(g, S)
<1> DEFINE Bad == {s \in SUBSET S : SumFunctionOnSet(f, s) # SumFunctionOnSet(g, s)}
<1> SUFFICES ASSUME Bad # {} PROVE FALSE
  OBVIOUS
<1>1. PICK s \in Bad : \A v \in Bad : v \subseteq s => v = s
  <2>1. Bad \in SUBSET (SUBSET S)
    OBVIOUS
  <2> HIDE DEF Bad
  <2> QED BY <2>1, SmallestSet
<1>2. s # {} /\ IsFiniteSet(s)
  BY <1>1, SumEmpty, FS_Subset
<1> DEFINE v == s \ {Elem(s)}
<1>3. Elem(s) \in S /\ v \in SUBSET s /\ v # s
  BY <1>2, ElemIn
<1>4. SumFunctionOnSet(f, v) = SumFunctionOnSet(g, v)
  BY <1>1, <1>3
<1>5. /\ SumFunctionOnSet(f, s) = f[Elem(s)] + SumFunctionOnSet(f, v)
      /\ SumFunctionOnSet(g, s) = g[Elem(s)] + SumFunctionOnSet(g, v)
  BY <1>2, SumStep
<1> QED BY <1>1, <1>3, <1>4, <1>5

(* Values that are nowhere larger have no larger sum.                      *)
LEMMA SumMonotonic ==
  ASSUME NEW S, IsFiniteSet(S), NEW f \in [S -> Nat], NEW g \in [S -> Nat],
         \A x \in S : f[x] <= g[x]
  PROVE  SumFunctionOnSet(f, S) <= SumFunctionOnSet(g, S)
<1> DEFINE Bad == {s \in SUBSET S : ~(SumFunctionOnSet(f, s) <= SumFunctionOnSet(g, s))}
<1> SUFFICES ASSUME Bad # {} PROVE FALSE
  OBVIOUS
<1>1. PICK s \in Bad : \A v \in Bad : v \subseteq s => v = s
  <2>1. Bad \in SUBSET (SUBSET S)
    OBVIOUS
  <2> HIDE DEF Bad
  <2> QED BY <2>1, SmallestSet
<1>2. s # {} /\ IsFiniteSet(s)
  <2>1. SumFunctionOnSet(f, {}) = 0 /\ SumFunctionOnSet(g, {}) = 0
    BY SumEmpty
  <2>2. SumFunctionOnSet(f, {}) <= SumFunctionOnSet(g, {})
    BY <2>1
  <2> QED BY <1>1, <2>2, FS_Subset
<1> DEFINE v == s \ {Elem(s)}
<1>3. Elem(s) \in S /\ v \in SUBSET s /\ v # s /\ v \in SUBSET S /\ IsFiniteSet(v)
  BY <1>2, ElemIn, FS_Subset
<1>4. SumFunctionOnSet(f, v) <= SumFunctionOnSet(g, v)
  BY <1>1, <1>3
<1>5. /\ SumFunctionOnSet(f, s) = f[Elem(s)] + SumFunctionOnSet(f, v)
      /\ SumFunctionOnSet(g, s) = g[Elem(s)] + SumFunctionOnSet(g, v)
  BY <1>2, SumStep
<1>6. SumFunctionOnSet(f, v) \in Nat /\ SumFunctionOnSet(g, v) \in Nat
  BY <1>3, SumNat
<1>7. f[Elem(s)] \in Nat /\ g[Elem(s)] \in Nat /\ f[Elem(s)] <= g[Elem(s)]
  BY <1>3
<1>8. SumFunctionOnSet(f, s) <= SumFunctionOnSet(g, s)
  BY <1>4, <1>5, <1>6, <1>7
<1> QED BY <1>1, <1>8

(* ... or the one that is taken out first.                                 *)
LEMMA SumSplit ==
  ASSUME NEW D, NEW f \in [D -> Nat], NEW S \in SUBSET D, IsFiniteSet(S), NEW x \in S
  PROVE  SumFunctionOnSet(f, S) = f[x] + SumFunctionOnSet(f, S \ {x})
<1>1. IsFiniteSet(S \ {x}) /\ S = (S \ {x}) \cup {x} /\ x \in D /\ S \ {x} \in SUBSET D
  BY FS_Subset
<1> DEFINE T == S \ {x}
<1>2. x \notin T
  OBVIOUS
<1> HIDE DEF T
<1> QED BY <1>1, <1>2, SumAdd DEF T

(* A function that changes at one place changes its sum by as much.        *)
LEMMA SumUpdate ==
  ASSUME NEW S, IsFiniteSet(S), NEW f \in [S -> Nat], NEW g \in [S -> Nat],
         NEW x \in S, \A y \in S \ {x} : f[y] = g[y]
  PROVE  SumFunctionOnSet(f, S) + g[x] = SumFunctionOnSet(g, S) + f[x]
<1> DEFINE T == S \ {x}
<1>1. IsFiniteSet(T) /\ T \in SUBSET S
  BY FS_Subset
<1>2. SumFunctionOnSet(f, T) = SumFunctionOnSet(g, T) /\ SumFunctionOnSet(f, T) \in Nat
  BY <1>1, SumAgree, SumNat
<1>3. /\ SumFunctionOnSet(f, S) = f[x] + SumFunctionOnSet(f, T)
      /\ SumFunctionOnSet(g, S) = g[x] + SumFunctionOnSet(g, T)
  BY SumSplit
<1>4. f[x] \in Nat /\ g[x] \in Nat
  OBVIOUS
<1> HIDE DEF T
<1> QED BY <1>2, <1>3, <1>4

(* What a group holds in equal shares and another one in its own: the sum  *)
(* of the shares of both.                                                  *)
LEMMA SumOfShares ==
  ASSUME NEW D, IsFiniteSet(D), NEW P \in SUBSET D, NEW T \in SUBSET D, P \cap T = {},
         NEW c \in Nat, NEW f \in [D -> Nat], NEW w \in [D -> Nat],
         \A x \in D : w[x] = IF x \in P THEN c ELSE IF x \in T THEN f[x] ELSE 0
  PROVE  SumFunctionOnSet(w, D) = c * Cardinality(P) + SumFunctionOnSet(f, T)
<1> DEFINE Holds(s) == SumFunctionOnSet(w, s)
                         = c * Cardinality(P \cap s) + SumFunctionOnSet(f, T \cap s)
           Bad == {s \in SUBSET D : ~Holds(s)}
<1> SUFFICES ASSUME Bad # {} PROVE FALSE
  <2>1. Holds(D)
    OBVIOUS
  <2>2. P \cap D = P /\ T \cap D = T
    OBVIOUS
  <2> QED BY <2>1, <2>2
<1>1. PICK s \in Bad : \A v \in Bad : v \subseteq s => v = s
  <2>1. Bad \in SUBSET (SUBSET D)
    OBVIOUS
  <2> HIDE DEF Bad
  <2> QED BY <2>1, SmallestSet
<1>2. s # {}
  <2>1. P \cap {} = {} /\ T \cap {} = {}
    OBVIOUS
  <2>2. Holds({})
    BY <2>1, SumEmpty, FS_EmptySet
  <2> QED BY <1>1, <2>2
<1>3. PICK x : x \in s
  BY <1>2
<1> DEFINE v == s \ {x}
           n == Cardinality(P \cap v)
           m == SumFunctionOnSet(f, T \cap v)
<1>4. x \in D /\ s \in SUBSET D /\ v \in SUBSET D /\ v \subseteq s /\ v # s
  BY <1>3
<1>5. IsFiniteSet(s) /\ IsFiniteSet(v) /\ IsFiniteSet(P \cap v) /\ IsFiniteSet(T \cap v)
  BY <1>4, FS_Subset
<1>6. SumFunctionOnSet(w, v) = c * n + m
  BY <1>1, <1>4
<1>7. SumFunctionOnSet(w, s) = w[x] + SumFunctionOnSet(w, v)
  BY <1>3, <1>4, <1>5, SumSplit
<1>8. n \in Nat /\ m \in Nat /\ f[x] \in Nat /\ c * n \in Nat
  BY <1>4, <1>5, FS_CardinalityType, SumNat
<1>9. x \notin P \cap v /\ x \notin T \cap v
  OBVIOUS
<1> HIDE DEF n, m, Holds, Bad
<1>10. CASE x \in P
  <2>1. P \cap s = (P \cap v) \cup {x} /\ T \cap s = T \cap v /\ w[x] = c
    BY <1>3, <1>4, <1>10
  <2>2. Cardinality(P \cap s) = n + 1
    BY <1>5, <1>9, <2>1, FS_AddElement DEF n
  <2>3. SumFunctionOnSet(f, T \cap s) = m
    BY <2>1 DEF m
  <2>4. c * (n + 1) = c * n + c
    BY <1>8
  <2>5. SumFunctionOnSet(w, s) = c * Cardinality(P \cap s) + SumFunctionOnSet(f, T \cap s)
    BY <1>6, <1>7, <1>8, <2>1, <2>2, <2>3, <2>4
  <2> QED BY <1>1, <2>5 DEF Holds, Bad
<1>11. CASE x \in T
  <2>1. T \cap s = (T \cap v) \cup {x} /\ P \cap s = P \cap v /\ w[x] = f[x]
    BY <1>3, <1>4, <1>11
  <2>2. SumFunctionOnSet(f, T \cap s) = f[x] + m
    BY <1>4, <1>5, <1>9, <2>1, SumAdd DEF m
  <2>3. Cardinality(P \cap s) = n
    BY <2>1 DEF n
  <2>5. SumFunctionOnSet(w, s) = c * Cardinality(P \cap s) + SumFunctionOnSet(f, T \cap s)
    BY <1>6, <1>7, <1>8, <2>1, <2>2, <2>3
  <2> QED BY <1>1, <2>5 DEF Holds, Bad
<1>12. CASE x \notin P \cup T
  <2>1. T \cap s = T \cap v /\ P \cap s = P \cap v /\ w[x] = 0
    BY <1>3, <1>4, <1>12
  <2>2. Cardinality(P \cap s) = n /\ SumFunctionOnSet(f, T \cap s) = m
    BY <2>1 DEF n, m
  <2>5. SumFunctionOnSet(w, s) = c * Cardinality(P \cap s) + SumFunctionOnSet(f, T \cap s)
    BY <1>6, <1>7, <1>8, <2>1, <2>2
  <2> QED BY <1>1, <2>5 DEF Holds, Bad
<1> QED BY <1>10, <1>11, <1>12

-----------------------------------------------------------------------------
(* Recursion over the positions of a sequence                              *)

(* A nonempty set of numbers has a least one.                              *)
LEMMA LeastNumber == ASSUME NEW S \in SUBSET Nat, S # {} PROVE \E n \in S : \A m \in S : n =< m
<1>1. PICK n \in S : \A m \in S : ~(m < n)
  <2>1. IsWellFoundedOn(OpToRel(<, Nat), Nat)
    BY NatLessThanWellFounded
  <2>2. PICK n \in S : \A m \in S : ~(<<m, n>> \in OpToRel(<, Nat))
    BY <2>1, WFMin
  <2> QED BY <2>2 DEF OpToRel
<1>2. \A m \in S : n =< m
  <2> SUFFICES ASSUME NEW m \in S PROVE n =< m
    OBVIOUS
  <2>1. ~(m < n) /\ m \in Nat /\ n \in Nat
    BY <1>1
  <2> QED BY <2>1
<1> QED BY <1>2

(* What holds at 0 and goes on from each number below N holds up to N.     *)
LEMMA UpTo ==
  ASSUME NEW N \in Nat, NEW S, 0 \in S, \A i \in 0..N : i \in S /\ i < N => i + 1 \in S
  PROVE  \A i \in 0..N : i \in S
<1> DEFINE Bad == {i \in 0..N : i \notin S}
<1> SUFFICES ASSUME Bad # {} PROVE FALSE
  OBVIOUS
<1>1. PICK n \in Bad : \A m \in Bad : ~(m < n)
  <2>1. Bad \subseteq Nat
    OBVIOUS
  <2> HIDE DEF Bad
  <2>2. IsWellFoundedOn(OpToRel(<, Nat), Nat)
    BY NatLessThanWellFounded
  <2>3. PICK n \in Bad : \A m \in Bad : ~(<<m, n>> \in OpToRel(<, Nat))
    BY <2>1, <2>2, WFMin
  <2> QED BY <2>1, <2>3 DEF OpToRel
<1>2. n # 0 /\ n \in 0..N
  BY <1>1
<1>3. n - 1 \in 0..N /\ n - 1 < n
  BY <1>2
<1>4. n - 1 \in S
  BY <1>1, <1>3
<1> QED BY <1>1, <1>2, <1>3, <1>4

(* What stays in T under a step function, and its iteration up to N.       *)
StaysIn(step, T, N) == \A t \in T, i \in 1..N : step[<<t, i>>] \in T
Iterates(g, step, T, base, N) ==
  g \in [0..N -> T] /\ g[0] = base /\ \A i \in 1..N : g[i] = step[<<g[i - 1], i>>]

(* A step function can be iterated up to N.                                *)
LEMMA IterationExists ==
  ASSUME NEW T, NEW base \in T, NEW N \in Nat, NEW step, StaysIn(step, T, N)
  PROVE  \E g : Iterates(g, step, T, base, N)
<1> USE DEF StaysIn, Iterates
<1> DEFINE Iter(g, n) == g \in [0..n -> T] /\ g[0] = base /\ \A i \in 1..n : g[i] = step[<<g[i - 1], i>>]
           S == {n \in 0..N : \E g \in [0..n -> T] : Iter(g, n)}
<1>1. 0 \in S
  <2> DEFINE z == [i \in 0..0 |-> base]
  <2>1. z \in [0..0 -> T] /\ z[0] = base
    OBVIOUS
  <2>2. 1..0 = {}
    OBVIOUS
  <2>3. \A i \in 1..0 : z[i] = step[<<z[i - 1], i>>]
    BY <2>2
  <2> HIDE DEF z
  <2>4. \E g \in [0..0 -> T] : Iter(g, 0)
    BY <2>1, <2>3
  <2> QED BY <2>4
<1>2. ASSUME NEW n \in 0..N, n \in S, n < N PROVE n + 1 \in S
  <2>1. PICK g \in [0..n -> T] : Iter(g, n)
    BY <1>2
  <2> DEFINE h == [i \in 0..(n + 1) |-> IF i <= n THEN g[i] ELSE step[<<g[n], n + 1>>]]
  <2>2. g[n] \in T /\ n + 1 \in 1..N /\ n \in 0..n
    <3>1. n \in 0..n /\ n + 1 \in 1..N
      BY <1>2
    <3> QED BY <2>1, <3>1
  <2>3. step[<<g[n], n + 1>>] \in T
    BY <2>2
  <2>4. \A i \in 0..n : h[i] = g[i]
    OBVIOUS
  <2>5. h[n + 1] = step[<<g[n], n + 1>>]
    BY <2>2
  <2>6. h \in [0..(n + 1) -> T]
    BY <2>1, <2>3
  <2>7. h[0] = base
    BY <2>1, <2>4
  <2>8. \A i \in 1..(n + 1) : h[i] = step[<<h[i - 1], i>>]
    <3> SUFFICES ASSUME NEW i \in 1..(n + 1) PROVE h[i] = step[<<h[i - 1], i>>]
      OBVIOUS
    <3>1. i - 1 \in 0..n
      BY <1>2
    <3>2. h[i - 1] = g[i - 1]
      BY <3>1, <2>4
    <3> HIDE DEF h
    <3>3. CASE i = n + 1
      <4>1. i - 1 = n
        BY <3>3
      <4> QED BY <2>5, <3>2, <3>3, <4>1
    <3>4. CASE i # n + 1
      <4>1. i \in 0..n /\ i \in 1..n
        BY <3>4
      <4> QED BY <2>1, <2>4, <3>2, <4>1
    <3> QED BY <3>3, <3>4
  <2> HIDE DEF h
  <2>9. Iter(h, n + 1) /\ n + 1 \in 0..N
    BY <2>6, <2>7, <2>8, <2>2
  <2>10. \E k \in [0..(n + 1) -> T] : Iter(k, n + 1)
    BY <2>6, <2>9
  <2> QED BY <2>9, <2>10
<1>3. \A n \in 0..N : n \in S
  <2> HIDE DEF S
  <2> QED BY <1>1, <1>2, UpTo
<1>4. N \in S
  BY <1>3
<1> QED BY <1>4
=============================================================================
