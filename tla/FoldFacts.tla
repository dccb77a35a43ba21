------------------------------ MODULE FoldFacts ------------------------------
(***************************************************************************)
(* Facts about sums over finite sets (SumFunctionOnSet of the community    *)
(* module Functions), about filters of lists (Only of Basics), about folds *)
(* over lists and about lists put one after the other (FlattenSeq), for the*)
(* proofs about modules that add up bills and ledgers, look things up or   *)
(* gather evidence: a sum of nothing, of one element more, and of equal    *)
(* summands; what a filter keeps, and in which order; the results between  *)
(* the steps of a fold.  All are recursive functions, so they are first    *)
(* shown to exist and to be the only ones; the induction is on the strict  *)
(* inclusion of finite sets, or along the numbers up to a length.          *)
(***************************************************************************)
EXTENDS Basics, FiniteSets, FiniteSetTheorems, SequenceTheorems,
        WellFoundedInduction, TLAPS

-----------------------------------------------------------------------------
(* Induction over the subsets of a finite set, without a predicate: a set   *)
(* of subsets that is not empty has a least one.                            *)

LEMMA LeastSubset ==
  ASSUME NEW S, IsFiniteSet(S), NEW B, B \subseteq SUBSET S, B # {}
  PROVE  \E m \in B : \A n \in B : n \subseteq m => n = m
<1>1. B \subseteq FiniteSubsetsOf(S)
  BY FS_FiniteSubsetsOfFinite
<1>2. PICK m \in B : \A n \in B : <<n, m>> \notin StrictSubsetOrdering(S)
  BY <1>1, FS_StrictSubsetOrderingWellFounded, WFMin
<1> QED
  BY <1>2 DEF StrictSubsetOrdering

-----------------------------------------------------------------------------
(* The recursive function behind the sum.                                   *)

\* The element that the sum over s takes first.
Picked(s) == CHOOSE x \in s : TRUE

LEMMA PickedIn == \A s : s # {} => Picked(s) \in s
  BY DEF Picked

IsSum(g, f, S) ==
  g = [s \in SUBSET S |->
         IF s = {} THEN 0 ELSE f[Picked(s)] + g[s \ {Picked(s)}]]

LEMMA SumIsChosen ==
  ASSUME NEW f, NEW S
  PROVE  SumFunctionOnSet(f, S) = (CHOOSE g : IsSum(g, f, S))[S]
  BY SMT DEF SumFunctionOnSet, FoldFunctionOnSet, MapThenFoldSet, IsSum, Picked

\* Two such functions agree wherever both are defined.
LEMMA SumsAgree ==
  ASSUME NEW f, NEW S, NEW T, IsFiniteSet(S), NEW g, NEW h,
         IsSum(g, f, S), IsSum(h, f, T),
         NEW U, U \subseteq S, U \subseteq T
  PROVE  g[U] = h[U]
<1> DEFINE B == {s \in SUBSET (S \cap T) : g[s] # h[s]}
<1> SUFFICES ASSUME B # {} PROVE FALSE
  OBVIOUS
<1>1. PICK m \in B : \A n \in B : n \subseteq m => n = m
  <2>1. B \subseteq SUBSET S
    OBVIOUS
  <2> HIDE DEF B
  <2> QED
    BY <2>1, LeastSubset
<1>2. m \in SUBSET S /\ m \in SUBSET T
  OBVIOUS
<1>3. CASE m = {}
  BY <1>2, <1>3 DEF IsSum
<1>4. CASE m # {}
  <2> DEFINE n == m \ {Picked(m)}
  <2>1. n \subseteq m /\ n # m /\ n \in SUBSET (S \cap T)
    BY <1>2, <1>4, PickedIn
  <2>2. g[n] = h[n]
    BY <1>1, <2>1
  <2>3. g[m] = f[Picked(m)] + g[n] /\ h[m] = f[Picked(m)] + h[n]
    BY <1>2, <1>4 DEF IsSum
  <2> QED
    BY <2>2, <2>3
<1> QED
  BY <1>3, <1>4

\* There is one for every finite set.
LEMMA SumExists ==
  ASSUME NEW f, NEW S, IsFiniteSet(S)
  PROVE  \E g : IsSum(g, f, S)
<1> DEFINE B == {s \in SUBSET S : ~ \E g : IsSum(g, f, s)}
<1> SUFFICES ASSUME B # {} PROVE FALSE
  OBVIOUS
<1>1. PICK m \in B : \A n \in B : n \subseteq m => n = m
  <2>1. B \subseteq SUBSET S
    OBVIOUS
  <2> HIDE DEF B
  <2> QED
    BY <2>1, LeastSubset
<1>2. ~ \E g : IsSum(g, f, m)
  OBVIOUS
<1> DEFINE G(s) == CHOOSE g : IsSum(g, f, s)
           h == [s \in SUBSET m |->
                   IF s = {} THEN 0
                   ELSE f[Picked(s)] + G(s \ {Picked(s)})[s \ {Picked(s)}]]
<1>3. \A s : s \subseteq m /\ s # m => IsSum(G(s), f, s) /\ IsFiniteSet(s)
  <2> TAKE s
  <2> HAVE s \subseteq m /\ s # m
  <2>1. \E g : IsSum(g, f, s)
    BY <1>1
  <2>2. IsFiniteSet(s)
    BY FS_Subset
  <2> QED
    BY <2>1, <2>2
<1> HIDE DEF G
<1>4. \A t : t \subseteq m /\ t # m => h[t] = G(t)[t]
  <2> SUFFICES ASSUME NEW t, t \subseteq m, t # m PROVE h[t] = G(t)[t]
    OBVIOUS
  <2>1. IsSum(G(t), f, t)
    BY <1>3
  <2>2. CASE t = {}
    BY <2>1, <2>2 DEF IsSum
  <2>3. CASE t # {}
    <3> DEFINE u == t \ {Picked(t)}
    <3>1. u \subseteq t /\ u # t /\ u \subseteq m /\ u # m
      BY <2>3, PickedIn
    <3>2. IsSum(G(u), f, u) /\ IsFiniteSet(u)
      BY <1>3, <3>1
    <3>3. G(u)[u] = G(t)[u]
      BY <2>1, <3>1, <3>2, SumsAgree
    <3>4. G(t)[t] = f[Picked(t)] + G(t)[u]
      BY <2>1, <2>3 DEF IsSum
    <3>5. h[t] = f[Picked(t)] + G(u)[u]
      BY <2>3
    <3> QED
      BY <3>3, <3>4, <3>5
  <2> QED
    BY <2>2, <2>3
<1>5. IsSum(h, f, m)
  <2>1. ASSUME NEW s \in SUBSET m, s # {}
        PROVE  h[s] = f[Picked(s)] + h[s \ {Picked(s)}]
    <3> DEFINE t == s \ {Picked(s)}
    <3>1. t \subseteq m /\ t # m
      BY <2>1, PickedIn
    <3>2. h[t] = G(t)[t]
      BY <1>4, <3>1
    <3>3. h[s] = f[Picked(s)] + G(t)[t]
      BY <2>1
    <3> QED
      BY <3>2, <3>3
  <2>2. h[{}] = 0
    OBVIOUS
  <2>3. h = [s \in SUBSET m |-> h[s]]
    OBVIOUS
  <2> HIDE DEF h
  <2> QED
    BY <2>1, <2>2, <2>3 DEF IsSum
<1> QED
  BY <1>2, <1>5

\* So the sum satisfies its own recursion.
LEMMA SumRecursion ==
  ASSUME NEW f, NEW S, IsFiniteSet(S)
  PROVE  SumFunctionOnSet(f, S) =
           IF S = {} THEN 0
           ELSE f[Picked(S)] + SumFunctionOnSet(f, S \ {Picked(S)})
<1> DEFINE g == CHOOSE g : IsSum(g, f, S)
           T == S \ {Picked(S)}
           h == CHOOSE h : IsSum(h, f, T)
<1>1. IsSum(g, f, S)
  BY SumExists
<1>2. IsFiniteSet(T)
  BY FS_Subset
<1>3. IsSum(h, f, T)
  BY <1>2, SumExists
<1>4. SumFunctionOnSet(f, S) = g[S] /\ SumFunctionOnSet(f, T) = h[T]
  BY SumIsChosen
<1> HIDE DEF g, h
<1>5. h[T] = g[T]
  BY <1>1, <1>2, <1>3, SumsAgree
<1> QED
  BY <1>1, <1>4, <1>5 DEF IsSum

-----------------------------------------------------------------------------
(* What the proofs cite.                                                    *)

\* A sum of nothing is zero.
LEMMA SumOfNothing ==
  ASSUME NEW f
  PROVE  SumFunctionOnSet(f, {}) = 0
  BY SumRecursion, FS_EmptySet

\* A sum of nothings is nothing.
LEMMA SumOfZeros ==
  ASSUME NEW S, IsFiniteSet(S), NEW f, \A x \in S : f[x] = 0
  PROVE  SumFunctionOnSet(f, S) = 0
<1> DEFINE B == {s \in SUBSET S : SumFunctionOnSet(f, s) # 0}
<1> SUFFICES ASSUME B # {} PROVE FALSE
  OBVIOUS
<1>1. PICK m \in B : \A n \in B : n \subseteq m => n = m
  <2>1. B \subseteq SUBSET S
    OBVIOUS
  <2> HIDE DEF B
  <2> QED
    BY <2>1, LeastSubset
<1>2. m # {}
  BY SumOfNothing
<1>3. IsFiniteSet(m)
  BY FS_Subset
<1> DEFINE n == m \ {Picked(m)}
<1>4. n \in SUBSET S /\ n \subseteq m /\ n # m /\ Picked(m) \in S
  BY <1>2, PickedIn
<1>5. SumFunctionOnSet(f, n) = 0
  BY <1>1, <1>4
<1>6. SumFunctionOnSet(f, m) = f[Picked(m)] + SumFunctionOnSet(f, n)
  BY <1>2, <1>3, SumRecursion
<1> QED
  BY <1>4, <1>5, <1>6

\* A sum of natural numbers is one.
LEMMA SumIsNatural ==
  ASSUME NEW S, IsFiniteSet(S), NEW f, \A x \in S : f[x] \in Nat
  PROVE  SumFunctionOnSet(f, S) \in Nat
<1> DEFINE B == {s \in SUBSET S : SumFunctionOnSet(f, s) \notin Nat}
<1> SUFFICES ASSUME B # {} PROVE FALSE
  OBVIOUS
<1>1. PICK m \in B : \A n \in B : n \subseteq m => n = m
  <2>1. B \subseteq SUBSET S
    OBVIOUS
  <2> HIDE DEF B
  <2> QED
    BY <2>1, LeastSubset
<1>2. m # {}
  BY SumOfNothing
<1>3. IsFiniteSet(m)
  BY FS_Subset
<1> DEFINE n == m \ {Picked(m)}
<1>4. n \subseteq m /\ n # m /\ Picked(m) \in S
  BY <1>2, PickedIn
<1>5. SumFunctionOnSet(f, n) \in Nat /\ f[Picked(m)] \in Nat
  BY <1>1, <1>4
<1>6. SumFunctionOnSet(f, m) = f[Picked(m)] + SumFunctionOnSet(f, n)
  BY <1>2, <1>3, SumRecursion
<1> QED
  BY <1>5, <1>6

\* It does not matter which element is taken first.
LEMMA SumWithout ==
  ASSUME NEW S, IsFiniteSet(S), NEW f, \A x \in S : f[x] \in Nat, NEW x \in S
  PROVE  SumFunctionOnSet(f, S) = f[x] + SumFunctionOnSet(f, S \ {x})
<1> DEFINE sum(s) == SumFunctionOnSet(f, s)
           B == {s \in SUBSET S : \E y \in s : sum(s) # f[y] + sum(s \ {y})}
<1> SUFFICES ASSUME B # {} PROVE FALSE
  OBVIOUS
<1>1. PICK m \in B : \A n \in B : n \subseteq m => n = m
  <2>1. B \subseteq SUBSET S
    OBVIOUS
  <2> HIDE DEF B
  <2> QED
    BY <2>1, LeastSubset
<1>2. PICK y \in m : sum(m) # f[y] + sum(m \ {y})
  OBVIOUS
<1> DEFINE z == Picked(m)
<1>3. z \in m /\ IsFiniteSet(m)
  BY <1>2, PickedIn, FS_Subset
<1>4. sum(m) = f[z] + sum(m \ {z})
  BY <1>2, <1>3, SumRecursion
<1> HIDE DEF z
<1>5. y # z
  BY <1>2, <1>4
<1> HIDE DEF sum
<1>6. \A s, w : s \subseteq m /\ s # m /\ w \in s => sum(s) = f[w] + sum(s \ {w})
  BY <1>1
<1>7. sum(m \ {z}) = f[y] + sum((m \ {z}) \ {y})
  BY <1>2, <1>3, <1>5, <1>6
<1>8. sum(m \ {y}) = f[z] + sum((m \ {y}) \ {z})
  BY <1>2, <1>3, <1>5, <1>6
<1>9. (m \ {z}) \ {y} = (m \ {y}) \ {z}
  OBVIOUS
<1>10. sum((m \ {y}) \ {z}) \in Nat /\ f[y] \in Nat /\ f[z] \in Nat
  <2>1. IsFiniteSet((m \ {y}) \ {z})
    BY <1>3, FS_Subset
  <2> QED
    BY <1>2, <1>3, <2>1, SumIsNatural DEF sum
<1>11. sum(m) = f[y] + sum(m \ {y})
  <2> DEFINE rest == sum((m \ {y}) \ {z})
  <2>1. sum(m \ {z}) = f[y] + rest /\ sum(m \ {y}) = f[z] + rest
    BY <1>7, <1>8, <1>9
  <2> HIDE DEF rest
  <2>2. rest \in Nat /\ f[y] \in Nat /\ f[z] \in Nat
    BY <1>10 DEF rest
  <2> QED
    BY <1>4, <2>1, <2>2
<1> QED
  BY <1>2, <1>11

\* One element more adds its summand.
LEMMA SumWithOneMore ==
  ASSUME NEW S, IsFiniteSet(S), NEW x, x \notin S,
         NEW f, \A y \in S \cup {x} : f[y] \in Nat
  PROVE  SumFunctionOnSet(f, S \cup {x}) = f[x] + SumFunctionOnSet(f, S)
<1>1. IsFiniteSet(S \cup {x}) /\ (S \cup {x}) \ {x} = S
  BY FS_AddElement
<1> QED
  BY <1>1, SumWithout

\* Equal summands give equal sums.
LEMMA SumOfSame ==
  ASSUME NEW S, IsFiniteSet(S), NEW f, NEW g, \A x \in S : f[x] = g[x]
  PROVE  SumFunctionOnSet(f, S) = SumFunctionOnSet(g, S)
<1> DEFINE B == {s \in SUBSET S :
                   SumFunctionOnSet(f, s) # SumFunctionOnSet(g, s)}
<1> SUFFICES ASSUME B # {} PROVE FALSE
  OBVIOUS
<1>1. PICK m \in B : \A n \in B : n \subseteq m => n = m
  <2>1. B \subseteq SUBSET S
    OBVIOUS
  <2> HIDE DEF B
  <2> QED
    BY <2>1, LeastSubset
<1>2. m # {}
  BY SumOfNothing
<1>3. IsFiniteSet(m)
  BY FS_Subset
<1> DEFINE n == m \ {Picked(m)}
<1>4. n \subseteq m /\ n # m /\ Picked(m) \in S
  BY <1>2, PickedIn
<1>5. SumFunctionOnSet(f, n) = SumFunctionOnSet(g, n)
  BY <1>1, <1>4
<1>6. /\ SumFunctionOnSet(f, m) = f[Picked(m)] + SumFunctionOnSet(f, n)
      /\ SumFunctionOnSet(g, m) = g[Picked(m)] + SumFunctionOnSet(g, n)
  BY <1>2, <1>3, SumRecursion
<1> QED
  BY <1>4, <1>5, <1>6

\* One element more, when the other summands are given by another function.
LEMMA SumGrows ==
  ASSUME NEW S, IsFiniteSet(S), NEW x, x \notin S, NEW f, NEW g,
         \A y \in S : g[y] = f[y] /\ f[y] \in Nat, g[x] \in Nat
  PROVE  SumFunctionOnSet(g, S \cup {x}) = SumFunctionOnSet(f, S) + g[x]
<1>1. SumFunctionOnSet(g, S) = SumFunctionOnSet(f, S)
  BY SumOfSame
<1>2. SumFunctionOnSet(f, S) \in Nat
  BY SumIsNatural
<1>3. SumFunctionOnSet(g, S \cup {x}) = g[x] + SumFunctionOnSet(g, S)
  BY SumWithOneMore
<1> QED
  BY <1>1, <1>2, <1>3

\* One summand that changes changes the sum by as much.
LEMMA SumWithChange ==
  ASSUME NEW S, IsFiniteSet(S), NEW x \in S, NEW f \in [S -> Nat],
         NEW n \in Nat
  PROVE  SumFunctionOnSet([f EXCEPT ![x] = @ + n], S) =
           SumFunctionOnSet(f, S) + n
<1> DEFINE g == [f EXCEPT ![x] = @ + n]
           T == S \ {x}
<1>1. IsFiniteSet(T)
  BY FS_Subset
<1>2. SumFunctionOnSet(f, S) = f[x] + SumFunctionOnSet(f, T)
  BY SumWithout
<1>3. g \in [S -> Nat] /\ g[x] = f[x] + n
  OBVIOUS
<1>4. SumFunctionOnSet(g, S) = g[x] + SumFunctionOnSet(g, T)
  BY <1>3, SumWithout
<1>5. SumFunctionOnSet(g, T) = SumFunctionOnSet(f, T)
  <2>1. \A y \in T : g[y] = f[y]
    OBVIOUS
  <2> QED
    BY <1>1, <2>1, SumOfSame
<1>6. SumFunctionOnSet(f, T) \in Nat
  BY <1>1, SumIsNatural
<1> QED
  BY <1>2, <1>3, <1>4, <1>5, <1>6

-----------------------------------------------------------------------------
(* Folds from left to right.  What is folded in at the indices t of a       *)
(* sequence is folded in at the last of them last.                          *)

LEMMA LeastNumber ==
  ASSUME NEW B, B \subseteq Nat, B # {}
  PROVE  \E m \in B : \A k \in B : m <= k
<1>1. PICK n \in B : TRUE
  OBVIOUS
<1> DEFINE Up(k) == 1 .. k
           C == {Up(k) : k \in {j \in B : j <= n}}
<1>2. PICK S : S = 1 .. n
  OBVIOUS
<1>3. IsFiniteSet(S) /\ C \subseteq SUBSET S /\ C # {}
  <2>1. IsFiniteSet(1 .. n)
    BY <1>1, FS_Interval
  <2>2. C \subseteq SUBSET (1 .. n) /\ C # {}
    BY <1>1
  <2> QED
    BY <1>2, <2>1, <2>2
<1>4. PICK c \in C : \A d \in C : d \subseteq c => d = c
  <2> HIDE DEF C
  <2> QED
    BY <1>3, LeastSubset
<1>5. PICK m \in B : m <= n /\ c = Up(m)
  OBVIOUS
<1>6. ASSUME NEW k \in B, k < m
      PROVE  FALSE
  <2>1. k <= n /\ Up(k) \in C /\ Up(k) \subseteq Up(m)
    BY <1>1, <1>5, <1>6
  <2>2. Up(k) = Up(m)
    BY <1>4, <1>5, <2>1
  <2>3. m \in Up(m) /\ m \notin Up(k)
    BY <1>6
  <2> QED
    BY <2>2, <2>3
<1> QED
  BY <1>6

\* Finitely many indices.
Indices(S) == IsFiniteSet(S) /\ S \subseteq Int

LEMMA LeastIndices ==
  ASSUME NEW S, Indices(S), NEW B, B \subseteq SUBSET S, B # {}
  PROVE  \E m \in B : \A l \in B : l \subseteq m => l = m
<1>1. IsFiniteSet(S)
  BY DEF Indices
<1> QED
  BY <1>1, LeastSubset

LEMMA SomeIndices ==
  ASSUME NEW S, Indices(S), NEW T \in SUBSET S
  PROVE  Indices(T)
  BY FS_Subset DEF Indices

LEMMA LastIn ==
  ASSUME NEW S, Indices(S), S # {}
  PROVE  Max(S) \in S /\ \A y \in S : y <= Max(S)
<1> DEFINE B == {t \in SUBSET S : t # {} /\ ~ \E x \in t : \A y \in t : x >= y}
<1>1. B = {}
  <2> SUFFICES ASSUME B # {} PROVE FALSE
    OBVIOUS
  <2>1. PICK m \in B : \A l \in B : l \subseteq m => l = m
    <3> B \subseteq SUBSET S
      OBVIOUS
    <3> HIDE DEF B
    <3> QED
      BY LeastIndices
  <2>2. PICK x \in m : TRUE
    OBVIOUS
  <2>3. m \subseteq Int
    BY DEF Indices
  <2>4. CASE m = {x}
    BY <2>2, <2>3, <2>4
  <2>5. CASE m # {x}
    <3> DEFINE r == m \ {x}
    <3>1. r \in SUBSET S /\ r # {} /\ r # m /\ r \subseteq m
      BY <2>2, <2>5
    <3>2. PICK z \in r : \A y \in r : z >= y
      BY <2>1, <3>1
    <3>3. z \in Int /\ x \in Int /\ (z >= x \/ x >= z)
      BY <2>2, <2>3, <3>2
    <3>4. \A y \in m : y = x \/ y \in r
      OBVIOUS
    <3>5. CASE z >= x
      BY <3>2, <3>4, <3>5
    <3>6. CASE x >= z
      <4>1. \A y \in m : x >= y
        BY <2>3, <3>2, <3>3, <3>4, <3>6
      <4> QED
        BY <2>2, <4>1
    <3> QED
      BY <3>3, <3>5, <3>6
  <2> QED
    BY <2>4, <2>5
<1>2. \E x \in S : \A y \in S : x >= y
  BY <1>1
<1>3. Max(S) \in S /\ \A y \in S : Max(S) >= y
  BY <1>2 DEF Max
<1> QED
  BY <1>3 DEF Indices

\* The recursive function behind a fold over the indices in T.
IsFold(g, h, b, T) ==
  g = [t \in SUBSET T |->
         IF t = {} THEN b ELSE h[<<g[t \ {Max(t)}], Max(t)>>]]

LEMMA FoldOf ==
  ASSUME NEW g, NEW h, NEW b, NEW T, IsFold(g, h, b, T)
  PROVE  /\ g[{}] = b
         /\ \A t \in SUBSET T : t # {} =>
              g[t] = h[<<g[t \ {Max(t)}], Max(t)>>]
  BY DEF IsFold

\* Two such functions agree wherever both are defined.
LEMMA FoldsAgree ==
  ASSUME NEW S, Indices(S), NEW T, NEW h, NEW b,
         NEW g, IsFold(g, h, b, S), NEW k, IsFold(k, h, b, T),
         NEW U \in SUBSET S, U \in SUBSET T
  PROVE  g[U] = k[U]
<1> DEFINE B == {s \in SUBSET U : g[s] # k[s]}
<1> SUFFICES ASSUME B # {} PROVE FALSE
  OBVIOUS
<1>0. Indices(U)
  BY SomeIndices
<1>1. PICK m \in B : \A l \in B : l \subseteq m => l = m
  <2>1. B \subseteq SUBSET U /\ B # {}
    OBVIOUS
  <2> HIDE DEF B
  <2> QED
    BY <1>0, <2>1, LeastIndices
<1>2. m \in SUBSET S /\ m \in SUBSET T /\ m \in SUBSET U
  OBVIOUS
<1>3. CASE m = {}
  BY <1>3, FoldOf
<1>4. CASE m # {}
  <2> DEFINE l == m \ {Max(m)}
  <2>1. Max(m) \in m
    BY <1>2, <1>4, LastIn, SomeIndices
  <2>2. l \subseteq m /\ l # m /\ l \in SUBSET U
    BY <1>2, <2>1
  <2>3. g[l] = k[l]
    BY <1>1, <2>2
  <2>4. g[m] = h[<<g[l], Max(m)>>] /\ k[m] = h[<<k[l], Max(m)>>]
    BY <1>2, <1>4, FoldOf
  <2> QED
    BY <2>3, <2>4
<1> QED
  BY <1>3, <1>4

LEMMA FoldExists ==
  ASSUME NEW S, Indices(S), NEW h, NEW b
  PROVE  \E g : IsFold(g, h, b, S)
<1> DEFINE B == {s \in SUBSET S : ~ \E g : IsFold(g, h, b, s)}
<1> SUFFICES ASSUME B # {} PROVE FALSE
  OBVIOUS
<1>1. PICK m \in B : \A l \in B : l \subseteq m => l = m
  <2>1. B \subseteq SUBSET S /\ B # {}
    OBVIOUS
  <2> HIDE DEF B
  <2> QED
    BY <2>1, LeastIndices
<1>2. m \in SUBSET S /\ ~ \E g : IsFold(g, h, b, m)
  OBVIOUS
<1> DEFINE G(s) == CHOOSE g : IsFold(g, h, b, s)
           k == [s \in SUBSET m |->
                   IF s = {} THEN b
                   ELSE h[<<G(s \ {Max(s)})[s \ {Max(s)}], Max(s)>>]]
<1>3. \A s \in SUBSET m : s # m => IsFold(G(s), h, b, s) /\ Indices(s)
  BY <1>1, <1>2, SomeIndices
<1>4. \A s \in SUBSET m : s # {} => Max(s) \in s
  <2> TAKE s \in SUBSET m
  <2>1. Indices(s)
    BY <1>2, SomeIndices
  <2> QED
    BY <2>1, LastIn
<1> HIDE DEF G
<1>5. \A t \in SUBSET m : t # m => k[t] = G(t)[t]
  <2> SUFFICES ASSUME NEW t \in SUBSET m, t # m PROVE k[t] = G(t)[t]
    OBVIOUS
  <2>1. IsFold(G(t), h, b, t) /\ Indices(t)
    BY <1>3
  <2>2. CASE t = {}
    BY <2>1, <2>2, FoldOf
  <2>3. CASE t # {}
    <3>1. PICK u : u = t \ {Max(t)}
      OBVIOUS
    <3>2. u \in SUBSET t /\ u \in SUBSET u /\ u \in SUBSET m /\ u # m
      BY <1>4, <2>3, <3>1
    <3>3. IsFold(G(u), h, b, u)
      BY <1>3, <3>2
    <3>4. G(t)[u] = G(u)[u]
      BY <2>1, <3>2, <3>3, FoldsAgree
    <3>5. G(t)[t] = h[<<G(t)[u], Max(t)>>]
      BY <2>1, <2>3, <3>1, FoldOf
    <3>6. k[t] = h[<<G(u)[u], Max(t)>>]
      BY <2>3, <3>1
    <3> QED
      BY <3>4, <3>5, <3>6
  <2> QED
    BY <2>2, <2>3
<1>6. IsFold(k, h, b, m)
  <2>1. ASSUME NEW s \in SUBSET m, s # {}
        PROVE  k[s] = h[<<k[s \ {Max(s)}], Max(s)>>]
    <3>1. PICK t : t = s \ {Max(s)}
      OBVIOUS
    <3>2. t \in SUBSET m /\ t # m
      BY <1>4, <2>1, <3>1
    <3>3. k[s] = h[<<G(t)[t], Max(s)>>]
      BY <2>1, <3>1
    <3> HIDE DEF k
    <3>4. k[t] = G(t)[t]
      BY <1>5, <3>2
    <3> QED
      BY <3>1, <3>3, <3>4
  <2>2. k[{}] = b
    OBVIOUS
  <2>3. k = [s \in SUBSET m |-> k[s]]
    OBVIOUS
  <2> HIDE DEF k
  <2> QED
    BY <2>1, <2>2, <2>3 DEF IsFold
<1> QED
  BY <1>2, <1>6

\* What the steps keep in a set, the fold ends in.
LEMMA FoldStays ==
  ASSUME NEW S, Indices(S), NEW R, NEW b \in R, NEW h,
         \A r \in R, i \in S : h[<<r, i>>] \in R,
         NEW g, IsFold(g, h, b, S)
  PROVE  \A t \in SUBSET S : g[t] \in R
<1> DEFINE B == {t \in SUBSET S : g[t] \notin R}
<1> SUFFICES ASSUME B # {} PROVE FALSE
  OBVIOUS
<1>1. PICK m \in B : \A l \in B : l \subseteq m => l = m
  <2>1. B \subseteq SUBSET S /\ B # {}
    OBVIOUS
  <2> HIDE DEF B
  <2> QED
    BY <2>1, LeastIndices
<1>0. /\ g[{}] = b
      /\ \A t \in SUBSET S : t # {} => g[t] = h[<<g[t \ {Max(t)}], Max(t)>>]
  BY DEF IsFold
<1>2. m # {} /\ m \in SUBSET S
  BY <1>0
<1>3. Max(m) \in m
  BY <1>2, LastIn, SomeIndices
<1> DEFINE l == m \ {Max(m)}
<1>4. l \in SUBSET S /\ l \subseteq m /\ l # m
  BY <1>2, <1>3
<1>5. g[l] \in R
  BY <1>1, <1>4
<1>6. g[m] = h[<<g[l], Max(m)>>]
  BY <1>0, <1>2
<1> QED
  BY <1>2, <1>3, <1>5, <1>6

\* The first k indices.
LEMMA FirstIndices ==
  ASSUME NEW n \in Nat, NEW k \in 1 .. n
  PROVE  /\ 1 .. k \in SUBSET (1 .. n) /\ 1 .. k # {}
         /\ Max(1 .. k) = k
         /\ (1 .. k) \ {k} = 1 .. (k - 1)
<1>1. PICK t : t = 1 .. k
  OBVIOUS
<1>2. k \in Int /\ 1 <= k /\ k <= n
  OBVIOUS
<1>3. \A i : i \in t <=> i \in Int /\ 1 <= i /\ i <= k
  BY <1>1, <1>2
<1>4. \A i : i \in 1 .. (k - 1) <=> i \in Int /\ 1 <= i /\ i <= k - 1
  BY <1>2
<1>5. t \subseteq 1 .. n
  BY <1>2, <1>3
<1>6. \A i : i \in t \ {k} <=> i \in 1 .. (k - 1)
  BY <1>2, <1>3, <1>4
<1>7. t \ {k} = 1 .. (k - 1)
  BY <1>6, Zenon
<1>8. k \in t /\ \A x \in t : (\A y \in t : x >= y) => x = k
  BY <1>2, <1>3
<1>9. \A y \in t : k >= y
  BY <1>2, <1>3
<1>10. Max(t) = k
  BY <1>8, <1>9 DEF Max
<1>11. t \in SUBSET (1 .. n) /\ t # {}
  BY <1>5, <1>8
<1> QED
  BY <1>1, <1>7, <1>10, <1>11, Zenon

\* A fold over a sequence, by a function whose values stay in R.
IsSeqFold(g, h, b, s) ==
  g = [t \in SUBSET (DOMAIN s) |->
         IF t = {} THEN b ELSE h[<<g[t \ {Max(t)}], s[Max(t)]>>]]

Keeps(h, E, R) == \A r \in R, e \in E : h[<<r, e>>] \in R

LEMMA SeqFoldExists ==
  ASSUME NEW E, NEW s \in Seq(E), NEW R, NEW b \in R, NEW h, Keeps(h, E, R)
  PROVE  \E g : /\ IsSeqFold(g, h, b, s)
                /\ \A t \in SUBSET (DOMAIN s) :
                     /\ g[t] \in R
                     /\ t # {} => g[t \ {Max(t)}] \in R /\ s[Max(t)] \in E
<1>1. PICK D : D = DOMAIN s
  OBVIOUS
<1>2. Indices(D)
  <2>1. PICK n \in Nat : n = Len(s) /\ D = 1 .. n
    BY <1>1, LenProperties
  <2> QED
    BY <2>1, FS_Interval DEF Indices
<1>3. \A i \in D : s[i] \in E
  BY <1>1, ElementOfSeq, LenProperties
<1>4. PICK H : H = [x \in R \X D |-> h[<<x[1], s[x[2]]>>]]
  OBVIOUS
<1>5. \A r \in R, i \in D : H[<<r, i>>] = h[<<r, s[i]>>] /\ H[<<r, i>>] \in R
  BY <1>3, <1>4 DEF Keeps
<1>6. PICK g : IsFold(g, H, b, D)
  BY <1>2, FoldExists
<1>7. \A t \in SUBSET D : g[t] \in R
  BY <1>2, <1>5, <1>6, FoldStays
<1>8. \A t \in SUBSET D : t # {} => Max(t) \in D /\ t \ {Max(t)} \in SUBSET D
  BY <1>2, LastIn, SomeIndices
<1>9. ASSUME NEW t \in SUBSET D, t # {}
      PROVE  g[t] = h[<<g[t \ {Max(t)}], s[Max(t)]>>]
  <2>1. g[t] = H[<<g[t \ {Max(t)}], Max(t)>>]
    <3>1. \A u \in SUBSET D :
            u # {} => g[u] = H[<<g[u \ {Max(u)}], Max(u)>>]
      BY <1>6, FoldOf, SMTT(30)
    <3> QED
      BY <1>9, <3>1, Zenon
  <2> QED
    BY <1>5, <1>7, <1>8, <1>9, <2>1
<1>10. g[{}] = b /\ g = [t \in SUBSET D |-> g[t]]
  <2>1. g = [t \in SUBSET D |->
               IF t = {} THEN b ELSE H[<<g[t \ {Max(t)}], Max(t)>>]]
    BY <1>6 DEF IsFold
  <2> QED
    BY <2>1
<1>11. IsSeqFold(g, h, b, s)
  BY <1>1, <1>9, <1>10 DEF IsSeqFold
<1> QED
  BY <1>1, <1>3, <1>7, <1>8, <1>11

-----------------------------------------------------------------------------
(* Filters.                                                                 *)

IsOnly(g, s, S) ==
  g = [t \in SUBSET (DOMAIN s) |->
         IF t = {} THEN <<>>
         ELSE IF s[Max(t)] \in S
         THEN Append(g[t \ {Max(t)}], s[Max(t)]) ELSE g[t \ {Max(t)}]]

LEMMA OnlyIsChosen ==
  ASSUME NEW s, NEW S
  PROVE  Only(s, S) = (CHOOSE g : IsOnly(g, s, S))[DOMAIN s]
  BY SMT DEF Only, FoldLeft, MapThenFoldSet, IsOnly

LEMMA OnlyExists ==
  ASSUME NEW E, NEW s \in Seq(E), NEW S
  PROVE  \E g : IsOnly(g, s, S)
<1> DEFINE D == DOMAIN s
           R == Seq(E)
           h == [x \in R \X D |-> IF s[x[2]] \in S THEN Append(x[1], s[x[2]])
                                  ELSE x[1]]
<1>1. Indices(D)
  <2>1. PICK n \in Nat : n = Len(s) /\ D = 1 .. n
    BY LenProperties
  <2> QED
    BY <2>1, FS_Interval DEF Indices
<1>2. \A i \in D : s[i] \in E
  BY ElementOfSeq, LenProperties
<1>3. ASSUME NEW r \in R, NEW i \in D
      PROVE  /\ h[<<r, i>>] = IF s[i] \in S THEN Append(r, s[i]) ELSE r
             /\ h[<<r, i>>] \in R
  <2>1. <<r, i>> \in R \X D /\ <<r, i>>[1] = r /\ <<r, i>>[2] = i
    OBVIOUS
  <2>2. h[<<r, i>>] = IF s[i] \in S THEN Append(r, s[i]) ELSE r
    <3> HIDE DEF R, D
    <3> QED
      BY <2>1
  <2>3. Append(r, s[i]) \in R
    BY <1>2, AppendProperties
  <2> QED
    BY <2>2, <2>3
<1>4. <<>> \in R
  BY EmptySeq
<1> HIDE DEF h, R, D
<1>5. PICK g : IsFold(g, h, <<>>, D)
  BY <1>1, FoldExists
<1>6. \A t \in SUBSET D : g[t] \in R
  BY <1>1, <1>3, <1>4, <1>5, FoldStays
<1>7. \A t \in SUBSET D : t # {} => Max(t) \in D
  BY <1>1, LastIn, SomeIndices
<1>8. ASSUME NEW t \in SUBSET D, t # {}
      PROVE  g[t] = IF s[Max(t)] \in S THEN Append(g[t \ {Max(t)}], s[Max(t)])
                    ELSE g[t \ {Max(t)}]
  <2>1. g[t] = h[<<g[t \ {Max(t)}], Max(t)>>]
    BY <1>5, <1>8, FoldOf
  <2>2. g[t \ {Max(t)}] \in R /\ Max(t) \in D
    BY <1>6, <1>7, <1>8
  <2> QED
    BY <1>3, <2>1, <2>2
<1>9. g[{}] = <<>> /\ g = [t \in SUBSET D |-> g[t]]
  <2>1. g = [t \in SUBSET D |->
               IF t = {} THEN <<>> ELSE h[<<g[t \ {Max(t)}], Max(t)>>]]
    BY <1>5 DEF IsFold
  <2> QED
    BY <2>1
<1>10. IsOnly(g, s, S)
  BY <1>8, <1>9 DEF IsOnly, D
<1> QED
  BY <1>10

\* What is kept of the first k elements.
LEMMA OnlySteps ==
  ASSUME NEW E, NEW s \in Seq(E), NEW S
  PROVE  \E p : /\ p[0] = <<>>
                /\ \A k \in 1 .. Len(s) :
                     p[k] = IF s[k] \in S THEN Append(p[k - 1], s[k])
                            ELSE p[k - 1]
                /\ Only(s, S) = p[Len(s)]
<1>1. PICK g : g = CHOOSE f : IsOnly(f, s, S)
  OBVIOUS
<1>2. IsOnly(g, s, S)
  BY <1>1, OnlyExists
<1>3. PICK n \in Nat : n = Len(s) /\ DOMAIN s = 1 .. n
  BY LenProperties
<1> DEFINE p == [k \in 0 .. n |-> g[1 .. k]]
<1>4. p[0] = <<>>
  <2>1. 1 .. 0 = {}
    OBVIOUS
  <2> QED
    BY <1>2, <2>1 DEF IsOnly
<1>5. ASSUME NEW k \in 1 .. n
      PROVE  p[k] = IF s[k] \in S THEN Append(p[k - 1], s[k]) ELSE p[k - 1]
  <2>1. PICK t : t = 1 .. k
    OBVIOUS
  <2>2. t \in SUBSET (DOMAIN s) /\ t # {} /\ t \ {k} = 1 .. (k - 1)
    <3>1. k \in Int /\ 1 <= k /\ k <= n
      OBVIOUS
    <3>2. \A i : i \in t <=> i \in Int /\ 1 <= i /\ i <= k
      BY <2>1, <3>1
    <3>3. \A i : i \in 1 .. (k - 1) <=> i \in Int /\ 1 <= i /\ i <= k - 1
      BY <3>1
    <3>4. \A i \in t : i \in DOMAIN s
      BY <1>3, <3>1, <3>2
    <3>5. \A i : i \in t \ {k} <=> i \in 1 .. (k - 1)
      BY <3>1, <3>2, <3>3
    <3>6. t \ {k} = 1 .. (k - 1)
      BY <3>5, Zenon
    <3>7. k \in t
      BY <3>1, <3>2
    <3> QED
      BY <3>4, <3>6, <3>7
  <2>3. Max(t) = k
    <3>1. \A y \in t : k >= y
      BY <2>1
    <3>2. k \in t /\ \A x \in t : (\A y \in t : x >= y) => x = k
      BY <2>1
    <3> QED
      BY <3>1, <3>2 DEF Max
  <2>4. g[t] = IF s[k] \in S THEN Append(g[t \ {k}], s[k]) ELSE g[t \ {k}]
    BY <1>2, <2>2, <2>3 DEF IsOnly
  <2> QED
    BY <2>1, <2>2, <2>4
<1>6. Only(s, S) = p[n]
  <2>1. Only(s, S) = g[DOMAIN s]
    BY <1>1, OnlyIsChosen
  <2> QED
    BY <1>3, <2>1
<1> QED
  BY <1>3, <1>4, <1>5, <1>6

\* Induction up to a number, on a set in place of a predicate.
LEMMA UpTo ==
  ASSUME NEW n \in Nat, NEW G, 0 \in G,
         \A k \in 1 .. n : k - 1 \in G => k \in G
  PROVE  \A k \in 0 .. n : k \in G
<1> DEFINE B == {k \in 0 .. n : k \notin G}
<1> SUFFICES ASSUME B # {} PROVE FALSE
  OBVIOUS
<1>1. PICK m \in B : \A k \in B : m <= k
  <2>1. B \subseteq Nat
    OBVIOUS
  <2> HIDE DEF B
  <2> QED
    BY <2>1, LeastNumber
<1>2. m \in 1 .. n /\ m - 1 \in 0 .. n
  <2>1. m \in 0 .. n /\ m # 0
    OBVIOUS
  <2> QED
    BY <2>1
<1>3. m - 1 \in G
  BY <1>1, <1>2
<1> QED
  BY <1>2, <1>3

Distinct(s) == \A i, j \in DOMAIN s : s[i] = s[j] => i = j

\* Of what the first k elements leave when only S is kept.
KeptOf(E, S, s, q, k) ==
  /\ q \in Seq(E \cap S)
  /\ \A j \in DOMAIN q : \E i \in 1 .. k : s[i] \in S /\ q[j] = s[i]
  /\ \A i \in 1 .. k : s[i] \in S => \E j \in DOMAIN q : q[j] = s[i]
  /\ q # <<>> => \E i \in 1 .. k : /\ s[i] \in S /\ q[1] = s[i]
                                  /\ \A j \in 1 .. i - 1 : s[j] \notin S
  /\ Distinct(s) => Distinct(q)

LEMMA KeptNext ==
  ASSUME NEW E, NEW s \in Seq(E), NEW S, NEW k \in 1 .. Len(s),
         NEW q, KeptOf(E, S, s, q, k - 1),
         NEW r, r = IF s[k] \in S THEN Append(q, s[k]) ELSE q
  PROVE  KeptOf(E, S, s, r, k)
<1>1. /\ q \in Seq(E \cap S)
      /\ \A j \in DOMAIN q : \E i \in 1 .. k - 1 : s[i] \in S /\ q[j] = s[i]
      /\ \A i \in 1 .. k - 1 : s[i] \in S => \E j \in DOMAIN q : q[j] = s[i]
      /\ q # <<>> => \E i \in 1 .. k - 1 : /\ s[i] \in S /\ q[1] = s[i]
                                  /\ \A j \in 1 .. i - 1 : s[j] \notin S
      /\ Distinct(s) => Distinct(q)
  BY DEF KeptOf
<1>2. /\ k \in Int /\ 1 <= k /\ s[k] \in E
      /\ \A i : i \in 1 .. k <=> i \in 1 .. k - 1 \/ i = k
      /\ k \in DOMAIN s /\ \A i \in 1 .. k : i \in DOMAIN s
  <2>1. PICK n \in Nat : n = Len(s) /\ DOMAIN s = 1 .. n
    BY LenProperties
  <2>2. k \in 1 .. n
    BY <2>1
  <2>3. s[k] \in E
    BY ElementOfSeq
  <2> QED
    BY <2>1, <2>2, <2>3
<1>3. CASE s[k] \notin S
  <2>1. r = q
    BY <1>3
  <2>2. \A j \in DOMAIN q : \E i \in 1 .. k : s[i] \in S /\ q[j] = s[i]
    BY <1>1, <1>2
  <2>3. \A i \in 1 .. k : s[i] \in S => \E j \in DOMAIN q : q[j] = s[i]
    BY <1>1, <1>2, <1>3
  <2>4. q # <<>> => \E i \in 1 .. k : /\ s[i] \in S /\ q[1] = s[i]
                                  /\ \A j \in 1 .. i - 1 : s[j] \notin S
    BY <1>1, <1>2
  <2>5. KeptOf(E, S, s, q, k)
    BY <1>1, <2>2, <2>3, <2>4 DEF KeptOf
  <2> QED
    BY <2>1, <2>5
<1>4. CASE s[k] \in S
  <2>1. PICK n \in Nat : n = Len(q) /\ DOMAIN q = 1 .. n
    BY <1>1, LenProperties
  <2>2. /\ r \in Seq(E \cap S) /\ DOMAIN r = 1 .. n + 1 /\ r # <<>>
        /\ \A j \in 1 .. n : r[j] = q[j]
        /\ r[n + 1] = s[k]
    <3>1. s[k] \in E \cap S /\ r = Append(q, s[k])
      BY <1>2, <1>4
    <3>2. r \in Seq(E \cap S) /\ Len(r) = n + 1
      BY <1>1, <2>1, <3>1, AppendProperties
    <3>3. DOMAIN r = 1 .. n + 1
      BY <3>2, LenProperties
    <3> QED
      BY <1>1, <2>1, <3>1, <3>2, <3>3, AppendProperties
  <2>3. \A j : j \in 1 .. n + 1 <=> j \in 1 .. n \/ j = n + 1
    BY <2>1
  <2>4. \A j \in DOMAIN r : \E i \in 1 .. k : s[i] \in S /\ r[j] = s[i]
    <3> TAKE j \in DOMAIN r
    <3>1. CASE j = n + 1
      BY <1>2, <1>4, <2>2, <3>1
    <3>2. CASE j \in 1 .. n
      BY <1>1, <1>2, <2>1, <2>2, <3>2
    <3> QED
      BY <2>2, <2>3, <3>1, <3>2
  <2>5. \A i \in 1 .. k : s[i] \in S => \E j \in DOMAIN r : r[j] = s[i]
    <3> SUFFICES ASSUME NEW i \in 1 .. k, s[i] \in S
                 PROVE  \E j \in DOMAIN r : r[j] = s[i]
      OBVIOUS
    <3>1. CASE i = k
      BY <2>2, <2>3, <3>1
    <3>2. CASE i \in 1 .. k - 1
      <4>1. PICK j \in DOMAIN q : q[j] = s[i]
        BY <1>1, <3>2
      <4> QED
        BY <2>1, <2>2, <2>3, <4>1
    <3> QED
      BY <1>2, <3>1, <3>2
  <2>6. \E i \in 1 .. k : /\ s[i] \in S /\ r[1] = s[i]
                          /\ \A j \in 1 .. i - 1 : s[j] \notin S
    <3>1. CASE q = <<>>
      <4>1. n = 0 /\ \A j \in 1 .. k - 1 : s[j] \notin S
        BY <1>1, <2>1, <3>1
      <4>2. r[1] = s[k]
        BY <2>2, <4>1
      <4> QED
        BY <1>2, <1>4, <4>1, <4>2
    <3>2. CASE q # <<>>
      <4>1. 1 \in 1 .. n
        BY <1>1, <2>1, <3>2, EmptySeq
      <4>2. r[1] = q[1]
        BY <2>2, <4>1
      <4> QED
        BY <1>1, <1>2, <3>2, <4>2
    <3> QED
      BY <3>1, <3>2
  <2>7. ASSUME Distinct(s)
        PROVE  Distinct(r)
    <3> SUFFICES ASSUME NEW i \in DOMAIN r, NEW j \in DOMAIN r, r[i] = r[j]
                 PROVE  i = j
      BY DEF Distinct
    <3>1. \A l \in 1 .. n : r[l] # s[k]
      <4> SUFFICES ASSUME NEW l \in 1 .. n, r[l] = s[k] PROVE FALSE
        OBVIOUS
      <4>1. PICK m \in 1 .. k - 1 : q[l] = s[m]
        BY <1>1, <2>1
      <4>2. s[m] = s[k] /\ m \in DOMAIN s /\ m # k
        BY <1>2, <2>2, <4>1
      <4> QED
        BY <1>2, <2>7, <4>2 DEF Distinct
    <3>2. CASE i \in 1 .. n /\ j \in 1 .. n
      BY <1>1, <2>1, <2>2, <2>7, <3>2 DEF Distinct
    <3>3. CASE i = n + 1 \/ j = n + 1
      BY <2>2, <2>3, <3>1, <3>3
    <3> QED
      BY <2>2, <2>3, <3>2, <3>3
  <2> QED
    BY <2>2, <2>4, <2>5, <2>6, <2>7 DEF KeptOf
<1> QED
  BY <1>3, <1>4

\* What a filter keeps.
LEMMA OnlyKeeps ==
  ASSUME NEW E, NEW s \in Seq(E), NEW S
  PROVE  KeptOf(E, S, s, Only(s, S), Len(s))
<1>1. PICK p : /\ p[0] = <<>>
               /\ \A k \in 1 .. Len(s) :
                    p[k] = IF s[k] \in S THEN Append(p[k - 1], s[k])
                           ELSE p[k - 1]
               /\ Only(s, S) = p[Len(s)]
  BY OnlySteps
<1>2. Len(s) \in Nat
  BY LenProperties
<1> DEFINE G == {k \in 0 .. Len(s) : KeptOf(E, S, s, p[k], k)}
<1>3. 0 \in G
  <2>1. <<>> \in Seq(E \cap S) /\ DOMAIN <<>> = {} /\ 1 .. 0 = {}
    OBVIOUS
  <2>2. Distinct(<<>>)
    BY <2>1 DEF Distinct
  <2>3. KeptOf(E, S, s, <<>>, 0)
    BY <2>1, <2>2 DEF KeptOf
  <2> QED
    BY <1>1, <1>2, <2>3
<1>4. ASSUME NEW k \in 1 .. Len(s), k - 1 \in G
      PROVE  k \in G
  <2>1. KeptOf(E, S, s, p[k - 1], k - 1)
    BY <1>4
  <2>2. KeptOf(E, S, s, p[k], k)
    BY <1>1, <2>1, KeptNext
  <2> QED
    BY <1>2, <2>2
<1> HIDE DEF G
<1>5. \A k \in 0 .. Len(s) : k \in G
  BY <1>2, <1>3, <1>4, UpTo
<1>6. Len(s) \in G
  BY <1>2, <1>5
<1> QED
  BY <1>1, <1>6 DEF G

\* What is left of a list by a filter: those of its elements that are in the
\* set, no more often than before, and first the first of them.
LEMMA OnlySelects ==
  ASSUME NEW E, NEW s \in Seq(E), NEW S
  PROVE  /\ Only(s, S) \in Seq(E \cap S)
         /\ ToSet(Only(s, S)) = ToSet(s) \cap S
         /\ Distinct(s) => Distinct(Only(s, S))
         /\ Only(s, S) # <<>> =>
              \E i \in DOMAIN s : /\ s[i] \in S /\ Only(s, S)[1] = s[i]
                                  /\ \A j \in 1 .. i - 1 : s[j] \notin S
<1>1. PICK q : q = Only(s, S)
  OBVIOUS
<1>2. DOMAIN s = 1 .. Len(s)
  BY LenProperties
<1>3. /\ q \in Seq(E \cap S)
      /\ \A j \in DOMAIN q : \E i \in DOMAIN s : s[i] \in S /\ q[j] = s[i]
      /\ \A i \in DOMAIN s : s[i] \in S => \E j \in DOMAIN q : q[j] = s[i]
      /\ q # <<>> => \E i \in DOMAIN s : /\ s[i] \in S /\ q[1] = s[i]
                                  /\ \A j \in 1 .. i - 1 : s[j] \notin S
      /\ Distinct(s) => Distinct(q)
  <2>1. KeptOf(E, S, s, q, Len(s))
    BY <1>1, OnlyKeeps
  <2> QED
    BY <1>2, <2>1 DEF KeptOf
<1>4. ToSet(q) = ToSet(s) \cap S
  <2>1. ASSUME NEW e \in ToSet(q) PROVE e \in ToSet(s) \cap S
    <3>1. PICK j \in DOMAIN q : e = q[j]
      BY DEF ToSet
    <3>2. PICK i \in DOMAIN s : s[i] \in S /\ q[j] = s[i]
      BY <1>3
    <3> QED
      BY <3>1, <3>2 DEF ToSet
  <2>2. ASSUME NEW e \in ToSet(s) \cap S PROVE e \in ToSet(q)
    <3>1. PICK i \in DOMAIN s : e = s[i] /\ e \in S
      BY DEF ToSet
    <3>2. PICK j \in DOMAIN q : q[j] = s[i]
      BY <1>3, <3>1
    <3> QED
      BY <3>1, <3>2 DEF ToSet
  <2> QED
    BY <2>1, <2>2
<1> QED
  BY <1>1, <1>3, <1>4

\* A filter's steps, to be compared with another's.
Filters(p, s, S) ==
  /\ p[0] = <<>>
  /\ \A k \in 1 .. Len(s) :
       p[k] = IF s[k] \in S THEN Append(p[k - 1], s[k]) ELSE p[k - 1]

LEMMA OnlyFilters ==
  ASSUME NEW E, NEW s \in Seq(E), NEW S
  PROVE  \E p : Filters(p, s, S) /\ Only(s, S) = p[Len(s)]
<1>1. PICK p : /\ p[0] = <<>>
               /\ \A k \in 1 .. Len(s) :
                    p[k] = IF s[k] \in S THEN Append(p[k - 1], s[k])
                           ELSE p[k - 1]
               /\ Only(s, S) = p[Len(s)]
  BY OnlySteps
<1> QED
  BY <1>1 DEF Filters

\* What comes after a list, and is not kept, does not matter to a filter.
LEMMA OnlyOfFirst ==
  ASSUME NEW E, NEW s \in Seq(E), NEW t \in Seq(E), NEW S, NEW T,
         \A e \in ToSet(s) : e \in S <=> e \in T,
         \A e \in ToSet(t) : e \notin S
  PROVE  Only(s \o t, S) = Only(s, T)
<1>1. PICK m \in Nat, n \in Nat :
        /\ m = Len(s) /\ DOMAIN s = 1 .. m /\ n = Len(t) /\ DOMAIN t = 1 .. n
  BY LenProperties
<1>2. PICK u : u = s \o t
  OBVIOUS
<1>3. /\ u \in Seq(E) /\ Len(u) = m + n
      /\ \A i \in 1 .. m + n : u[i] = IF i <= m THEN s[i] ELSE t[i - m]
  BY <1>1, <1>2, ConcatProperties
<1>4. PICK p : Filters(p, u, S) /\ Only(u, S) = p[m + n]
  BY <1>3, OnlyFilters
<1>5. PICK q : Filters(q, s, T) /\ Only(s, T) = q[m]
  BY <1>1, OnlyFilters
<1>6. \A i \in 1 .. m : s[i] \in S <=> s[i] \in T
  BY <1>1 DEF ToSet
<1>7. \A i \in 1 .. n : t[i] \notin S
  BY <1>1 DEF ToSet
<1> DEFINE G == {k \in 0 .. m + n : p[k] = q[IF k <= m THEN k ELSE m]}
<1>8. 0 \in G
  BY <1>4, <1>5 DEF Filters
<1>9. ASSUME NEW k \in 1 .. m + n, k - 1 \in G
      PROVE  k \in G
  <2>1. p[k] = IF u[k] \in S THEN Append(p[k - 1], u[k]) ELSE p[k - 1]
    BY <1>3, <1>4 DEF Filters
  <2>2. CASE k <= m
    <3>1. k \in 1 .. m /\ u[k] = s[k] /\ p[k - 1] = q[k - 1]
      BY <1>3, <1>9, <2>2
    <3>2. q[k] = IF s[k] \in T THEN Append(q[k - 1], s[k]) ELSE q[k - 1]
      BY <1>1, <1>5, <3>1 DEF Filters
    <3>3. p[k] = q[k]
      BY <1>6, <2>1, <3>1, <3>2
    <3> QED
      BY <2>2, <3>3
  <2>3. CASE k > m
    <3>1. u[k] = t[k - m] /\ k - m \in 1 .. n
      BY <1>3, <2>3
    <3>2. p[k] = p[k - 1]
      BY <1>7, <2>1, <3>1
    <3>3. p[k - 1] = q[m]
      BY <1>9, <2>3
    <3> QED
      BY <2>3, <3>2, <3>3
  <2> QED
    BY <2>2, <2>3
<1> HIDE DEF G
<1>10. \A k \in 0 .. m + n : k \in G
  <2>1. m + n \in Nat
    OBVIOUS
  <2> QED
    BY <1>8, <1>9, <2>1, UpTo
<1>11. m + n \in G
  BY <1>10
<1>12. p[m + n] = q[m]
  <2>1. p[m + n] = q[IF m + n <= m THEN m + n ELSE m]
    BY <1>11 DEF G
  <2>2. m + n <= m => m + n = m
    OBVIOUS
  <2> QED
    BY <2>1, <2>2
<1> QED
  BY <1>2, <1>4, <1>5, <1>12

\* What comes before a list, and is not kept, does not matter to a filter.
LEMMA OnlyOfRest ==
  ASSUME NEW E, NEW s \in Seq(E), NEW t \in Seq(E), NEW S, NEW T,
         \A e \in ToSet(s) : e \notin S,
         \A e \in ToSet(t) : e \in S <=> e \in T
  PROVE  Only(s \o t, S) = Only(t, T)
<1>1. PICK m \in Nat, n \in Nat :
        /\ m = Len(s) /\ DOMAIN s = 1 .. m /\ n = Len(t) /\ DOMAIN t = 1 .. n
  BY LenProperties
<1>2. PICK u : u = s \o t
  OBVIOUS
<1>3. /\ u \in Seq(E) /\ Len(u) = m + n
      /\ \A i \in 1 .. m + n : u[i] = IF i <= m THEN s[i] ELSE t[i - m]
  BY <1>1, <1>2, ConcatProperties
<1>4. PICK p : Filters(p, u, S) /\ Only(u, S) = p[m + n]
  BY <1>3, OnlyFilters
<1>5. PICK q : Filters(q, t, T) /\ Only(t, T) = q[n]
  BY <1>1, OnlyFilters
<1>6. \A i \in 1 .. m : s[i] \notin S
  BY <1>1 DEF ToSet
<1>7. \A i \in 1 .. n : t[i] \in S <=> t[i] \in T
  BY <1>1 DEF ToSet
<1> DEFINE G == {k \in 0 .. m + n : p[k] = q[IF k <= m THEN 0 ELSE k - m]}
<1>8. 0 \in G
  BY <1>4, <1>5 DEF Filters
<1>9. ASSUME NEW k \in 1 .. m + n, k - 1 \in G
      PROVE  k \in G
  <2>1. p[k] = IF u[k] \in S THEN Append(p[k - 1], u[k]) ELSE p[k - 1]
    BY <1>3, <1>4 DEF Filters
  <2>2. CASE k <= m
    <3>1. k \in 1 .. m /\ u[k] = s[k] /\ p[k - 1] = q[0]
      BY <1>3, <1>9, <2>2
    <3> QED
      BY <1>6, <2>1, <2>2, <3>1
  <2>3. CASE k > m
    <3>1. PICK i \in 1 .. n : i = k - m /\ u[k] = t[i]
      BY <1>3, <2>3
    <3>2. q[i] = IF t[i] \in T THEN Append(q[i - 1], t[i]) ELSE q[i - 1]
      BY <1>1, <1>5, <3>1 DEF Filters
    <3>3. p[k - 1] = q[i - 1]
      <4>1. p[k - 1] = q[IF k - 1 <= m THEN 0 ELSE (k - 1) - m]
        BY <1>9
      <4>2. (IF k - 1 <= m THEN 0 ELSE (k - 1) - m) = i - 1
        BY <2>3, <3>1
      <4> QED
        BY <4>1, <4>2
    <3>4. p[k] = q[i]
      BY <1>7, <2>1, <3>1, <3>2, <3>3
    <3> QED
      BY <2>3, <3>1, <3>4
  <2> QED
    BY <2>2, <2>3
<1> HIDE DEF G
<1>10. \A k \in 0 .. m + n : k \in G
  <2>1. m + n \in Nat
    OBVIOUS
  <2> QED
    BY <1>8, <1>9, <2>1, UpTo
<1>11. m + n \in G
  BY <1>10
<1>12. p[m + n] = q[n]
  <2>1. p[m + n] = q[IF m + n <= m THEN 0 ELSE (m + n) - m]
    BY <1>11 DEF G
  <2>2. (IF m + n <= m THEN 0 ELSE (m + n) - m) = n
    OBVIOUS
  <2> QED
    BY <2>1, <2>2
<1> QED
  BY <1>2, <1>4, <1>5, <1>12

\* A list without doubles is as long as it has elements.
LEMMA DistinctCounts ==
  ASSUME NEW E, NEW q \in Seq(E), Distinct(q)
  PROVE  Len(q) = Cardinality(ToSet(q))
<1>1. PICK n \in Nat : n = Len(q) /\ DOMAIN q = 1 .. n
  BY LenProperties
<1>2. PICK D : D = 1 .. n
  OBVIOUS
<1>3. IsFiniteSet(D) /\ Cardinality(D) = n
  <2>1. 1 \in Int /\ n \in Int
    OBVIOUS
  <2>2. /\ IsFiniteSet(1 .. n)
        /\ Cardinality(1 .. n) = IF 1 > n THEN 0 ELSE n - 1 + 1
    BY <2>1, FS_Interval
  <2>3. (IF 1 > n THEN 0 ELSE n - 1 + 1) = n
    OBVIOUS
  <2> QED
    BY <1>2, <2>2, <2>3
<1>4. PICK T : T = ToSet(q)
  OBVIOUS
<1>5. T = {q[i] : i \in D} /\ \A i, j \in D : q[i] = q[j] => i = j
  BY <1>1, <1>2, <1>4 DEF ToSet, Distinct
<1>6. ExistsBijection(D, T)
  <2>1. [i \in D |-> q[i]] \in Bijection(D, T)
    BY <1>5 DEF Bijection, Injection, Surjection, IsInjective
  <2> QED
    BY <2>1 DEF ExistsBijection
<1>7. Cardinality(T) = Cardinality(D)
  BY <1>3, <1>6, FS_Bijection
<1> QED
  BY <1>1, <1>3, <1>4, <1>7

-----------------------------------------------------------------------------
(* Lists of lists *)

LEMMA JoinedSet ==
  ASSUME NEW E, NEW s \in Seq(E), NEW t \in Seq(E)
  PROVE  s \o t \in Seq(E) /\ ToSet(s \o t) = ToSet(s) \cup ToSet(t)
<1>1. PICK m \in Nat, n \in Nat :
        /\ m = Len(s) /\ DOMAIN s = 1 .. m /\ n = Len(t) /\ DOMAIN t = 1 .. n
  BY LenProperties
<1>2. /\ s \o t \in Seq(E) /\ Len(s \o t) = m + n
      /\ \A i \in 1 .. m + n : (s \o t)[i] = IF i <= m THEN s[i] ELSE t[i - m]
  BY <1>1, ConcatProperties
<1>3. DOMAIN (s \o t) = 1 .. m + n
  BY <1>2, LenProperties
<1>4. PICK r : r = s \o t
  OBVIOUS
<1>5. \A i \in 1 .. m : i \in 1 .. m + n /\ r[i] = s[i]
  BY <1>1, <1>2, <1>4
<1>6. \A i \in 1 .. n : i + m \in 1 .. m + n /\ r[i + m] = t[i]
  BY <1>1, <1>2, <1>4
<1>7. \A i \in 1 .. m + n : \/ i \in 1 .. m /\ r[i] = s[i]
                            \/ i - m \in 1 .. n /\ r[i] = t[i - m]
  BY <1>1, <1>2, <1>4
<1>8. \A i : i \in 1 .. n => \E j \in 1 .. m + n : r[j] = t[i]
  BY <1>6
<1>9. ToSet(r) \subseteq ToSet(s) \cup ToSet(t)
  BY <1>1, <1>3, <1>4, <1>7 DEF ToSet
<1>10. ToSet(s) \subseteq ToSet(r)
  BY <1>1, <1>3, <1>4, <1>5 DEF ToSet
<1>11. ToSet(t) \subseteq ToSet(r)
  BY <1>1, <1>3, <1>4, <1>8 DEF ToSet
<1> QED
  BY <1>2, <1>4, <1>9, <1>10, <1>11

IsFlat(f, ss) ==
  f = [i \in 1 .. Len(ss) |-> IF i = 1 THEN ss[i] ELSE f[i - 1] \o ss[i]]

LEMMA FlatIsChosen ==
  ASSUME NEW ss, Len(ss) # 0
  PROVE  FlattenSeq(ss) = (CHOOSE f : IsFlat(f, ss))[Len(ss)]
  BY SMT DEF FlattenSeq, IsFlat

LEMMA FlatExists ==
  ASSUME NEW E, NEW ss \in Seq(Seq(E))
  PROVE  \E f : IsFlat(f, ss)
<1>1. PICK R : R = Seq(E)
  OBVIOUS
<1>2. PICK h : h = [x \in R \X R |-> x[1] \o x[2]]
  OBVIOUS
<1>3. Keeps(h, R, R) /\ \A r, s \in R : h[<<r, s>>] = r \o s
  BY <1>1, <1>2, JoinedSet DEF Keeps
<1>4. <<>> \in R /\ ss \in Seq(R)
  BY <1>1
<1>0. PICK b : b = <<>>
  OBVIOUS
<1>5. PICK g : /\ IsSeqFold(g, h, b, ss)
               /\ \A t \in SUBSET (DOMAIN ss) :
                    /\ g[t] \in R
                    /\ t # {} => g[t \ {Max(t)}] \in R /\ ss[Max(t)] \in R
  <2>1. Keeps(h, R, R) /\ b \in R /\ ss \in Seq(R)
    BY <1>0, <1>3, <1>4
  <2> QED
    BY <2>1, SeqFoldExists
<1>6. PICK n \in Nat : n = Len(ss) /\ DOMAIN ss = 1 .. n
  BY LenProperties
<1>7. \A t \in SUBSET (1 .. n) :
        g[t] = IF t = {} THEN <<>> ELSE g[t \ {Max(t)}] \o ss[Max(t)]
  BY <1>0, <1>3, <1>5, <1>6 DEF IsSeqFold
<1>8. ASSUME NEW k \in 1 .. n
      PROVE  g[1 .. k] = g[1 .. (k - 1)] \o ss[k]
  <2>1. PICK t : t = 1 .. k /\ t \in SUBSET (1 .. n) /\ t # {}
                 /\ Max(t) = k /\ t \ {k} = 1 .. (k - 1)
    BY FirstIndices
  <2> QED
    BY <1>7, <2>1
<1>9. g[1 .. 0] = <<>>
  <2>1. 1 .. 0 = {} /\ {} \in SUBSET (1 .. n)
    OBVIOUS
  <2> QED
    BY <1>7, <2>1
<1> DEFINE f == [i \in 1 .. n |-> g[1 .. i]]
<1>13. \A i \in 1 .. n : f[i] = g[1 .. i]
  OBVIOUS
<1>11. f = [i \in 1 .. n |-> f[i]]
  OBVIOUS
<1> HIDE DEF f
<1>10. \A i \in 1 .. n : f[i] = IF i = 1 THEN ss[i] ELSE f[i - 1] \o ss[i]
  <2> SUFFICES ASSUME NEW i \in 1 .. n
               PROVE  f[i] = IF i = 1 THEN ss[i] ELSE f[i - 1] \o ss[i]
    OBVIOUS
  <2>1. f[i] = g[1 .. (i - 1)] \o ss[i] /\ ss[i] \in Seq(E)
    BY <1>13, <1>6, <1>8, ElementOfSeq
  <2>2. CASE i = 1
    <3>1. f[i] = <<>> \o ss[i]
      <4>1. i - 1 = 0
        BY <2>2
      <4> QED
        BY <1>9, <2>1, <4>1
    <3>2. <<>> \o ss[i] = ss[i]
      BY <2>1, ConcatEmptySeq
    <3> QED
      BY <2>2, <3>1, <3>2
  <2>3. CASE i # 1
    <3>1. i - 1 \in 1 .. n
      BY <2>3
    <3> QED
      BY <1>13, <2>1, <2>3, <3>1
  <2> QED
    BY <2>2, <2>3
<1>12. IsFlat(f, ss)
  BY <1>6, <1>10, <1>11 DEF IsFlat
<1> QED
  BY <1>12

\* All elements of all lists.
LEMMA Flattened ==
  ASSUME NEW E, NEW ss \in Seq(Seq(E))
  PROVE  /\ FlattenSeq(ss) \in Seq(E)
         /\ \A e : e \in ToSet(FlattenSeq(ss))
                     <=> \E i \in DOMAIN ss : e \in ToSet(ss[i])
<1>1. PICK n \in Nat : n = Len(ss) /\ DOMAIN ss = 1 .. n
  BY LenProperties
<1>2. CASE n = 0
  <2>1. FlattenSeq(ss) = <<>> /\ DOMAIN ss = {}
    BY <1>1, <1>2, EmptySeq DEF FlattenSeq
  <2> QED
    BY <2>1 DEF ToSet
<1>3. CASE n # 0
  <2>1. PICK f : f = CHOOSE g : IsFlat(g, ss)
    OBVIOUS
  <2>2. IsFlat(f, ss)
    BY <2>1, FlatExists
  <2>3. FlattenSeq(ss) = f[n]
    BY <1>1, <1>3, <2>1, FlatIsChosen
  <2>4. \A i \in 1 .. n : f[i] = IF i = 1 THEN ss[i] ELSE f[i - 1] \o ss[i]
    BY <1>1, <2>2 DEF IsFlat
  <2>5. \A i \in 1 .. n : ss[i] \in Seq(E)
    BY <1>1, ElementOfSeq
  <2> DEFINE G == {k \in 0 .. n : k = 0 \/
                     /\ f[k] \in Seq(E)
                     /\ \A e : e \in ToSet(f[k])
                                 <=> \E i \in 1 .. k : e \in ToSet(ss[i])}
  <2>6. 0 \in G
    OBVIOUS
  <2>7. ASSUME NEW k \in 1 .. n, k - 1 \in G
        PROVE  k \in G
    <3>1. k \in 0 .. n /\ \A i : i \in 1 .. k <=> i \in 1 .. k - 1 \/ i = k
      OBVIOUS
    <3>2. CASE k = 1
      <4>1. f[k] = ss[k] /\ f[k] \in Seq(E)
        BY <2>4, <2>5, <3>2
      <4> QED
        BY <3>1, <3>2, <4>1
    <3>3. CASE k # 1
      <4>1. k - 1 # 0
        BY <3>3
      <4>2. f[k] = f[k - 1] \o ss[k] /\ ss[k] \in Seq(E) /\ f[k - 1] \in Seq(E)
        BY <2>4, <2>5, <2>7, <3>3, <4>1
      <4>3. /\ f[k] \in Seq(E)
            /\ ToSet(f[k]) = ToSet(f[k - 1]) \cup ToSet(ss[k])
        BY <4>2, JoinedSet
      <4>4. \A e : e \in ToSet(f[k - 1])
                     <=> \E i \in 1 .. k - 1 : e \in ToSet(ss[i])
        BY <2>7, <4>1
      <4>5. \A e : e \in ToSet(f[k]) <=> \E i \in 1 .. k : e \in ToSet(ss[i])
        BY <3>1, <4>3, <4>4
      <4> QED
        BY <3>1, <4>3, <4>5
    <3> QED
      BY <3>2, <3>3
  <2> HIDE DEF G
  <2>8. \A k \in 0 .. n : k \in G
    BY <2>6, <2>7, UpTo
  <2>9. n \in G
    BY <2>8
  <2> QED
    BY <1>1, <1>3, <2>3, <2>9 DEF G
<1> QED
  BY <1>2, <1>3

LEMMA AppendedSet ==
  ASSUME NEW E, NEW s \in Seq(E), NEW e \in E
  PROVE  ToSet(Append(s, e)) = ToSet(s) \cup {e}
<1>1. PICK n \in Nat : n = Len(s) /\ DOMAIN s = 1 .. n
  BY LenProperties
<1>2. PICK r : r = Append(s, e)
  OBVIOUS
<1>3. /\ r \in Seq(E) /\ Len(r) = n + 1 /\ r[n + 1] = e
      /\ \A i \in 1 .. n : r[i] = s[i]
  BY <1>1, <1>2, AppendProperties
<1>4. DOMAIN r = 1 .. n + 1 /\ \A i : i \in 1 .. n + 1 <=> i \in 1 .. n \/ i = n + 1
  BY <1>1, <1>3, LenProperties
<1>5. ToSet(r) \subseteq ToSet(s) \cup {e}
  BY <1>1, <1>3, <1>4 DEF ToSet
<1>6. ToSet(s) \subseteq ToSet(r)
  BY <1>1, <1>3, <1>4 DEF ToSet
<1>7. e \in ToSet(r)
  BY <1>3, <1>4 DEF ToSet
<1> QED
  BY <1>2, <1>5, <1>6, <1>7

\* The steps of a fold stay where each of them leads.
LEMMA StepsStay ==
  ASSUME NEW n \in Nat, NEW R, NEW p, p[0] \in R,
         \A k \in 1 .. n : p[k - 1] \in R => p[k] \in R
  PROVE  \A k \in 0 .. n : p[k] \in R
<1> DEFINE G == {k \in 0 .. n : p[k] \in R}
<1>1. 0 \in G
  OBVIOUS
<1>2. \A k \in 1 .. n : k - 1 \in G => k \in G
  OBVIOUS
<1> HIDE DEF G
<1>3. \A k \in 0 .. n : k \in G
  BY <1>1, <1>2, UpTo
<1> QED
  BY <1>3 DEF G

\* Lists that are put one after the other.
LEMMA Joined ==
  ASSUME NEW n \in Nat, NEW ss, ss = [i \in 1 .. n |-> ss[i]],
         \A i \in 1 .. n : ss[i] \in Seq(ToSet(ss[i]))
  PROVE  /\ FlattenSeq(ss) \in Seq(ToSet(FlattenSeq(ss)))
         /\ \A e : e \in ToSet(FlattenSeq(ss))
                     <=> \E i \in 1 .. n : e \in ToSet(ss[i])
<1>1. PICK E : E = UNION {ToSet(ss[i]) : i \in 1 .. n}
  OBVIOUS
<1>2. ASSUME NEW i \in 1 .. n
      PROVE  ss[i] \in Seq(E)
  <2>1. PICK s : s = ss[i]
    OBVIOUS
  <2>2. PICK m \in Nat : /\ m = Len(s) /\ DOMAIN s = 1 .. m
                         /\ s = [j \in 1 .. m |-> s[j]]
    BY <2>1, LenProperties
  <2>3. \A j \in 1 .. m : s[j] \in E
    BY <1>1, <2>1, <2>2 DEF ToSet
  <2>4. s \in [1 .. m -> E]
    BY <2>2, <2>3
  <2> QED
    BY <2>1, <2>4
<1>3. ss \in [1 .. n -> Seq(E)]
  BY <1>2
<1>4. ss \in Seq(Seq(E)) /\ DOMAIN ss = 1 .. n
  BY <1>3
<1>5. PICK f : f = FlattenSeq(ss)
  OBVIOUS
<1>6. /\ f \in Seq(E)
      /\ \A e : e \in ToSet(f) <=> \E i \in DOMAIN ss : e \in ToSet(ss[i])
  BY <1>4, <1>5, Flattened
<1>7. f \in Seq(ToSet(f))
  <2>1. PICK m \in Nat : /\ m = Len(f) /\ DOMAIN f = 1 .. m
                         /\ f = [j \in 1 .. m |-> f[j]]
    BY <1>6, LenProperties
  <2>2. f \in [1 .. m -> ToSet(f)]
    BY <2>1 DEF ToSet
  <2> QED
    BY <2>2
<1> QED
  BY <1>4, <1>5, <1>6, <1>7

\* Three elements and perhaps a fourth.
LEMMA ThreeOrFour ==
  ASSUME NEW a, NEW b, NEW d, NEW e, NEW t, t = <<>> \/ t = <<e>>
  PROVE  /\ <<a, b, d>> \o t \in Seq({a, b, d, e})
         /\ ToSet(<<a, b, d>> \o t) \subseteq {a, b, d} \cup ToSet(t)
         /\ {a, b, d} \subseteq ToSet(<<a, b, d>> \o t)
         /\ ToSet(t) \subseteq {e}
<1>1. PICK E : E = {a, b, d, e}
  OBVIOUS
<1>0. a \in E /\ b \in E /\ d \in E /\ e \in E
  BY <1>1
<1>2. <<a, b, d>> \in Seq(E) /\ t \in Seq(E)
  <2>1. <<a, b, d>> \in Seq(E)
    BY <1>0
  <2>2. <<>> \in Seq(E) /\ <<e>> \in Seq(E)
    BY <1>0
  <2> QED
    BY <2>1, <2>2
<1>3. /\ <<a, b, d>> \o t \in Seq(E)
      /\ ToSet(<<a, b, d>> \o t) = ToSet(<<a, b, d>>) \cup ToSet(t)
  BY <1>2, JoinedSet, ZenonT(30)
<1>4. ToSet(<<a, b, d>>) = {a, b, d}
  BY DEF ToSet
<1>5. ToSet(t) \subseteq {e}
  BY DEF ToSet
<1> QED
  BY <1>1, <1>3, <1>4, <1>5

-----------------------------------------------------------------------------
(* Lists from their ends: the last element, the list without it, and      *)
(* induction along it; and what a filter and a fold make of one more.      *)

\* A filter of one element more.
LEMMA OnlyAppends ==
  ASSUME NEW E, NEW s \in Seq(E), NEW e \in E, NEW S
  PROVE  Only(Append(s, e), S) =
           IF e \in S THEN Append(Only(s, S), e) ELSE Only(s, S)
<1>1. PICK n \in Nat : n = Len(s) /\ DOMAIN s = 1 .. n
  BY LenProperties
<1>2. PICK u : u = Append(s, e)
  OBVIOUS
<1>3. /\ u \in Seq(E) /\ Len(u) = n + 1 /\ u[n + 1] = e
      /\ \A i \in 1 .. n : u[i] = s[i]
  BY <1>1, <1>2, AppendProperties
<1>4. PICK p : Filters(p, u, S) /\ Only(u, S) = p[n + 1]
  BY <1>3, OnlyFilters
<1>5. PICK q : Filters(q, s, S) /\ Only(s, S) = q[n]
  BY <1>1, OnlyFilters
<1> DEFINE G == {k \in 0 .. n : p[k] = q[k]}
<1>6. 0 \in G
  BY <1>4, <1>5 DEF Filters
<1>7. ASSUME NEW k \in 1 .. n, k - 1 \in G
      PROVE  k \in G
  <2>1. k \in 1 .. Len(u) /\ u[k] = s[k] /\ p[k - 1] = q[k - 1]
    BY <1>3, <1>7
  <2>2. p[k] = IF u[k] \in S THEN Append(p[k - 1], u[k]) ELSE p[k - 1]
    BY <1>4, <2>1 DEF Filters
  <2>3. q[k] = IF s[k] \in S THEN Append(q[k - 1], s[k]) ELSE q[k - 1]
    BY <1>1, <1>5 DEF Filters
  <2> QED
    BY <2>1, <2>2, <2>3
<1> HIDE DEF G
<1>8. \A k \in 0 .. n : k \in G
  BY <1>6, <1>7, UpTo
<1>9. p[n] = q[n]
  BY <1>8 DEF G
<1>10. p[n + 1] = IF e \in S THEN Append(p[n], e) ELSE p[n]
  <2>1. n + 1 \in 1 .. Len(u) /\ (n + 1) - 1 = n
    BY <1>3
  <2> QED
    BY <1>3, <1>4, <2>1 DEF Filters
<1> QED
  BY <1>2, <1>4, <1>5, <1>9, <1>10

\* The first elements of two lists that are put one after the other.
LEMMA FirstOfJoined ==
  ASSUME NEW E, NEW s \in Seq(E), NEW t \in Seq(E)
  PROVE  SubSeq(s \o t, 1, Len(s)) = s
<1>1. Len(s) \in Nat
  BY LenProperties
<1>2. CASE s = <<>>
  <2>1. Len(s) = 0
    BY <1>2, EmptySeq
  <2> QED
    BY <1>2, <2>1, SubSeqEmpty
<1>3. CASE s # <<>>
  <2>1. 1 \in 1 .. Len(s) /\ Len(s) \in 1 .. Len(s)
    BY <1>1, <1>3, EmptySeq
  <2>2. SubSeq(s \o t, 1, Len(s)) = SubSeq(s, 1, Len(s))
    BY <2>1, SubSeqOfConcat1
  <2> QED
    BY <2>2, SubSeqFull
<1> QED
  BY <1>2, <1>3

\* The last element of a list, and the list without it.
LEMMA LastAppended ==
  ASSUME NEW E, NEW s \in Seq(E), NEW e \in E
  PROVE  /\ Append(s, e) \in Seq(E) /\ Append(s, e) # <<>>
         /\ Last(Append(s, e)) = e /\ Front(Append(s, e)) = s
<1>1. PICK n \in Nat : n = Len(s)
  BY LenProperties
<1>2. PICK u : u = Append(s, e)
  OBVIOUS
<1>3. u \in Seq(E) /\ Len(u) = n + 1 /\ u[n + 1] = e /\ u # <<>>
  BY <1>1, <1>2, AppendProperties
<1>4. Last(u) = e
  BY <1>3 DEF Last
<1>5. Front(u) = s
  <2>1. Front(u) = SubSeq(u, 1, n)
    BY <1>3 DEF Front
  <2>2. u = s \o <<e>> /\ <<e>> \in Seq(E)
    <3>1. u = s \o <<e>>
      BY <1>2, AppendIsConcat
    <3> QED
      BY <3>1
  <2> QED
    BY <1>1, <2>1, <2>2, FirstOfJoined
<1> QED
  BY <1>2, <1>3, <1>4, <1>5

\* A list that is not empty is one with one more.
LEMMA LastOff ==
  ASSUME NEW E, NEW s \in Seq(E), s # <<>>
  PROVE  /\ Front(s) \in Seq(E) /\ Last(s) \in E /\ s = Append(Front(s), Last(s))
         /\ Len(s) = Len(Front(s)) + 1 /\ Len(Front(s)) \in Nat
<1>1. PICK r \in Seq(E), e \in E : s = Append(r, e)
  BY SequenceEmptyOrAppend
<1>2. Last(s) = e /\ Front(s) = r
  BY <1>1, LastAppended
<1>3. Len(s) = Len(r) + 1 /\ Len(r) \in Nat
  BY <1>1, AppendProperties, LenProperties
<1> QED
  BY <1>1, <1>2, <1>3

\* Lists put one after the other, and one element more.
LEMMA JoinAppends ==
  ASSUME NEW E, NEW s \in Seq(E), NEW t \in Seq(E), NEW e \in E
  PROVE  s \o Append(t, e) = Append(s \o t, e)
<1>1. <<e>> \in Seq(E)
  OBVIOUS
<1>2. PICK u : u = s \o t /\ u \in Seq(E)
  BY ConcatProperties
<1>3. Append(t, e) = t \o <<e>> /\ Append(u, e) = u \o <<e>>
  BY <1>2, AppendIsConcat
<1>4. (s \o t) \o <<e>> = s \o (t \o <<e>>)
  BY <1>1, ConcatAssociative
<1> QED
  BY <1>2, <1>3, <1>4

\* Induction over lists, on a set in place of a predicate.
LEMMA OverLists ==
  ASSUME NEW E, NEW G, <<>> \in G,
         \A s \in Seq(E), e \in E : s \in G => Append(s, e) \in G
  PROVE  \A s \in Seq(E) : s \in G
<1> TAKE u \in Seq(E)
<1> DEFINE K == {k \in Nat : \A s \in Seq(E) : Len(s) = k => s \in G}
<1>1. PICK n \in Nat : n = Len(u)
  BY LenProperties
<1>2. 0 \in K
  <2>1. \A s \in Seq(E) : Len(s) = 0 => s = <<>>
    BY EmptySeq
  <2> QED
    BY <2>1
<1>3. ASSUME NEW k \in 1 .. n, k - 1 \in K
      PROVE  k \in K
  <2> SUFFICES ASSUME NEW s \in Seq(E), Len(s) = k
               PROVE  s \in G
    OBVIOUS
  <2>1. s # <<>>
    BY EmptySeq
  <2>2. /\ Front(s) \in Seq(E) /\ Last(s) \in E
        /\ s = Append(Front(s), Last(s)) /\ Len(Front(s)) = k - 1
    BY <2>1, LastOff
  <2>3. Front(s) \in G
    BY <1>3, <2>2
  <2> QED
    BY <2>2, <2>3
<1> HIDE DEF K
<1>4. \A k \in 0 .. n : k \in K
  BY <1>2, <1>3, UpTo
<1>5. n \in K
  BY <1>4
<1> QED
  BY <1>1, <1>5 DEF K

LEMMA OnlyOfNothing ==
  ASSUME NEW S
  PROVE  Only(<<>>, S) = <<>>
<1>1. PICK e : e = S
  OBVIOUS
<1>2. <<>> \in Seq({e}) /\ Len(<<>>) = 0
  BY EmptySeq
<1>3. PICK p : Filters(p, <<>>, S) /\ Only(<<>>, S) = p[Len(<<>>)]
  BY <1>2, OnlyFilters
<1> QED
  BY <1>2, <1>3 DEF Filters

\* A filter of nothing is nothing, and a filter of a list is a list.
LEMMA OnlyIsList ==
  ASSUME NEW E, NEW s \in Seq(E), NEW S
  PROVE  Only(s, S) \in Seq(E)
<1> DEFINE G == {t \in Seq(E) : Only(t, S) \in Seq(E)}
<1>1. <<>> \in G
  BY OnlyOfNothing, EmptySeq
<1>2. ASSUME NEW t \in Seq(E), NEW e \in E, t \in G
      PROVE  Append(t, e) \in G
  <2>1. Only(t, S) \in Seq(E)
    BY <1>2
  <2>2. Append(Only(t, S), e) \in Seq(E) /\ Append(t, e) \in Seq(E)
    BY <2>1, AppendProperties
  <2>3. Only(Append(t, e), S) \in {Append(Only(t, S), e), Only(t, S)}
    BY OnlyAppends
  <2> QED
    BY <2>1, <2>2, <2>3
<1> HIDE DEF G
<1>3. \A t \in Seq(E) : t \in G
  BY <1>1, <1>2, OverLists
<1> QED
  BY <1>3 DEF G

\* What a filter makes of a list when it keeps nothing, and when it keeps one.
KeepsNone(t, S) == Only(t, S) = <<>> => \A i \in 1 .. Len(t) : t[i] \notin S
KeepsOne(t, S) ==
  Len(Only(t, S)) = 1 =>
    \E i \in 1 .. Len(t) :
      /\ t[i] \in S /\ Only(t, S)[1] = t[i]
      /\ \A j \in 1 .. Len(t) : j # i => t[j] \notin S

LEMMA OnlyOne ==
  ASSUME NEW E, NEW s \in Seq(E), NEW S
  PROVE  KeepsNone(s, S) /\ KeepsOne(s, S)
<1> DEFINE G == {t \in Seq(E) : KeepsNone(t, S) /\ KeepsOne(t, S)}
<1>1. <<>> \in G
  <2>1. Only(<<>>, S) = <<>> /\ Len(<<>>) = 0 /\ <<>> \in Seq(E)
    BY OnlyOfNothing, EmptySeq
  <2>2. Len(Only(<<>>, S)) # 1
    BY <2>1
  <2> QED
    BY <2>1, <2>2 DEF KeepsNone, KeepsOne
<1>2. ASSUME NEW t \in Seq(E), NEW e \in E, t \in G
      PROVE  Append(t, e) \in G
  <2>1. PICK u, q, r : u = Append(t, e) /\ q = Only(t, S) /\ r = Only(u, S)
    OBVIOUS
  <2>2. q \in Seq(E)
    BY <2>1, OnlyIsList
  <2>3. PICK n \in Nat : n = Len(t)
    BY LenProperties
  <2>4. /\ u \in Seq(E) /\ Len(u) = n + 1 /\ u[n + 1] = e
        /\ \A i \in 1 .. n : u[i] = t[i]
    BY <2>1, <2>3, AppendProperties
  <2>5. \A i : i \in 1 .. n + 1 <=> i \in 1 .. n \/ i = n + 1
    BY <2>3
  <2>6. r = IF e \in S THEN Append(q, e) ELSE q
    BY <2>1, OnlyAppends
  <2>7. KeepsNone(t, S) /\ KeepsOne(t, S)
    BY <1>2
  <2>8. CASE e \notin S
    <3>1. r = q
      BY <2>6, <2>8
    <3>2. KeepsNone(u, S)
      BY <2>1, <2>3, <2>4, <2>5, <2>7, <2>8, <3>1 DEF KeepsNone
    <3>3. KeepsOne(u, S)
      <4> SUFFICES ASSUME Len(r) = 1
                   PROVE  \E i \in 1 .. n + 1 :
                            /\ u[i] \in S /\ r[1] = u[i]
                            /\ \A j \in 1 .. n + 1 : j # i => u[j] \notin S
        BY <2>1, <2>4 DEF KeepsOne
      <4>1. PICK i \in 1 .. n :
              /\ t[i] \in S /\ q[1] = t[i]
              /\ \A j \in 1 .. n : j # i => t[j] \notin S
        BY <2>1, <2>3, <2>7, <3>1 DEF KeepsOne
      <4>2. i \in 1 .. n + 1 /\ u[i] \in S /\ r[1] = u[i]
        BY <2>4, <2>5, <3>1, <4>1
      <4>3. \A j \in 1 .. n + 1 : j # i => u[j] \notin S
        BY <2>4, <2>5, <2>8, <4>1
      <4> QED
        BY <4>2, <4>3
    <3> QED
      BY <2>1, <2>4, <3>2, <3>3
  <2>9. CASE e \in S
    <3>1. r = Append(q, e)
      BY <2>6, <2>9
    <3>2. PICK m \in Nat : m = Len(q)
      BY <2>2, LenProperties
    <3>3. /\ r \in Seq(E) /\ Len(r) = m + 1 /\ r[m + 1] = e
      BY <2>2, <3>1, <3>2, AppendProperties
    <3>4. KeepsNone(u, S)
      <4>1. r # <<>>
        BY <3>2, <3>3, EmptySeq
      <4> QED
        BY <2>1, <4>1 DEF KeepsNone
    <3>5. KeepsOne(u, S)
      <4> SUFFICES ASSUME Len(r) = 1
                   PROVE  \E i \in 1 .. n + 1 :
                            /\ u[i] \in S /\ r[1] = u[i]
                            /\ \A j \in 1 .. n + 1 : j # i => u[j] \notin S
        BY <2>1, <2>4 DEF KeepsOne
      <4>1. m = 0
        BY <3>2, <3>3
      <4>2. q = <<>> /\ r[1] = e
        BY <2>2, <3>2, <3>3, <4>1, EmptySeq
      <4>3. \A i \in 1 .. n : t[i] \notin S
        BY <2>1, <2>3, <2>7, <4>2 DEF KeepsNone
      <4>4. n + 1 \in 1 .. n + 1 /\ u[n + 1] \in S /\ r[1] = u[n + 1]
        BY <2>3, <2>4, <2>9, <4>2
      <4>5. \A j \in 1 .. n + 1 : j # n + 1 => u[j] \notin S
        BY <2>4, <2>5, <4>3
      <4> QED
        BY <4>4, <4>5
    <3> QED
      BY <2>1, <2>4, <3>4, <3>5
  <2> QED
    BY <2>8, <2>9
<1> HIDE DEF G
<1>3. \A t \in Seq(E) : t \in G
  BY <1>1, <1>2, OverLists
<1> QED
  BY <1>3 DEF G

\* A filter of two lists that are put one after the other.
LEMMA OnlyJoins ==
  ASSUME NEW E, NEW s \in Seq(E), NEW S
  PROVE  \A t \in Seq(E) : Only(s \o t, S) = Only(s, S) \o Only(t, S)
<1>0. ASSUME NEW t \in Seq(E)
      PROVE  Only(t, S) \in Seq(E)
  BY OnlyIsList
<1> DEFINE G == {t \in Seq(E) : Only(s \o t, S) = Only(s, S) \o Only(t, S)}
<1>1. <<>> \in G
  <2>1. Only(<<>>, S) = <<>> /\ <<>> \in Seq(E)
    BY OnlyOfNothing
  <2>2. s \o <<>> = s /\ Only(s, S) \o <<>> = Only(s, S)
    BY <1>0, ConcatEmptySeq
  <2> QED
    BY <2>1, <2>2
<1>2. ASSUME NEW t \in Seq(E), NEW e \in E, t \in G
      PROVE  Append(t, e) \in G
  <2>1. PICK u : u = s \o t /\ u \in Seq(E) /\ s \o Append(t, e) = Append(u, e)
    <3>1. s \o t \in Seq(E) /\ s \o Append(t, e) = Append(s \o t, e)
      BY JoinAppends, ConcatProperties
    <3> QED
      BY <3>1
  <2>2. PICK a, b : /\ a = Only(s, S) /\ b = Only(t, S)
                    /\ a \in Seq(E) /\ b \in Seq(E) /\ Only(u, S) = a \o b
    BY <1>0, <1>2, <2>1
  <2>3. /\ Only(Append(u, e), S) = IF e \in S THEN Append(Only(u, S), e) ELSE Only(u, S)
        /\ Only(Append(t, e), S) = IF e \in S THEN Append(b, e) ELSE b
    <3>1. Only(Append(u, e), S) =
            IF e \in S THEN Append(Only(u, S), e) ELSE Only(u, S)
      <4>1. u \in Seq(E)
        BY <2>1
      <4> QED
        BY <4>1, OnlyAppends
    <3>2. Only(Append(t, e), S) =
            IF e \in S THEN Append(Only(t, S), e) ELSE Only(t, S)
      BY OnlyAppends
    <3> QED
      BY <2>2, <3>1, <3>2
  <2>4. a \o Append(b, e) = Append(a \o b, e)
    BY <2>2, JoinAppends
  <2>5. Only(Append(u, e), S) = a \o Only(Append(t, e), S)
    BY <2>2, <2>3, <2>4
  <2>6. Append(t, e) \in Seq(E)
    BY AppendProperties
  <2> QED
    BY <2>1, <2>2, <2>5, <2>6
<1> HIDE DEF G
<1>3. \A t \in Seq(E) : t \in G
  BY <1>1, <1>2, OverLists
<1> QED
  BY <1>3 DEF G

\* A list of two.
LEMMA OneAndOne ==
  ASSUME NEW a, NEW b
  PROVE  Append(<<a>>, b) = <<a, b>>
<1>1. PICK E : E = {a, b}
  OBVIOUS
<1>0. a \in E /\ b \in E
  BY <1>1
<1>2. PICK s : s = <<a>> /\ s \in Seq(E) /\ Len(s) = 1 /\ s[1] = a
  <2>1. <<a>> \in Seq(E)
    BY <1>0
  <2>2. Len(<<a>>) = 1 /\ <<a>>[1] = a
    OBVIOUS
  <2> QED
    BY <2>1, <2>2
<1>3. PICK t : t = <<a, b>> /\ t \in Seq(E) /\ Len(t) = 2 /\ t[1] = a /\ t[2] = b
  <2>1. <<a, b>> \in Seq(E)
    BY <1>0
  <2>2. Len(<<a, b>>) = 2 /\ <<a, b>>[1] = a /\ <<a, b>>[2] = b
    OBVIOUS
  <2> QED
    BY <2>1, <2>2
<1>4. PICK u : u = Append(s, b)
  OBVIOUS
<1>5. b \in E
  BY <1>1
<1>6. u \in Seq(E) /\ Len(u) = 1 + 1 /\ u[1 + 1] = b /\ \A i \in 1 .. 1 : u[i] = s[i]
  BY <1>2, <1>4, <1>5, AppendProperties
<1>7. \A i \in 1 .. 2 : u[i] = t[i]
  BY <1>2, <1>3, <1>6
<1>8. u \in Seq(E) /\ t \in Seq(E) /\ Len(u) = Len(t) /\ \A i \in 1 .. Len(u) : u[i] = t[i]
  BY <1>3, <1>6, <1>7
<1>9. u = t
  BY <1>8, SeqEqual
<1> QED
  BY <1>2, <1>3, <1>4, <1>9

\* A list begins with what it was made of.
LEMMA PrefixOfJoined ==
  ASSUME NEW E, NEW s \in Seq(E), NEW t \in Seq(E)
  PROVE  IsPrefix(s, s \o t)
<1>1. Len(s) \in Nat /\ Len(t) \in Nat /\ Len(s \o t) = Len(s) + Len(t)
  BY LenProperties, ConcatProperties
<1>2. SubSeq(s \o t, 1, Len(s)) = s /\ SubSeq(s, 1, Len(s)) = s
  BY FirstOfJoined, SubSeqFull
<1> QED
  BY <1>1, <1>2 DEF IsPrefix

\* A run of the steps h over the first n elements of s, from b.
RunsOver(p, h, b, s, n) ==
  p[0] = b /\ \A k \in 1 .. n : p[k] = h[<<p[k - 1], s[k]>>]

\* Two such runs over lists that begin alike come to the same.
LEMMA SameRuns ==
  ASSUME NEW n \in Nat, NEW p, NEW q, NEW h, NEW b, NEW s, NEW u,
         RunsOver(p, h, b, s, n), RunsOver(q, h, b, u, n),
         \A k \in 1 .. n : u[k] = s[k]
  PROVE  p[n] = q[n]
<1> DEFINE G == {k \in 0 .. n : p[k] = q[k]}
<1>1. 0 \in G
  BY DEF RunsOver
<1>2. ASSUME NEW k \in 1 .. n, k - 1 \in G
      PROVE  k \in G
  <2>1. p[k - 1] = q[k - 1] /\ u[k] = s[k]
    BY <1>2
  <2>2. p[k] = h[<<p[k - 1], s[k]>>] /\ q[k] = h[<<q[k - 1], u[k]>>]
    BY DEF RunsOver
  <2> QED
    BY <2>1, <2>2
<1> HIDE DEF G
<1>3. \A k \in 0 .. n : k \in G
  BY <1>1, <1>2, UpTo
<1>4. n \in G
  BY <1>3
<1> QED
  BY <1>4 DEF G

FoldRuns(g, h, b, s, E, R) ==
  /\ IsSeqFold(g, h, b, s)
  /\ \A t \in SUBSET (DOMAIN s) :
       /\ g[t] \in R
       /\ t # {} => g[t \ {Max(t)}] \in R /\ s[Max(t)] \in E

LEMMA FoldRunsExist ==
  ASSUME NEW E, NEW s \in Seq(E), NEW R, NEW b \in R, NEW h, Keeps(h, E, R)
  PROVE  \E g : FoldRuns(g, h, b, s, E, R)
<1>1. PICK g : /\ IsSeqFold(g, h, b, s)
               /\ \A t \in SUBSET (DOMAIN s) :
                    /\ g[t] \in R
                    /\ t # {} => g[t \ {Max(t)}] \in R /\ s[Max(t)] \in E
  BY SeqFoldExists
<1> QED
  BY <1>1 DEF FoldRuns
=============================================================================
