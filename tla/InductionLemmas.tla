---------------------------- MODULE InductionLemmas ---------------------------
(***************************************************************************)
(* Induction over numbers and over the subsets of a finite set, stated     *)
(* with a set of the cases that hold in place of a predicate, and what     *)
(* follows for the sums over finite sets that the models take              *)
(* (SumFunctionOnSet of the community module Functions).                   *)
(***************************************************************************)
EXTENDS Integers, SequencesExt, FiniteSetTheorems, WellFoundedInduction, TLAPS

\* A set of natural numbers has a least one.
LEMMA LeastNumber ==
  ASSUME NEW T, T \subseteq Nat, T # {}
  PROVE  \E x \in T : \A y \in T : x <= y
<1> DEFINE R == OpToRel(<, Nat)
<1>1. IsWellFoundedOn(R, Nat)
  BY NatLessThanWellFounded
<1>2. \A x, y \in Nat : y < x => <<y, x>> \in R
  BY DEF OpToRel
<1> HIDE DEF R
<1>3. PICK x \in T : \A y \in T : ~ (<<y, x>> \in R)
  BY <1>1, WFMin
<1>4. ASSUME NEW y \in T PROVE x <= y
  <2>1. x \in Nat /\ y \in Nat
    OBVIOUS
  <2>2. ~ (y < x)
    BY <1>2, <1>3, <2>1
  <2>3. QED
    BY <2>1, <2>2
<1>5. QED
  BY <1>4

\* A set of numbers that has 0 and with every number the next has all of them.
LEMMA NumbersInduct ==
  ASSUME NEW S, 0 \in S, \A n \in Nat : n \in S => n + 1 \in S
  PROVE  Nat \subseteq S
<1> DEFINE T == {n \in Nat : n \notin S}
<1>1. SUFFICES ASSUME T # {} PROVE FALSE
  OBVIOUS
<1>2. PICK x \in T : \A y \in T : x <= y
  BY <1>1, LeastNumber
<1>3. x # 0 /\ x - 1 \in Nat /\ x - 1 < x
  OBVIOUS
<1>4. x - 1 \in S
  BY <1>2, <1>3
<1>5. QED
  BY <1>3, <1>4

\* A bounded set of natural numbers has a greatest one.
LEMMA GreatestNumber ==
  ASSUME NEW n \in Nat, NEW S, S \subseteq 0..n, S # {}
  PROVE  \E x \in S : \A y \in S : x >= y
<1> DEFINE T == {i \in 0..n : n - i \in S}
<1>1. PICK x \in T : \A i \in T : x <= i
  <2>1. PICK y \in S : TRUE
    OBVIOUS
  <2>2. n - y \in T
    <3>1. y \in 0..n /\ n - (n - y) = y
      BY <2>1
    <3> QED BY <3>1
  <2>3. T \subseteq Nat
    OBVIOUS
  <2> HIDE DEF T
  <2> QED BY <2>2, <2>3, LeastNumber
<1>2. ASSUME NEW y \in S PROVE n - x >= y
  <2>1. y \in 0..n /\ n - (n - y) = y
    OBVIOUS
  <2>2. n - y \in T
    BY <2>1
  <2> QED BY <1>1, <2>1, <2>2
<1> QED BY <1>1, <1>2

\* A family that has a subset of S as soon as it has that subset without any one
\* of its elements has every subset of S.
LEMMA SubsetsInduct ==
  ASSUME NEW S, IsFiniteSet(S), NEW F,
         \A T \in SUBSET S : (\A x \in T : T \ {x} \in F) => T \in F
  PROVE  SUBSET S \subseteq F
<1> DEFINE N == {n \in Nat : \A T \in SUBSET S : Cardinality(T) = n => T \in F}
<1>1. \A T \in SUBSET S : IsFiniteSet(T) /\ Cardinality(T) \in Nat
  BY FS_Subset, FS_CardinalityType
<1>2. 0 \in N
  BY <1>1, FS_EmptySet
<1>3. ASSUME NEW n \in Nat, n \in N PROVE n + 1 \in N
  <2> SUFFICES ASSUME NEW T \in SUBSET S, Cardinality(T) = n + 1 PROVE T \in F
    OBVIOUS
  <2>1. ASSUME NEW x \in T PROVE T \ {x} \in F
    <3>1. Cardinality(T \ {x}) = n
      BY <1>1, FS_RemoveElement
    <3>2. QED
      BY <1>3, <3>1
  <2>2. QED
    BY <2>1
<1>4. Nat \subseteq N
  BY <1>2, <1>3, NumbersInduct
<1>5. QED
  BY <1>1, <1>4

(* The recursion behind SumFunctionOnSet, made visible: the element it takes   *)
(* first, one row of the table of partial sums, and the table.                 *)
Picked(s) == CHOOSE x \in s : TRUE
SumRow(g, W, s) == IF s = {} THEN 0 ELSE W[Picked(s)] + g[s \ {Picked(s)}]
Summed(g, W, S) == g = [s \in SUBSET S |-> SumRow(g, W, s)]

\* A sum is looked up in the table of partial sums.
LEMMA SumUnfold ==
  ASSUME NEW W, NEW S
  PROVE  SumFunctionOnSet(W, S) = (CHOOSE g : Summed(g, W, S))[S]
BY DEF SumFunctionOnSet, FoldFunctionOnSet, MapThenFoldSet, Summed, SumRow, Picked

\* The element taken first is one of the set.
LEMMA PickedIn == ASSUME NEW s, s # {} PROVE Picked(s) \in s
BY DEF Picked

\* Two tables agree on a set whose elements weigh the same in both.
LEMMA SummedAlike ==
  ASSUME NEW S, IsFiniteSet(S), NEW A, NEW B, S \subseteq A, S \subseteq B,
         NEW W, NEW V, \A x \in S : W[x] = V[x],
         NEW g, NEW h, Summed(g, W, A), Summed(h, V, B)
  PROVE  g[S] = h[S]
<1> DEFINE F == {T \in SUBSET S : g[T] = h[T]}
<1>1. ASSUME NEW T \in SUBSET S, \A x \in T : T \ {x} \in F PROVE T \in F
  <2>1. g[T] = SumRow(g, W, T) /\ h[T] = SumRow(h, V, T)
    BY DEF Summed
  <2>2. CASE T = {}
    BY <2>1, <2>2 DEF SumRow
  <2>3. CASE T # {}
    <3>1. Picked(T) \in T
      BY <2>3, PickedIn
    <3>2. T \ {Picked(T)} \in F /\ W[Picked(T)] = V[Picked(T)]
      BY <1>1, <3>1
    <3>3. QED
      BY <2>1, <3>2, <2>3 DEF SumRow
  <2>4. QED
    BY <2>2, <2>3
<1>2. SUBSET S \subseteq F
  <2> HIDE DEF F
  <2> QED BY <1>1, SubsetsInduct
<1>3. QED
  BY <1>2

\* Every finite set has a table.
LEMMA SummedExists ==
  ASSUME NEW S, IsFiniteSet(S), NEW W
  PROVE  \E g : Summed(g, W, S)
<1> DEFINE F == {T \in SUBSET S : \E g : Summed(g, W, T)}
<1>1. ASSUME NEW T \in SUBSET S, \A x \in T : T \ {x} \in F PROVE T \in F
  <2> DEFINE G(U) == CHOOSE g : Summed(g, W, U)
             g == [s \in SUBSET T |->
                     IF s = T THEN SumRow(G(T \ {Picked(T)}), W, T)
                     ELSE G(T \ {Picked(T \ s)})[s]]
  <2>1. ASSUME NEW x \in T PROVE Summed(G(T \ {x}), W, T \ {x})
    BY <1>1, <2>1
  <2>2. ASSUME NEW s \in SUBSET T PROVE g[s] = SumRow(g, W, s)
    <3>1. ASSUME NEW u \in SUBSET T, u # T, NEW x \in T, x \notin u
          PROVE  g[u] = G(T \ {x})[u]
      <4> DEFINE y == Picked(T \ u)
      <4>1. y \in T /\ y \notin u
        BY <3>1, PickedIn
      <4>2. IsFiniteSet(u)
        BY FS_Subset
      <4>3. Summed(G(T \ {x}), W, T \ {x}) /\ Summed(G(T \ {y}), W, T \ {y})
        BY <2>1, <4>1
      <4>4. u \subseteq T \ {x} /\ u \subseteq T \ {y}
        BY <3>1, <4>1
      <4>5. G(T \ {x})[u] = G(T \ {y})[u]
        <5> HIDE DEF G, y
        <5> QED BY <4>2, <4>3, <4>4, SummedAlike
      <4>6. g[u] = G(T \ {y})[u]
        BY <3>1
      <4>7. QED
        BY <4>5, <4>6
    <3>2. CASE s = {}
      <4>1. CASE T = {}
        BY <3>2, <4>1 DEF SumRow
      <4>2. CASE T # {}
        <5>1. PICK x : x \in T
          BY <4>2
        <5>2. g[s] = G(T \ {x})[s]
          <6> HIDE DEF G, g
          <6> QED BY <3>1, <3>2, <4>2, <5>1
        <5>3. G(T \ {x})[s] = SumRow(G(T \ {x}), W, s)
          <6> HIDE DEF G
          <6> QED BY <2>1, <3>2, <5>1 DEF Summed
        <5>4. QED
          BY <3>2, <5>2, <5>3 DEF SumRow
      <4>3. QED
        BY <4>1, <4>2
    <3>3. CASE s # {}
      <4> DEFINE p == Picked(s)
      <4>1. p \in s /\ s \ {p} # T
        BY <3>3, PickedIn
      <4>2. \A x \in T : x \notin s \ {p} => g[s \ {p}] = G(T \ {x})[s \ {p}]
        <5> HIDE DEF G, g, p
        <5> QED BY <3>1, <4>1
      <4>3. CASE s = T
        <5>1. g[s] = SumRow(G(T \ {p}), W, s)
          BY <4>3
        <5>2. G(T \ {p})[s \ {p}] = g[s \ {p}]
          BY <4>1, <4>2
        <5>3. QED
          <6> HIDE DEF G, g
          <6> QED BY <5>1, <5>2, <3>3 DEF SumRow
      <4>4. CASE s # T
        <5>1. PICK x \in T : x \notin s
          BY <4>4
        <5>2. g[s] = G(T \ {x})[s] /\ g[s \ {p}] = G(T \ {x})[s \ {p}]
          <6> HIDE DEF G, g
          <6> QED BY <3>1, <4>2, <4>4, <5>1
        <5>3. G(T \ {x})[s] = SumRow(G(T \ {x}), W, s)
          <6> HIDE DEF G, g
          <6>1. Summed(G(T \ {x}), W, T \ {x}) /\ s \in SUBSET (T \ {x})
            BY <2>1, <5>1
          <6> QED BY <6>1 DEF Summed
        <5>4. QED
          <6> HIDE DEF G, g
          <6> QED BY <5>2, <5>3, <3>3 DEF SumRow
      <4>5. QED
        BY <4>3, <4>4
    <3>4. QED
      BY <3>2, <3>3
  <2>3. g = [s \in SUBSET T |-> SumRow(g, W, s)]
    <3> HIDE DEF G
    <3>1. g = [s \in SUBSET T |-> g[s]]
      OBVIOUS
    <3> HIDE DEF g
    <3> QED BY <2>2, <3>1
  <2>4. QED
    BY <2>3 DEF Summed
<1>2. SUBSET S \subseteq F
  <2> HIDE DEF F
  <2> QED BY <1>1, SubsetsInduct
<1>3. QED
  BY <1>2

(* The sum of nothing. *)
LEMMA SumEmpty == ASSUME NEW W PROVE SumFunctionOnSet(W, {}) = 0
<1> DEFINE g == CHOOSE g : Summed(g, W, {})
<1>1. IsFiniteSet({})
  BY FS_EmptySet
<1>2. Summed(g, W, {})
  BY <1>1, SummedExists
<1>3. g[{}] = 0
  <2> HIDE DEF g
  <2> QED BY <1>2 DEF Summed, SumRow
<1>4. QED
  BY <1>3, SumUnfold

(* The sum is what is left without the element picked first, and that element. *)
LEMMA SumPicked ==
  ASSUME NEW S, IsFiniteSet(S), S # {}, NEW W
  PROVE  SumFunctionOnSet(W, S) = W[Picked(S)] + SumFunctionOnSet(W, S \ {Picked(S)})
<1> DEFINE p == Picked(S)
           g == CHOOSE g : Summed(g, W, S)
           h == CHOOSE h : Summed(h, W, S \ {p})
<1>1. IsFiniteSet(S \ {p})
  BY FS_RemoveElement
<1>2. Summed(g, W, S)
  BY SummedExists
<1>3. Summed(h, W, S \ {p})
  <2> HIDE DEF p
  <2> QED BY <1>1, SummedExists
<1>4. g[S \ {p}] = h[S \ {p}]
  <2> HIDE DEF g, h, p
  <2> QED BY <1>1, <1>2, <1>3, SummedAlike
<1>5. g[S] = W[p] + g[S \ {p}]
  <2> HIDE DEF g, h
  <2> QED BY <1>2 DEF Summed, SumRow
<1>6. SumFunctionOnSet(W, S) = g[S] /\ SumFunctionOnSet(W, S \ {p}) = h[S \ {p}]
  BY SumUnfold
<1>7. QED
  BY <1>4, <1>5, <1>6

(* Sums of equal weights are equal. *)
LEMMA SumSame ==
  ASSUME NEW S, IsFiniteSet(S), NEW W, NEW V, \A x \in S : W[x] = V[x]
  PROVE  SumFunctionOnSet(W, S) = SumFunctionOnSet(V, S)
<1> DEFINE g == CHOOSE g : Summed(g, W, S)
           h == CHOOSE h : Summed(h, V, S)
<1>1. Summed(g, W, S) /\ Summed(h, V, S)
  BY SummedExists
<1>2. g[S] = h[S]
  <2> HIDE DEF g, h
  <2> QED BY <1>1, SummedAlike
<1>3. QED
  BY <1>2, SumUnfold

(* A sum of integers is one. *)
LEMMA SumType ==
  ASSUME NEW S, IsFiniteSet(S), NEW W, \A x \in S : W[x] \in Int
  PROVE  \A T \in SUBSET S : SumFunctionOnSet(W, T) \in Int
<1> DEFINE F == {T \in SUBSET S : SumFunctionOnSet(W, T) \in Int}
<1>1. ASSUME NEW T \in SUBSET S, \A x \in T : T \ {x} \in F PROVE T \in F
  <2>1. CASE T = {}
    BY <2>1, SumEmpty
  <2>2. CASE T # {}
    <3>1. IsFiniteSet(T) /\ Picked(T) \in T
      BY <2>2, PickedIn, FS_Subset
    <3>2. SumFunctionOnSet(W, T \ {Picked(T)}) \in Int
      BY <1>1, <3>1
    <3>3. QED
      BY <3>1, <3>2, <2>2, SumPicked
  <2>3. QED
    BY <2>1, <2>2
<1>2. SUBSET S \subseteq F
  <2> HIDE DEF F
  <2> QED BY <1>1, SubsetsInduct
<1>3. QED
  BY <1>2

(* Any element may be taken out first: the order of a sum does not matter. *)
LEMMA SumWithout ==
  ASSUME NEW S, IsFiniteSet(S), NEW W, \A x \in S : W[x] \in Int, NEW x \in S
  PROVE  SumFunctionOnSet(W, S) = W[x] + SumFunctionOnSet(W, S \ {x})
<1> DEFINE Sum(T) == SumFunctionOnSet(W, T)
           F == {T \in SUBSET S : \A y \in T : Sum(T) = W[y] + Sum(T \ {y})}
<1>1. ASSUME NEW T \in SUBSET S, \A y \in T : T \ {y} \in F PROVE T \in F
  <2> SUFFICES ASSUME NEW y \in T PROVE Sum(T) = W[y] + Sum(T \ {y})
    OBVIOUS
  <2> DEFINE p == Picked(T)
  <2>1. IsFiniteSet(T) /\ p \in T /\ Sum(T) = W[p] + Sum(T \ {p})
    BY PickedIn, FS_Subset, SumPicked
  <2> HIDE DEF p, Sum
  <2>2. CASE p = y
    BY <2>1, <2>2
  <2>3. CASE p # y
    <3>1. Sum(T \ {p}) = W[y] + Sum((T \ {p}) \ {y})
      BY <1>1, <2>1, <2>3
    <3>2. Sum(T \ {y}) = W[p] + Sum((T \ {y}) \ {p})
      BY <1>1, <2>1, <2>3
    <3>3. Sum((T \ {p}) \ {y}) = Sum((T \ {y}) \ {p})
      <4>1. (T \ {p}) \ {y} = (T \ {y}) \ {p}
        OBVIOUS
      <4>2. QED
        BY <4>1
    <3>4. PICK rest \in Int : rest = Sum((T \ {y}) \ {p})
      BY SumType DEF Sum
    <3>5. W[p] \in Int /\ W[y] \in Int
      BY <2>1
    <3>6. Sum(T) = W[p] + (W[y] + rest) /\ Sum(T \ {y}) = W[p] + rest
      BY <2>1, <3>1, <3>2, <3>3, <3>4
    <3>7. QED
      BY <3>4, <3>5, <3>6
  <2>4. QED
    BY <2>2, <2>3
<1>2. SUBSET S \subseteq F
  <2> HIDE DEF F
  <2> QED BY <1>1, SubsetsInduct
<1>3. QED
  BY <1>2

(* One more element adds its weight; the weights elsewhere may be given anew. *)
LEMMA SumAdd ==
  ASSUME NEW S, IsFiniteSet(S), NEW x, x \notin S,
         NEW W, NEW V, V[x] \in Int, \A y \in S : V[y] = W[y] /\ W[y] \in Int
  PROVE  /\ SumFunctionOnSet(V, S \cup {x}) = SumFunctionOnSet(W, S) + V[x]
         /\ SumFunctionOnSet(W, S) \in Int
<1>1. IsFiniteSet(S \cup {x}) /\ (S \cup {x}) \ {x} = S
  BY FS_AddElement
<1>2. \A y \in S \cup {x} : V[y] \in Int
  OBVIOUS
<1>3. SumFunctionOnSet(V, S \cup {x}) = V[x] + SumFunctionOnSet(V, (S \cup {x}) \ {x})
  BY <1>1, <1>2, SumWithout
<1>4. SumFunctionOnSet(V, S) = SumFunctionOnSet(W, S)
  BY SumSame
<1>5. SumFunctionOnSet(W, S) \in Int
  BY SumType
<1>6. SumFunctionOnSet(V, (S \cup {x}) \ {x}) = SumFunctionOnSet(V, S)
  BY <1>1
<1>7. QED
  BY <1>3, <1>4, <1>5, <1>6

(* A sum is monotone in its weights. *)
LEMMA SumAtMost ==
  ASSUME NEW S, IsFiniteSet(S), NEW W, NEW V,
         \A x \in S : W[x] \in Int /\ V[x] \in Int /\ W[x] <= V[x]
  PROVE  SumFunctionOnSet(W, S) <= SumFunctionOnSet(V, S)
<1> DEFINE Sum(U, T) == SumFunctionOnSet(U, T)
           F == {T \in SUBSET S : Sum(W, T) <= Sum(V, T)}
<1>1. ASSUME NEW T \in SUBSET S, \A x \in T : T \ {x} \in F PROVE T \in F
  <2>0. Sum(W, {}) = 0 /\ Sum(V, {}) = 0
    BY SumEmpty
  <2>1. CASE T = {}
    BY <2>0, <2>1
  <2>2. CASE T # {}
    <3> DEFINE p == Picked(T)
    <3>1. IsFiniteSet(T) /\ p \in T
      BY <2>2, PickedIn, FS_Subset
    <3>2. Sum(W, T) = W[p] + Sum(W, T \ {p}) /\ Sum(V, T) = V[p] + Sum(V, T \ {p})
      BY <2>2, <3>1, SumPicked
    <3>3. Sum(W, T \ {p}) \in Int /\ Sum(V, T \ {p}) \in Int
      BY <3>1, SumType
    <3> HIDE DEF p, Sum
    <3>4. QED
      BY <1>1, <3>1, <3>2, <3>3
  <2>3. QED
    BY <2>1, <2>2
<1>2. SUBSET S \subseteq F
  <2> HIDE DEF F
  <2> QED BY <1>1, SubsetsInduct
<1>3. QED
  BY <1>2

(* Weights of nothing sum up to nothing. *)
LEMMA SumZero ==
  ASSUME NEW S, IsFiniteSet(S), NEW W, \A x \in S : W[x] = 0
  PROVE  SumFunctionOnSet(W, S) = 0
<1> DEFINE F == {T \in SUBSET S : SumFunctionOnSet(W, T) = 0}
<1>1. ASSUME NEW T \in SUBSET S, \A x \in T : T \ {x} \in F PROVE T \in F
  <2>1. CASE T = {}
    BY <2>1, SumEmpty
  <2>2. CASE T # {}
    <3>1. SumFunctionOnSet(W, T) = W[Picked(T)] + SumFunctionOnSet(W, T \ {Picked(T)})
      BY <2>2, SumPicked, FS_Subset
    <3>2. Picked(T) \in T
      BY <2>2, PickedIn
    <3> QED BY <1>1, <3>1, <3>2
  <2> QED BY <2>1, <2>2
<1>2. SUBSET S \subseteq F
  <2> HIDE DEF F
  <2> QED BY <1>1, SubsetsInduct
<1> QED BY <1>2

(* A sum of natural numbers is one. *)
LEMMA SumNat ==
  ASSUME NEW S, IsFiniteSet(S), NEW W, DOMAIN W = S, \A x \in S : W[x] \in Nat
  PROVE  SumFunction(W) \in Nat
<1> DEFINE Z == [x \in S |-> 0]
<1>1. SumFunctionOnSet(Z, S) = 0
  <2>1. \A x \in S : Z[x] = 0
    OBVIOUS
  <2> HIDE DEF Z
  <2> QED BY <2>1, SumZero
<1>2. SumFunctionOnSet(Z, S) <= SumFunctionOnSet(W, S)
  <2>1. \A x \in S : Z[x] \in Int /\ W[x] \in Int /\ Z[x] <= W[x]
    OBVIOUS
  <2> HIDE DEF Z
  <2> QED BY <2>1, SumAtMost
<1>3. SumFunctionOnSet(W, S) \in Int
  BY SumType
<1> QED BY <1>1, <1>2, <1>3 DEF SumFunction

(* A function has finitely many values on a finite set. *)
LEMMA ImageFinite ==
  ASSUME NEW S, IsFiniteSet(S), NEW f, DOMAIN f = S
  PROVE  IsFiniteSet({f[x] : x \in S})
<1> DEFINE T == {f[x] : x \in S}
           g == [x \in S |-> f[x]]
<1>1. g \in Surjection(S, T)
  BY DEF Surjection
<1> HIDE DEF g, T
<1>2. IsFiniteSet(T)
  BY <1>1, FS_Surjection
<1> QED BY <1>2 DEF T

(* The sum of natural numbers on a set is one. *)
LEMMA SumNatOn ==
  ASSUME NEW S, IsFiniteSet(S), NEW W, \A x \in S : W[x] \in Nat
  PROVE  \A T \in SUBSET S : SumFunctionOnSet(W, T) \in Nat
<1> SUFFICES ASSUME NEW T \in SUBSET S PROVE SumFunctionOnSet(W, T) \in Nat
  OBVIOUS
<1> DEFINE V == [x \in T |-> W[x]]
<1>1. IsFiniteSet(T) /\ DOMAIN V = T /\ \A x \in T : V[x] \in Nat /\ V[x] = W[x]
  BY FS_Subset
<1> HIDE DEF V
<1>2. SumFunctionOnSet(V, T) = SumFunctionOnSet(W, T)
  BY <1>1, SumSame
<1>3. SumFunction(V) \in Nat
  BY <1>1, SumNat
<1> QED BY <1>1, <1>2, <1>3 DEF SumFunction

(* Sums add up element by element. *)
LEMMA SumPlus ==
  ASSUME NEW S, IsFiniteSet(S), NEW U, NEW V, NEW W,
         \A x \in S : U[x] \in Int /\ V[x] \in Int /\ W[x] = U[x] + V[x]
  PROVE  SumFunctionOnSet(W, S) = SumFunctionOnSet(U, S) + SumFunctionOnSet(V, S)
<1> DEFINE Sum(f, T) == SumFunctionOnSet(f, T)
           F == {T \in SUBSET S : Sum(W, T) = Sum(U, T) + Sum(V, T)}
<1>1. ASSUME NEW T \in SUBSET S, \A x \in T : T \ {x} \in F PROVE T \in F
  <2>0. Sum(U, {}) = 0 /\ Sum(V, {}) = 0 /\ Sum(W, {}) = 0
    BY SumEmpty
  <2>1. CASE T = {}
    BY <2>0, <2>1
  <2>2. CASE T # {}
    <3> DEFINE p == Picked(T)
    <3>1. IsFiniteSet(T) /\ p \in T
      BY <2>2, PickedIn, FS_Subset
    <3>2. /\ Sum(U, T) = U[p] + Sum(U, T \ {p}) /\ Sum(V, T) = V[p] + Sum(V, T \ {p})
          /\ Sum(W, T) = W[p] + Sum(W, T \ {p})
      BY <2>2, <3>1, SumPicked
    <3>3. Sum(U, T \ {p}) \in Int /\ Sum(V, T \ {p}) \in Int
      BY <3>1, SumType
    <3>4. Sum(W, T \ {p}) = Sum(U, T \ {p}) + Sum(V, T \ {p})
      BY <1>1, <3>1
    <3>5. U[p] \in Int /\ V[p] \in Int /\ W[p] = U[p] + V[p]
      BY <3>1
    <3> HIDE DEF p, Sum
    <3>6. Sum(W, T) = Sum(U, T) + Sum(V, T)
      BY <3>2, <3>3, <3>4, <3>5
    <3> QED BY <3>6
  <2> QED BY <2>1, <2>2
<1>2. SUBSET S \subseteq F
  <2> HIDE DEF F
  <2> QED BY <1>1, SubsetsInduct
<1> QED BY <1>2

(* Changing the weight of one element changes the sum by as much. *)
LEMMA SumMoved ==
  ASSUME NEW S, IsFiniteSet(S), NEW W, NEW V, NEW x \in S,
         \A y \in S : W[y] \in Int /\ V[y] \in Int, \A y \in S \ {x} : V[y] = W[y]
  PROVE  /\ SumFunctionOnSet(V, S) = SumFunctionOnSet(W, S) + (V[x] - W[x])
         /\ SumFunctionOnSet(W, S) \in Int
<1>1. SumFunctionOnSet(W, S) = W[x] + SumFunctionOnSet(W, S \ {x})
  BY SumWithout
<1>2. SumFunctionOnSet(V, S) = V[x] + SumFunctionOnSet(V, S \ {x})
  BY SumWithout
<1>3. SumFunctionOnSet(V, S \ {x}) = SumFunctionOnSet(W, S \ {x})
  <2>1. IsFiniteSet(S \ {x})
    BY FS_RemoveElement
  <2> QED BY <2>1, SumSame
<1>4. SumFunctionOnSet(W, S \ {x}) \in Int /\ SumFunctionOnSet(W, S) \in Int
  BY SumType
<1> QED BY <1>1, <1>2, <1>3, <1>4

(* A sum is at most another one if what it adds is found among the other's, each *)
(* at an element of its own.                                                     *)
LEMMA SumInto ==
  ASSUME NEW S, IsFiniteSet(S), NEW T, IsFiniteSet(T), NEW V, NEW W, NEW f,
         \A x \in S : V[x] \in Nat, \A y \in T : W[y] \in Nat,
         \A x \in S : V[x] # 0 => f[x] \in T /\ V[x] <= W[f[x]],
         \A x, y \in S : V[x] # 0 /\ V[y] # 0 /\ f[x] = f[y] => x = y
  PROVE  SumFunctionOnSet(V, S) <= SumFunctionOnSet(W, T)
<1> DEFINE Sum(g, U) == SumFunctionOnSet(g, U)
           F == {U \in SUBSET S : \A R \in SUBSET T :
                   (\A x \in U : V[x] # 0 => f[x] \in R) => Sum(V, U) <= Sum(W, R)}
<1>1. ASSUME NEW U \in SUBSET S, \A x \in U : U \ {x} \in F PROVE U \in F
  <2> SUFFICES ASSUME NEW R \in SUBSET T, \A x \in U : V[x] # 0 => f[x] \in R
               PROVE  Sum(V, U) <= Sum(W, R)
    OBVIOUS
  <2>0. IsFiniteSet(R) /\ IsFiniteSet(U)
        /\ (\A Q \in SUBSET R : Sum(W, Q) \in Nat)
        /\ (\A Q \in SUBSET U : Sum(V, Q) \in Nat)
    BY FS_Subset, SumNatOn
  <2>1. CASE U = {}
    BY <2>0, <2>1, SumEmpty
  <2>2. CASE U # {}
    <3> DEFINE p == Picked(U)
    <3>1. p \in U /\ Sum(V, U) = V[p] + Sum(V, U \ {p})
      BY <2>0, <2>2, PickedIn, SumPicked
    <3> HIDE DEF p
    <3>2. CASE V[p] = 0
      <4>1. Sum(V, U \ {p}) <= Sum(W, R)
        BY <1>1, <3>1
      <4>2. Sum(V, U \ {p}) \in Nat
        BY <2>0
      <4> HIDE DEF Sum
      <4> QED BY <2>0, <3>1, <3>2, <4>1, <4>2
    <3>3. CASE V[p] # 0
      <4> DEFINE r == f[p]
      <4>1. r \in R /\ V[p] <= W[r] /\ V[p] \in Nat /\ W[r] \in Nat
        BY <3>1, <3>3
      <4>2. Sum(W, R) = W[r] + Sum(W, R \ {r})
        <5>1. \A y \in R : W[y] \in Int
          OBVIOUS
        <5> HIDE DEF r
        <5> QED BY <2>0, <4>1, <5>1, SumWithout
      <4>3. \A x \in U \ {p} : V[x] # 0 => f[x] \in R \ {r}
        BY <3>1, <3>3
      <4>4. Sum(V, U \ {p}) <= Sum(W, R \ {r})
        <5>1. U \ {p} \in F /\ R \ {r} \in SUBSET T
          BY <1>1, <3>1
        <5> HIDE DEF r
        <5> QED BY <4>3, <5>1
      <4>5. Sum(V, U \ {p}) \in Nat /\ Sum(W, R \ {r}) \in Nat
        BY <2>0
      <4> HIDE DEF Sum, r
      <4> QED BY <3>1, <4>1, <4>2, <4>4, <4>5
    <3> QED BY <3>2, <3>3
  <2> QED BY <2>1, <2>2
<1>2. SUBSET S \subseteq F
  <2> HIDE DEF F
  <2> QED BY <1>1, SubsetsInduct
<1>3. S \in F /\ \A x \in S : V[x] # 0 => f[x] \in T
  BY <1>2
<1> QED BY <1>3
(* One more element adds its weight. *)
LEMMA SumJoin ==
  ASSUME NEW S, IsFiniteSet(S), NEW x, x \notin S,
         NEW W, W[x] \in Int, \A y \in S : W[y] \in Int
  PROVE  SumFunctionOnSet(W, S \cup {x}) = SumFunctionOnSet(W, S) + W[x]
BY SumAdd

(* The sum over two sets that share nothing is the sum of the sums. *)
LEMMA SumDisjoint ==
  ASSUME NEW S, IsFiniteSet(S), NEW T, IsFiniteSet(T), S \cap T = {},
         NEW W, \A x \in S \cup T : W[x] \in Int
  PROVE  SumFunctionOnSet(W, S \cup T) = SumFunctionOnSet(W, S) + SumFunctionOnSet(W, T)
<1> DEFINE Sum(U) == SumFunctionOnSet(W, U)
           F == {U \in SUBSET T : Sum(S \cup U) = Sum(S) + Sum(U)}
<1>0. \A U \in SUBSET (S \cup T) : Sum(U) \in Int
  BY SumType, FS_Union
<1>1. ASSUME NEW U \in SUBSET T, \A x \in U : U \ {x} \in F PROVE U \in F
  <2>1. CASE U = {}
    <3>1. Sum(S \cup {}) = Sum(S)
      <4>1. S \cup {} = S
        OBVIOUS
      <4> QED BY <4>1
    <3>2. Sum({}) = 0
      BY SumEmpty
    <3>3. Sum(S) \in Int
      BY <1>0
    <3> HIDE DEF Sum
    <3> QED BY <2>1, <3>1, <3>2, <3>3
  <2>2. ASSUME NEW x \in U PROVE U \in F
    <3> DEFINE R == U \ {x}
    <3>1. Sum(S \cup R) = Sum(S) + Sum(R)
      BY <1>1, <2>2
    <3>2. /\ IsFiniteSet(U) /\ IsFiniteSet(R) /\ IsFiniteSet(S \cup R)
          /\ x \notin S \cup R /\ x \notin R
      BY FS_Subset, FS_Union
    <3>3. S \cup U = (S \cup R) \cup {x} /\ U = R \cup {x}
      OBVIOUS
    <3>4. W[x] \in Int /\ \A y \in S \cup R : W[y] \in Int
      OBVIOUS
    <3>5. Sum((S \cup R) \cup {x}) = Sum(S \cup R) + W[x]
      BY <3>2, <3>4, SumJoin
    <3>6. \A y \in R : W[y] \in Int
      OBVIOUS
    <3>7. Sum(R \cup {x}) = Sum(R) + W[x]
      BY <3>2, <3>4, <3>6, SumJoin
    <3>8. Sum(S) \in Int /\ Sum(R) \in Int
      BY <1>0
    <3>9. Sum(S \cup U) = Sum(S \cup R) + W[x] /\ Sum(U) = Sum(R) + W[x]
      BY <3>3, <3>5, <3>7
    <3> HIDE DEF Sum, R
    <3>10. Sum(S \cup U) = Sum(S) + Sum(U)
      BY <3>1, <3>4, <3>8, <3>9
    <3> QED BY <3>10
  <2> QED BY <2>1, <2>2
<1>2. SUBSET T \subseteq F
  <2> HIDE DEF F
  <2> QED BY <1>1, SubsetsInduct
<1> QED BY <1>2

(* What weighs nothing outside a subset sums to what the subset sums to. *)
LEMMA SumWithin ==
  ASSUME NEW T, IsFiniteSet(T), NEW S \in SUBSET T,
         NEW W, \A x \in T : W[x] \in Int, \A x \in T \ S : W[x] = 0
  PROVE  SumFunctionOnSet(W, T) = SumFunctionOnSet(W, S)
<1> DEFINE R == T \ S
<1>1. IsFiniteSet(S) /\ IsFiniteSet(R)
  BY FS_Subset
<1>2. S \cap R = {} /\ \A x \in S \cup R : W[x] \in Int
  OBVIOUS
<1>3. T = S \cup R
  OBVIOUS
<1>4. \A x \in R : W[x] = 0
  OBVIOUS
<1> HIDE DEF R
<1>5. SumFunctionOnSet(W, S \cup R) = SumFunctionOnSet(W, S) + SumFunctionOnSet(W, R)
  BY <1>1, <1>2, SumDisjoint
<1>6. SumFunctionOnSet(W, R) = 0
  BY <1>1, <1>4, SumZero
<1>7. SumFunctionOnSet(W, S) \in Int
  BY <1>1, <1>2, SumType
<1>8. SumFunctionOnSet(W, T) = SumFunctionOnSet(W, S) + SumFunctionOnSet(W, R)
  BY <1>3, <1>5
<1> QED BY <1>6, <1>7, <1>8

(* Elements that are given other names weigh what they weighed. *)
LEMMA SumRenamed ==
  ASSUME NEW S, IsFiniteSet(S), NEW f, DOMAIN f = S,
         \A x, y \in S : f[x] = f[y] => x = y,
         NEW W, NEW V, \A x \in S : V[x] = W[f[x]] /\ V[x] \in Int
  PROVE  SumFunctionOnSet(W, {f[x] : x \in S}) = SumFunctionOnSet(V, S)
<1> DEFINE Sum(w, U) == SumFunctionOnSet(w, U)
           Names(U) == {f[x] : x \in U}
           F == {U \in SUBSET S : Sum(W, Names(U)) = Sum(V, U)}
<1>1. ASSUME NEW U \in SUBSET S, \A x \in U : U \ {x} \in F PROVE U \in F
  <2>1. CASE U = {}
    <3>1. Names({}) = {}
      OBVIOUS
    <3>2. Sum(W, {}) = 0 /\ Sum(V, {}) = 0
      BY SumEmpty
    <3> HIDE DEF Sum, Names
    <3> QED BY <2>1, <3>1, <3>2
  <2>2. ASSUME NEW x \in U PROVE U \in F
    <3> DEFINE R == U \ {x}
    <3>1. Sum(W, Names(R)) = Sum(V, R)
      BY <1>1, <2>2
    <3>2. IsFiniteSet(U) /\ IsFiniteSet(R) /\ x \notin R
      BY FS_Subset
    <3>3. IsFiniteSet(Names(R))
      <4> DEFINE g == [y \in R |-> f[y]]
      <4>1. Names(R) = {g[y] : y \in R} /\ DOMAIN g = R
        OBVIOUS
      <4>2. IsFiniteSet({g[y] : y \in R})
        <5> HIDE DEF g, R
        <5> QED BY <3>2, <4>1, ImageFinite
      <4> QED BY <4>1, <4>2
    <3>4. f[x] \notin Names(R)
      OBVIOUS
    <3>5. Names(U) = Names(R) \cup {f[x]} /\ U = R \cup {x}
      OBVIOUS
    <3>6. W[f[x]] \in Int /\ V[x] = W[f[x]]
      OBVIOUS
    <3>7. \A n \in Names(R) : W[n] \in Int
      OBVIOUS
    <3>8. \A y \in R : V[y] \in Int
      OBVIOUS
    <3> DEFINE e == f[x]
               N == Names(R)
    <3>12. IsFiniteSet(N) /\ e \notin N /\ W[e] \in Int /\ \A n \in N : W[n] \in Int
      BY <3>3, <3>4, <3>6, <3>7
    <3> HIDE DEF R, N, e
    <3>13. Sum(W, N \cup {e}) = Sum(W, N) + W[e]
      BY ONLY <3>12, SumJoin
    <3> HIDE DEF Names
    <3>9. Sum(W, Names(R) \cup {f[x]}) = Sum(W, Names(R)) + W[f[x]]
      BY <3>13 DEF N, e
    <3>10. Sum(V, R \cup {x}) = Sum(V, R) + V[x]
      BY <3>2, <3>6, <3>8, SumJoin
    <3> HIDE DEF Sum
    <3>11. Sum(W, Names(U)) = Sum(V, U)
      BY <3>1, <3>5, <3>6, <3>9, <3>10
    <3> QED BY <3>11
  <2> QED BY <2>1, <2>2
<1>0. IsFiniteSet(S)
  OBVIOUS
<1> HIDE DEF F, Names
<1>2. SUBSET S \subseteq F
  BY ONLY <1>0, <1>1, SubsetsInduct
<1>3. S \in F
  BY <1>2
<1> QED BY <1>3 DEF F, Names

(* A sum of non-negative numbers is at least the sum over any part.              *)
LEMMA SumPart ==
  ASSUME NEW T, IsFiniteSet(T), NEW S \in SUBSET T, NEW W, \A x \in T : W[x] \in Nat
  PROVE  /\ SumFunctionOnSet(W, S) <= SumFunctionOnSet(W, T)
         /\ SumFunctionOnSet(W, S) \in Nat /\ SumFunctionOnSet(W, T) \in Nat
<1> DEFINE R == T \ S
<1>1. IsFiniteSet(S) /\ IsFiniteSet(R)
  BY FS_Subset
<1>2. S \cap R = {} /\ T = S \cup R
  OBVIOUS
<1>3. \A U \in SUBSET T : SumFunctionOnSet(W, U) \in Nat
  BY SumNatOn
<1>4. SumFunctionOnSet(W, S) \in Nat /\ SumFunctionOnSet(W, R) \in Nat
      /\ SumFunctionOnSet(W, T) \in Nat
  BY <1>3
<1> HIDE DEF R
<1>5. \A x \in S \cup R : W[x] \in Int
  BY <1>2
<1>6. SumFunctionOnSet(W, S \cup R) = SumFunctionOnSet(W, S) + SumFunctionOnSet(W, R)
  BY <1>1, <1>2, <1>5, SumDisjoint
<1> QED BY <1>2, <1>4, <1>6

(* A factor of every weight is a factor of the sum.                              *)
LEMMA SumScale ==
  ASSUME NEW S, IsFiniteSet(S), NEW c \in Int, NEW W, NEW V,
         \A x \in S : W[x] \in Int /\ V[x] = c * W[x]
  PROVE  SumFunctionOnSet(V, S) = c * SumFunctionOnSet(W, S)
<1> DEFINE Sum(f, T) == SumFunctionOnSet(f, T)
           F == {T \in SUBSET S : Sum(V, T) = c * Sum(W, T)}
<1>1. ASSUME NEW T \in SUBSET S, \A x \in T : T \ {x} \in F PROVE T \in F
  <2>1. CASE T = {}
    <3>1. Sum(V, T) = 0 /\ Sum(W, T) = 0
      BY <2>1, SumEmpty
    <3> HIDE DEF Sum
    <3> QED BY <3>1
  <2>2. CASE T # {}
    <3> DEFINE p == Picked(T)
    <3>1. IsFiniteSet(T) /\ p \in T
      BY <2>2, PickedIn, FS_Subset
    <3>2. Sum(V, T) = V[p] + Sum(V, T \ {p}) /\ Sum(W, T) = W[p] + Sum(W, T \ {p})
      BY <2>2, <3>1, SumPicked
    <3>3. Sum(W, T \ {p}) \in Int
      <4>1. \A U \in SUBSET S : SumFunctionOnSet(W, U) \in Int
        BY SumType
      <4> QED BY <4>1
    <3>4. T \ {p} \in F
      BY <1>1, <3>1
    <3> HIDE DEF p, Sum
    <3>5. Sum(V, T \ {p}) = c * Sum(W, T \ {p})
      BY <3>4
    <3>6. W[p] \in Int /\ V[p] = c * W[p]
      BY <3>1
    <3>7. c * (W[p] + Sum(W, T \ {p})) = c * W[p] + c * Sum(W, T \ {p})
      BY <3>3, <3>6
    <3>8. Sum(V, T) = c * Sum(W, T)
      BY <3>2, <3>5, <3>6, <3>7
    <3> QED BY <3>8
  <2> QED BY <2>1, <2>2
<1>2. SUBSET S \subseteq F
  <2> HIDE DEF F
  <2> QED BY <1>1, SubsetsInduct
<1> QED BY <1>2

(* Equal weights sum to so many times the weight.                                *)
LEMMA SumConstant ==
  ASSUME NEW S, IsFiniteSet(S), NEW c \in Int, NEW W, \A x \in S : W[x] = c
  PROVE  SumFunctionOnSet(W, S) = c * Cardinality(S)
<1> DEFINE Sum(T) == SumFunctionOnSet(W, T)
           F == {T \in SUBSET S : Sum(T) = c * Cardinality(T)}
<1>1. ASSUME NEW T \in SUBSET S, \A x \in T : T \ {x} \in F PROVE T \in F
  <2>1. CASE T = {}
    <3>1. Sum(T) = 0 /\ Cardinality(T) = 0
      BY <2>1, SumEmpty, FS_EmptySet
    <3> HIDE DEF Sum
    <3> QED BY <3>1
  <2>2. CASE T # {}
    <3> DEFINE p == Picked(T)
    <3>1. IsFiniteSet(T) /\ p \in T
      BY <2>2, PickedIn, FS_Subset
    <3>2. Sum(T) = W[p] + Sum(T \ {p})
      BY <2>2, <3>1, SumPicked
    <3>3. Cardinality(T \ {p}) = Cardinality(T) - 1 /\ Cardinality(T) \in Nat
      BY <3>1, FS_RemoveElement, FS_CardinalityType
    <3>4. T \ {p} \in F
      BY <1>1, <3>1
    <3> HIDE DEF p, Sum
    <3>5. Sum(T \ {p}) = c * (Cardinality(T) - 1) /\ W[p] = c
      BY <3>1, <3>3, <3>4
    <3>6. c + c * (Cardinality(T) - 1) = c * Cardinality(T)
      BY <3>3
    <3> QED BY <3>2, <3>5, <3>6
  <2> QED BY <2>1, <2>2
<1>2. SUBSET S \subseteq F
  <2> HIDE DEF F
  <2> QED BY <1>1, SubsetsInduct
<1> QED BY <1>2

-------------------------------------------------------------------------------
(* Sequences put one after the other.                                         *)

\* The function that FlattenSeq takes its result from.
Joins(g, seqs, n) == g = [i \in 1..n |-> IF i = 1 THEN seqs[i] ELSE g[i - 1] \o seqs[i]]

\* FlattenSeq of at least one sequence reads the last entry of it.
LEMMA JoinsUnfold ==
  ASSUME NEW seqs, Len(seqs) # 0
  PROVE  FlattenSeq(seqs) = (CHOOSE g : Joins(g, seqs, Len(seqs)))[Len(seqs)]
BY DEF FlattenSeq, Joins

\* It exists for every number of sequences.
LEMMA JoinsExist ==
  ASSUME NEW seqs
  PROVE  \A n \in Nat : \E g : Joins(g, seqs, n)
<1> DEFINE S == {n \in Nat : \E g : Joins(g, seqs, n)}
<1>1. 0 \in S
  <2>1. Joins([i \in 1..0 |-> 0], seqs, 0)
    <3>1. 1..0 = {}
      OBVIOUS
    <3> QED BY <3>1 DEF Joins
  <2> QED BY <2>1
<1>2. ASSUME NEW n \in Nat, n \in S PROVE n + 1 \in S
  <2>1. PICK g : Joins(g, seqs, n)
    BY <1>2
  <2> DEFINE h == [i \in 1..(n + 1) |->
                     IF i \in 1..n THEN g[i]
                     ELSE IF i = 1 THEN seqs[i] ELSE g[n] \o seqs[i]]
  <2>2. ASSUME NEW i \in 1..(n + 1)
        PROVE  h[i] = IF i = 1 THEN seqs[i] ELSE h[i - 1] \o seqs[i]
    <3>1. CASE i \in 1..n
      <4>1. h[i] = g[i] /\ (i # 1 => h[i - 1] = g[i - 1])
        BY <3>1
      <4>2. g[i] = IF i = 1 THEN seqs[i] ELSE g[i - 1] \o seqs[i]
        BY <2>1, <3>1 DEF Joins
      <4> QED BY <4>1, <4>2
    <3>2. CASE i \notin 1..n
      <4>1. i = n + 1 /\ (i # 1 => h[i - 1] = g[n])
        BY <3>2
      <4>2. h[i] = IF i = 1 THEN seqs[i] ELSE g[n] \o seqs[i]
        BY <3>2
      <4> HIDE DEF h
      <4> QED BY <4>1, <4>2
    <3> QED BY <3>1, <3>2
  <2>3. Joins(h, seqs, n + 1)
    <3>1. h = [i \in 1..(n + 1) |-> h[i]]
      OBVIOUS
    <3> HIDE DEF h
    <3> QED BY <2>2, <3>1 DEF Joins
  <2> QED BY <2>3
<1>3. Nat \subseteq S
  <2> HIDE DEF S
  <2> QED BY <1>1, <1>2, NumbersInduct
<1> QED BY <1>3

\* Sequences over a set, one after the other, are a sequence over it.
LEMMA FlattenedType ==
  ASSUME NEW T, NEW seqs \in Seq(Seq(T))
  PROVE  FlattenSeq(seqs) \in Seq(T)
<1> DEFINE n == Len(seqs)
<1>0. n \in Nat
  OBVIOUS
<1>1. CASE n = 0
  <2>1. FlattenSeq(seqs) = seqs /\ seqs = << >>
    BY <1>1 DEF FlattenSeq
  <2> QED BY <2>1
<1>2. CASE n # 0
  <2> DEFINE g == CHOOSE g : Joins(g, seqs, n)
  <2>1. Joins(g, seqs, n)
    BY <1>0, JoinsExist
  <2>2. FlattenSeq(seqs) = g[n]
    BY <1>2, JoinsUnfold
  <2> HIDE DEF g
  <2> DEFINE S == {m \in Nat : m + 1 \in 1..n => g[m + 1] \in Seq(T)}
  <2>3. 0 \in S
    <3>1. SUFFICES ASSUME 1 \in 1..n PROVE g[1] \in Seq(T)
      OBVIOUS
    <3>2. g[1] = seqs[1]
      BY <2>1, <3>1 DEF Joins
    <3> QED BY <3>1, <3>2
  <2>4. ASSUME NEW m \in Nat, m \in S PROVE m + 1 \in S
    <3>1. SUFFICES ASSUME m + 2 \in 1..n PROVE g[m + 2] \in Seq(T)
      OBVIOUS
    <3>2. m + 1 \in 1..n /\ m + 2 # 1 /\ (m + 2) - 1 = m + 1
      BY <3>1
    <3>3. g[m + 2] = g[m + 1] \o seqs[m + 2]
      BY <2>1, <3>1, <3>2 DEF Joins
    <3>4. g[m + 1] \in Seq(T) /\ seqs[m + 2] \in Seq(T)
      BY <2>4, <3>1, <3>2
    <3> QED BY <3>3, <3>4
  <2>5. Nat \subseteq S
    <3> HIDE DEF S
    <3> QED BY <2>3, <2>4, NumbersInduct
  <2>6. n - 1 \in Nat /\ (n - 1) + 1 = n /\ n \in 1..n
    BY <1>2
  <2>7. g[n] \in Seq(T)
    BY <2>5, <2>6
  <2> QED BY <2>2, <2>7
<1> QED BY <1>1, <1>2

--------------------------------------------------------------------------------
(* Repeated steps.                                                              *)

\* A set of numbers that has 0, and with a number up to m the next, has all up to m.
LEMMA UpTo ==
  ASSUME NEW m \in Nat, NEW S, 0 \in S, \A n \in 1..m : n - 1 \in S => n \in S
  PROVE  0..m \subseteq S
<1> DEFINE N == {n \in Nat : n <= m => n \in S}
<1>1. 0 \in N
  OBVIOUS
<1>2. ASSUME NEW n \in Nat, n \in N PROVE n + 1 \in N
  <2>1. SUFFICES ASSUME n + 1 <= m PROVE n + 1 \in S
    OBVIOUS
  <2>2. n \in S /\ n + 1 \in 1..m /\ (n + 1) - 1 = n
    BY <1>2, <2>1
  <2> QED BY <2>2
<1>3. Nat \subseteq N
  <2> HIDE DEF N
  <2> QED BY <1>1, <1>2, NumbersInduct
<1> QED BY <1>3

\* What repeating a step m times leads to, one after the other.
Run(f, start, step, m) == f[0] = start /\ \A n \in 1..m : f[n] = step[<<f[n - 1], n>>]

\* A step that stays within a set can be repeated any number of times.
LEMMA Repeated ==
  ASSUME NEW D, NEW start \in D, NEW step \in [D \X Nat -> D]
  PROVE  \A m \in Nat : \E f \in [0..m -> D] : Run(f, start, step, m)
<1> DEFINE S == {m \in Nat : \E f \in [0..m -> D] : Run(f, start, step, m)}
<1>1. 0 \in S
  <2> DEFINE f == [n \in 0..0 |-> start]
  <2>1. f \in [0..0 -> D] /\ f[0] = start /\ 1..0 = {}
    OBVIOUS
  <2> HIDE DEF f
  <2> QED BY <2>1 DEF Run
<1>2. ASSUME NEW m \in Nat, m \in S PROVE m + 1 \in S
  <2>1. PICK f \in [0..m -> D] : Run(f, start, step, m)
    BY <1>2
  <2> DEFINE next == step[<<f[m], m + 1>>]
             g == [n \in 0..(m + 1) |-> IF n = m + 1 THEN next ELSE f[n]]
  <2>2. next \in D
    <3>1. f[m] \in D /\ m + 1 \in Nat
      OBVIOUS
    <3>2. <<f[m], m + 1>> \in D \X Nat
      BY <3>1
    <3> QED BY <3>2
  <2>3. g \in [0..(m + 1) -> D]
    BY <2>2
  <2>4. g[0] = start
    BY <2>1 DEF Run
  <2>5. ASSUME NEW n \in 1..(m + 1) PROVE g[n] = step[<<g[n - 1], n>>]
    <3>1. CASE n = m + 1
      <4>1. g[n] = next /\ g[n - 1] = f[m]
        BY <3>1
      <4> HIDE DEF g
      <4> QED BY <3>1, <4>1
    <3>2. CASE n # m + 1
      <4>1. n \in 1..m /\ g[n] = f[n] /\ g[n - 1] = f[n - 1]
        BY <3>2
      <4> HIDE DEF g
      <4> QED BY <2>1, <4>1 DEF Run
    <3> QED BY <3>1, <3>2
  <2> HIDE DEF g
  <2> QED BY <2>3, <2>4, <2>5 DEF Run
<1>3. Nat \subseteq S
  <2> HIDE DEF S
  <2> QED BY <1>1, <1>2, NumbersInduct
<1> QED BY <1>3

===============================================================================
