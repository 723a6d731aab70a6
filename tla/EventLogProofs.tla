--------------------------- MODULE EventLogProofs ---------------------------
(***************************************************************************)
(* Proofs about the event log: EventWriter, for any rows, calls and        *)
(* actors, and the usage reporter and the order of the shutdown within     *)
(* ServerProcess, for any requests, keys and configurations.               *)
(*                                                                         *)
(* First what the sums of the counts need: SumFunctionOnSet is a choice of *)
(* a recursive function, whose existence and uniqueness over a finite set  *)
(* are shown by induction over its subsets (lemma Subsets).                *)
(***************************************************************************)
EXTENDS EventWriter, ServerProcess, FiniteSetTheorems, WellFoundedInduction, TLAPS

(* Every nonempty set of naturals has a least element.                     *)
LEMMA NatLeast ==
    ASSUME NEW T \in SUBSET Nat, T # {}
    PROVE  \E n \in T : \A m \in T : n <= m
<1> DEFINE Less == OpToRel(<, Nat)
<1>1. \E n \in T : \A m \in T : ~ (<<m, n>> \in Less)
  <2>1. IsWellFoundedOn(Less, Nat)
    BY NatLessThanWellFounded
  <2> HIDE DEF Less
  <2> QED BY <2>1, WFMin
<1>2. PICK n \in T : \A m \in T : ~ (<<m, n>> \in Less)
  BY <1>1
<1>3. \A m \in T : m < n => <<m, n>> \in Less
  BY DEF OpToRel
<1> HIDE DEF Less
<1>4. \A m \in T : ~(m < n)
  BY <1>2, <1>3
<1> QED BY <1>4

(* A family of subsets of a finite set that has the empty one, and each    *)
(* one that it has without any of its elements, has them all: a smallest   *)
(* subset it misses could lose an element.                                 *)
LEMMA Subsets ==
    ASSUME NEW S, IsFiniteSet(S), NEW G,
           {} \in G,
           \A T \in SUBSET S : T # {} /\ (\A x \in T : T \ {x} \in G) => T \in G
    PROVE  SUBSET S \subseteq G
<1> DEFINE Sizes == {Cardinality(T) : T \in (SUBSET S) \ G}
<1> SUFFICES ASSUME (SUBSET S) \ G # {} PROVE FALSE
  OBVIOUS
<1>1. \A T \in SUBSET S : IsFiniteSet(T) /\ Cardinality(T) \in Nat
  BY FS_Subset, FS_CardinalityType
<1>2. PICK n \in Sizes : \A m \in Sizes : n <= m
  <2>1. Sizes \in SUBSET Nat /\ Sizes # {}
    BY <1>1
  <2> HIDE DEF Sizes
  <2> QED BY <2>1, NatLeast
<1>3. PICK T \in (SUBSET S) \ G : n = Cardinality(T)
  BY <1>2
<1>4. PICK x \in T : T \ {x} \notin G
  BY <1>3
<1>5. Cardinality(T \ {x}) = n - 1 /\ n \in Nat
  BY <1>1, <1>3, <1>4, FS_RemoveElement
<1>6. Cardinality(T \ {x}) \in Sizes
  BY <1>3, <1>4
<1> HIDE DEF Sizes
<1>7. n <= n - 1 /\ n \in Int
  BY <1>2, <1>5, <1>6
<1> QED BY <1>7

(* The equation of a sum over the subsets of a set, which takes the        *)
(* element first that CHOOSE takes.                                        *)
First(T) == CHOOSE x \in T : TRUE
Sums(f, S, g) ==
    g = [T \in SUBSET S |-> IF T = {} THEN 0 ELSE f[First(T)] + g[T \ {First(T)}]]

LEMMA SumOfSums ==
    ASSUME NEW f, NEW S
    PROVE  SumFunctionOnSet(f, S) = (CHOOSE g : Sums(f, S, g))[S]
BY DEF SumFunctionOnSet, FoldFunctionOnSet, MapThenFoldSet, Sums, First

LEMMA SumsExist ==
    ASSUME NEW S, IsFiniteSet(S), NEW f, \A x \in S : f[x] \in Nat
    PROVE  \E g : Sums(f, S, g)
<1> DEFINE Eq(g, T) == g[T] = IF T = {} THEN 0 ELSE f[First(T)] + g[T \ {First(T)}]
           UpTo(n) == \E g \in [SUBSET S -> Int] : \A T \in SUBSET S : Cardinality(T) <= n => Eq(g, T)
           Bad == {n \in Nat : ~UpTo(n)}
<1>1. \A T \in SUBSET S : IsFiniteSet(T) /\ Cardinality(T) \in Nat
  BY FS_Subset, FS_CardinalityType
<1>2. \A T \in SUBSET S : T # {} => First(T) \in T
  BY DEF First
<1>3. Bad = {}
  <2> SUFFICES ASSUME Bad # {} PROVE FALSE
    OBVIOUS
  <2>1. PICK n \in Bad : \A m \in Bad : n <= m
    <3>1. Bad \in SUBSET Nat
      OBVIOUS
    <3> HIDE DEF Bad
    <3> QED BY <3>1, NatLeast
  <2>2. n # 0
    <3> DEFINE g == [T \in SUBSET S |-> 0]
    <3>1. \A T \in SUBSET S : Cardinality(T) <= 0 => T = {}
      BY <1>1, FS_EmptySet
    <3>2. g \in [SUBSET S -> Int] /\ g[{}] = 0
      OBVIOUS
    <3>3. \A T \in SUBSET S : Cardinality(T) <= 0 => Eq(g, T)
      BY <3>1, <3>2
    <3>4. UpTo(0)
      <4> HIDE DEF g, Eq
      <4> QED BY <3>2, <3>3
    <3> QED BY <3>4, <2>1
  <2>3. n \in Nat /\ n - 1 \in Nat /\ n - 1 \notin Bad
    <3>1. n \in Nat
      BY <2>1
    <3> HIDE DEF Bad
    <3> QED BY <3>1, <2>1, <2>2
  <2>4. PICK g \in [SUBSET S -> Int] : \A T \in SUBSET S : Cardinality(T) <= n - 1 => Eq(g, T)
    BY <2>3
  <2> DEFINE h == [T \in SUBSET S |-> IF Cardinality(T) <= n - 1 THEN g[T]
                                      ELSE f[First(T)] + g[T \ {First(T)}]]
  <2>5. h \in [SUBSET S -> Int]
    <3>1. \A T \in SUBSET S : Cardinality(T) <= n - 1 \/ f[First(T)] + g[T \ {First(T)}] \in Int
      <4> TAKE T \in SUBSET S
      <4>1. CASE T = {}
        BY <4>1, <2>3, FS_EmptySet
      <4>2. CASE T # {}
        <5>1. First(T) \in S /\ T \ {First(T)} \in SUBSET S
          BY <4>2, <1>2
        <5>2. f[First(T)] \in Nat /\ g[T \ {First(T)}] \in Int
          BY <5>1
        <5> QED BY <5>2
      <4> QED BY <4>1, <4>2
    <3> QED BY <3>1
  <2>6. \A T \in SUBSET S : Cardinality(T) <= n => Eq(h, T)
    <3> SUFFICES ASSUME NEW T \in SUBSET S, Cardinality(T) <= n PROVE Eq(h, T)
      OBVIOUS
    <3>1. CASE T = {}
      <4>1. Cardinality(T) <= n - 1
        BY <3>1, <2>3, FS_EmptySet
      <4> QED BY <3>1, <4>1, <2>4
    <3>2. CASE T # {}
      <4>1. First(T) \in T /\ T \ {First(T)} \in SUBSET S
        BY <3>2, <1>2
      <4>2. Cardinality(T \ {First(T)}) = Cardinality(T) - 1
        BY <4>1, <1>1, FS_RemoveElement
      <4>3. Cardinality(T \ {First(T)}) <= n - 1
        BY <4>2, <1>1, <2>3
      <4>4. h[T \ {First(T)}] = g[T \ {First(T)}]
        BY <4>1, <4>3
      <4>5. h[T] = f[First(T)] + g[T \ {First(T)}]
        BY <2>4, <3>2
      <4> HIDE DEF h
      <4> QED BY <3>2, <4>4, <4>5
    <3> QED BY <3>1, <3>2
  <2> HIDE DEF h, Eq
  <2> QED BY <2>1, <2>5, <2>6
<1>4. PICK g \in [SUBSET S -> Int] : \A T \in SUBSET S : Cardinality(T) <= Cardinality(S) => Eq(g, T)
  BY <1>1, <1>3
<1>5. \A T \in SUBSET S : Eq(g, T)
  BY <1>4, FS_Subset
<1>6. Sums(f, S, g)
  BY <1>5 DEF Sums
<1> QED BY <1>6

(* The sums over the subsets of a set that the equation gives, also for    *)
(* the smaller sets.                                                       *)
LEMMA SumsAgree ==
    ASSUME NEW S, IsFiniteSet(S), NEW U \in SUBSET S, NEW f, NEW g, NEW h,
           Sums(f, S, g), Sums(f, U, h)
    PROVE  g[U] = h[U]
<1> DEFINE Same == {T \in SUBSET U : g[T] = h[T]}
<1>1. \A T \in SUBSET U : T # {} => First(T) \in T
  BY DEF First
<1>2. IsFiniteSet(U)
  BY FS_Subset
<1>3. {} \in Same
  BY DEF Sums
<1>4. \A T \in SUBSET U : T # {} /\ (\A x \in T : T \ {x} \in Same) => T \in Same
  <2> TAKE T \in SUBSET U
  <2> HAVE T # {} /\ (\A x \in T : T \ {x} \in Same)
  <2>1. First(T) \in T
    BY <1>1
  <2>2. g[T \ {First(T)}] = h[T \ {First(T)}]
    BY <2>1
  <2>3. g[T] = f[First(T)] + g[T \ {First(T)}]
    BY DEF Sums
  <2>4. h[T] = f[First(T)] + h[T \ {First(T)}]
    BY DEF Sums
  <2> QED BY <2>2, <2>3, <2>4
<1>5. SUBSET U \subseteq Same
  <2> HIDE DEF Same
  <2> QED BY <1>2, <1>3, <1>4, Subsets
<1> QED BY <1>5

(* The sum over a set takes its first element and the sum over the others. *)
LEMMA SumStep ==
    ASSUME NEW S, IsFiniteSet(S), NEW f, \A x \in S : f[x] \in Nat
    PROVE  SumFunctionOnSet(f, S) =
             IF S = {} THEN 0 ELSE f[First(S)] + SumFunctionOnSet(f, S \ {First(S)})
<1> DEFINE sums(T) == CHOOSE g : Sums(f, T, g)
           U == S \ {First(S)}
<1>1. IsFiniteSet(U) /\ U \in SUBSET S
  BY FS_Subset
<1>2. Sums(f, S, sums(S)) /\ Sums(f, U, sums(U))
  <2>1. (\E g : Sums(f, S, g)) /\ (\E g : Sums(f, U, g))
    BY <1>1, SumsExist
  <2> QED BY <2>1
<1>3. sums(S)[U] = sums(U)[U]
  <2> HIDE DEF sums, U
  <2> QED BY <1>1, <1>2, SumsAgree
<1>4. sums(S)[S] = IF S = {} THEN 0 ELSE f[First(S)] + sums(S)[U]
  <2> HIDE DEF sums
  <2> QED BY <1>2 DEF Sums
<1>5. SumFunctionOnSet(f, S) = sums(S)[S] /\ SumFunctionOnSet(f, U) = sums(U)[U]
  BY SumOfSums
<1> HIDE DEF sums
<1> QED BY <1>3, <1>4, <1>5

(* Sums of naturals.                                                       *)
LEMMA SumType ==
    ASSUME NEW S, IsFiniteSet(S), NEW f, \A x \in S : f[x] \in Nat
    PROVE  SumFunctionOnSet(f, S) \in Nat
<1> DEFINE G == {T \in SUBSET S : SumFunctionOnSet(f, T) \in Nat}
<1>1. \A T \in SUBSET S : IsFiniteSet(T)
  BY FS_Subset
<1>2. {} \in G
  BY SumStep, FS_EmptySet
<1>3. \A T \in SUBSET S : T # {} /\ (\A x \in T : T \ {x} \in G) => T \in G
  <2> TAKE T \in SUBSET S
  <2> HAVE T # {} /\ (\A x \in T : T \ {x} \in G)
  <2>1. First(T) \in T
    BY DEF First
  <2>2. SumFunctionOnSet(f, T) = f[First(T)] + SumFunctionOnSet(f, T \ {First(T)})
    BY <1>1, SumStep
  <2> QED BY <2>1, <2>2
<1>4. SUBSET S \subseteq G
  <2> HIDE DEF G
  <2> QED BY <1>2, <1>3, Subsets
<1> QED BY <1>4

(* Any element may be taken out of a sum.                                  *)
LEMMA SumRemove ==
    ASSUME NEW S, IsFiniteSet(S), NEW f, \A x \in S : f[x] \in Nat, NEW a \in S
    PROVE  SumFunctionOnSet(f, S) = f[a] + SumFunctionOnSet(f, S \ {a})
<1> DEFINE Sum(T) == SumFunctionOnSet(f, T)
           G == {T \in SUBSET S : \A x \in T : Sum(T) = f[x] + Sum(T \ {x})}
<1>1. \A T \in SUBSET S : IsFiniteSet(T) /\ Sum(T) \in Nat
  BY FS_Subset, SumType
<1>2. \A T \in SUBSET S : T # {} => First(T) \in T /\ Sum(T) = f[First(T)] + Sum(T \ {First(T)})
  <2> TAKE T \in SUBSET S
  <2> HAVE T # {}
  <2>1. First(T) \in T
    BY DEF First
  <2> QED BY <1>1, <2>1, SumStep
<1>3. {} \in G
  OBVIOUS
<1>4. \A T \in SUBSET S : T # {} /\ (\A x \in T : T \ {x} \in G) => T \in G
  <2> TAKE T \in SUBSET S
  <2> HAVE T # {} /\ (\A x \in T : T \ {x} \in G)
  <2> SUFFICES ASSUME NEW x \in T PROVE Sum(T) = f[x] + Sum(T \ {x})
    OBVIOUS
  <2> DEFINE y == First(T)
  <2>1. y \in T /\ Sum(T) = f[y] + Sum(T \ {y})
    BY <1>2
  <2> HIDE DEF y, Sum
  <2>2. CASE x = y
    BY <2>1, <2>2
  <2>3. CASE x # y
    <3>1. Sum(T \ {y}) = f[x] + Sum((T \ {y}) \ {x})
      BY <2>1, <2>3
    <3>2. Sum(T \ {x}) = f[y] + Sum((T \ {x}) \ {y})
      BY <2>1, <2>3
    <3>3. (T \ {y}) \ {x} = (T \ {x}) \ {y}
      OBVIOUS
    <3>4. f[x] \in Nat /\ f[y] \in Nat /\ Sum((T \ {x}) \ {y}) \in Nat
      BY <1>1, <2>1
    <3> QED BY <2>1, <3>1, <3>2, <3>3, <3>4
  <2> QED BY <2>2, <2>3
<1>5. SUBSET S \subseteq G
  <2> HIDE DEF G
  <2> QED BY <1>3, <1>4, Subsets
<1>6. S \in G
  BY <1>5
<1> QED BY <1>6

(* A sum may be made term by term.                                         *)
LEMMA SumAdd ==
    ASSUME NEW S, IsFiniteSet(S), NEW f, NEW g, NEW h,
           \A x \in S : f[x] \in Nat /\ g[x] \in Nat /\ h[x] = f[x] + g[x]
    PROVE  SumFunctionOnSet(h, S) = SumFunctionOnSet(f, S) + SumFunctionOnSet(g, S)
<1> DEFINE Sum(e, T) == SumFunctionOnSet(e, T)
           G == {T \in SUBSET S : Sum(h, T) = Sum(f, T) + Sum(g, T)}
<1>1. \A T \in SUBSET S : IsFiniteSet(T)
  BY FS_Subset
<1>2. {} \in G
  <2>1. Sum(f, {}) = 0 /\ Sum(g, {}) = 0 /\ Sum(h, {}) = 0
    BY SumStep, FS_EmptySet
  <2> QED BY <2>1
<1>3. \A T \in SUBSET S : T # {} /\ (\A x \in T : T \ {x} \in G) => T \in G
  <2> TAKE T \in SUBSET S
  <2> HAVE T # {} /\ (\A x \in T : T \ {x} \in G)
  <2> DEFINE y == First(T)
             U == T \ {y}
  <2>1. y \in T
    BY DEF First
  <2>2. U \in SUBSET S /\ Sum(h, U) = Sum(f, U) + Sum(g, U)
    BY <2>1
  <2>3. Sum(f, U) \in Nat /\ Sum(g, U) \in Nat
    BY <1>1, <2>2, SumType
  <2>4. Sum(f, T) = f[y] + Sum(f, U)
    BY <1>1, SumStep
  <2>5. Sum(g, T) = g[y] + Sum(g, U)
    BY <1>1, SumStep
  <2>6. Sum(h, T) = h[y] + Sum(h, U)
    <3>1. \A x \in T : h[x] \in Nat
      OBVIOUS
    <3> QED BY <1>1, <3>1, SumStep
  <2>7. f[y] \in Nat /\ g[y] \in Nat /\ h[y] = f[y] + g[y]
    BY <2>1
  <2> HIDE DEF Sum, U, y
  <2> QED BY <2>2, <2>3, <2>4, <2>5, <2>6, <2>7
<1>4. SUBSET S \subseteq G
  <2> HIDE DEF G
  <2> QED BY <1>2, <1>3, Subsets
<1>5. S \in G
  BY <1>4
<1> QED BY <1>5

(* A sum of zeros.                                                         *)
LEMMA SumZero ==
    ASSUME NEW S, IsFiniteSet(S), NEW f, \A x \in S : f[x] = 0
    PROVE  SumFunctionOnSet(f, S) = 0
<1>1. SumFunctionOnSet(f, S) \in Nat
  BY SumType
<1>2. SumFunctionOnSet(f, S) = SumFunctionOnSet(f, S) + SumFunctionOnSet(f, S)
  BY SumAdd
<1>3. \A n \in Nat : n = n + n => n = 0
  OBVIOUS
<1> QED BY <1>1, <1>2, <1>3, Zenon

(* The sum of an indicator is the size of its set.                         *)
LEMMA SumIndicator ==
    ASSUME NEW S, IsFiniteSet(S), NEW A \in SUBSET S
    PROVE  SumFunctionOnSet([x \in S |-> IF x \in A THEN 1 ELSE 0], S) = Cardinality(A)
<1> DEFINE f == [x \in S |-> IF x \in A THEN 1 ELSE 0]
           Sum(T) == SumFunctionOnSet(f, T)
           G == {T \in SUBSET S : Sum(T) = Cardinality(T \cap A)}
<1>1. \A T \in SUBSET S : IsFiniteSet(T) /\ IsFiniteSet(T \cap A) /\ Cardinality(T \cap A) \in Nat
  <2>1. \A T \in SUBSET S : IsFiniteSet(T)
    BY FS_Subset
  <2> QED BY <2>1, FS_CardinalityType
<1>2. \A x \in S : f[x] \in Nat
  OBVIOUS
<1>3. {} \in G
  <2>1. Sum({}) = 0
    BY SumStep, FS_EmptySet
  <2>2. {} \cap A = {}
    OBVIOUS
  <2> QED BY <2>1, <2>2, FS_EmptySet
<1>4. \A T \in SUBSET S : T # {} /\ (\A x \in T : T \ {x} \in G) => T \in G
  <2> TAKE T \in SUBSET S
  <2> HAVE T # {} /\ (\A x \in T : T \ {x} \in G)
  <2> DEFINE y == First(T)
             U == T \ {y}
  <2>1. y \in T /\ y \in S
    BY DEF First
  <2>2. Sum(U) = Cardinality(U \cap A)
    BY <2>1
  <2>3. Sum(T) = f[y] + Sum(U)
    <3>1. \A x \in T : f[x] \in Nat
      BY <1>2
    <3> HIDE DEF f
    <3> QED BY <1>1, <3>1, SumStep
  <2>4. CASE y \in A
    <3>1. U \cap A = (T \cap A) \ {y}
      OBVIOUS
    <3>2. Cardinality(U \cap A) = Cardinality(T \cap A) - 1
      <4> DEFINE V == T \cap A
      <4>1. y \in V /\ IsFiniteSet(V) /\ U \cap A = V \ {y}
        BY <1>1, <2>1, <2>4, <3>1
      <4> HIDE DEF U, y, V, f, Sum, G
      <4>2. Cardinality(V \ {y}) = Cardinality(V) - 1
        BY <4>1, FS_RemoveElement
      <4> QED BY <4>1, <4>2 DEF V
    <3>3. f[y] = 1
      BY <2>1, <2>4
    <3>4. Cardinality(T \cap A) \in Nat
      BY <1>1
    <3> HIDE DEF U, y, Sum, f
    <3> QED BY <2>2, <2>3, <3>2, <3>3, <3>4
  <2>5. CASE y \notin A
    <3>1. U \cap A = T \cap A
      BY <2>5
    <3>2. f[y] = 0
      BY <2>1, <2>5
    <3>3. Cardinality(T \cap A) \in Nat
      BY <1>1
    <3>4. Sum(T) = Cardinality(T \cap A)
      <4> HIDE DEF U, y, Sum, f, G
      <4> QED BY <2>2, <2>3, <3>1, <3>2, <3>3
    <3> QED BY <3>4
  <2> QED BY <2>4, <2>5
<1>5. SUBSET S \subseteq G
  <2> HIDE DEF G
  <2> QED BY <1>3, <1>4, Subsets
<1>6. S \in G /\ S \cap A = A
  BY <1>5
<1> QED BY <1>6

(* A sum in which one term has changed.                                    *)
LEMMA SumExcept ==
    ASSUME NEW S, IsFiniteSet(S), NEW f \in [S -> Nat], NEW a \in S, NEW n \in Nat
    PROVE  SumFunctionOnSet([f EXCEPT ![a] = n], S) + f[a] = SumFunctionOnSet(f, S) + n
<1> DEFINE g == [f EXCEPT ![a] = n]
           zero == [x \in S |-> 0]
           Rest == S \ {a}
           Sum(e, T) == SumFunctionOnSet(e, T)
<1>1. IsFiniteSet(Rest) /\ g \in [S -> Nat] /\ g[a] = n
  BY FS_Subset
<1>2. Sum(f, S) = f[a] + Sum(f, Rest)
  BY SumRemove
<1>3. Sum(g, S) = n + Sum(g, Rest)
  <2>1. \A x \in S : g[x] \in Nat
    BY <1>1
  <2> HIDE DEF g
  <2> QED BY <1>1, <2>1, SumRemove
<1>4. Sum(g, Rest) = Sum(f, Rest) + Sum(zero, Rest)
  <2>1. \A x \in Rest : f[x] \in Nat /\ zero[x] \in Nat /\ g[x] = f[x] + zero[x]
    OBVIOUS
  <2> HIDE DEF g, zero, Rest
  <2> QED BY <1>1, <2>1, SumAdd
<1>5. Sum(zero, Rest) = 0
  <2>1. \A x \in Rest : zero[x] = 0
    OBVIOUS
  <2> HIDE DEF zero, Rest
  <2> QED BY <1>1, <2>1, SumZero
<1>6. f[a] \in Nat /\ Sum(f, Rest) \in Nat
  <2>1. \A x \in Rest : f[x] \in Nat
    OBVIOUS
  <2> HIDE DEF Rest
  <2> QED BY <1>1, <2>1, SumType
<1> HIDE DEF Sum, g, Rest, zero
<1>7. Sum(g, S) + f[a] = Sum(f, S) + n
  BY <1>2, <1>3, <1>4, <1>5, <1>6
<1> QED BY <1>7 DEF Sum, g

-----------------------------------------------------------------------------
(* The event log's writer.                                                 *)

WriterType ==
    /\ gate \in Folds \cup {NoOne}
    /\ phase \in [Folds -> {"new", "entered", "hydrated", "sent", "ok", "error"}]
    /\ DOMAIN knownActors \subseteq Rows
    /\ knownActors \in [DOMAIN knownActors -> SUBSET Actors]
    /\ known \in [Folds -> SUBSET Actors]
    /\ updates \in [Folds -> {"none", "underway", "applied", "failed"}]
    /\ count \in [Rows -> Nat]
    /\ actors \in [Rows -> [Actors -> Nat]]
    /\ actorsOverflow \in [Rows -> Nat]
    /\ late \in BOOLEAN

(* One call at a time is past the gate, and has the token.  It has sent no *)
(* update before its phase says so, and its row is cached from the reading *)
(* of the row to the end of the call.                                      *)
GateInv ==
    \A f \in Folds :
      /\ phase[f] \in {"entered", "hydrated", "sent"} <=> gate = f
      /\ phase[f] \in {"new", "entered", "hydrated"} => updates[f] = "none"
      /\ phase[f] \in {"hydrated", "sent"} => RowOf[f] \in DOMAIN knownActors
      /\ phase[f] = "ok" => updates[f] = "applied"

(* While no abandoned update has been applied, no row has too many actors, *)
(* and the call in the gate knows its row: as it is stored before its      *)
(* update, with its own actors after it.  All other rows are cached as     *)
(* they are stored.                                                        *)
Fresh(f) ==
    phase[f] \in {"hydrated", "sent"} =>
      IF updates[f] = "applied" THEN Stored(RowOf[f]) = known[f] \cup Tracked(f)
                                ELSE known[f] = Stored(RowOf[f])

Settled(r) == \A f \in Folds : gate = f /\ RowOf[f] = r => updates[f] # "applied"

ExactInv ==
    ~late =>
      /\ \A r \in Rows : Cardinality(Stored(r)) <= MaxActors
      /\ \A r \in DOMAIN knownActors : Settled(r) => knownActors[r] = Stored(r)
      /\ \A f \in Folds : Fresh(f)

Actorings == [f \in Folds |-> Len(ActorsOf[f])]

CountedInv ==
    \A r \in Rows :
      /\ IsFiniteSet(Applied(r))
      /\ SumFunctionOnSet(actors[r], Actors) + actorsOverflow[r]
           = SumFunctionOnSet(Actorings, Applied(r))

WriterInv == WriterType /\ GateInv /\ ExactInv /\ CountedInv

-----------------------------------------------------------------------------
LEMMA ActorsOfFacts ==
    ASSUME NEW f \in Folds
    PROVE  /\ RowOf[f] \in Rows
           /\ ActorsOf[f] \in Seq(Actors)
           /\ Len(ActorsOf[f]) \in Nat /\ DOMAIN ActorsOf[f] = 1 .. Len(ActorsOf[f])
           /\ \A i \in DOMAIN ActorsOf[f] : ActorsOf[f][i] \in Actors
           /\ ToSet(ActorsOf[f]) = {ActorsOf[f][i] : i \in DOMAIN ActorsOf[f]}
           /\ ToSet(ActorsOf[f]) \subseteq Actors
           /\ IsFiniteSet(ToSet(ActorsOf[f]))
<1>1. RowOf[f] \in Rows /\ ActorsOf[f] \in Seq(Actors)
  BY WriterAssumption
<1>2. Len(ActorsOf[f]) \in Nat /\ DOMAIN ActorsOf[f] = 1 .. Len(ActorsOf[f])
  BY <1>1
<1>3. \A i \in DOMAIN ActorsOf[f] : ActorsOf[f][i] \in Actors
  BY <1>1
<1>4. ToSet(ActorsOf[f]) = {ActorsOf[f][i] : i \in DOMAIN ActorsOf[f]}
  BY DEF ToSet
<1>5. ToSet(ActorsOf[f]) \subseteq Actors
  BY <1>3, <1>4
<1>6. IsFiniteSet(ToSet(ActorsOf[f]))
  BY <1>5, WriterAssumption, FS_Subset
<1> QED BY <1>1, <1>2, <1>3, <1>4, <1>5, <1>6

(* An event has as many actors as it lists.                                *)
LEMMA AllActors ==
    ASSUME NEW f \in Folds
    PROVE  Cardinality(ToSet(ActorsOf[f])) = Len(ActorsOf[f])
<1> DEFINE s == ActorsOf[f]
           n == Len(s)
<1>1. n \in Nat /\ DOMAIN s = 1 .. n /\ ToSet(s) = {s[i] : i \in DOMAIN s}
  BY ActorsOfFacts
<1>2. s \in Bijection(1 .. n, ToSet(s))
  <2>1. \A i, j \in DOMAIN s : s[i] = s[j] => i = j
    BY WriterAssumption DEF IsInjective
  <2>2. s \in [1 .. n -> ToSet(s)]
    <3>1. s \in [1 .. n -> Actors]
      BY ActorsOfFacts
    <3> HIDE DEF n
    <3> QED BY <1>1, <3>1
  <2> HIDE DEF s, n
  <2>3. \A a \in ToSet(s) : \E i \in 1 .. n : s[i] = a
    BY <1>1
  <2> QED BY <1>1, <2>1, <2>2, <2>3 DEF Bijection, Injection, Surjection, IsInjective
<1>3. IsFiniteSet(1 .. n) /\ Cardinality(1 .. n) = n
  BY <1>1, FS_Interval
<1> HIDE DEF s
<1>4. Cardinality(ToSet(s)) = Cardinality(1 .. n)
  BY <1>2, <1>3, FS_Bijection DEF ExistsBijection
<1> QED BY <1>3, <1>4 DEF s

(* No more actors are admitted than there is room for: of the last one the *)
(* model says that fewer than that come before it.                         *)
LEMMA AdmittedFits ==
    ASSUME NEW f \in Folds, Room(f) \in Nat
    PROVE  /\ IsFiniteSet(Admitted(f))
           /\ Cardinality(Admitted(f)) <= Room(f)
           /\ Admitted(f) \subseteq ToSet(ActorsOf[f])
<1> DEFINE n == Len(ActorsOf[f])
           A == Admits(f)
           Before(i) == {j \in Unknown(f) : j < i}
<1>1. n \in Nat /\ Unknown(f) \subseteq 1 .. n /\ A \subseteq Unknown(f)
  BY ActorsOfFacts DEF Unknown, Admits
<1>2. \A T \in SUBSET (1 .. n) : IsFiniteSet(T) /\ Cardinality(T) \in Nat
  <2>1. IsFiniteSet(1 .. n)
    BY <1>1, FS_Interval
  <2>2. \A T \in SUBSET (1 .. n) : IsFiniteSet(T)
    BY <2>1, FS_Subset
  <2> QED BY <2>2, FS_CardinalityType
<1>3. Cardinality(A) <= Room(f)
  <2>1. CASE A = {}
    BY <2>1, FS_EmptySet
  <2>2. CASE A # {}
    <3> DEFINE Back == {n - i : i \in A}
    <3>1. Back \in SUBSET Nat /\ Back # {}
      BY <1>1, <2>2
    <3>2. PICK b \in Back : \A c \in Back : b <= c
      <4> HIDE DEF Back
      <4> QED BY <3>1, NatLeast
    <3>3. PICK m \in A : b = n - m
      BY <3>2
    <3>4. \A i \in A : i <= m
      <4> TAKE i \in A
      <4>1. n - m <= n - i
        BY <3>2, <3>3
      <4>2. i \in Nat /\ m \in Nat
        BY <1>1, <3>3
      <4> HIDE DEF A, n
      <4> QED BY <1>1, <4>1, <4>2
    <3>5. A \ {m} \subseteq Before(m)
      BY <1>1, <3>3, <3>4
    <3>6. Cardinality(Before(m)) < Room(f)
      BY <3>3 DEF Admits
    <3>7. Cardinality(A \ {m}) <= Cardinality(Before(m))
      <4>1. Before(m) \in SUBSET (1 .. n)
        BY <1>1
      <4> HIDE DEF Before, A
      <4> QED BY <1>2, <3>5, <4>1, FS_Subset
    <3>8. Cardinality(A \ {m}) = Cardinality(A) - 1
      <4>1. IsFiniteSet(A)
        BY <1>1, <1>2
      <4> HIDE DEF A
      <4> QED BY <4>1, <3>3, FS_RemoveElement
    <3>9. Cardinality(A) \in Nat /\ Cardinality(Before(m)) \in Nat
      <4>1. A \in SUBSET (1 .. n) /\ Before(m) \in SUBSET (1 .. n)
        BY <1>1
      <4> HIDE DEF A, Before
      <4> QED BY <4>1, <1>2
    <3> HIDE DEF A, Before
    <3> QED BY <3>6, <3>7, <3>8, <3>9
  <2> QED BY <2>1, <2>2
<1>4. IsFiniteSet(Admitted(f)) /\ Cardinality(Admitted(f)) <= Cardinality(A)
  <2> DEFINE g == [i \in A |-> ActorsOf[f][i]]
  <2>1. g \in Surjection(A, Admitted(f))
    BY DEF Admitted, Surjection
  <2>2. IsFiniteSet(A)
    BY <1>1, <1>2
  <2> HIDE DEF g, A
  <2> QED BY <2>1, <2>2, FS_Surjection
<1>5. Admitted(f) \subseteq ToSet(ActorsOf[f])
  BY <1>1, ActorsOfFacts DEF Admitted, Admits, Unknown
<1>6. Cardinality(A) \in Nat /\ Cardinality(Admitted(f)) \in Nat
  BY <1>1, <1>2, <1>4, FS_CardinalityType
<1> HIDE DEF A
<1> QED BY <1>3, <1>4, <1>5, <1>6

(* What an update writes depends on the event and on what its call knows.  *)
LEMMA TrackedKept ==
    ASSUME NEW f \in Folds, known'[f] = known[f]
    PROVE  Tracked(f)' = Tracked(f)
BY DEF Tracked, Admitted, Admits, Unknown, Room

LEMMA StoredKept ==
    ASSUME UNCHANGED actors
    PROVE  \A r : Stored(r)' = Stored(r)
BY DEF Stored

LEMMA WriterTypeStep ==
    ASSUME WriterType, WriterNext \/ UNCHANGED writerVars
    PROVE  WriterType'
<1> USE DEF WriterType
<1>1. CASE UNCHANGED writerVars
  BY <1>1 DEF writerVars, rows
<1>2. ASSUME NEW f \in Folds, WriterStep(f) PROVE WriterType'
  <2>1. CASE Enter(f) \/ NeverEnter(f)
    BY <2>1 DEF Enter, NeverEnter, rows
  <2>2. CASE Hydrate(f)
    <3> DEFINE r == RowOf[f]
    <3>1. r \in Rows /\ Stored(r) \subseteq Actors
      BY ActorsOfFacts DEF Stored
    <3>2. /\ DOMAIN knownActors' \subseteq Rows /\ r \in DOMAIN knownActors'
          /\ knownActors' \in [DOMAIN knownActors' -> SUBSET Actors]
      <4>1. CASE Cached(r)
        BY <2>2, <4>1 DEF Hydrate, Cached
      <4>2. CASE ~Cached(r)
        BY <2>2, <3>1, <4>2 DEF Hydrate, Caching
      <4> QED BY <4>1, <4>2
    <3>3. knownActors'[r] \in SUBSET Actors
      BY <3>2
    <3>4. known' \in [Folds -> SUBSET Actors] /\ phase' \in [Folds -> {"new", "entered", "hydrated", "sent", "ok", "error"}]
      BY <2>2, <3>3 DEF Hydrate
    <3> QED BY <2>2, <3>2, <3>4 DEF Hydrate, rows
  <2>3. CASE HydrateError(f) \/ SendUpdate(f) \/ FailUpdate(f)
    BY <2>3 DEF HydrateError, SendUpdate, FailUpdate, rows
  <2>4. CASE Apply(f)
    <3>1. RowOf[f] \in Rows
      BY ActorsOfFacts
    <3>2. Overflow(f) \in Nat
      BY ActorsOfFacts, FS_Difference, FS_CardinalityType DEF Overflow
    <3>3. actors' \in [Rows -> [Actors -> Nat]]
      BY <2>4, <3>1 DEF Apply
    <3>4. count' \in [Rows -> Nat] /\ actorsOverflow' \in [Rows -> Nat]
      BY <2>4, <3>1, <3>2 DEF Apply
    <3>5. updates' \in [Folds -> {"none", "underway", "applied", "failed"}] /\ late' \in BOOLEAN
      BY <2>4 DEF Apply
    <3> QED BY <2>4, <3>3, <3>4, <3>5 DEF Apply
  <2>5. CASE ReturnOk(f)
    <3>1. Tracked(f) \subseteq Actors
      BY ActorsOfFacts DEF Tracked, Admitted, Admits, Unknown
    <3> QED BY <2>5, <3>1 DEF ReturnOk, rows
  <2>6. CASE ReturnError(f)
    BY <2>6 DEF ReturnError, AfterError, rows
  <2> QED BY <1>2, <2>1, <2>2, <2>3, <2>4, <2>5, <2>6 DEF WriterStep
<1> QED BY <1>1, <1>2 DEF WriterNext

LEMMA GateStep ==
    ASSUME WriterType, GateInv, WriterNext \/ UNCHANGED writerVars
    PROVE  GateInv'
<1>1. CASE UNCHANGED writerVars
  BY <1>1 DEF writerVars, GateInv
<1>2. ASSUME NEW f \in Folds, WriterStep(f) PROVE GateInv'
  <2> USE WriterAssumption DEF WriterType, GateInv
  <2>1. CASE Enter(f)
    BY <2>1 DEF Enter, Idle
  <2>2. CASE NeverEnter(f)
    BY <2>2 DEF NeverEnter
  <2>3. CASE Hydrate(f)
    <3>1. RowOf[f] \in DOMAIN knownActors'
      BY <2>3 DEF Hydrate, Cached, Caching
    <3>2. \A g \in Folds : g # f => gate # g
      BY <2>3 DEF Hydrate
    <3> QED BY <2>3, <3>1, <3>2 DEF Hydrate
  <2>4. CASE HydrateError(f)
    BY <2>4 DEF HydrateError
  <2>5. CASE SendUpdate(f)
    BY <2>5 DEF SendUpdate
  <2>6. CASE Apply(f)
    BY <2>6 DEF Apply
  <2>7. CASE FailUpdate(f)
    BY <2>7 DEF FailUpdate
  <2>8. CASE ReturnOk(f)
    BY <2>8 DEF ReturnOk
  <2>9. CASE ReturnError(f)
    BY <2>9 DEF ReturnError, AfterError
  <2> QED BY <1>2, <2>1, <2>2, <2>3, <2>4, <2>5, <2>6, <2>7, <2>8, <2>9 DEF WriterStep
<1> QED BY <1>1, <1>2 DEF WriterNext

(* The rows that a step does not write keep the cap.                       *)
LEMMA ExactStep ==
    ASSUME WriterType, GateInv, ExactInv, WriterNext \/ UNCHANGED writerVars, ~late'
    PROVE  /\ \A r \in Rows : Cardinality(Stored(r)') <= MaxActors
           /\ \A r \in DOMAIN knownActors' : Settled(r)' => knownActors'[r] = Stored(r)'
           /\ \A f \in Folds : Fresh(f)'
<1>0. ~late
  <2>1. ASSUME NEW f \in Folds, WriterStep(f), late PROVE late'
    BY <2>1 DEF WriterStep, Enter, NeverEnter, Hydrate, HydrateError, SendUpdate, Apply,
                FailUpdate, ReturnOk, ReturnError, WriterType
  <2> QED BY <2>1 DEF WriterNext, writerVars
<1>1. /\ \A r \in Rows : Cardinality(Stored(r)) <= MaxActors
      /\ \A r \in DOMAIN knownActors : Settled(r) => knownActors[r] = Stored(r)
      /\ \A f \in Folds : Fresh(f)
  BY <1>0 DEF ExactInv
<1>2. CASE UNCHANGED writerVars
  <2>1. \A r \in Rows : Stored(r)' = Stored(r)
    BY <1>2, StoredKept DEF writerVars, rows
  <2>2. \A f \in Folds : Tracked(f)' = Tracked(f)
    BY <1>2, TrackedKept DEF writerVars
  <2>3. \A f \in Folds : RowOf[f] \in Rows
    BY ActorsOfFacts
  <2>4. \A r : Settled(r)' = Settled(r)
    BY <1>2 DEF writerVars, Settled
  <2> QED BY <1>1, <1>2, <2>1, <2>2, <2>3, <2>4 DEF writerVars, Fresh, WriterType
<1>3. ASSUME NEW f \in Folds, WriterStep(f)
      PROVE  /\ \A r \in Rows : Cardinality(Stored(r)') <= MaxActors
             /\ \A r \in DOMAIN knownActors' : Settled(r)' => knownActors'[r] = Stored(r)'
             /\ \A g \in Folds : Fresh(g)'
  <2> DEFINE row == RowOf[f]
  <2>0. row \in Rows
    BY ActorsOfFacts
  <2>1. CASE Enter(f) \/ NeverEnter(f) \/ HydrateError(f) \/ SendUpdate(f) \/ FailUpdate(f)
    <3>1. \A r : Stored(r)' = Stored(r)
      BY <2>1, StoredKept DEF Enter, NeverEnter, HydrateError, SendUpdate, FailUpdate, rows
    <3>2. UNCHANGED <<known, knownActors>>
      BY <2>1 DEF Enter, NeverEnter, HydrateError, SendUpdate, FailUpdate
    <3>3. \A g \in Folds : Tracked(g)' = Tracked(g)
      BY <3>2, TrackedKept
    <3>4. \A g \in Folds : updates'[g] = "applied" <=> updates[g] = "applied"
      BY <2>1 DEF Enter, NeverEnter, HydrateError, SendUpdate, FailUpdate, WriterType, GateInv
    <3>5. \A g \in Folds : phase'[g] \in {"hydrated", "sent"} => phase[g] \in {"hydrated", "sent"}
      BY <2>1 DEF Enter, NeverEnter, HydrateError, SendUpdate, FailUpdate, WriterType
    <3>6. \A g \in Folds : gate = g => gate' = g \/ updates[g] # "applied"
      BY <2>1, WriterAssumption
         DEF Enter, Idle, NeverEnter, HydrateError, SendUpdate, FailUpdate, WriterType,
             GateInv
    <3>7. \A r : Settled(r)' => Settled(r)
      BY <3>4, <3>6 DEF Settled
    <3>8. \A g \in Folds : Fresh(g)'
      BY <1>1, <3>1, <3>2, <3>3, <3>4, <3>5 DEF Fresh
    <3> QED BY <1>1, <3>1, <3>2, <3>7, <3>8
  <2>2. CASE Hydrate(f)
    <3>1. \A r : Stored(r)' = Stored(r)
      BY <2>2, StoredKept DEF Hydrate, rows
    <3>2. gate = f /\ gate' = f /\ updates' = updates /\ updates[f] = "none"
      BY <2>2 DEF Hydrate, GateInv
    <3>3. \A r : Settled(r) /\ Settled(r)'
      BY <3>2 DEF Settled
    <3>4. \A r \in DOMAIN knownActors' : knownActors'[r] = Stored(r)
      BY <1>1, <2>2, <3>3 DEF Hydrate, Cached, Caching
    <3>5. known'[f] = knownActors'[row] /\ row \in DOMAIN knownActors'
      BY <2>2 DEF Hydrate, Cached, Caching, WriterType
    <3>6. \A g \in Folds : g # f => phase'[g] \notin {"hydrated", "sent"}
      BY <2>2, <3>2 DEF Hydrate, GateInv, WriterType
    <3>7. Fresh(f)'
      BY <3>1, <3>2, <3>4, <3>5 DEF Fresh
    <3>8. \A g \in Folds : Fresh(g)'
      BY <3>6, <3>7 DEF Fresh
    <3> QED BY <1>1, <3>1, <3>4, <3>8
  <2>3. CASE Apply(f)
    <3>1. phase[f] = "sent" /\ gate = f /\ updates[f] # "applied" /\ updates'[f] = "applied"
      BY <2>3, <1>0 DEF Apply, GateInv, WriterType
    <3>2. known[f] = Stored(row)
      BY <1>1, <3>1 DEF Fresh
    <3>3. IsFiniteSet(known[f]) /\ Cardinality(known[f]) \in Nat /\ Room(f) \in Nat
      <4>1. IsFiniteSet(known[f])
        BY WriterAssumption, FS_Subset DEF WriterType
      <4>2. Cardinality(known[f]) \in Nat /\ Cardinality(known[f]) <= MaxActors
        BY <1>1, <2>0, <3>2, <4>1, FS_CardinalityType
      <4> QED BY <4>1, <4>2, WriterAssumption DEF Room
    <3>4. Stored(row)' = known[f] \cup Tracked(f)
      <4>1. \A a \in Actors : actors'[row][a] = actors[row][a] + (IF a \in Tracked(f) THEN 1 ELSE 0)
        BY <2>0, <2>3 DEF Apply, WriterType
      <4>2. \A a \in Actors : actors[row][a] \in Nat
        BY <2>0 DEF WriterType
      <4>3. \A a \in Actors : actors'[row][a] > 0 <=> actors[row][a] > 0 \/ a \in Tracked(f)
        BY <4>1, <4>2
      <4>4. Tracked(f) \subseteq Actors
        BY ActorsOfFacts DEF Tracked, Admitted, Admits, Unknown
      <4> QED BY <3>2, <4>3, <4>4 DEF Stored
    <3>5. known[f] \cup Tracked(f) = known[f] \cup Admitted(f)
      BY DEF Tracked
    <3>6. Cardinality(Stored(row)') <= MaxActors
      <4> DEFINE A == Admitted(f)
                 K == known[f]
      <4>1. IsFiniteSet(A) /\ Cardinality(A) <= MaxActors - Cardinality(K)
        BY <3>3, AdmittedFits DEF Room
      <4>2. IsFiniteSet(K) /\ IsFiniteSet(K \cap A) /\ Cardinality(K \cap A) \in Nat
        BY <3>3, FS_Intersection, FS_CardinalityType
      <4>3. Cardinality(A) \in Nat /\ Cardinality(K) \in Nat
        BY <4>1, <4>2, FS_CardinalityType
      <4>4. Cardinality(K \cup A) = Cardinality(K) + Cardinality(A) - Cardinality(K \cap A)
        BY <4>1, <4>2, FS_Union
      <4>5. Cardinality(K \cup A) <= MaxActors
        <5> HIDE DEF K, A
        <5> QED BY <4>1, <4>2, <4>3, <4>4, WriterAssumption
      <4> QED BY <3>4, <3>5, <4>5
    <3>7. \A r \in Rows : r # row => Stored(r)' = Stored(r)
      BY <2>3 DEF Apply, Stored, WriterType
    <3>8. \A r \in DOMAIN knownActors : Settled(r)' => r # row /\ Settled(r)
      BY <2>3, <3>1 DEF Apply, Settled, WriterType
    <3>9. \A g \in Folds : g # f => phase'[g] \notin {"hydrated", "sent"}
      BY <2>3, <3>1 DEF Apply, GateInv, WriterType
    <3>10. Fresh(f)'
      <4>1. known' = known /\ Tracked(f)' = Tracked(f)
        BY <2>3, TrackedKept DEF Apply
      <4> QED BY <3>1, <3>4, <4>1 DEF Fresh
    <3>11. \A g \in Folds : Fresh(g)'
      BY <3>9, <3>10 DEF Fresh
    <3>12. \A r \in DOMAIN knownActors' : Settled(r)' => knownActors'[r] = Stored(r)'
      <4>1. knownActors' = knownActors /\ DOMAIN knownActors \subseteq Rows
        BY <2>3 DEF Apply, WriterType
      <4> QED BY <1>1, <3>7, <3>8, <4>1
    <3>13. \A r \in Rows : Cardinality(Stored(r)') <= MaxActors
      BY <1>1, <3>6, <3>7
    <3> QED BY <3>11, <3>12, <3>13
  <2>4. CASE ReturnOk(f)
    <3>1. \A r : Stored(r)' = Stored(r)
      BY <2>4, StoredKept DEF ReturnOk, rows
    <3>2. gate = f /\ Stored(row) = known[f] \cup Tracked(f) /\ row \in DOMAIN knownActors
      BY <1>1, <2>4 DEF ReturnOk, GateInv, Fresh
    <3>3. \A r \in DOMAIN knownActors : r # row => Settled(r)
      BY <3>2 DEF Settled
    <3>4. \A r \in DOMAIN knownActors' : knownActors'[r] = Stored(r)
      BY <1>1, <2>4, <3>2, <3>3 DEF ReturnOk, WriterType
    <3>5. \A g \in Folds : phase'[g] \notin {"hydrated", "sent"}
      BY <2>4, <3>2 DEF ReturnOk, GateInv, WriterType
    <3> QED BY <1>1, <3>1, <3>4, <3>5 DEF Fresh
  <2>5. CASE ReturnError(f)
    <3>1. \A r : Stored(r)' = Stored(r)
      BY <2>5, StoredKept DEF ReturnError, rows
    <3>2. gate = f
      BY <2>5 DEF ReturnError, GateInv
    <3>3. \A r \in DOMAIN knownActors' : r \in DOMAIN knownActors /\ Settled(r) /\ knownActors'[r] = knownActors[r]
      BY <2>5, <3>2 DEF ReturnError, AfterError, Settled
    <3>4. \A g \in Folds : phase'[g] \notin {"hydrated", "sent"}
      BY <2>5, <3>2 DEF ReturnError, GateInv, WriterType
    <3> QED BY <1>1, <3>1, <3>3, <3>4 DEF Fresh
  <2> QED BY <1>3, <2>1, <2>2, <2>3, <2>4, <2>5 DEF WriterStep
<1> QED BY <1>2, <1>3 DEF WriterNext

(* An update adds to its row as many occurrences as its event has actors,  *)
(* and the row's call becomes one of those that were applied.              *)
LEMMA CountedStep ==
    ASSUME WriterType, GateInv, CountedInv, WriterNext \/ UNCHANGED writerVars
    PROVE  CountedInv'
<1>1. ASSUME UNCHANGED <<actors, actorsOverflow>>, 
             \A f \in Folds : updates'[f] = "applied" <=> updates[f] = "applied"
      PROVE  CountedInv'
  <2>1. \A r : Applied(r)' = Applied(r)
    BY <1>1 DEF Applied
  <2> QED BY <1>1, <2>1 DEF CountedInv
<1>2. CASE UNCHANGED writerVars
  BY <1>1, <1>2 DEF writerVars, rows
<1>3. ASSUME NEW f \in Folds, Apply(f) PROVE CountedInv'
  <2> DEFINE row == RowOf[f]
             T == Tracked(f)
             All == ToSet(ActorsOf[f])
             ind == [a \in Actors |-> IF a \in T THEN 1 ELSE 0]
             Sum(g, S) == SumFunctionOnSet(g, S)
  <2>1. row \in Rows /\ IsFiniteSet(Actors)
    BY ActorsOfFacts, WriterAssumption
  <2>2. T \subseteq All /\ All \subseteq Actors /\ IsFiniteSet(All)
    BY ActorsOfFacts DEF Tracked, Admitted, Admits, Unknown
  <2>3. Sum(actors'[row], Actors) = Sum(actors[row], Actors) + Cardinality(T)
    <3>1. Sum(ind, Actors) = Cardinality(T)
      BY <2>1, <2>2, SumIndicator
    <3>2. \A a \in Actors : /\ actors[row][a] \in Nat /\ ind[a] \in Nat
                            /\ actors'[row][a] = actors[row][a] + ind[a]
      BY <1>3, <2>1 DEF Apply, WriterType
    <3> HIDE DEF ind
    <3>3. Sum(actors'[row], Actors) = Sum(actors[row], Actors) + Sum(ind, Actors)
      BY <2>1, <3>2, SumAdd
    <3> QED BY <3>1, <3>3
  <2>4. Cardinality(T) + Overflow(f) = Len(ActorsOf[f])
    <3>1. Cardinality(All) = Len(ActorsOf[f]) /\ All \cap T = T
      BY <2>2, AllActors
    <3>2. Overflow(f) = Cardinality(All) - Cardinality(All \cap T)
      BY <2>2, FS_Difference DEF Overflow
    <3>3. Cardinality(T) \in Nat /\ Cardinality(All) \in Nat
      BY <2>2, FS_Subset, FS_CardinalityType
    <3>4. Overflow(f) = Len(ActorsOf[f]) - Cardinality(T)
      BY <3>1, <3>2
    <3>5. Len(ActorsOf[f]) \in Nat
      BY ActorsOfFacts
    <3> HIDE DEF T, All
    <3> QED BY <3>3, <3>4, <3>5
  <2>5. actorsOverflow'[row] = actorsOverflow[row] + Overflow(f)
    BY <1>3, <2>1 DEF Apply, WriterType
  <2>6. f \notin Applied(row) /\ Applied(row)' = Applied(row) \cup {f}
    BY <1>3 DEF Apply, Applied, WriterType
  <2>7. IsFiniteSet(Applied(row)') /\ Sum(Actorings, Applied(row)') = Len(ActorsOf[f]) + Sum(Actorings, Applied(row))
    <3>1. IsFiniteSet(Applied(row)')
      BY <2>1, <2>6, FS_AddElement DEF CountedInv
    <3>2. \A g \in Applied(row)' : Actorings[g] \in Nat
      BY ActorsOfFacts DEF Applied, Actorings
    <3>3. f \in Applied(row)' /\ Applied(row)' \ {f} = Applied(row)
      BY <2>6
    <3>4. Actorings[f] = Len(ActorsOf[f])
      BY DEF Actorings
    <3>5. Sum(Actorings, Applied(row)') = Actorings[f] + Sum(Actorings, Applied(row)' \ {f})
      BY <3>1, <3>2, <3>3, SumRemove
    <3> QED BY <3>1, <3>3, <3>4, <3>5
  <2>8. Sum(actors[row], Actors) + actorsOverflow[row] = Sum(Actorings, Applied(row))
    BY <2>1 DEF CountedInv
  <2>9. /\ Sum(actors[row], Actors) \in Nat /\ actorsOverflow[row] \in Nat
        /\ Cardinality(T) \in Nat /\ Len(ActorsOf[f]) \in Nat
    <3>1. \A a \in Actors : actors[row][a] \in Nat
      BY <2>1 DEF WriterType
    <3>2. Sum(actors[row], Actors) \in Nat
      BY <2>1, <3>1, SumType
    <3>3. actorsOverflow[row] \in Nat /\ Len(ActorsOf[f]) \in Nat
      BY <2>1, ActorsOfFacts DEF WriterType
    <3>4. Cardinality(T) \in Nat
      BY <2>2, FS_Subset, FS_CardinalityType
    <3> QED BY <3>2, <3>3, <3>4
  <2>10. Overflow(f) \in Nat
    BY ActorsOfFacts, FS_Difference, FS_CardinalityType DEF Overflow
  <2>11. Sum(actors'[row], Actors) + actorsOverflow'[row] = Sum(Actorings, Applied(row)')
    <3> HIDE DEF Sum, T, row
    <3> QED BY <2>3, <2>4, <2>5, <2>7, <2>8, <2>9, <2>10
  <2>12. \A r \in Rows : r # row => /\ actors'[r] = actors[r] /\ actorsOverflow'[r] = actorsOverflow[r]
                                    /\ Applied(r)' = Applied(r)
    BY <1>3 DEF Apply, Applied, WriterType
  <2> HIDE DEF row
  <2> QED BY <2>7, <2>11, <2>12 DEF CountedInv
<1>4. ASSUME NEW f \in Folds, WriterStep(f) PROVE CountedInv'
  <2>1. CASE ~Apply(f)
    <3>1. UNCHANGED <<actors, actorsOverflow>>
      BY <1>4, <2>1 DEF WriterStep, Enter, NeverEnter, Hydrate, HydrateError, SendUpdate,
            FailUpdate, ReturnOk, ReturnError, rows
    <3>2. \A g \in Folds : updates'[g] = "applied" <=> updates[g] = "applied"
      BY <1>4, <2>1 DEF WriterStep, Enter, NeverEnter, Hydrate, HydrateError, SendUpdate,
            FailUpdate, ReturnOk, ReturnError, WriterType, GateInv
    <3> QED BY <1>1, <3>1, <3>2
  <2> QED BY <1>3, <2>1
<1> QED BY <1>2, <1>4 DEF WriterNext

LEMMA WriterInitInv == WriterInit => WriterInv
<1> SUFFICES ASSUME WriterInit PROVE WriterInv
  OBVIOUS
<1>1. \A r \in Rows : Stored(r) = {} /\ Applied(r) = {}
  BY DEF WriterInit, Stored, Applied
<1>2. WriterType /\ GateInv
  BY WriterAssumption DEF WriterInit, WriterType, GateInv
<1>3. ExactInv
  <2>1. \A r \in Rows : Cardinality(Stored(r)) <= MaxActors
    <3>1. Cardinality({}) = 0 /\ MaxActors \in Nat
      BY FS_EmptySet, WriterAssumption
    <3> TAKE r \in Rows
    <3>2. Stored(r) = {}
      BY <1>1
    <3> QED BY <3>1, <3>2
  <2>2. DOMAIN knownActors = {} /\ \A f \in Folds : phase[f] = "new"
    BY DEF WriterInit
  <2> QED BY <2>1, <2>2 DEF ExactInv, Fresh
<1>4. CountedInv
  <2> SUFFICES ASSUME NEW r \in Rows
               PROVE  /\ IsFiniteSet(Applied(r))
                      /\ SumFunctionOnSet(actors[r], Actors) + actorsOverflow[r]
                           = SumFunctionOnSet(Actorings, Applied(r))
    BY DEF CountedInv
  <2>1. \A a \in Actors : actors[r][a] = 0
    BY DEF WriterInit
  <2>2. SumFunctionOnSet(actors[r], Actors) = 0
    BY <2>1, WriterAssumption, SumZero
  <2>3. SumFunctionOnSet(Actorings, {}) = 0
    BY FS_EmptySet, SumZero
  <2>4. actorsOverflow[r] = 0
    BY DEF WriterInit
  <2> QED BY <1>1, <2>2, <2>3, <2>4, FS_EmptySet
<1> QED BY <1>2, <1>3, <1>4 DEF WriterInv

LEMMA WriterInvStep == WriterInv /\ [WriterNext]_writerVars => WriterInv'
<1> SUFFICES ASSUME WriterInv, WriterNext \/ UNCHANGED writerVars PROVE WriterInv'
  OBVIOUS
<1>1. WriterType' /\ GateInv' /\ CountedInv'
  BY WriterTypeStep, GateStep, CountedStep DEF WriterInv
<1>2. ExactInv'
  BY ExactStep DEF WriterInv, ExactInv
<1> QED BY <1>1, <1>2 DEF WriterInv

LEMMA WriterInductive == WriterSpec => []WriterInv
BY WriterInitInv, WriterInvStep, PTL DEF WriterSpec

(* No row has more than MaxActors actors, however many calls there are and *)
(* however they fail, unless an update is applied after its call gave up   *)
(* (writer.go, Fold: the room is decided under the gate, from a cache).    *)
THEOREM ActorsStayCapped == WriterSpec => []ActorCapInTime
<1>1. WriterInv => ActorCapInTime
  BY DEF WriterInv, ExactInv, ActorCapInTime
<1> QED BY <1>1, WriterInductive, PTL

(* Every call that has returned without an error has been applied, every   *)
(* actor of an applied call is counted once, for itself or as overflow,    *)
(* and between calls the cache is what is stored.                          *)
THEOREM RowsStayExact == WriterSpec => []RowsAreExact
<1>1. WriterInv => RowsAreExact
  <2> SUFFICES ASSUME WriterInv PROVE RowsAreExact
    OBVIOUS
  <2>1. \A f \in Folds : phase[f] = "ok" => f \in Applied(RowOf[f])
    BY DEF WriterInv, GateInv, Applied
  <2>2. \A r \in Rows : SumFunction(actors[r]) + actorsOverflow[r]
                          = SumFunctionOnSet([f \in Folds |-> Len(ActorsOf[f])], Applied(r))
    BY DEF WriterInv, CountedInv, WriterType, SumFunction, Actorings
  <2>3. CacheExact
    <3> SUFFICES ASSUME gate = NoOne, ~late, NEW r \in DOMAIN knownActors
                 PROVE  knownActors[r] = Stored(r)
      BY DEF CacheExact
    <3>1. Settled(r)
      BY WriterAssumption DEF Settled
    <3> QED BY <3>1 DEF WriterInv, ExactInv
  <2> QED BY <2>1, <2>2, <2>3 DEF RowsAreExact, EveryActorCounted
<1> QED BY <1>1, WriterInductive, PTL

-----------------------------------------------------------------------------
(* The usage reporter.                                                     *)

ReporterType ==
    /\ calls \in [Keys -> Nat]
    /\ pending \in [Keys -> Nat] /\ overflow \in Nat
    /\ wake \in BOOLEAN /\ closed \in BOOLEAN /\ final \in BOOLEAN
    /\ worker \in {"select", "flush", "folding", "done"}
    /\ batch \in [rows : [Keys -> Nat], overflow : Nat]
    /\ admitted \in Nat /\ finished \in Nat

(* The worker holds rows only while it folds them, and its last flush      *)
(* begins when nothing is admitted any more.                               *)
WorkerInv ==
    /\ worker # "folding" => InBatch = 0
    /\ final => closed /\ worker # "select"
    /\ worker = "done" => final
    /\ final /\ worker \in {"folding", "done"} => pending = Empty /\ overflow = 0

ConservedInv ==
    /\ Size <= MaxTracked
    /\ admitted = SumFunctionOnSet(pending, Keys) + overflow + InBatch + finished

ReporterInv == ReporterType /\ WorkerInv /\ ConservedInv

LEMMA InBatchSum ==
    ASSUME ReporterType
    PROVE  /\ InBatch = SumFunctionOnSet(batch.rows, Keys) + batch.overflow
           /\ SumFunctionOnSet(batch.rows, Keys) \in Nat /\ InBatch \in Nat
           /\ SumFunctionOnSet(pending, Keys) \in Nat
<1>1. batch.rows \in [Keys -> Nat] /\ batch.overflow \in Nat /\ pending \in [Keys -> Nat]
  BY DEF ReporterType
<1>2. InBatch = SumFunctionOnSet(batch.rows, Keys) + batch.overflow
  BY <1>1 DEF InBatch, SumFunction
<1>3. SumFunctionOnSet(batch.rows, Keys) \in Nat /\ SumFunctionOnSet(pending, Keys) \in Nat
  <2>1. (\A k \in Keys : batch.rows[k] \in Nat) /\ (\A k \in Keys : pending[k] \in Nat)
    BY <1>1
  <2> QED BY <2>1, ReporterAssumption, SumType
<1> QED BY <1>1, <1>2, <1>3

LEMMA EmptySum ==
    Empty \in [Keys -> Nat] /\ SumFunctionOnSet(Empty, Keys) = 0
<1>1. \A k \in Keys : Empty[k] = 0
  BY DEF Empty
<1>2. SumFunctionOnSet(Empty, Keys) = 0
  BY <1>1, ReporterAssumption, SumZero
<1> QED BY <1>2 DEF Empty

(* A batch without anything in it.                                         *)
LEMMA NothingInBatch ==
    ASSUME ReporterType, batch' = [rows |-> Empty, overflow |-> 0]
    PROVE  InBatch' = 0 /\ batch' \in [rows : [Keys -> Nat], overflow : Nat]
<1>1. batch'.rows = Empty /\ batch'.overflow = 0 /\ DOMAIN Empty = Keys
  BY DEF Empty
<1>2. InBatch' = SumFunctionOnSet(Empty, Keys) + 0
  BY <1>1 DEF InBatch, SumFunction
<1> QED BY <1>2, EmptySum

(* Add puts a call into one place, and makes no row too many.              *)
LEMMA AddStep ==
    ASSUME ReporterInv, NEW k \in Keys, Add(k)
    PROVE  ReporterInv'
<1>1. ReporterType /\ WorkerInv /\ ConservedInv /\ InBatch' = InBatch
  BY DEF ReporterInv, Add, InBatch
<1>2. CASE Ignored
  BY <1>1, <1>2
     DEF Add, Ignored, accumulator, ReporterInv, ReporterType, WorkerInv, ConservedInv, Size,
         InRows
<1>3. CASE ~Ignored
  <2>1. ~closed /\ ~final /\ Count(k) /\ admitted' = admitted + 1
    BY <1>1, <1>3 DEF Ignored, Add, WorkerInv
  <2>2. pending \in [Keys -> Nat] /\ overflow \in Nat
    BY <1>1 DEF ReporterType
  <2>3. IsFiniteSet(InRows) /\ Size \in Nat
    BY ReporterAssumption, FS_Subset, FS_CardinalityType DEF InRows, Size
  <2>4. /\ pending' \in [Keys -> Nat] /\ overflow' \in Nat /\ Size' <= MaxTracked
        /\ SumFunctionOnSet(pending', Keys) + overflow' = SumFunctionOnSet(pending, Keys) + overflow + 1
    <3>0. SumFunctionOnSet(pending, Keys) \in Nat
      BY <1>1, InBatchSum
    <3>1. CASE (k \in InRows \/ ~Full) /\ pending' = [pending EXCEPT ![k] = @ + 1] /\ UNCHANGED overflow
      <4>1. pending[k] \in Nat /\ pending[k] + 1 \in Nat
        BY <2>2
      <4>2. pending' \in [Keys -> Nat]
        BY <2>2, <3>1, <4>1
      <4>3. SumFunctionOnSet(pending', Keys) + pending[k] = SumFunctionOnSet(pending, Keys) + (pending[k] + 1)
        BY <2>2, <3>1, <4>1, ReporterAssumption, SumExcept
      <4>4. SumFunctionOnSet(pending', Keys) \in Nat
        <5>1. \A x \in Keys : pending'[x] \in Nat
          BY <4>2
        <5> QED BY <5>1, ReporterAssumption, SumType
      <4>5. SumFunctionOnSet(pending', Keys) = SumFunctionOnSet(pending, Keys) + 1
        BY <3>0, <4>1, <4>3, <4>4
      <4>6. InRows' = InRows \cup {k}
        BY <2>2, <3>1 DEF InRows
      <4>7. Size' = IF k \in InRows THEN Size ELSE Size + 1
        BY <2>3, <4>6, FS_AddElement DEF Size
      <4>8. Size' <= MaxTracked
        BY <1>1, <2>3, <3>1, <4>7, ReporterAssumption DEF Full, ConservedInv
      <4> QED BY <2>2, <3>0, <3>1, <4>2, <4>5, <4>8
    <3>2. CASE overflow' = overflow + 1 /\ UNCHANGED pending
      BY <1>1, <2>2, <3>0, <3>2 DEF ConservedInv, Size, InRows
    <3> QED BY <2>1, <3>1, <3>2 DEF Count
  <2>5. admitted' = SumFunctionOnSet(pending', Keys) + overflow' + InBatch' + finished'
    <3>1. finished' = finished /\ finished \in Nat /\ admitted \in Nat
      BY <1>1 DEF Add, ReporterType
    <3>2. InBatch \in Nat /\ SumFunctionOnSet(pending, Keys) \in Nat
      BY <1>1, InBatchSum
    <3>3. SumFunctionOnSet(pending', Keys) \in Nat
      <4>1. \A x \in Keys : pending'[x] \in Nat
        BY <2>4
      <4> QED BY <4>1, ReporterAssumption, SumType
    <3>4. admitted = SumFunctionOnSet(pending, Keys) + overflow + InBatch + finished
      BY <1>1 DEF ConservedInv
    <3> QED BY <1>1, <2>1, <2>2, <2>4, <3>1, <3>2, <3>3, <3>4
  <2>6. ReporterType'
    <3>1. calls' \in [Keys -> Nat]
      <4>1. calls \in [Keys -> Nat] /\ calls' = [calls EXCEPT ![k] = @ + 1]
        BY <1>1 DEF Add, ReporterType
      <4>2. calls[k] + 1 \in Nat
        BY <4>1
      <4> QED BY <4>1, <4>2
    <3>2. admitted' \in Nat
      BY <1>1, <2>1 DEF ReporterType
    <3>3. wake' = TRUE /\ UNCHANGED <<timer, closed, worker, final, batch, finished>>
      BY <1>3 DEF Add, Ignored
    <3> QED BY <1>1, <2>4, <3>1, <3>2, <3>3 DEF ReporterType
  <2>7. WorkerInv'
    BY <1>1, <2>1 DEF Add, WorkerInv
  <2> QED BY <2>4, <2>5, <2>6, <2>7 DEF ReporterInv, ConservedInv
<1> QED BY <1>2, <1>3

(* Drain moves everything from the accumulator into the batch.             *)
LEMMA DrainStep ==
    ASSUME ReporterInv, Drain
    PROVE  ReporterInv'
<1>1. ReporterType /\ WorkerInv /\ ConservedInv /\ InBatch = 0
  BY DEF ReporterInv, WorkerInv, Drain
<1>2. batch'.rows = pending /\ batch'.overflow = overflow /\ pending' = Empty /\ overflow' = 0
  BY DEF Drain, OverflowAfterDrain
<1>3. InBatch' = SumFunctionOnSet(pending, Keys) + overflow
  BY <1>1, <1>2 DEF InBatch, SumFunction, ReporterType
<1>4. InRows' = {} /\ Size' = 0
  BY <1>2, FS_EmptySet DEF InRows, Size, Empty
<1>5. SumFunctionOnSet(pending', Keys) = 0
  BY <1>2, EmptySum
<1>6. /\ admitted' = admitted /\ finished' = finished /\ admitted \in Nat /\ finished \in Nat
      /\ overflow \in Nat /\ SumFunctionOnSet(pending, Keys) \in Nat
  BY <1>1, InBatchSum DEF Drain, ReporterType
<1>7. admitted = SumFunctionOnSet(pending, Keys) + overflow + InBatch + finished
  BY <1>1 DEF ConservedInv
<1>8. admitted' = SumFunctionOnSet(pending', Keys) + overflow' + InBatch' + finished'
  BY <1>1, <1>2, <1>3, <1>5, <1>6, <1>7
<1>9. ReporterType'
  BY <1>1, <1>2, EmptySum DEF Drain, ReporterType
<1>10. WorkerInv'
  BY <1>1, <1>2 DEF Drain, WorkerInv
<1> QED BY <1>4, <1>8, <1>9, <1>10, ReporterAssumption DEF ReporterInv, ConservedInv

(* A row that is folded has left the batch, ...                            *)
LEMMA FoldStep ==
    ASSUME ReporterInv, Fold
    PROVE  ReporterInv'
<1>1. ReporterType /\ WorkerInv /\ ConservedInv
  BY DEF ReporterInv
<1>2. /\ batch.rows \in [Keys -> Nat] /\ batch.overflow \in Nat /\ finished \in Nat
      /\ SumFunctionOnSet(batch.rows, Keys) \in Nat
      /\ InBatch = SumFunctionOnSet(batch.rows, Keys) + batch.overflow
  BY <1>1, InBatchSum DEF ReporterType
<1>3. /\ ReporterType' /\ InBatch' \in Nat
      /\ InBatch' + finished' = InBatch + finished
  <2>1. ASSUME NEW k \in Keys, finished' = finished + batch.rows[k], batch' = [batch EXCEPT !.rows[k] = 0]
        PROVE  /\ ReporterType' /\ InBatch' \in Nat
               /\ InBatch' + finished' = InBatch + finished
    <3> DEFINE n == batch.rows[k]
               new == [batch.rows EXCEPT ![k] = 0]
    <3>1. batch'.rows = new /\ batch'.overflow = batch.overflow /\ batch' \in [rows : [Keys -> Nat], overflow : Nat]
      BY <1>1, <2>1 DEF ReporterType
    <3>2. n \in Nat /\ new \in [Keys -> Nat]
      BY <1>2
    <3>3. ReporterType'
      BY <1>1, <2>1, <3>1, <3>2 DEF Fold, accumulator, ReporterType
    <3>4. SumFunctionOnSet(new, Keys) + n = SumFunctionOnSet(batch.rows, Keys) + 0
      BY <1>2, ReporterAssumption, SumExcept
    <3>5. SumFunctionOnSet(new, Keys) \in Nat
      <4>1. \A x \in Keys : new[x] \in Nat
        BY <3>2
      <4> HIDE DEF new
      <4> QED BY <4>1, ReporterAssumption, SumType
    <3>6. InBatch' = SumFunctionOnSet(new, Keys) + batch.overflow
      BY <3>1, <3>2 DEF InBatch, SumFunction
    <3>7. finished' = finished + n
      BY <2>1
    <3> HIDE DEF n, new
    <3> QED BY <1>2, <3>2, <3>3, <3>4, <3>5, <3>6, <3>7
  <2>2. ASSUME finished' = finished + batch.overflow, batch' = [batch EXCEPT !.overflow = 0]
        PROVE  /\ ReporterType' /\ InBatch' \in Nat
               /\ InBatch' + finished' = InBatch + finished
    <3>1. batch'.rows = batch.rows /\ batch'.overflow = 0 /\ batch' \in [rows : [Keys -> Nat], overflow : Nat]
      BY <1>1, <2>2 DEF ReporterType
    <3>2. InBatch' = SumFunctionOnSet(batch.rows, Keys) + 0
      BY <1>2, <3>1 DEF InBatch, SumFunction
    <3>3. ReporterType'
      BY <1>1, <1>2, <2>2, <3>1 DEF Fold, accumulator, ReporterType
    <3> QED BY <1>2, <2>2, <3>2, <3>3
  <2> QED BY <2>1, <2>2 DEF Fold
<1>4. /\ worker = "folding" /\ UNCHANGED <<pending, overflow, closed, worker, final, admitted>>
  BY DEF Fold, accumulator
<1>5. admitted' = SumFunctionOnSet(pending', Keys) + overflow' + InBatch' + finished'
  <2>1. finished' \in Nat /\ InBatch \in Nat /\ SumFunctionOnSet(pending, Keys) \in Nat /\ overflow \in Nat
    BY <1>1, <1>3, InBatchSum DEF ReporterType
  <2>2. admitted = SumFunctionOnSet(pending, Keys) + overflow + InBatch + finished
    BY <1>1 DEF ConservedInv
  <2>3. InBatch' + finished' = InBatch + finished /\ InBatch' \in Nat /\ finished \in Nat
    BY <1>2, <1>3
  <2>4. admitted' = admitted /\ SumFunctionOnSet(pending', Keys) = SumFunctionOnSet(pending, Keys) /\ overflow' = overflow
    BY <1>4
  <2> DEFINE held == SumFunctionOnSet(pending, Keys)
  <2>5. held \in Nat /\ held + overflow + InBatch' + finished' = held + overflow + InBatch + finished
    <3> HIDE DEF held
    <3>1. held \in Nat
      BY <2>1 DEF held
    <3>2. finished' \in Nat /\ finished \in Nat /\ InBatch \in Nat /\ InBatch' \in Nat /\ overflow \in Nat
      BY <2>1, <2>3
    <3>3. InBatch' + finished' = InBatch + finished
      BY <2>3
    <3>4. PICK a, b, c, d, h, o \in Nat :
            a = InBatch' /\ b = finished' /\ c = InBatch /\ d = finished /\ h = held /\ o = overflow
      BY <3>1, <3>2
    <3>5. a + b = c + d
      BY <3>3, <3>4
    <3>6. h + o + a + b = h + o + c + d
      BY <3>5
    <3> QED BY <3>4, <3>6
  <2> QED BY <2>2, <2>4, <2>5
<1>6. Size' = Size
  BY <1>4 DEF Size, InRows
<1>7. WorkerInv'
  BY <1>1, <1>4 DEF WorkerInv
<1>8. Size' <= MaxTracked
  BY <1>1, <1>6 DEF ConservedInv
<1> QED BY <1>3, <1>5, <1>7, <1>8 DEF ReporterInv, ConservedInv

(* ... and so has the rest of a batch that is given up.                    *)
LEMMA GiveUpStep ==
    ASSUME ReporterInv, GiveUp
    PROVE  ReporterInv'
<1>1. ReporterType /\ WorkerInv /\ ConservedInv
  BY DEF ReporterInv
<1>2. /\ worker = "folding" /\ UNCHANGED <<pending, overflow, closed, worker, final, admitted>>
      /\ finished' = finished + InBatch
  BY DEF GiveUp, accumulator
<1>3. InBatch' = 0 /\ batch' \in [rows : [Keys -> Nat], overflow : Nat]
  BY <1>1, NothingInBatch DEF GiveUp
<1>4. InBatch \in Nat /\ SumFunctionOnSet(pending, Keys) \in Nat /\ finished \in Nat /\ overflow \in Nat
  BY <1>1, InBatchSum DEF ReporterType
<1>5. admitted' = SumFunctionOnSet(pending', Keys) + overflow' + InBatch' + finished'
  BY <1>1, <1>2, <1>3, <1>4 DEF ConservedInv
<1>6. Size' = Size
  BY <1>2 DEF Size, InRows
<1>7. ReporterType'
  BY <1>1, <1>2, <1>3, <1>4 DEF GiveUp, accumulator, ReporterType
<1> QED BY <1>1, <1>2, <1>5, <1>6, <1>7 DEF ReporterInv, WorkerInv, ConservedInv

LEMMA ReporterStep == ReporterInv /\ [Next]_vars => ReporterInv'
<1> SUFFICES ASSUME ReporterInv, Next \/ UNCHANGED vars PROVE ReporterInv'
  OBVIOUS
<1>1. CASE OnStop \/ OnWake \/ TimerFires \/ OnTick \/ FlushEnds \/ Close \/ UNCHANGED vars
  <2>1. UNCHANGED <<pending, overflow, batch, admitted, finished, calls>>
    BY <1>1 DEF OnStop, OnWake, TimerFires, OnTick, FlushEnds, Close, vars, accumulator
  <2>2. InBatch' = InBatch /\ Size' = Size
    BY <2>1 DEF InBatch, Size, InRows
  <2>3. ReporterType'
    BY <1>1, <2>1
       DEF OnStop, OnWake, TimerFires, OnTick, FlushEnds, AfterFlush, Close, vars, accumulator,
           ReporterType, ReporterInv
  <2>4. WorkerInv'
    BY <1>1, <2>1, <2>2
       DEF OnStop, OnWake, TimerFires, OnTick, FlushEnds, AfterFlush, Close, vars,
           accumulator,
       WorkerInv, ReporterInv, ReporterType
  <2> QED BY <2>1, <2>2, <2>3, <2>4 DEF ReporterInv, ConservedInv
<1> QED BY <1>1, AddStep, DrainStep, FoldStep, GiveUpStep DEF Next, Flushing

LEMMA ReporterInit == Init => ReporterInv
<1> SUFFICES ASSUME Init PROVE ReporterInv
  OBVIOUS
<1>1. InBatch = 0
  BY EmptySum DEF Init, InBatch, SumFunction, Empty
<1>2. InRows = {} /\ Size = 0
  BY FS_EmptySet DEF Init, InRows, Size, Empty
<1>3. ReporterType
  BY EmptySum DEF Init, ReporterType
<1>4. WorkerInv
  BY <1>1 DEF Init, WorkerInv
<1>5. ConservedInv
  BY <1>1, <1>2, EmptySum, ReporterAssumption DEF Init, ConservedInv
<1> QED BY <1>3, <1>4, <1>5 DEF ReporterInv

(* A step of the process is a step of its usage reporter, or none of it.   *)
LEMMA ReporterSteps == [ProcessNext]_allVars => [Next]_vars
<1> SUFFICES ASSUME ProcessNext \/ UNCHANGED allVars PROVE Next \/ UNCHANGED vars
  OBVIOUS
<1>1. CASE UNCHANGED allVars
  BY <1>1 DEF allVars
<1>2. CASE WorkerSteps
  BY <1>2 DEF WorkerSteps, Worker, Next
<1>3. CASE Start \/ StartFails \/ Started \/ Signal \/ Leave \/ UpgradeEnds \/ Return \/ Exit
  BY <1>3 DEF Start, StartFails, Started, Signal, Leave, UpgradeEnds, Return, Exit
<1>4. ASSUME NEW h \in Handlers, Serve(h) \/ EndRequest(h) \/ Record(h) PROVE UNCHANGED vars
  BY <1>4 DEF Serve, EndRequest, Record
<1>5. ASSUME NEW h, EffectsEnd(h) PROVE UNCHANGED vars
  BY <1>5 DEF EffectsEnd
<1>6. ASSUME NEW h \in Handlers, NEW k \in Keys, Report(h, k) PROVE Next
  BY <1>6 DEF Report, Next
<1>7. CASE Call
  BY <1>7 DEF Call, Next
<1> QED BY <1>1, <1>2, <1>3, <1>4, <1>5, <1>6, <1>7 DEF ProcessNext

LEMMA ReporterInductive == ProcessSpec => []ReporterInv
<1>1. ProcessInit => ReporterInv
  BY ReporterInit DEF ProcessInit
<1> QED BY <1>1, ReporterSteps, ReporterStep, PTL DEF ProcessSpec

(* Every call that Add admitted is in the accumulator, in the batch or     *)
(* finished, and finished when the worker has ended, whatever the requests *)
(* and the shutdown do meanwhile (usage.go, Add, run and Close).           *)
THEOREM CallsStayConserved == ProcessSpec => []CallsConserved
<1>1. ReporterInv => CallsConserved
  <2> SUFFICES ASSUME ReporterInv PROVE CallsConserved
    OBVIOUS
  <2>1. ReporterType /\ WorkerInv /\ ConservedInv
    BY DEF ReporterInv
  <2>2. SumFunction(pending) = SumFunctionOnSet(pending, Keys)
    BY <2>1 DEF ReporterType, SumFunction
  <2>3. worker = "done" => finished = admitted
    <3> SUFFICES ASSUME worker = "done" PROVE finished = admitted
      OBVIOUS
    <3>1. InBatch = 0 /\ pending = Empty /\ overflow = 0 /\ finished \in Nat
      BY <2>1 DEF WorkerInv, ReporterType
    <3>2. admitted = 0 + 0 + 0 + finished
      BY <2>1, <3>1, EmptySum DEF ConservedInv
    <3> QED BY <3>1, <3>2
  <2> QED BY <2>1, <2>2, <2>3 DEF CallsConserved, ConservedInv
<1> QED BY <1>1, ReporterInductive, PTL

-----------------------------------------------------------------------------
(* The process.                                                            *)

Parts == {"database", "client", "usage", "security", "server", "transport", "upgrade"}

(* The place of a part in the order of the start.                          *)
Pos == [database |-> 1, client |-> 2, usage |-> 3, security |-> 4, server |-> 5,
        transport |-> 6, upgrade |-> 7]

Up == ToSet(deferred)

ProcessType ==
    /\ main \in {"starting", "serving", "unwinding", "exited"}
    /\ deferred \in Seq(Parts) /\ skipped \subseteq {"database", "upgrade"}
    /\ handler \in [Handlers -> {"new", "running", "ended"}]
    /\ upgrade \in {"none", "running", "ended"}
    /\ called \in BOOLEAN /\ refusing \in BOOLEAN /\ connected \in BOOLEAN
    /\ storage \in BOOLEAN /\ overrun \in BOOLEAN /\ dropped \in BOOLEAN

(* The parts that are up are the first ones of the order, without those    *)
(* that are skipped, and are stopped from the last one.                    *)
OrderInv ==
    /\ \A i, j \in DOMAIN deferred : i < j => Pos[deferred[i]] < Pos[deferred[j]]
    /\ \A c \in Up, d \in Parts : Pos[d] < Pos[c] => d \in Up \cup skipped
    /\ Up \cap skipped = {}

(* What the deferred call that has begun has done, and what the reporters' *)
(* being closed says of the process.                                       *)
CallInv ==
    /\ called => /\ main = "unwinding" /\ deferred # <<>>
                 /\ Last(deferred) = "usage" => closed
                 /\ Last(deferred) = "security" => refusing
    /\ closed \/ refusing => main \in {"unwinding", "exited"} /\ "server" \notin Up

(* Who uses what: each needs a part that is still up.                      *)
UseInv ==
    /\ connected <=> "client" \in Up
    /\ storage <=> "database" \in Up \cup skipped
    /\ upgrade = "running" => "upgrade" \in Up
    /\ effects # {} => "security" \in Up
    /\ closed => "usage" \in Up \/ worker = "done"
    /\ Running # {} => /\ "server" \in Up \/ overrun
                       /\ "security" \in Up \/ refusing
    /\ ~dropped

ProcessInv == ProcessType /\ OrderInv /\ CallInv /\ UseInv

(* The order of the start, as a table.                                     *)
LEMMA Places ==
    /\ DOMAIN StartOrder = 1..7
    /\ \A i \in 1..7 : StartOrder[i] \in Parts /\ Pos[StartOrder[i]] = i
    /\ \A c \in Parts : Pos[c] \in 1..7 /\ StartOrder[Pos[c]] = c
BY DEF StartOrder, Parts, Pos

(* The next part to start is the first one that is not up or skipped.      *)
LEMMA NextPart ==
    ASSUME ToStart # {}
    PROVE  LET c == StartOrder[Min(ToStart)]
           IN /\ c \in Parts \ (Up \cup skipped)
              /\ \A d \in Parts : Pos[d] < Pos[c] => d \in Up \cup skipped
<1>1. ToStart \in SUBSET Nat
  BY Places DEF ToStart
<1>2. \E n \in ToStart : \A m \in ToStart : n <= m
  BY <1>1, NatLeast
<1>3. Min(ToStart) \in ToStart /\ \A m \in ToStart : Min(ToStart) <= m
  BY <1>2 DEF Min
<1>4. PICK n : n = Min(ToStart)
  OBVIOUS
<1>5. n \in 1..7 /\ StartOrder[n] \notin skipped \cup Up
  BY <1>3, <1>4, Places DEF ToStart, Up
<1>6. ASSUME NEW d \in Parts, Pos[d] < n PROVE d \in Up \cup skipped
  <2>1. Pos[d] \in 1..7 /\ StartOrder[Pos[d]] = d
    BY Places
  <2>2. Pos[d] \notin ToStart
    BY <1>3, <1>4, <1>5, <1>6, <2>1
  <2> QED BY <2>1, <2>2, Places DEF ToStart, Up
<1> QED BY <1>4, <1>5, <1>6, Places

LEMMA PushFacts ==
    ASSUME NEW S, NEW s \in Seq(S), NEW c \in S
    PROVE  /\ Append(s, c) \in Seq(S)
           /\ DOMAIN Append(s, c) = 1..Len(s) + 1 /\ DOMAIN s = 1..Len(s)
           /\ \A i \in DOMAIN s : Append(s, c)[i] = s[i]
           /\ Append(s, c)[Len(s) + 1] = c
           /\ ToSet(Append(s, c)) = ToSet(s) \cup {c}
           /\ Len(s) \in Nat
<1>1. /\ Append(s, c) \in Seq(S) /\ Len(s) \in Nat
      /\ DOMAIN Append(s, c) = 1..Len(s) + 1 /\ DOMAIN s = 1..Len(s)
      /\ \A i \in DOMAIN s : Append(s, c)[i] = s[i]
      /\ Append(s, c)[Len(s) + 1] = c
  OBVIOUS
<1>2. PICK t : t = Append(s, c)
  OBVIOUS
<1>3. DOMAIN t = DOMAIN s \cup {Len(s) + 1}
  BY <1>1, <1>2
<1>4. ToSet(t) = ToSet(s) \cup {c}
  BY <1>1, <1>2, <1>3 DEF ToSet
<1> QED BY <1>1, <1>2, <1>4

LEMMA PopFacts ==
    ASSUME NEW S, NEW s \in Seq(S), s # <<>>,
           \A i, j \in DOMAIN s : i # j => s[i] # s[j]
    PROVE  /\ Front(s) \in Seq(S)
           /\ DOMAIN Front(s) \subseteq DOMAIN s
           /\ \A i \in DOMAIN Front(s) : Front(s)[i] = s[i]
           /\ Last(s) \in ToSet(s)
           /\ ToSet(Front(s)) = ToSet(s) \ {Last(s)}
<1>1. Len(s) \in Nat \ {0} /\ DOMAIN s = 1..Len(s) /\ Last(s) = s[Len(s)]
  BY DEF Last
<1>2. /\ Front(s) \in Seq(S) /\ DOMAIN Front(s) = 1..(Len(s) - 1)
      /\ \A i \in 1..(Len(s) - 1) : Front(s)[i] = s[i]
  BY <1>1 DEF Front
<1>3. PICK t, n : t = Front(s) /\ n = Len(s)
  OBVIOUS
<1>4. DOMAIN t = DOMAIN s \ {n} /\ n \in DOMAIN s
  BY <1>1, <1>2, <1>3
<1>5. ToSet(t) = ToSet(s) \ {s[n]}
  BY <1>2, <1>3, <1>4, <1>1 DEF ToSet
<1> QED BY <1>1, <1>2, <1>3, <1>4, <1>5 DEF ToSet

(* Where the last deferred call is, and what must be up below a part.      *)
LEMMA Below ==
    ASSUME ProcessType, OrderInv
    PROVE  /\ deferred # <<>> => /\ Last(deferred) \in Up
                                 /\ \A d \in Up : d = Last(deferred) \/ Pos[d] < Pos[Last(deferred)]
           /\ Up \subseteq Parts
           /\ "client" \in Up => "database" \in Up \cup skipped
           /\ "usage" \in Up => "client" \in Up
           /\ "security" \in Up => "usage" \in Up
           /\ "server" \in Up => "security" \in Up
           /\ "upgrade" \in Up => "server" \in Up
<1>1. ASSUME deferred # <<>>
      PROVE  /\ Last(deferred) \in Up
             /\ \A d \in Up : d = Last(deferred) \/ Pos[d] < Pos[Last(deferred)]
  <2>1. /\ Len(deferred) \in Nat \ {0} /\ DOMAIN deferred = 1..Len(deferred)
        /\ Last(deferred) = deferred[Len(deferred)]
    BY <1>1 DEF ProcessType, Last
  <2>2. \A i \in DOMAIN deferred : i = Len(deferred) \/ Pos[deferred[i]] < Pos[Last(deferred)]
    BY <2>1 DEF OrderInv
  <2> QED BY <2>1, <2>2 DEF Up, ToSet
<1>2. Up \subseteq Parts
  BY DEF ProcessType, Up, ToSet
<1>3. skipped \subseteq {"database", "upgrade"}
  BY DEF ProcessType
<1>4. \A c \in Up, d \in Parts : Pos[d] < Pos[c] => d \in Up \cup skipped
  BY DEF OrderInv
<1>5. /\ Pos["database"] < Pos["client"] /\ Pos["client"] < Pos["usage"]
      /\ Pos["usage"] < Pos["security"] /\ Pos["security"] < Pos["server"]
      /\ Pos["server"] < Pos["upgrade"]
  BY DEF Pos
<1>6. {"database", "client", "usage", "security", "server"} \subseteq Parts
  BY DEF Parts
<1> QED BY <1>1, <1>2, <1>3, <1>4, <1>5, <1>6

(* Start puts a new part on the stack, above all the others.               *)
LEMMA StartStep ==
    ASSUME ProcessInv, Start
    PROVE  ProcessInv'
<1> DEFINE new == StartOrder[Min(ToStart)]
<1>1. /\ ProcessType /\ OrderInv /\ CallInv /\ UseInv /\ ToStart # {} /\ main = "starting"
      /\ deferred' = Append(deferred, new)
      /\ connected' = (connected \/ new = "client")
      /\ storage' = (storage \/ new = "database")
      /\ upgrade' = IF new = "upgrade" THEN "running" ELSE upgrade
      /\ UNCHANGED <<vars, main, called, skipped, cancelled, handler, reported, effects,
                     refusing, overrun, dropped>>
  BY DEF Start, ProcessInv
<1>2. /\ new \in Parts \ (Up \cup skipped)
      /\ \A d \in Parts : Pos[d] < Pos[new] => d \in Up \cup skipped
  BY <1>1, NextPart
<1> HIDE DEF new
<1>3. deferred \in Seq(Parts)
  BY <1>1 DEF ProcessType
<1>4. /\ deferred' \in Seq(Parts) /\ Len(deferred) \in Nat
      /\ DOMAIN deferred' = 1..Len(deferred) + 1 /\ DOMAIN deferred = 1..Len(deferred)
      /\ \A i \in DOMAIN deferred : deferred'[i] = deferred[i]
      /\ deferred'[Len(deferred) + 1] = new
      /\ Up' = Up \cup {new}
  BY <1>1, <1>2, <1>3, PushFacts DEF Up
<1>5. \A c \in Up : c \in Parts /\ Pos[c] < Pos[new]
  <2> SUFFICES ASSUME NEW c \in Up PROVE c \in Parts /\ Pos[c] < Pos[new]
    OBVIOUS
  <2>1. c \in Parts /\ c # new
    BY <1>1, <1>2, Below
  <2>2. ~(Pos[new] < Pos[c])
    BY <1>1, <1>2 DEF OrderInv
  <2>3. Pos[c] # Pos[new] /\ Pos[c] \in Nat /\ Pos[new] \in Nat
    BY <1>2, <2>1, Places
  <2> QED BY <2>1, <2>2, <2>3
<1>6. OrderInv'
  <2>1. ASSUME NEW i \in DOMAIN deferred', NEW j \in DOMAIN deferred', i < j
        PROVE  Pos[deferred'[i]] < Pos[deferred'[j]]
    <3>1. i \in DOMAIN deferred
      BY <1>4, <2>1
    <3>2. CASE j \in DOMAIN deferred
      BY <1>1, <1>4, <2>1, <3>1, <3>2 DEF OrderInv
    <3>3. CASE j = Len(deferred) + 1
      <4>1. deferred[i] \in Up
        BY <3>1 DEF Up, ToSet
      <4> QED BY <1>4, <1>5, <3>1, <3>3, <4>1
    <3> QED BY <1>4, <3>2, <3>3
  <2>2. ASSUME NEW c \in Up', NEW d \in Parts, Pos[d] < Pos[c]
        PROVE  d \in Up' \cup skipped'
    BY <1>1, <1>2, <1>4, <2>2 DEF OrderInv
  <2>3. Up' \cap skipped' = {}
    BY <1>1, <1>2, <1>4 DEF OrderInv
  <2> QED BY <2>1, <2>2, <2>3 DEF OrderInv
<1>7. ProcessType'
  <2>1. connected' \in BOOLEAN /\ storage' \in BOOLEAN
    BY <1>1
  <2>2. upgrade' \in {"none", "running", "ended"}
    BY <1>1 DEF ProcessType
  <2> QED BY <1>1, <1>4, <2>1, <2>2 DEF ProcessType
<1>8. ~called /\ ~closed /\ ~refusing
  BY <1>1 DEF CallInv
<1>9. CallInv'
  BY <1>1, <1>8 DEF CallInv, vars
<1>10. UseInv'
  <2>1. Running' = Running /\ closed' = closed /\ worker' = worker
    BY <1>1 DEF Running, vars
  <2>2. connected' <=> "client" \in Up'
    BY <1>1, <1>4 DEF UseInv
  <2>3. storage' <=> "database" \in Up' \cup skipped'
    BY <1>1, <1>4 DEF UseInv
  <2>4. upgrade' = "running" => "upgrade" \in Up'
    BY <1>1, <1>4 DEF UseInv
  <2>5. /\ effects' # {} => "security" \in Up'
        /\ Running' # {} => /\ "server" \in Up' \/ overrun'
                            /\ "security" \in Up' \/ refusing'
        /\ ~dropped'
    BY <1>1, <1>4, <2>1 DEF UseInv
  <2> QED BY <1>8, <2>1, <2>2, <2>3, <2>4, <2>5 DEF UseInv
<1> QED BY <1>6, <1>7, <1>9, <1>10 DEF ProcessInv

(* Return takes the last part away, which nothing uses any more.           *)
LEMMA ReturnStep ==
    ASSUME ProcessInv, Return
    PROVE  ProcessInv'
<1> DEFINE old == Last(deferred)
<1>1. /\ ProcessType /\ OrderInv /\ CallInv /\ UseInv /\ called /\ main = "unwinding" /\ Returns(old)
      /\ deferred' = Front(deferred) /\ called' = FALSE
      /\ overrun' = (overrun \/ (old = "server" /\ Running # {}))
      /\ connected' = (connected /\ old # "client")
      /\ storage' = (storage /\ old # "database")
      /\ UNCHANGED <<vars, main, skipped, cancelled, handler, reported, effects,
                     refusing, upgrade, dropped>>
  BY DEF Return, ProcessInv
<1>2. deferred \in Seq(Parts) /\ deferred # <<>>
  BY <1>1 DEF ProcessType, CallInv
<1>3. \A i, j \in DOMAIN deferred : i # j => deferred[i] # deferred[j]
  <2>1. DOMAIN deferred \subseteq Nat
    BY <1>2
  <2>2. \A i \in DOMAIN deferred : Pos[deferred[i]] \in Nat
    BY <1>2, Places
  <2> QED BY <1>1, <2>1, <2>2 DEF OrderInv
<1>4. /\ deferred' \in Seq(Parts)
      /\ DOMAIN deferred' \subseteq DOMAIN deferred
      /\ \A i \in DOMAIN deferred' : deferred'[i] = deferred[i]
      /\ old \in Up /\ Up' = Up \ {old}
  BY <1>1, <1>2, <1>3, PopFacts DEF Up
<1>5. \A d \in Up : d = old \/ Pos[d] < Pos[old]
  BY <1>1, <1>2, Below
<1>6. Up \subseteq Parts /\ \A d \in Up : Pos[d] \in Nat
  BY <1>1, Below, Places
<1> HIDE DEF old
<1>7. OrderInv'
  <2>1. ASSUME NEW i \in DOMAIN deferred', NEW j \in DOMAIN deferred', i < j
        PROVE  Pos[deferred'[i]] < Pos[deferred'[j]]
    BY <1>1, <1>4, <2>1 DEF OrderInv
  <2>2. ASSUME NEW c \in Up', NEW d \in Parts, Pos[d] < Pos[c]
        PROVE  d \in Up' \cup skipped'
    <3>1. c \in Up /\ c # old /\ Pos[c] < Pos[old]
      BY <1>4, <1>5
    <3>2. d # old
      BY <1>4, <1>6, <2>2, <3>1
    <3>3. d \in Up \cup skipped
      BY <1>1, <2>2, <3>1 DEF OrderInv
    <3> QED BY <1>1, <1>4, <3>2, <3>3
  <2>3. Up' \cap skipped' = {}
    BY <1>1, <1>4 DEF OrderInv
  <2> QED BY <2>1, <2>2, <2>3 DEF OrderInv
<1>8. ProcessType'
  <2>1. connected' \in BOOLEAN /\ storage' \in BOOLEAN /\ overrun' \in BOOLEAN
    BY <1>1 DEF ProcessType
  <2> QED BY <1>1, <1>4, <2>1 DEF ProcessType
<1>9. CallInv'
  BY <1>1, <1>4 DEF CallInv, vars
<1>10. UseInv'
  <2>1. Running' = Running /\ closed' = closed /\ worker' = worker
    BY <1>1 DEF Running, vars
  <2>2. connected' <=> "client" \in Up'
    BY <1>1, <1>4 DEF UseInv
  <2>3. storage' <=> "database" \in Up' \cup skipped'
    <3>1. "database" \in Up => "database" \notin skipped
      BY <1>1 DEF OrderInv
    <3> QED BY <1>1, <1>4, <3>1 DEF UseInv
  <2>4. upgrade' = "running" => "upgrade" \in Up'
    <3>1. old = "upgrade" => upgrade # "running"
      BY <1>1 DEF Returns
    <3> QED BY <1>1, <1>4, <3>1 DEF UseInv
  <2>5. effects' # {} => "security" \in Up'
    <3>1. old = "security" => effects = {}
      BY <1>1 DEF Returns
    <3> QED BY <1>1, <1>4, <3>1 DEF UseInv
  <2>6. closed' => "usage" \in Up' \/ worker' = "done"
    <3>1. old = "usage" => worker = "done"
      BY <1>1 DEF Returns, CloseReturns
    <3> QED BY <1>1, <1>4, <2>1, <3>1 DEF UseInv
  <2>7. Running' # {} => "server" \in Up' \/ overrun'
    BY <1>1, <1>4, <2>1 DEF UseInv
  <2>8. Running' # {} => "security" \in Up' \/ refusing'
    <3>1. old = "security" => refusing
      BY <1>1 DEF CallInv, old
    <3> QED BY <1>1, <1>4, <2>1, <3>1 DEF UseInv
  <2> QED BY <1>1, <2>2, <2>3, <2>4, <2>5, <2>6, <2>7, <2>8 DEF UseInv
<1> QED BY <1>7, <1>8, <1>9, <1>10 DEF ProcessInv

(* What leaves the stack alone.                                            *)
LEMMA SameOrder ==
    ASSUME ProcessInv, UNCHANGED <<deferred, skipped>>
    PROVE  OrderInv' /\ Up' = Up
<1>1. Up' = Up
  BY DEF Up
<1> QED BY <1>1 DEF ProcessInv, OrderInv

(* The end of a stage of main, and a signal.                               *)
LEMMA MainStep ==
    ASSUME ProcessInv, StartFails \/ Started \/ Signal \/ Leave \/ Exit
    PROVE  ProcessInv'
<1>1. /\ UNCHANGED <<vars, deferred, called, skipped, handler, effects, refusing, upgrade,
                     connected, storage, overrun, dropped>>
      /\ main' \in {"starting", "serving", "unwinding", "exited"}
      /\ main' # main => /\ main = "unwinding" => deferred = <<>> /\ main' = "exited"
                         /\ main # "exited"
  BY DEF StartFails, Started, Signal, Leave, Exit, ProcessInv, ProcessType
<1>2. OrderInv' /\ Up' = Up
  BY <1>1, SameOrder
<1>3. ProcessType'
  BY <1>1 DEF ProcessInv, ProcessType
<1>4. CallInv'
  BY <1>1, <1>2 DEF ProcessInv, CallInv, vars
<1>5. UseInv'
  BY <1>1, <1>2 DEF ProcessInv, UseInv, Running, vars
<1> QED BY <1>2, <1>3, <1>4, <1>5 DEF ProcessInv

(* The requests, the effects of their events, and the upgrade.             *)
LEMMA RequestStep ==
    ASSUME ProcessInv,
           \/ UpgradeEnds
           \/ \E h \in Handlers : \/ Serve(h) \/ EndRequest(h) \/ Record(h)
                                  \/ \E k \in Keys : Report(h, k)
           \/ \E h \in effects : EffectsEnd(h)
    PROVE  ProcessInv'
<1>1. /\ UNCHANGED <<main, deferred, called, skipped, refusing, connected, storage, overrun>>
      /\ closed' = closed /\ worker' = worker
  BY DEF UpgradeEnds, Serve, EndRequest, Record, Report, Add, EffectsEnd, vars
<1>2. OrderInv' /\ Up' = Up
  BY <1>1, SameOrder
<1>3. ProcessType /\ CallInv /\ UseInv /\ OrderInv
  BY DEF ProcessInv
<1>4. CallInv'
  BY <1>1, <1>2, <1>3 DEF CallInv
<1>5. CASE UpgradeEnds
  <2>1. upgrade' = "ended" /\ UNCHANGED <<handler, effects, dropped>>
    BY <1>5 DEF UpgradeEnds
  <2>2. ProcessType'
    BY <1>1, <1>3, <2>1 DEF ProcessType
  <2>3. UseInv'
    BY <1>1, <1>2, <1>3, <2>1 DEF UseInv, Running
  <2> QED BY <1>2, <1>4, <2>2, <2>3 DEF ProcessInv
<1>6. ASSUME NEW h \in Handlers, Serve(h) PROVE ProcessInv'
  <2>1. /\ "server" \in Up /\ handler' = [handler EXCEPT ![h] = "running"]
        /\ UNCHANGED <<effects, upgrade, dropped>>
    BY <1>6 DEF Serve, Accepting, Up
  <2>2. "security" \in Up
    BY <1>3, <2>1, Below
  <2>3. ProcessType'
    BY <1>1, <1>3, <2>1 DEF ProcessType
  <2>4. UseInv'
    BY <1>1, <1>2, <1>3, <2>1, <2>2 DEF UseInv
  <2> QED BY <1>2, <1>4, <2>3, <2>4 DEF ProcessInv
<1>7. ASSUME NEW h \in Handlers, EndRequest(h) PROVE ProcessInv'
  <2>1. /\ handler' = [handler EXCEPT ![h] = "ended"] /\ handler[h] = "running"
        /\ UNCHANGED <<effects, upgrade, dropped>>
    BY <1>7 DEF EndRequest
  <2>2. Running # {}
    BY <2>1 DEF Running
  <2>3. ProcessType'
    BY <1>1, <1>3, <2>1 DEF ProcessType
  <2>4. UseInv'
    BY <1>1, <1>2, <1>3, <2>1, <2>2 DEF UseInv
  <2> QED BY <1>2, <1>4, <2>3, <2>4 DEF ProcessInv
<1>8. ASSUME NEW h \in Handlers, Record(h) \/ \E k \in Keys : Report(h, k) PROVE ProcessInv'
  <2>1. /\ handler[h] = "running" /\ UNCHANGED <<handler, upgrade>>
        /\ (~dropped' \/ dropped \/ ((refusing \/ closed) /\ ~overrun))
        /\ dropped' \in BOOLEAN
        /\ effects' # {} => effects # {} \/ ~refusing
    BY <1>8 DEF Record, Report, Drops, Refusing, Ignored
  <2>2. Running # {} /\ Running' = Running
    BY <2>1 DEF Running
  <2>3. ~dropped'
    BY <1>3, <2>1, <2>2 DEF UseInv, CallInv
  <2>4. ProcessType'
    BY <1>1, <1>3, <2>1 DEF ProcessType
  <2>5. UseInv'
    BY <1>1, <1>2, <1>3, <2>1, <2>2, <2>3 DEF UseInv
  <2> QED BY <1>2, <1>4, <2>4, <2>5 DEF ProcessInv
<1>9. ASSUME NEW h \in effects, EffectsEnd(h) PROVE ProcessInv'
  <2>1. effects # {} /\ UNCHANGED <<handler, upgrade, dropped>>
    BY <1>9 DEF EffectsEnd
  <2>2. ProcessType'
    BY <1>1, <1>3, <2>1 DEF ProcessType
  <2>3. UseInv'
    BY <1>1, <1>2, <1>3, <2>1 DEF UseInv, Running
  <2> QED BY <1>2, <1>4, <2>2, <2>3 DEF ProcessInv
<1> QED BY <1>5, <1>6, <1>7, <1>8, <1>9

(* Call begins a deferred call: the server has ended when it closes one of *)
(* the reporters.                                                          *)
LEMMA CallStep ==
    ASSUME ProcessInv, ReporterInv, Call
    PROVE  ProcessInv'
<1>1. /\ main = "unwinding" /\ deferred # <<>> /\ called' = TRUE
      /\ closed' = (closed \/ Last(deferred) = "usage")
      /\ refusing' = (refusing \/ Last(deferred) = "security")
      /\ UNCHANGED <<main, deferred, skipped, handler, effects, upgrade, connected, storage,
                     overrun, dropped, worker>>
  <2>1. /\ main = "unwinding" /\ deferred # <<>> /\ called' = TRUE
        /\ refusing' = (refusing \/ Last(deferred) = "security")
        /\ UNCHANGED <<main, deferred, skipped, handler, effects, upgrade, connected, storage,
                       overrun, dropped>>
    BY DEF Call
  <2>2. closed' = (closed \/ Last(deferred) = "usage") /\ worker' = worker
    <3>1. closed \in BOOLEAN
      BY DEF ReporterInv, ReporterType
    <3>2. CASE Last(deferred) = "usage"
      BY <3>2 DEF Call, Close
    <3>3. CASE Last(deferred) # "usage"
      BY <3>1, <3>3 DEF Call, vars
    <3> QED BY <3>2, <3>3
  <2> QED BY <2>1, <2>2
<1>2. OrderInv' /\ Up' = Up
  BY <1>1, SameOrder
<1>3. ProcessType /\ OrderInv /\ CallInv /\ UseInv
  BY DEF ProcessInv
<1>4. /\ Last(deferred) \in Up
      /\ \A d \in Up : d = Last(deferred) \/ Pos[d] < Pos[Last(deferred)]
  BY <1>1, <1>3, Below
<1>5. Pos["server"] = 5 /\ Pos["usage"] = 3 /\ Pos["security"] = 4
  BY DEF Pos
<1>6. Last(deferred) \in {"usage", "security"} => "server" \notin Up
  BY <1>4, <1>5
<1>7. ProcessType'
  BY <1>1, <1>3 DEF ProcessType
<1>8. CallInv'
  BY <1>1, <1>2, <1>3, <1>6 DEF CallInv
<1>9. UseInv'
  BY <1>1, <1>2, <1>3, <1>4 DEF UseInv, Running
<1> QED BY <1>2, <1>7, <1>8, <1>9 DEF ProcessInv

(* A worker that is done stays so.                                         *)
LEMMA WorkerStep ==
    ASSUME ProcessInv, WorkerSteps \/ UNCHANGED allVars
    PROVE  ProcessInv'
<1>1. UNCHANGED process /\ closed' = closed /\ (worker = "done" => worker' = "done")
  BY DEF WorkerSteps, Worker, OnStop, OnWake, TimerFires, OnTick, Flushing, Drain, Fold, GiveUp,
         FlushEnds, AfterFlush, allVars, vars
<1>2. UNCHANGED <<main, deferred, called, skipped, handler, effects, refusing, upgrade,
                  connected, storage, overrun, dropped>>
  BY <1>1 DEF process
<1>3. OrderInv' /\ Up' = Up
  BY <1>2, SameOrder
<1>4. ProcessType' /\ CallInv' /\ UseInv'
  BY <1>1, <1>2, <1>3 DEF ProcessInv, ProcessType, CallInv, UseInv, Running
<1> QED BY <1>3, <1>4 DEF ProcessInv

LEMMA ProcessInitInv == ProcessInit => ProcessInv
<1> SUFFICES ASSUME ProcessInit PROVE ProcessInv
  OBVIOUS
<1>1. deferred = <<>> /\ Up = {}
  BY DEF ProcessInit, Up, ToSet
<1>2. ProcessType
  <2>1. skipped \subseteq {"database", "upgrade"}
    BY ProcessAssumption DEF ProcessInit
  <2>2. deferred \in Seq(Parts)
    BY <1>1
  <2>3. handler \in [Handlers -> {"new", "running", "ended"}]
    BY DEF ProcessInit
  <2>4. storage \in BOOLEAN
    BY DEF ProcessInit
  <2> QED BY <2>1, <2>2, <2>3, <2>4 DEF ProcessInit, ProcessType
<1>3. OrderInv /\ CallInv
  BY <1>1 DEF ProcessInit, Init, OrderInv, CallInv
<1>4. UseInv
  BY <1>1 DEF ProcessInit, Init, UseInv, Running
<1> QED BY <1>2, <1>3, <1>4 DEF ProcessInv

LEMMA ProcessInductive == ProcessSpec => []ProcessInv
<1>1. ProcessInv /\ ReporterInv /\ [ProcessNext]_allVars => ProcessInv'
  BY StartStep, ReturnStep, MainStep, RequestStep, CallStep, WorkerStep DEF ProcessNext
<1> QED BY <1>1, ProcessInitInv, ReporterInductive, PTL DEF ProcessSpec

(* What uses the database has ended before the client is disconnected and  *)
(* the storage closed, wherever the start fails and whatever is skipped,   *)
(* and no report is ignored unless a request outlives the server's         *)
(* shutdown (main.go, the order of the deferred calls).                    *)
THEOREM ShutdownStaysInOrder == ProcessSpec => []ShutdownInOrder
<1>1. ProcessInv => ShutdownInOrder
  <2> SUFFICES ASSUME ProcessInv PROVE ShutdownInOrder
    OBVIOUS
  <2>1. ProcessType /\ OrderInv /\ CallInv /\ UseInv
    BY DEF ProcessInv
  <2>2. connected => storage
    BY <2>1, Below DEF UseInv
  <2>3. ASSUME "client" \notin Up
        PROVE  /\ effects = {} /\ upgrade # "running" /\ ~connected
               /\ closed => worker = "done"
               /\ Running # {} => overrun
    BY <2>1, <2>3, Below DEF UseInv
  <2> QED BY <2>1, <2>2, <2>3 DEF ShutdownInOrder, UseInv, Up
<1> QED BY <1>1, ProcessInductive, PTL
=============================================================================
