------------------------ MODULE BoardStructureProofs ------------------------
(***************************************************************************)
(* Proofs about BoardStructure for any boards, lists, cards and failures,  *)
(* from any database of DatabasesAssumption.  What a step has read of the  *)
(* database while it runs is true of it still (IInv); what each phase has  *)
(* established stays established (Running): the facts about the writes,    *)
(* and about runs that end without an error, follow.                       *)
(***************************************************************************)
EXTENDS BoardStructure, FiniteSetTheorems, WellFoundedInduction, TLAPS

(* Every nonempty set of naturals has a least element.                     *)
LEMMA NatLeast ==
    ASSUME NEW T \in SUBSET Nat, T # {}
    PROVE  \E n \in T : \A m \in T : n <= m
<1> DEFINE Less == OpToRel(<, Nat)
<1>1. \E n \in T : \A m \in T : ~ (<<m, n>> \in Less)
  <2>1. IsWellFoundedOn(Less, Nat)
    BY NatLessThanWellFounded
  <2> HIDE DEF Less
  <2> QED BY <2>1, WFMin
<1>2. PICK n \in T : \A m \in T : ~ (<<m, n>> \in Less)
  BY <1>1
<1>3. \A m \in T : m < n => <<m, n>> \in Less
  BY DEF OpToRel
<1> HIDE DEF Less
<1>4. \A m \in T : ~(m < n)
  BY <1>2, <1>3
<1> QED BY <1>4

(* A finite set of naturals is bounded: in a least counterexample, an      *)
(* enumeration without a bound loses its last element and has one.         *)
LEMMA Bounded ==
    ASSUME NEW S \in SUBSET Nat, IsFiniteSet(S)
    PROVE  \E b \in Nat : \A x \in S : x <= b
<1> DEFINE Unb(n) == \E f \in [1 .. n -> Nat] : \A b \in Nat : \E i \in 1 .. n : ~(f[i] <= b)
           Bad == {n \in Nat : Unb(n)}
<1>1. Bad = {}
  <2> SUFFICES ASSUME Bad # {} PROVE FALSE
    OBVIOUS
  <2>1. PICK n \in Bad : \A m \in Bad : n <= m
    <3> Bad \in SUBSET Nat
      OBVIOUS
    <3> HIDE DEF Bad
    <3> QED BY NatLeast
  <2>2. PICK f \in [1 .. n -> Nat] : \A b \in Nat : \E i \in 1 .. n : ~(f[i] <= b)
    BY <2>1
  <2>3. n # 0
    <3>1. ASSUME n = 0 PROVE FALSE
      BY <2>2, <3>1
    <3> QED BY <3>1
  <2>4. n - 1 \in Nat /\ n \in Nat
    BY <2>1, <2>3
  <2>5. n - 1 \notin Bad
    <3> HIDE DEF Bad
    <3> QED BY <2>1, <2>4
  <2> DEFINE g == [i \in 1 .. n - 1 |-> f[i]]
  <2>6. g \in [1 .. n - 1 -> Nat]
    <3>1. \A i \in 1 .. n - 1 : i \in 1 .. n /\ f[i] \in Nat
      <4> HIDE DEF Bad
      <4> TAKE i \in 1 .. n - 1
      <4>1. i \in 1 .. n
        BY <2>4
      <4>2. f[i] \in Nat
        BY <4>1
      <4> QED BY <4>1, <4>2
    <3> QED BY <3>1
  <2>7. ~Unb(n - 1)
    BY <2>4, <2>5
  <2>8. PICK b \in Nat : \A i \in 1 .. n - 1 : g[i] <= b
    BY <2>6, <2>7
  <2> DEFINE c == IF f[n] <= b THEN b ELSE f[n]
  <2>9. c \in Nat /\ b <= c /\ f[n] <= c
    <3>1. f[n] \in Nat
      <4> HIDE DEF Bad
      <4> QED BY <2>2, <2>3, <2>4
    <3> HIDE DEF g, Bad
    <3> QED BY <3>1, <2>8
  <2>10. \A i \in 1 .. n : f[i] <= c
    <3> TAKE i \in 1 .. n
    <3>1. CASE i = n
      BY <3>1, <2>9
    <3>2. CASE i # n
      <4>1. i \in 1 .. n - 1
        BY <3>2, <2>4
      <4>2. g[i] = f[i] /\ g[i] <= b /\ f[i] \in Nat
        BY <4>1, <2>8, <2>2
      <4> HIDE DEF g, c
      <4> QED BY <4>2, <2>9
    <3> QED BY <3>1, <3>2
  <2> QED BY <2>9, <2>10, <2>2
<1>2. PICK n \in Nat : ExistsSurjection(1 .. n, S)
  BY FS_NatSurjection
<1>3. PICK f \in [1 .. n -> S] : \A x \in S : \E i \in 1 .. n : f[i] = x
  BY <1>2 DEF ExistsSurjection, Surjection
<1>4. f \in [1 .. n -> Nat]
  BY <1>3
<1>5. ~Unb(n)
  BY <1>1
<1>6. PICK b \in Nat : \A i \in 1 .. n : f[i] <= b
  BY <1>4, <1>5
<1> QED BY <1>3, <1>6

(* ... and so it has a greatest element, the least of its bounds.          *)
LEMMA Greatest ==
    ASSUME NEW S \in SUBSET Nat, IsFiniteSet(S), S # {}
    PROVE  /\ Max(S) \in S
           /\ \A x \in S : x <= Max(S)
<1> DEFINE Bnd == {b \in Nat : \A x \in S : x <= b}
<1>1. PICK b \in Bnd : \A m \in Bnd : b <= m
  <2>1. Bnd # {}
    BY Bounded
  <2>2. Bnd \in SUBSET Nat
    OBVIOUS
  <2> HIDE DEF Bnd
  <2> QED BY <2>1, <2>2, NatLeast
<1>2. b \in S
  <2> SUFFICES ASSUME b \notin S PROVE FALSE
    OBVIOUS
  <2>1. \A x \in S : x <= b - 1
    BY <1>1
  <2>2. b - 1 \in Nat
    <3>1. PICK x \in S : TRUE
      OBVIOUS
    <3> QED BY <3>1, <2>1, <1>1
  <2>3. b - 1 \in Bnd
    BY <2>1, <2>2
  <2> QED BY <2>3, <1>1
<1>3. \E x \in S : \A y \in S : x >= y
  BY <1>1, <1>2
<1> QED BY <1>3 DEF Max

LEMMA LeastFacts ==
    ASSUME NEW S \in SUBSET Nat
    PROVE  /\ S = {} => Least(S) = None
           /\ S # {} => Least(S) \in S /\ Least(S) # None
           /\ Least(S) \in Nat \cup {None}
<1>1. CASE S = {}
  BY <1>1 DEF Least
<1>2. CASE S # {}
  <2>1. \E n \in S : \A m \in S : n <= m
    BY <1>2, NatLeast
  <2>2. Min(S) \in S
    BY <2>1 DEF Min
  <2>3. Least(S) = Min(S)
    BY <1>2 DEF Least
  <2> QED BY <1>2, <2>2, <2>3, StructureAssumption
<1> QED BY <1>1, <1>2

(* A new document has a new identifier.                                    *)
LEMMA NewFacts ==
    ASSUME NEW S \in SUBSET Nat, IsFiniteSet(S), S # {}
    PROVE  New(S) \in Nat \ S
<1>1. Max(S) \in Nat /\ \A x \in S : x <= Max(S)
  BY Greatest
<1> DEFINE m == Max(S)
<1>2. m \in Nat /\ \A x \in S : x <= m
  BY <1>1
<1>3. New(S) = 1 + m
  BY DEF New
<1> HIDE DEF m
<1> QED BY <1>2, <1>3

-----------------------------------------------------------------------------
(* The inductive invariant.                                                *)

Phases == Structural \cup {"idle", "checkmerge", "merge", "join", "relink", "unstamp",
                           "clear", "ended"}

Types ==
    /\ TypeOK
    /\ phase \in Phases
    /\ defaults \in [Boards -> Nat \cup {None}]
    /\ first \in [Boards -> Nat \cup {None}]
    /\ IsFiniteSet(DOMAIN lanes) /\ IsFiniteSet(DOMAIN lists)

(* Lanes a run has created are the ones it looks for: a board without a    *)
(* default has none.                                                       *)
LanesOnce ==
    /\ \A i, j \in DOMAIN lanes \ Lanes : lanes[i].board = lanes[j].board => i = j
    /\ \A i \in DOMAIN lanes \ Lanes : lanes[i].kind = "visible"
    /\ phase = "lanes" =>
         \A i \in DOMAIN lanes : defaults[lanes[i].board] = None => lanes[i].kind # "visible"

(* While the rescue runs, a board has a first list if it has any.          *)
ListsOnce ==
    /\ \A i, j \in DOMAIN lists \ Lists : lists[i].board = lists[j].board => i = j
    /\ phase = "rescue" =>
         /\ \A b \in Boards : first[b] # None => first[b] \in DOMAIN lists
         /\ \A i \in DOMAIN lists : first[lists[i].board] # None

(* The list that is emptied is in use on the board that is joined, and     *)
(* that board is joined before its stamps and then its markers go.         *)
JoinOrdered ==
    /\ phase = "relink" => from \in Active(board)
    /\ phase \in {"unstamp", "clear"} => ~Duplicates(board)
    /\ phase = "clear" => Stamped(board) = {}

IInv == Types /\ LanesOnce /\ ListsOnce /\ JoinOrdered

(* Two lists in use with one title have the same survivor, which is in use *)
(* and has that title too.                                                 *)
LEMMA SurvivorFacts ==
    ASSUME Types, NEW i \in Active(board)
    PROVE  /\ Survivor(i) \in Active(board)
           /\ lists[Survivor(i)].title = lists[i].title
<1> DEFINE same == {j \in Active(board) : lists[j].title = lists[i].title}
           shared == {j \in same : lists[j].lane = None}
           kept == IF shared # {} THEN shared ELSE same
<1>1. i \in same
  OBVIOUS
<1>2. kept \in SUBSET Nat /\ kept # {} /\ kept \subseteq same
  BY <1>1 DEF Types, TypeOK, Active, ListsOf
<1>3. Survivor(i) = Min(kept)
  BY DEF Survivor
<1>4. Min(kept) \in kept
  <2> HIDE DEF kept
  <2>1. \E n \in kept : \A m \in kept : n <= m
    BY <1>2, NatLeast
  <2> QED BY <2>1 DEF Min
<1> HIDE DEF kept
<1> QED BY <1>2, <1>3, <1>4

LEMMA InitInv == Init => IInv
<1> SUFFICES ASSUME Init PROVE IInv
  OBVIOUS
<1>1. PICK d \in Databases :
        /\ boards = d.boards /\ marked = d.marked
        /\ lanes = d.lanes /\ lists = d.lists /\ cards = d.cards
  BY DEF Init
<1>2. TypeOK
  BY <1>1, DatabasesAssumption, StructureAssumption DEF Init, TypeOK
<1>3. IsFiniteSet(DOMAIN lanes) /\ IsFiniteSet(DOMAIN lists)
  <2>1. DOMAIN lanes \subseteq Lanes \cup Lists /\ DOMAIN lists \subseteq Lanes \cup Lists
    BY <1>1, DatabasesAssumption
  <2> QED BY <2>1, StructureAssumption, FS_Subset
<1>4. Types
  BY <1>2, <1>3 DEF Init, Types, Phases, Structural, Unread
<1>5. LanesOnce /\ ListsOnce
  <2>1. DOMAIN lanes \ Lanes = {} /\ DOMAIN lists \ Lists = {}
    BY <1>1, DatabasesAssumption
  <2> QED BY <2>1 DEF Init, LanesOnce, ListsOnce
<1>6. JoinOrdered
  BY DEF Init, JoinOrdered
<1> QED BY <1>4, <1>5, <1>6 DEF IInv

(* What a step reads at its start.                                         *)
LEMMA ReadFacts ==
    ASSUME Types
    PROVE  /\ Defaults \in [Boards -> Nat \cup {None}]
           /\ \A i \in DOMAIN lanes :
                 Defaults[lanes[i].board] = None => lanes[i].kind # "visible"
           /\ First \in [Boards -> Nat \cup {None}]
           /\ \A b \in Boards : First[b] # None => First[b] \in DOMAIN lists
           /\ \A i \in DOMAIN lists : First[lists[i].board] # None
<1> DEFINE V(b) == {i \in DOMAIN lanes : lanes[i].board = b /\ lanes[i].kind = "visible"}
           L(b) == {i \in DOMAIN lists : lists[i].board = b}
<1>1. \A b \in Boards : V(b) \in SUBSET Nat /\ L(b) \in SUBSET Nat
  BY DEF Types, TypeOK
<1>2. \A i \in DOMAIN lanes : lanes[i].board \in Boards
  BY DEF Types, TypeOK, Lane
<1>3. \A i \in DOMAIN lists : lists[i].board \in Boards
  BY DEF Types, TypeOK, List
<1>4. Defaults = [b \in Boards |-> Least(V(b))] /\ First = [b \in Boards |-> Least(L(b))]
  BY DEF Defaults, First
<1>5. \A i \in DOMAIN lanes : lanes[i].kind = "visible" => i \in V(lanes[i].board)
  OBVIOUS
<1>6. \A i \in DOMAIN lists : i \in L(lists[i].board)
  OBVIOUS
<1>7. \A b \in Boards : L(b) \subseteq DOMAIN lists
  OBVIOUS
<1> HIDE DEF V, L
<1>8. \A b \in Boards :
        /\ Least(V(b)) \in Nat \cup {None} /\ Least(L(b)) \in Nat \cup {None}
        /\ V(b) # {} => Least(V(b)) # None
        /\ L(b) # {} => Least(L(b)) # None
        /\ Least(L(b)) # None => Least(L(b)) \in L(b)
  BY <1>1, LeastFacts
<1>9. Defaults \in [Boards -> Nat \cup {None}] /\ First \in [Boards -> Nat \cup {None}]
  BY <1>4, <1>8
<1>10. \A i \in DOMAIN lanes : Defaults[lanes[i].board] = None => lanes[i].kind # "visible"
  BY <1>2, <1>4, <1>5, <1>8
<1>11. \A b \in Boards : First[b] # None => First[b] \in DOMAIN lists
  BY <1>4, <1>7, <1>8
<1>12. \A i \in DOMAIN lists : First[lists[i].board] # None
  BY <1>3, <1>4, <1>6, <1>8
<1> QED BY <1>9, <1>10, <1>11, <1>12

LEMMA JoinedHasNoDuplicates ==
    ASSUME Types, Absorbed = {}
    PROVE  ~Duplicates(board)
<1> SUFFICES ASSUME NEW i \in Active(board), NEW j \in Active(board),
                    i # j, lists[i].title = lists[j].title
             PROVE  FALSE
  BY DEF Duplicates
<1>1. Survivor(i) = i /\ Survivor(j) = j
  BY DEF Absorbed
<1>2. Survivor(i) = Survivor(j)
  BY DEF Survivor
<1> QED BY <1>1, <1>2

-----------------------------------------------------------------------------
(* Steps that write nothing, by what they change of the run.               *)

(* Every one of them keeps what was said of the phase it leaves; what has  *)
(* to be shown is what the phase it enters requires.                       *)
LEMMA QuietInv ==
    ASSUME IInv, UNCHANGED database, phase' \in Phases,
           defaults' \in [Boards -> Nat \cup {None}],
           first' \in [Boards -> Nat \cup {None}],
           todo' \subseteq Boards, board' \in Boards \cup {None},
           from' \in Nat \cup {None},
           phase' = "lanes" => defaults' = Defaults,
           phase' = "rescue" => first' = First,
           phase' = "relink" => from' \in Active(board) /\ board' = board,
           phase' \in {"unstamp", "clear"} => ~Duplicates(board) /\ board' = board,
           phase' = "clear" => Stamped(board) = {}
    PROVE  IInv'
<1> USE DEF database
<1>1. Types'
  BY DEF IInv, Types, TypeOK
<1>2. LanesOnce'
  BY ReadFacts DEF IInv, LanesOnce
<1>3. ListsOnce'
  BY ReadFacts DEF IInv, ListsOnce
<1>4. JoinOrdered'
  BY DEF JoinOrdered, Active, ListsOf, Stamped, Duplicates
<1> QED BY <1>1, <1>2, <1>3, <1>4 DEF IInv

LEMMA RunStepInv ==
    ASSUME IInv, Begin \/ Fail \/ End
    PROVE  IInv'
<1>1. Unread \in [Boards -> Nat \cup {None}]
  BY DEF Unread
<1>2. Types
  BY DEF IInv
<1>3. CASE Begin
  BY <1>2, <1>3, QuietInv DEF Begin, Types, TypeOK, Phases, Structural, reads, work
<1>4. CASE Fail
  BY <1>1, <1>2, <1>4, QuietInv DEF Fail, Forget, Types, TypeOK, Phases, Structural
<1>5. CASE End
  BY <1>2, <1>5, QuietInv DEF End, Types, TypeOK, Phases, Structural, reads, work
<1> QED BY <1>3, <1>4, <1>5

LEMMA StructureControlInv ==
    ASSUME IInv, CheckStructure \/ LanesEnd \/ FillEnds \/ RescueEnds \/ RehomeEnds
    PROVE  IInv'
<1>1. Unread \in [Boards -> Nat \cup {None}]
  BY DEF Unread
<1>2. Types
  BY DEF IInv
<1> USE DEF Types, TypeOK, Phases, Structural
<1>3. CASE CheckStructure
  BY <1>2, <1>3, ReadFacts, QuietInv DEF CheckStructure, work
<1>4. CASE LanesEnd
  BY <1>2, <1>4, QuietInv DEF LanesEnd, reads, work
<1>5. CASE FillEnds
  BY <1>2, <1>5, ReadFacts, QuietInv DEF FillEnds, work
<1>6. CASE RescueEnds
  BY <1>2, <1>6, QuietInv DEF RescueEnds, reads, work
<1>7. CASE RehomeEnds
  BY <1>1, <1>2, <1>7, QuietInv DEF RehomeEnds, Forget, work
<1> QED BY <1>3, <1>4, <1>5, <1>6, <1>7

LEMMA MergeControlInv ==
    ASSUME IInv,
           \/ CheckMerge \/ MergeEnds \/ JoinEnds \/ UnstampEnds
           \/ \E b \in Boards : MergeBoard(b)
           \/ \E i \in DOMAIN lists : JoinList(i)
    PROVE  IInv'
<1>1. Types /\ JoinOrdered
  BY DEF IInv
<1> USE DEF Types, TypeOK, Phases, Structural
<1>2. CASE CheckMerge
  BY <1>1, <1>2, QuietInv DEF CheckMerge, reads
<1>3. CASE MergeEnds
  BY <1>1, <1>3, QuietInv DEF MergeEnds, reads, work
<1>4. CASE JoinEnds
  BY <1>1, <1>4, JoinedHasNoDuplicates, QuietInv DEF JoinEnds, AfterJoin, reads, work
<1>5. CASE UnstampEnds
  BY <1>1, <1>5, QuietInv DEF UnstampEnds, JoinOrdered, reads, work
<1>6. ASSUME NEW b \in Boards, MergeBoard(b) PROVE IInv'
  BY <1>1, <1>6, QuietInv DEF MergeBoard, reads
<1>7. ASSUME NEW i \in DOMAIN lists, JoinList(i) PROVE IInv'
  BY <1>1, <1>7, QuietInv DEF JoinList, Absorbed, reads
<1> QED BY <1>2, <1>3, <1>4, <1>5, <1>6, <1>7

-----------------------------------------------------------------------------
(* Steps that write one card.                                              *)

LEMMA PlaceInv ==
    ASSUME IInv, NEW c \in Cards, NEW list \in Nat \cup {None},
           NEW lane \in Nat \cup {None}, Place(c, list, lane)
    PROVE  IInv'
<1>1. cards' \in [Cards -> Card]
  BY DEF IInv, Types, TypeOK, Place, Card
<1>2. Types'
  BY <1>1 DEF IInv, Types, TypeOK, Place, reads, work
<1>3. LanesOnce' /\ ListsOnce'
  BY DEF IInv, LanesOnce, ListsOnce, Place, reads
<1>4. JoinOrdered'
  BY DEF IInv, JoinOrdered, Active, ListsOf, Stamped, Duplicates, Place, work
<1> QED BY <1>2, <1>3, <1>4 DEF IInv

LEMMA CardInv ==
    ASSUME IInv, NEW c \in Cards, Fill(c) \/ Rescue(c) \/ Rehome(c) \/ Relink(c)
    PROVE  IInv'
<1>1. Types /\ ListsOnce /\ JoinOrdered
  BY DEF IInv
<1>2. cards[c] \in Card /\ cards[c].board \in Boards
  BY <1>1 DEF Types, TypeOK, Card
<1>3. defaults[cards[c].board] \in Nat \cup {None} /\ first[cards[c].board] \in Nat \cup {None}
  BY <1>1, <1>2 DEF Types
<1>4. CASE Fill(c)
  BY <1>2, <1>3, <1>4, PlaceInv DEF Fill, Card
<1>5. CASE Rescue(c)
  <2>1. lists[first[cards[c].board]] \in List
    BY <1>1, <1>2, <1>5 DEF Rescue, ListsOnce, Types, TypeOK
  <2> QED BY <1>3, <1>5, <2>1, PlaceInv DEF Rescue, List
<1>6. CASE Rehome(c)
  BY <1>2, <1>3, <1>6, PlaceInv DEF Rehome, Card
<1>7. CASE Relink(c)
  <2>1. Survivor(from) \in Nat
    BY <1>1, <1>7, SurvivorFacts DEF Relink, JoinOrdered, Active, ListsOf, Types, TypeOK
  <2> QED BY <1>2, <1>7, <2>1, PlaceInv DEF Relink, Card
<1> QED BY <1>4, <1>5, <1>6, <1>7

-----------------------------------------------------------------------------
(* Steps that write a lane, a list or a board.                             *)

LEMMA InsertLaneInv ==
    ASSUME IInv, NEW b \in Boards, InsertLane(b)
    PROVE  IInv'
<1> DEFINE ids == DOMAIN lanes \cup Lanes
           i == New(ids)
<1>1. Types /\ LanesOnce /\ ListsOnce /\ JoinOrdered
  BY DEF IInv
<1>2. i \in Nat \ ids
  <2>1. ids \in SUBSET Nat /\ IsFiniteSet(ids) /\ ids # {}
    <3>1. IsFiniteSet(Lanes)
      BY StructureAssumption, FS_Subset
    <3> QED BY <1>1, <3>1, StructureAssumption, FS_Union DEF Types, TypeOK
  <2> HIDE DEF ids
  <2> QED BY <2>1, NewFacts
<1>3. i \in Nat /\ i \notin DOMAIN lanes /\ i \notin Lanes
  BY <1>2
<1>4. /\ phase = "lanes" /\ phase' = "lanes" /\ defaults[b] = None
      /\ defaults' = [defaults EXCEPT ![b] = i]
      /\ lanes' = [j \in DOMAIN lanes \cup {i} |->
                      IF j = i THEN [board |-> b, kind |-> "visible"] ELSE lanes[j]]
      /\ UNCHANGED <<boards, marked, lists, cards, first, todo, board, from>>
  BY DEF InsertLane, Bare, work
<1> HIDE DEF i
<1>5. /\ DOMAIN lanes' = DOMAIN lanes \cup {i}
      /\ lanes'[i] = [board |-> b, kind |-> "visible"]
      /\ \A j \in DOMAIN lanes : lanes'[j] = lanes[j]
  BY <1>3, <1>4
<1>6. defaults'[b] = i /\ \A x \in Boards \ {b} : defaults'[x] = defaults[x]
  BY <1>1, <1>4 DEF Types
<1>7. Types'
  <2>1. lanes' \in [DOMAIN lanes' -> Lane]
    BY <1>1, <1>4 DEF Types, TypeOK, Lane
  <2>2. defaults' \in [Boards -> Nat \cup {None}]
    BY <1>1, <1>3, <1>4 DEF Types
  <2>3. IsFiniteSet(DOMAIN lanes')
    BY <1>1, <1>5, FS_AddElement DEF Types
  <2>4. DOMAIN lanes' \subseteq Nat
    BY <1>1, <1>3, <1>5 DEF Types, TypeOK
  <2> QED BY <1>1, <1>4, <2>1, <2>2, <2>3, <2>4 DEF Types, TypeOK
<1>8. LanesOnce'
  <2>1. \A j \in DOMAIN lanes \ Lanes : lanes[j].board # b
    BY <1>1, <1>4 DEF LanesOnce
  <2>2. \A j, k \in DOMAIN lanes' \ Lanes : lanes'[j].board = lanes'[k].board => j = k
    BY <1>1, <1>5, <2>1 DEF LanesOnce
  <2>3. \A j \in DOMAIN lanes' \ Lanes : lanes'[j].kind = "visible"
    BY <1>1, <1>5 DEF LanesOnce
  <2>4. ASSUME NEW j \in DOMAIN lanes', defaults'[lanes'[j].board] = None
        PROVE  lanes'[j].kind # "visible"
    <3>1. lanes'[j].board # b
      BY <1>3, <1>6, <2>4, StructureAssumption
    <3>2. j \in DOMAIN lanes /\ lanes'[j] = lanes[j]
      BY <1>5, <3>1
    <3>3. lanes[j].board \in Boards \ {b}
      BY <1>1, <3>1, <3>2 DEF Types, TypeOK, Lane
    <3> QED BY <1>1, <1>4, <1>6, <2>4, <3>2, <3>3 DEF LanesOnce
  <2> QED BY <2>2, <2>3, <2>4 DEF LanesOnce
<1>9. ListsOnce' /\ JoinOrdered'
  BY <1>1, <1>4 DEF ListsOnce, JoinOrdered
<1> QED BY <1>7, <1>8, <1>9 DEF IInv

LEMMA InsertRescueListFacts ==
    ASSUME IInv, NEW b \in Boards, InsertRescueList(b)
    PROVE  \E i \in Nat :
             /\ i \notin DOMAIN lists /\ i \notin Lists
             /\ phase = "rescue" /\ phase' = "rescue" /\ first[b] = None
             /\ first' = [first EXCEPT ![b] = i]
             /\ DOMAIN lists' = DOMAIN lists \cup {i}
             /\ lists' \in [DOMAIN lists' -> List]
             /\ lists'[i].board = b
             /\ \A j \in DOMAIN lists : lists'[j] = lists[j]
             /\ UNCHANGED <<boards, marked, lanes, cards, defaults, todo, board, from>>
<1> DEFINE ids == DOMAIN lists \cup Lists
           i == New(ids)
<1>1. Types
  BY DEF IInv
<1>2. i \in Nat \ ids
  <2>1. ids \in SUBSET Nat /\ IsFiniteSet(ids) /\ ids # {}
    <3>1. IsFiniteSet(Lists)
      BY StructureAssumption, FS_Subset
    <3> QED BY <1>1, <3>1, StructureAssumption, FS_Union DEF Types, TypeOK
  <2> HIDE DEF ids
  <2> QED BY <2>1, NewFacts
<1>3. i \in Nat /\ i \notin DOMAIN lists /\ i \notin Lists
  BY <1>2
<1> DEFINE l == [board |-> b, title |-> Rescued, lane |-> defaults[b], kind |-> "active"]
<1>4. /\ phase = "rescue" /\ phase' = "rescue" /\ first[b] = None
      /\ first' = [first EXCEPT ![b] = i]
      /\ lists' = [j \in DOMAIN lists \cup {i} |-> IF j = i THEN l ELSE lists[j]]
      /\ UNCHANGED <<boards, marked, lanes, cards, defaults, todo, board, from>>
  BY DEF InsertRescueList, work
<1>5. l \in List /\ l.board = b
  BY <1>1 DEF Types, List
<1> HIDE DEF i, l
<1>6. lists' \in [DOMAIN lists' -> List]
  BY <1>1, <1>4, <1>5 DEF Types, TypeOK
<1>7. DOMAIN lists' = DOMAIN lists \cup {i} /\ lists'[i].board = b
  BY <1>4, <1>5
<1>8. \A j \in DOMAIN lists : lists'[j] = lists[j]
  BY <1>3, <1>4
<1> QED BY <1>3, <1>4, <1>6, <1>7, <1>8

LEMMA InsertRescueListInv ==
    ASSUME IInv, NEW b \in Boards, InsertRescueList(b)
    PROVE  IInv'
<1>1. Types /\ LanesOnce /\ ListsOnce /\ JoinOrdered
  BY DEF IInv
<1>2. PICK i \in Nat :
             /\ i \notin DOMAIN lists /\ i \notin Lists
             /\ phase = "rescue" /\ phase' = "rescue" /\ first[b] = None
             /\ first' = [first EXCEPT ![b] = i]
             /\ DOMAIN lists' = DOMAIN lists \cup {i}
             /\ lists' \in [DOMAIN lists' -> List]
             /\ lists'[i].board = b
             /\ \A j \in DOMAIN lists : lists'[j] = lists[j]
             /\ UNCHANGED <<boards, marked, lanes, cards, defaults, todo, board, from>>
  BY InsertRescueListFacts
<1>3. first'[b] = i /\ \A x \in Boards \ {b} : first'[x] = first[x]
  BY <1>1, <1>2 DEF Types
<1>4. Types'
  <2>1. first' \in [Boards -> Nat \cup {None}]
    BY <1>1, <1>2 DEF Types
  <2>2. IsFiniteSet(DOMAIN lists')
    BY <1>1, <1>2, FS_AddElement DEF Types
  <2>3. DOMAIN lists' \subseteq Nat
    BY <1>1, <1>2 DEF Types, TypeOK
  <2> QED BY <1>1, <1>2, <2>1, <2>2, <2>3 DEF Types, TypeOK
<1>5. LanesOnce'
  BY <1>1, <1>2 DEF LanesOnce
<1>6. ListsOnce'
  <2>1. \A j \in DOMAIN lists : lists[j].board \in Boards /\ lists[j].board # b
    BY <1>1, <1>2 DEF ListsOnce, Types, TypeOK, List
  <2>2. \A j, k \in DOMAIN lists' \ Lists : lists'[j].board = lists'[k].board => j = k
    BY <1>1, <1>2, <2>1 DEF ListsOnce
  <2>3. \A x \in Boards : first'[x] # None => first'[x] \in DOMAIN lists'
    BY <1>1, <1>2, <1>3 DEF ListsOnce
  <2>4. \A j \in DOMAIN lists' : first'[lists'[j].board] # None
    BY <1>1, <1>2, <1>3, <2>1, StructureAssumption DEF ListsOnce
  <2> QED BY <2>2, <2>3, <2>4 DEF ListsOnce
<1>7. JoinOrdered'
  BY <1>2 DEF JoinOrdered
<1> QED BY <1>4, <1>5, <1>6, <1>7 DEF IInv

LEMMA DeleteListInv ==
    ASSUME IInv, DeleteList
    PROVE  IInv'
<1>1. Types /\ LanesOnce /\ ListsOnce
  BY DEF IInv
<1>2. /\ phase' = "join" /\ from' = None
      /\ lists' = [i \in DOMAIN lists \ {from} |-> lists[i]]
      /\ UNCHANGED <<boards, marked, lanes, cards, defaults, first, todo, board>>
  BY DEF DeleteList, reads
<1>3. /\ DOMAIN lists' = DOMAIN lists \ {from}
      /\ \A i \in DOMAIN lists' : lists'[i] = lists[i]
  BY <1>2
<1>4. Types'
  <2>1. IsFiniteSet(DOMAIN lists')
    BY <1>1, <1>3, FS_RemoveElement DEF Types
  <2>2. lists' \in [DOMAIN lists' -> List]
    BY <1>1, <1>2 DEF Types, TypeOK
  <2> QED BY <1>1, <1>2, <1>3, <2>1, <2>2 DEF Types, TypeOK, Phases
<1>5. LanesOnce' /\ JoinOrdered'
  BY <1>1, <1>2 DEF LanesOnce, JoinOrdered
<1>6. ListsOnce'
  BY <1>1, <1>2, <1>3 DEF ListsOnce
<1> QED BY <1>4, <1>5, <1>6 DEF IInv

LEMMA UnstampFacts ==
    ASSUME IInv, NEW i \in DOMAIN lists, Unstamp(i)
    PROVE  /\ DOMAIN lists' = DOMAIN lists
           /\ lists' \in [DOMAIN lists -> List]
           /\ \A j \in DOMAIN lists : /\ lists'[j].board = lists[j].board
                                     /\ lists'[j].title = lists[j].title
                                     /\ lists'[j].kind = lists[j].kind
<1>1. lists \in [DOMAIN lists -> List]
  BY DEF IInv, Types, TypeOK
<1> DEFINE l == [lists[i] EXCEPT !.lane = None]
<1>2. lists' = [lists EXCEPT ![i] = l]
  BY DEF Unstamp
<1>3. /\ l \in List /\ l.board = lists[i].board /\ l.title = lists[i].title
      /\ l.kind = lists[i].kind
  BY <1>1 DEF List
<1> HIDE DEF l
<1> QED BY <1>1, <1>2, <1>3

LEMMA UnstampInv ==
    ASSUME IInv, NEW i \in DOMAIN lists, Unstamp(i)
    PROVE  IInv'
<1>1. Types /\ LanesOnce /\ ListsOnce /\ JoinOrdered
  BY DEF IInv
<1>2. /\ phase = "unstamp" /\ phase' = "unstamp"
      /\ UNCHANGED <<boards, marked, lanes, cards, defaults, first, todo, board, from>>
  BY DEF Unstamp, reads, work
<1>3. Types'
  BY <1>1, <1>2, UnstampFacts DEF Types, TypeOK
<1>4. LanesOnce'
  BY <1>1, <1>2 DEF LanesOnce
<1>5. ListsOnce'
  BY <1>1, <1>2, UnstampFacts DEF ListsOnce
<1>6. JoinOrdered'
  <2>1. Active(board)' = Active(board)
    BY <1>2, UnstampFacts DEF Active, ListsOf
  <2>2. Active(board) \subseteq DOMAIN lists
    BY DEF Active, ListsOf
  <2>3. ~Duplicates(board)'
    BY <1>1, <1>2, <2>1, <2>2, UnstampFacts DEF Duplicates, JoinOrdered
  <2> QED BY <1>2, <2>3 DEF JoinOrdered
<1> QED BY <1>3, <1>4, <1>5, <1>6 DEF IInv

LEMMA ClearMarkersInv ==
    ASSUME IInv, ClearMarkers
    PROVE  IInv'
<1>1. /\ phase' = "merge" /\ board' = None /\ marked' = marked \ {board}
      /\ UNCHANGED <<boards, lanes, lists, cards, defaults, first, todo, from>>
  BY DEF ClearMarkers, reads
<1>2. Types'
  BY <1>1 DEF IInv, Types, TypeOK, Phases
<1>3. LanesOnce' /\ ListsOnce' /\ JoinOrdered'
  BY <1>1 DEF IInv, LanesOnce, ListsOnce, JoinOrdered
<1> QED BY <1>2, <1>3 DEF IInv

LEMMA NextInv == IInv /\ [Next]_vars => IInv'
<1> SUFFICES ASSUME IInv, [Next]_vars PROVE IInv'
  OBVIOUS
<1>1. CASE Begin \/ End \/ Fail
  BY <1>1, RunStepInv
<1>2. CASE StructureStep
  BY <1>2, StructureControlInv, CardInv, InsertLaneInv, InsertRescueListInv
     DEF StructureStep
<1>3. CASE MergeStep
  BY <1>3, MergeControlInv, CardInv, DeleteListInv, UnstampInv, ClearMarkersInv
     DEF MergeStep
<1>4. CASE UNCHANGED vars
  BY <1>4 DEF vars, database, reads, work, IInv, Types, TypeOK, LanesOnce, ListsOnce,
     JoinOrdered, Active, ListsOf, Stamped, Duplicates
<1> QED BY <1>1, <1>2, <1>3, <1>4 DEF Next

LEMMA Inductive == Spec => []IInv
BY InitInv, NextInv, PTL DEF Spec

(* The documents keep their types: no step stores an identifier that none  *)
(* of the queries has found.                                               *)
THEOREM TypeCorrect == Spec => []TypeOK
<1>1. IInv => TypeOK
  BY DEF IInv, Types
<1> QED BY <1>1, Inductive, PTL

-----------------------------------------------------------------------------
(* A set without two elements has at most one.                             *)
LEMMA AtMostOne ==
    ASSUME NEW S, \A x, y \in S : x = y
    PROVE  Cardinality(S) <= 1
<1>1. CASE S = {}
  BY <1>1, FS_EmptySet
<1>2. CASE S # {}
  <2>1. PICK x \in S : S = {x}
    BY <1>2
  <2> QED BY <2>1, FS_Singleton
<1> QED BY <1>1, <1>2

(* RunSwimlaneStructure gives a board at most one lane and one list of its *)
(* own, after any number of runs that failed or were killed anywhere.      *)
THEOREM NothingCreatedTwice == Spec => []CreatedOnce
<1>1. ASSUME IInv PROVE CreatedOnce
  <2> SUFFICES ASSUME NEW b \in Boards
      PROVE /\ Cardinality({i \in DOMAIN lanes \ Lanes : lanes[i].board = b}) <= 1
            /\ Cardinality({i \in DOMAIN lists \ Lists : lists[i].board = b}) <= 1
    BY DEF CreatedOnce
  <2> DEFINE La == {i \in DOMAIN lanes \ Lanes : lanes[i].board = b}
             Li == {i \in DOMAIN lists \ Lists : lists[i].board = b}
  <2>1. \A x, y \in La : x = y
    BY <1>1 DEF IInv, LanesOnce
  <2>2. \A x, y \in Li : x = y
    BY <1>1 DEF IInv, ListsOnce
  <2> HIDE DEF La, Li
  <2> QED BY <2>1, <2>2, AtMostOne DEF La, Li
<1> QED BY <1>1, Inductive, PTL

-----------------------------------------------------------------------------
(* A card moves only to a list of the same board and title, and no list is *)
(* deleted while a card names it.                                          *)
LEMMA PlaceKeepsColumn ==
    ASSUME NEW c \in Cards, Housed(c), cards \in [Cards -> Card],
           NEW d \in Cards, NEW list, NEW lane, Place(d, list, lane),
           d = c => /\ list \in DOMAIN lists
                    /\ lists[list].board = lists[cards[c].list].board
                    /\ lists[list].title = lists[cards[c].list].title
    PROVE  Housed(c)' /\ Column(c)' = Column(c)
<1>1. lists' = lists
  BY DEF Place
<1>2. CASE d = c
  <2>1. cards'[c].list = list
    BY <1>2 DEF Place, Card
  <2> QED BY <1>1, <1>2, <2>1 DEF Housed, Column
<1>3. CASE d # c
  <2>1. cards'[c] = cards[c]
    BY <1>3 DEF Place
  <2> QED BY <1>1, <2>1 DEF Housed, Column
<1> QED BY <1>2, <1>3

LEMMA CardKeepsColumn ==
    ASSUME IInv, NEW c \in Cards, Housed(c),
           NEW d \in Cards, Fill(d) \/ Rescue(d) \/ Rehome(d) \/ Relink(d)
    PROVE  Housed(c)' /\ Column(c)' = Column(c)
<1>1. Types /\ JoinOrdered /\ cards \in [Cards -> Card]
  BY DEF IInv, Types, TypeOK
<1>2. cards[c].list \in DOMAIN lists
  BY DEF Housed
<1>3. CASE Fill(d)
  BY <1>1, <1>2, <1>3, PlaceKeepsColumn DEF Fill
<1>4. CASE Rescue(d)
  <2>1. d # c
    BY <1>2, <1>4 DEF Rescue, Lost
  <2> QED BY <1>1, <1>4, <2>1, PlaceKeepsColumn DEF Rescue
<1>5. CASE Rehome(d)
  BY <1>1, <1>2, <1>5, PlaceKeepsColumn DEF Rehome
<1>6. CASE Relink(d)
  <2>1. from \in Active(board) /\ cards[d].list = from
    BY <1>1, <1>6 DEF Relink, Held, JoinOrdered
  <2>2. /\ Survivor(from) \in Active(board)
        /\ lists[Survivor(from)].title = lists[from].title
    BY <1>1, <2>1, SurvivorFacts
  <2>3. /\ Survivor(from) \in DOMAIN lists
        /\ lists[Survivor(from)].board = lists[from].board
    BY <2>1, <2>2 DEF Active, ListsOf
  <2> QED BY <1>1, <1>6, <2>1, <2>2, <2>3, PlaceKeepsColumn DEF Relink
<1> QED BY <1>3, <1>4, <1>5, <1>6

LEMMA StepKeepsColumn ==
    ASSUME IInv, NEW c \in Cards, Housed(c), Next
    PROVE  Housed(c)' /\ Column(c)' = Column(c)
<1>1. cards[c].list \in DOMAIN lists
  BY DEF Housed
<1>2. ASSUME UNCHANGED <<lists, cards>>
      PROVE  Housed(c)' /\ Column(c)' = Column(c)
  BY <1>2 DEF Housed, Column
<1>3. CASE Begin \/ End \/ Fail
  BY <1>2, <1>3 DEF Begin, End, Fail, database
<1>4. CASE StructureStep
  <2>1. CASE CheckStructure \/ LanesEnd \/ FillEnds \/ RescueEnds \/ RehomeEnds
    BY <1>2, <2>1 DEF CheckStructure, LanesEnd, FillEnds, RescueEnds, RehomeEnds, database
  <2>2. ASSUME NEW b \in Boards, InsertLane(b)
        PROVE  Housed(c)' /\ Column(c)' = Column(c)
    BY <1>2, <2>2 DEF InsertLane
  <2>3. ASSUME NEW b \in Boards, InsertRescueList(b)
        PROVE  Housed(c)' /\ Column(c)' = Column(c)
    BY <1>1, <2>3, InsertRescueListFacts DEF Housed, Column
  <2> QED BY <1>4, <2>1, <2>2, <2>3, CardKeepsColumn DEF StructureStep
<1>5. CASE MergeStep
  <2>1. CASE CheckMerge \/ MergeEnds \/ JoinEnds \/ UnstampEnds \/ ClearMarkers
    BY <1>2, <2>1 DEF CheckMerge, MergeEnds, JoinEnds, UnstampEnds, ClearMarkers, database
  <2>2. CASE DeleteList
    <3>1. cards[c].list # from /\ cards' = cards
      BY <2>2 DEF DeleteList, Held
    <3>2. lists' = [i \in DOMAIN lists \ {from} |-> lists[i]]
      BY <2>2 DEF DeleteList
    <3> QED BY <1>1, <3>1, <3>2 DEF Housed, Column
  <2>3. ASSUME NEW b \in Boards, MergeBoard(b)
        PROVE  Housed(c)' /\ Column(c)' = Column(c)
    BY <1>2, <2>3 DEF MergeBoard, database
  <2>4. ASSUME NEW i \in DOMAIN lists, JoinList(i)
        PROVE  Housed(c)' /\ Column(c)' = Column(c)
    BY <1>2, <2>4 DEF JoinList, database
  <2>5. ASSUME NEW i \in DOMAIN lists, Unstamp(i)
        PROVE  Housed(c)' /\ Column(c)' = Column(c)
    <3>1. cards' = cards
      BY <2>5 DEF Unstamp
    <3> QED BY <1>1, <2>5, <3>1, UnstampFacts DEF Housed, Column
  <2> QED BY <1>5, <2>1, <2>2, <2>3, <2>4, <2>5, CardKeepsColumn DEF MergeStep
<1> QED BY <1>3, <1>4, <1>5 DEF Next

(* In no interleaving of writes, failures and later runs does a card that  *)
(* is in a list lose it, or come to one of another title or board.         *)
THEOREM CardsKeepTheirColumn == Spec => CardsStayInTheirColumn
<1>1. IInv /\ [Next]_vars =>
        [\A c \in Cards : Housed(c) => Housed(c)' /\ Column(c)' = Column(c)]_vars
  BY StepKeepsColumn
<1> QED BY <1>1, Inductive, PTL DEF Spec, CardsStayInTheirColumn

-----------------------------------------------------------------------------
(* A board's marker, which alone makes a later run join a board that shows *)
(* no symptom, goes only when the board's lists are joined and unstamped.  *)
THEOREM MarkersGoLast == Spec => MarkerGoesLast
<1>1. ASSUME IInv, Next, NEW b \in marked \ marked'
      PROVE  Stamped(b) = {} /\ ~Duplicates(b)
  <2>1. marked' # marked
    BY <1>1
  <2>2. ~(Begin \/ End \/ Fail)
    BY <2>1 DEF Begin, End, Fail, database
  <2>3. ~StructureStep
    BY <2>1 DEF StructureStep, CheckStructure, LanesEnd, FillEnds, RescueEnds, RehomeEnds,
       InsertLane, InsertRescueList, Fill, Rescue, Rehome, Place, database
  <2>4. CASE ClearMarkers
    <3>1. b = board /\ phase = "clear"
      BY <1>1, <2>4 DEF ClearMarkers
    <3> QED BY <1>1, <3>1 DEF IInv, JoinOrdered
  <2>5. CASE MergeStep /\ ~ClearMarkers
    BY <2>1, <2>5 DEF MergeStep, CheckMerge, MergeEnds, DeleteList, JoinEnds, UnstampEnds,
       MergeBoard, JoinList, Unstamp, Relink, Place, database
  <2> QED BY <1>1, <2>2, <2>3, <2>4, <2>5 DEF Next
<1>2. IInv /\ [Next]_vars =>
        [\A b \in marked \ marked' : Stamped(b) = {} /\ ~Duplicates(b)]_vars
  BY <1>1
<1> QED BY <1>2, Inductive, PTL DEF Spec, MarkerGoesLast

-----------------------------------------------------------------------------
(* What a run has established, by the phase it is at.                      *)

Reading == {"lanes", "fill", "rescue", "rehome"}

Merging == {"merge", "join", "relink", "unstamp", "clear"}

(* What the first step leaves when it writes, and when it is done.  Cards  *)
(* of boards without a document may keep what no default can replace.      *)
Settled ==
    /\ \A b \in boards : Defaults[b] # None
    /\ \A c \in Cards : ~Lost(c)
    /\ \A c \in Cards : cards[c].lane = None \/ Foreign(c) => Defaults[cards[c].board] = None

Structured == ~NeedsStructure \/ Settled

(* What the second step leaves.                                            *)
Joined ==
    /\ marked = {}
    /\ \A b \in Boards : Stamped(b) # {} => ~Split(b)

(* What a run has read of the lanes at its start is true of them while it  *)
(* writes: the defaults follow its own inserts, the owners lack them.      *)
ReadsTrue ==
    phase \in Reading =>
        /\ defaults = Defaults
        /\ \A i \in DOMAIN owners : i \in DOMAIN lanes /\ owners[i] = lanes[i].board

StructureProgress ==
    /\ phase \in {"fill", "rescue", "rehome"} => \A b \in boards : defaults[b] # None
    /\ phase \in {"rescue", "rehome"} => Unplaced = {}
    /\ phase = "rehome" => \A c \in Cards : ~Lost(c)
    /\ clean /\ phase \in Merging \cup {"checkmerge", "ended"} => Structured

Pending(b) == b \in marked \/ (Stamped(b) # {} /\ Split(b))

(* A board that has to be joined is among those still to be looked at, or  *)
(* is the one that is joined.                                              *)
MergeProgress ==
    /\ phase \in Merging =>
         \A b \in Boards : Pending(b) => b \in todo \/ (phase # "merge" /\ b = board)
    /\ phase = "ended" => Joined

(* A run after one that ended without an error may find cards of deleted   *)
(* boards to look at, but reads what makes each of its writes unnecessary. *)
AfterCompletion ==
    completed =>
        /\ Structured /\ Joined
        /\ phase \in Reading => Settled /\ owners = Owners
        /\ phase = "merge" => \A b \in todo : ~Split(b)
        /\ phase \notin Merging \ {"merge"}

Running == ReadsTrue /\ StructureProgress /\ MergeProgress /\ AfterCompletion

(* The lane that is a board's default is one of the board.                 *)
LEMMA DefaultFacts ==
    ASSUME Types
    PROVE  /\ Defaults \in [Boards -> Nat \cup {None}]
           /\ \A b \in Boards : Defaults[b] # None =>
                 Defaults[b] \in DOMAIN lanes /\ lanes[Defaults[b]].board = b
<1> DEFINE V(b) == {i \in DOMAIN lanes : lanes[i].board = b /\ lanes[i].kind = "visible"}
<1>1. \A b \in Boards : V(b) \in SUBSET Nat
  BY DEF Types, TypeOK
<1>2. Defaults = [b \in Boards |-> Least(V(b))]
  BY DEF Defaults
<1>3. \A b \in Boards : \A i \in V(b) : i \in DOMAIN lanes /\ lanes[i].board = b
  OBVIOUS
<1> HIDE DEF V
<1>4. \A b \in Boards :
        /\ Least(V(b)) \in Nat \cup {None}
        /\ Least(V(b)) # None => Least(V(b)) \in V(b)
  BY <1>1, LeastFacts
<1> QED BY <1>2, <1>3, <1>4

(* What is said of the database when nothing is written.                   *)
LEMMA SameDatabase ==
    ASSUME UNCHANGED database
    PROVE  /\ Defaults' = Defaults /\ Owners' = Owners
           /\ Settled' = Settled /\ Structured' = Structured /\ Joined' = Joined
           /\ (\A c \in Cards : ~Lost(c))' = (\A c \in Cards : ~Lost(c))
           /\ \A b \in Boards : Pending(b)' = Pending(b) /\ Split(b)' = Split(b)
                                /\ Stamped(b)' = Stamped(b)
<1>1. Defaults' = Defaults /\ Owners' = Owners
  BY DEF database, Defaults, Owners
<1>2. \A c \in Cards : Lost(c)' = Lost(c) /\ Foreign(c)' = Foreign(c)
  BY DEF database, Lost, Foreign
<1>3. Settled' = Settled
  BY <1>1, <1>2 DEF database, Settled
<1>4. NeedsStructure' = NeedsStructure
  BY <1>2 DEF database, NeedsStructure
<1>5. \A b \in Boards : Stamped(b)' = Stamped(b) /\ Split(b)' = Split(b)
  BY DEF database, Stamped, ListsOf, Split, Duplicates, Active, Mismatch
<1>6. Joined' = Joined
  BY <1>5 DEF database, Joined
<1>7. \A b \in Boards : Pending(b)' = Pending(b)
  BY <1>5 DEF database, Pending
<1>8. Structured' = Structured
  BY <1>3, <1>4 DEF Structured
<1>9. (\A c \in Cards : ~Lost(c))' = (\A c \in Cards : ~Lost(c))
  BY <1>2
<1> QED BY <1>1, <1>3, <1>5, <1>6, <1>7, <1>8, <1>9

LEMMA InitRunning == Init => Running
BY DEF Init, Running, ReadsTrue, StructureProgress, MergeProgress, AfterCompletion,
   Reading, Merging

(* The checks find what the steps have to do.                              *)
LEMMA NothingNeeded ==
    ASSUME Types
    PROVE  /\ ~NeedsMerge => Joined
           /\ \A b \in Boards : Pending(b) => b \in marked \/ Stamped(b) # {}
<1>1. ASSUME ~NeedsMerge PROVE Joined
  <2>1. marked = {}
    BY <1>1 DEF NeedsMerge
  <2>2. ASSUME NEW b \in Boards, Stamped(b) # {} PROVE ~Split(b)
    <3>1. ~Duplicates(b) /\ \A i \in ListsOf(b) : ~Mismatch(i)
      BY <1>1, <2>2 DEF NeedsMerge
    <3>2. Active(b) \subseteq ListsOf(b)
      BY DEF Active
    <3> QED BY <2>1, <3>1, <3>2 DEF Split
  <2> QED BY <2>1, <2>2 DEF Joined
<1>2. \A b \in Boards : Pending(b) => b \in marked \/ Stamped(b) # {}
  BY DEF Pending
<1> QED BY <1>1, <1>2

(* With every default given, nothing unplaced, lost or stray is left.      *)
LEMMA RehomedIsSettled ==
    ASSUME Types, ReadsTrue, StructureProgress, phase = "rehome", Stray = {}
    PROVE  Settled
<1>1. defaults = Defaults /\ \A b \in boards : Defaults[b] # None
  BY DEF ReadsTrue, StructureProgress, Reading
<1>2. \A c \in Cards : ~Lost(c)
  BY DEF StructureProgress
<1>3. ASSUME NEW c \in Cards, cards[c].lane = None PROVE Defaults[cards[c].board] = None
  BY <1>1, <1>3 DEF StructureProgress, Unplaced
<1>4. ASSUME NEW c \in Cards, Foreign(c) PROVE Defaults[cards[c].board] = None
  <2> DEFINE b == cards[c].board
  <2>1. b \in Boards
    BY DEF Types, TypeOK, Card
  <2>2. /\ ~cards[c].archived /\ cards[c].lane # None
        /\ ~(cards[c].lane \in DOMAIN lanes /\ lanes[cards[c].lane].board = b)
    BY <1>4 DEF Foreign
  <2>3. ~OwnedBy(cards[c].lane, b)
    BY <2>2 DEF OwnedBy, ReadsTrue, Reading
  <2>4. defaults[b] \in {None, cards[c].lane}
    BY <2>2, <2>3 DEF Stray
  <2>5. Defaults[b] # cards[c].lane
    BY <2>1, <2>2, DefaultFacts
  <2> QED BY <1>1, <2>4, <2>5
<1> QED BY <1>1, <1>2, <1>3, <1>4 DEF Settled

-----------------------------------------------------------------------------
(* Steps that write nothing.                                               *)

LEMMA RunStepRunning ==
    ASSUME IInv, Running, Begin \/ Fail \/ End
    PROVE  Running'
<1>1. UNCHANGED database
  BY DEF Begin, Fail, End
<1>2. /\ Structured' = Structured /\ Joined' = Joined
      /\ phase' \notin Reading \cup Merging
  BY <1>1, SameDatabase DEF Begin, Fail, End, Reading, Merging
<1>3. ReadsTrue'
  BY <1>2 DEF ReadsTrue
<1>4. StructureProgress'
  BY <1>2 DEF Begin, Fail, End, StructureProgress, Reading, Merging
<1>5. MergeProgress'
  BY <1>2 DEF Begin, Fail, End, MergeProgress
<1>6. AfterCompletion'
  <2>1. completed' => completed \/ (End /\ clean)
    BY DEF Begin, Fail, End
  <2>2. completed' => Structured /\ Joined
    BY <2>1 DEF Running, AfterCompletion, StructureProgress, MergeProgress, End
  <2> QED BY <1>2, <2>2 DEF AfterCompletion, Merging
<1> QED BY <1>3, <1>4, <1>5, <1>6 DEF Running

LEMMA StructureControlRunning ==
    ASSUME IInv, Running,
           CheckStructure \/ LanesEnd \/ FillEnds \/ RescueEnds \/ RehomeEnds
    PROVE  Running'
<1>1. UNCHANGED database /\ UNCHANGED <<todo, board, clean, completed>>
  BY DEF CheckStructure, LanesEnd, FillEnds, RescueEnds, RehomeEnds, work
<1>2. /\ Defaults' = Defaults /\ Owners' = Owners
      /\ Settled' = Settled /\ Structured' = Structured /\ Joined' = Joined
      /\ (\A c \in Cards : ~Lost(c))' = (\A c \in Cards : ~Lost(c))
      /\ phase' \notin Merging \cup {"ended"}
  BY <1>1, SameDatabase DEF CheckStructure, LanesEnd, FillEnds, RescueEnds, RehomeEnds, Merging
<1>3. ReadsTrue'
  <2>1. CASE CheckStructure
    <3>1. \A i \in DOMAIN Owners : i \in DOMAIN lanes /\ Owners[i] = lanes[i].board
      BY DEF Owners
    <3> QED BY <1>1, <1>2, <2>1, <3>1 DEF CheckStructure, ReadsTrue, Reading, database
  <2>2. CASE LanesEnd \/ FillEnds \/ RescueEnds
    BY <1>1, <1>2, <2>2 DEF LanesEnd, FillEnds, RescueEnds, Running, ReadsTrue, Reading,
       database, reads
  <2>3. CASE RehomeEnds
    BY <2>3 DEF RehomeEnds, ReadsTrue, Reading
  <2> QED BY <2>1, <2>2, <2>3
<1>4. StructureProgress'
  <2>1. CASE CheckStructure
    BY <1>1, <1>2, <2>1 DEF CheckStructure, StructureProgress, Structured, Merging
  <2>2. CASE LanesEnd
    <3>1. \A b \in boards : defaults[b] # None
      BY <2>2 DEF LanesEnd, Bare
    <3> QED BY <1>1, <2>2, <3>1 DEF LanesEnd, StructureProgress, Merging, database, reads
  <2>3. CASE FillEnds
    <3>1. Unplaced' = {}
      BY <1>1, <2>3 DEF FillEnds, Unplaced, database
    <3>2. \A b \in boards : defaults[b] # None
      BY <2>3 DEF FillEnds, Running, StructureProgress
    <3> QED BY <1>1, <2>3, <3>1, <3>2 DEF FillEnds, StructureProgress, Merging, database
  <2>4. CASE RescueEnds
    <3>1. Unplaced' = Unplaced
      BY <1>1, <2>4 DEF RescueEnds, Unplaced, database, reads
    <3> QED BY <1>1, <1>2, <2>4, <3>1
        DEF RescueEnds, Running, StructureProgress, Merging, database, reads
  <2>5. CASE RehomeEnds
    <3>1. Settled
      BY <2>5, RehomedIsSettled DEF RehomeEnds, Running, IInv
    <3> QED BY <1>2, <2>5, <3>1 DEF RehomeEnds, StructureProgress, Structured
  <2> QED BY <2>1, <2>2, <2>3, <2>4, <2>5
<1>5. MergeProgress'
  BY <1>2 DEF MergeProgress
<1>6. AfterCompletion'
  <2> SUFFICES ASSUME completed
      PROVE phase' \in Reading => Settled /\ owners' = Owners
    BY <1>1, <1>2 DEF Running, AfterCompletion, Merging
  <2> SUFFICES ASSUME phase' \in Reading PROVE Settled /\ owners' = Owners
    OBVIOUS
  <2>1. CASE CheckStructure
    BY <2>1 DEF CheckStructure, Running, AfterCompletion, Structured, Reading
  <2>2. CASE LanesEnd \/ FillEnds \/ RescueEnds
    BY <2>2 DEF LanesEnd, FillEnds, RescueEnds, Running, AfterCompletion, Reading, reads
  <2>3. CASE RehomeEnds
    BY <2>3 DEF RehomeEnds, Reading
  <2> QED BY <2>1, <2>2, <2>3
<1> QED BY <1>3, <1>4, <1>5, <1>6 DEF Running

LEMMA MergeControlRunning ==
    ASSUME IInv, Running,
           \/ CheckMerge \/ MergeEnds \/ JoinEnds \/ UnstampEnds
           \/ \E b \in Boards : MergeBoard(b)
           \/ \E i \in DOMAIN lists : JoinList(i)
    PROVE  Running'
<1>1. UNCHANGED database /\ UNCHANGED <<clean, completed, defaults, owners>>
  BY DEF CheckMerge, MergeEnds, JoinEnds, UnstampEnds, MergeBoard, JoinList, reads
<1>2. /\ phase \in Merging \cup {"checkmerge"} /\ phase' \in Merging \cup {"ended"}
      /\ phase' \notin Reading
  BY DEF CheckMerge, MergeEnds, JoinEnds, AfterJoin, UnstampEnds, MergeBoard, JoinList,
     Merging, Reading
<1>3. /\ Structured' = Structured /\ Joined' = Joined
      /\ \A b \in Boards : Pending(b)' = Pending(b) /\ Split(b)' = Split(b)
  BY <1>1, SameDatabase
<1>4. ReadsTrue' /\ StructureProgress'
  <2>1. ReadsTrue'
    BY <1>2 DEF ReadsTrue
  <2>2. clean => Structured
    BY <1>2 DEF Running, StructureProgress
  <2> QED BY <1>1, <1>2, <1>3, <2>1, <2>2 DEF StructureProgress, Reading
<1>5. MergeProgress'
  <2>1. CASE CheckMerge
    BY <1>3, <2>1, NothingNeeded DEF CheckMerge, MergeProgress, Merging, IInv
  <2>2. CASE MergeEnds
    <3>1. \A b \in Boards : ~Pending(b)
      BY <2>2 DEF MergeEnds, Running, MergeProgress, Merging
    <3>2. Joined
      BY <3>1 DEF Joined, Pending, IInv, Types, TypeOK
    <3> QED BY <1>3, <2>2, <3>2 DEF MergeEnds, MergeProgress, Merging
  <2>3. CASE JoinEnds \/ UnstampEnds
    BY <1>3, <2>3 DEF JoinEnds, AfterJoin, UnstampEnds, Running, MergeProgress, Merging, work
  <2>4. ASSUME NEW b \in Boards, MergeBoard(b) PROVE MergeProgress'
    <3>1. ~Split(b) => ~Pending(b)
      BY DEF Pending, Split
    <3> QED BY <1>3, <2>4, <3>1 DEF MergeBoard, Running, MergeProgress, Merging
  <2>5. ASSUME NEW i \in DOMAIN lists, JoinList(i) PROVE MergeProgress'
    BY <1>3, <2>5 DEF JoinList, Running, MergeProgress, Merging
  <2> QED BY <2>1, <2>2, <2>3, <2>4, <2>5
<1>6. AfterCompletion'
  <2> SUFFICES ASSUME completed
      PROVE /\ phase' = "merge" => \A b \in todo' : ~Split(b)
            /\ phase' \notin Merging \ {"merge"}
    <3>1. todo' \subseteq Boards
      BY DEF CheckMerge, MergeEnds, JoinEnds, UnstampEnds, MergeBoard, JoinList, work,
         IInv, Types, TypeOK
    <3> QED BY <1>1, <1>2, <1>3, <3>1 DEF Running, AfterCompletion
  <2>1. CASE CheckMerge
    <3>1. Joined
      BY DEF Running, AfterCompletion
    <3> QED BY <2>1, <3>1 DEF CheckMerge, Joined, Merging
  <2>2. CASE MergeEnds
    BY <2>2 DEF MergeEnds, Merging
  <2>3. CASE JoinEnds \/ UnstampEnds
    BY <2>3 DEF JoinEnds, UnstampEnds, Running, AfterCompletion, Merging
  <2>4. ASSUME NEW b \in Boards, MergeBoard(b)
        PROVE  /\ phase' = "merge" => \A x \in todo' : ~Split(x)
               /\ phase' \notin Merging \ {"merge"}
    <3>1. \A x \in todo : ~Split(x)
      BY <2>4 DEF MergeBoard, Running, AfterCompletion
    <3> QED BY <2>4, <3>1 DEF MergeBoard, Merging
  <2>5. ASSUME NEW i \in DOMAIN lists, JoinList(i) PROVE FALSE
    BY <2>5 DEF JoinList, Running, AfterCompletion, Merging
  <2> QED BY <2>1, <2>2, <2>3, <2>4, <2>5
<1> QED BY <1>4, <1>5, <1>6 DEF Running

-----------------------------------------------------------------------------
(* Steps that write: after a run that ended without an error there is none.*)

Writes ==
    \/ \E b \in Boards : InsertLane(b) \/ InsertRescueList(b)
    \/ \E c \in Cards : Fill(c) \/ Rescue(c) \/ Rehome(c) \/ Relink(c)
    \/ \E i \in DOMAIN lists : Unstamp(i)
    \/ DeleteList \/ ClearMarkers

LEMMA NothingToWrite ==
    ASSUME IInv, Running, completed
    PROVE  ~Writes
<1>1. /\ phase \in Reading => /\ Settled /\ owners = Owners /\ defaults = Defaults
      /\ phase \notin Merging \ {"merge"}
  BY DEF Running, AfterCompletion, ReadsTrue
<1>2. \A c \in Cards : cards[c].board \in Boards
  BY DEF IInv, Types, TypeOK, Card
<1>3. ASSUME NEW b \in Boards, InsertLane(b) PROVE FALSE
  BY <1>1, <1>3 DEF InsertLane, Bare, Settled, Reading
<1>4. ASSUME NEW b \in Boards, InsertRescueList(b) PROVE FALSE
  BY <1>1, <1>4 DEF InsertRescueList, Settled, Reading
<1>5. ASSUME NEW c \in Cards, Fill(c) PROVE FALSE
  BY <1>1, <1>5 DEF Fill, Unplaced, Settled, Reading
<1>6. ASSUME NEW c \in Cards, Rescue(c) PROVE FALSE
  BY <1>1, <1>6 DEF Rescue, Settled, Reading
<1>7. ASSUME NEW c \in Cards, Rehome(c) PROVE FALSE
  <2>1. /\ ~cards[c].archived /\ cards[c].lane # None
        /\ ~OwnedBy(cards[c].lane, cards[c].board)
        /\ Defaults[cards[c].board] # None
    BY <1>1, <1>7 DEF Rehome, Stray, Reading
  <2>2. ~Foreign(c)
    BY <1>1, <1>7, <2>1 DEF Rehome, Settled, Reading
  <2>3. cards[c].lane \in DOMAIN lanes /\ lanes[cards[c].lane].board = cards[c].board
    BY <2>1, <2>2 DEF Foreign
  <2>4. owners = Owners
    BY <1>1, <1>7 DEF Rehome, Reading
  <2> QED BY <2>1, <2>3, <2>4 DEF OwnedBy, Owners
<1>8. ASSUME NEW c \in Cards, Relink(c) PROVE FALSE
  BY <1>1, <1>8 DEF Relink, Merging
<1>9. ASSUME NEW i \in DOMAIN lists, Unstamp(i) PROVE FALSE
  BY <1>1, <1>9 DEF Unstamp, Merging
<1>10. ~DeleteList /\ ~ClearMarkers
  BY <1>1 DEF DeleteList, ClearMarkers, Merging
<1> QED BY <1>3, <1>4, <1>5, <1>6, <1>7, <1>8, <1>9, <1>10 DEF Writes

(* A lane that the run creates is the default it would read now.           *)
LEMMA InsertLaneRunning ==
    ASSUME IInv, Running, NEW b \in Boards, InsertLane(b)
    PROVE  Running'
<1> DEFINE ids == DOMAIN lanes \cup Lanes
           V(x) == {i \in DOMAIN lanes : lanes[i].board = x /\ lanes[i].kind = "visible"}
<1>1. /\ phase = "lanes" /\ phase' = "lanes" /\ defaults[b] = None
      /\ UNCHANGED <<owners, completed>>
  BY DEF InsertLane, Bare
<1>2. New(ids) \in Nat \ ids
  <2>1. ids \in SUBSET Nat /\ IsFiniteSet(ids) /\ ids # {}
    <3>1. IsFiniteSet(Lanes)
      BY StructureAssumption, FS_Subset
    <3> QED BY <3>1, StructureAssumption, FS_Union DEF IInv, Types, TypeOK
  <2> HIDE DEF ids
  <2> QED BY <2>1, NewFacts
<1>3. PICK i \in Nat : i = New(ids) /\ i \notin DOMAIN lanes
  BY <1>2
<1>4. /\ defaults' = [defaults EXCEPT ![b] = i]
      /\ lanes' = [j \in DOMAIN lanes \cup {i} |->
                      IF j = i THEN [board |-> b, kind |-> "visible"] ELSE lanes[j]]
  BY <1>3 DEF InsertLane
<1>5. /\ DOMAIN lanes' = DOMAIN lanes \cup {i}
      /\ lanes'[i].board = b /\ lanes'[i].kind = "visible"
      /\ \A j \in DOMAIN lanes : lanes'[j] = lanes[j]
  BY <1>3, <1>4
<1>6. defaults = Defaults /\ \A j \in DOMAIN owners : j \in DOMAIN lanes /\ owners[j] = lanes[j].board
  BY <1>1 DEF Running, ReadsTrue, Reading
<1>7. V(b) = {}
  <2>1. V(b) \in SUBSET Nat
    BY DEF IInv, Types, TypeOK
  <2>2. Defaults[b] = Least(V(b))
    BY DEF Defaults
  <2> HIDE DEF V
  <2> QED BY <1>1, <1>6, <2>1, <2>2, LeastFacts
<1>8. defaults' = Defaults'
  <2> DEFINE W(x) == {j \in DOMAIN lanes' : lanes'[j].board = x /\ lanes'[j].kind = "visible"}
  <2>1. W(b) = {i}
    BY <1>3, <1>5, <1>7
  <2>2. \A x \in Boards \ {b} : W(x) = V(x)
    BY <1>3, <1>5
  <2>3. Least({i}) = i
    BY <1>3, LeastFacts
  <2>4. Defaults' = [x \in Boards |-> Least(W(x))]
    BY DEF Defaults, Least, Min
  <2>5. Defaults = [x \in Boards |-> Least(V(x))]
    BY DEF Defaults
  <2> HIDE DEF V, W
  <2>6. defaults' = [x \in Boards |-> IF x = b THEN i ELSE Least(V(x))]
    BY <1>4, <1>6, <2>5
  <2> QED BY <2>1, <2>2, <2>3, <2>4, <2>6
<1>9. ReadsTrue'
  BY <1>1, <1>5, <1>6, <1>8 DEF ReadsTrue
<1>10. StructureProgress' /\ MergeProgress'
  BY <1>1 DEF StructureProgress, MergeProgress, Merging
<1>11. AfterCompletion'
  BY <1>1, NothingToWrite DEF AfterCompletion, Writes
<1> QED BY <1>9, <1>10, <1>11 DEF Running

LEMMA InsertRescueListRunning ==
    ASSUME IInv, Running, NEW b \in Boards, InsertRescueList(b)
    PROVE  Running'
<1>1. /\ phase = "rescue" /\ phase' = "rescue"
      /\ UNCHANGED <<boards, lanes, cards, defaults, owners, completed>>
  BY DEF InsertRescueList
<1>2. Defaults' = Defaults /\ Unplaced' = Unplaced
  BY <1>1 DEF Defaults, Unplaced
<1>3. ReadsTrue'
  BY <1>1, <1>2 DEF Running, ReadsTrue
<1>4. StructureProgress' /\ MergeProgress'
  BY <1>1, <1>2 DEF Running, StructureProgress, MergeProgress, Merging
<1>5. AfterCompletion'
  BY <1>1, NothingToWrite DEF AfterCompletion, Writes
<1> QED BY <1>3, <1>4, <1>5 DEF Running

(* A card that is filled, rescued or rehomed has a lane if its board has a *)
(* default, and names a list that exists if it did.                        *)
LEMMA CardRunning ==
    ASSUME IInv, Running, NEW c \in Cards, Fill(c) \/ Rescue(c) \/ Rehome(c)
    PROVE  Running'
<1>1. /\ phase \in {"fill", "rescue", "rehome"} /\ phase' = phase
      /\ UNCHANGED <<boards, marked, lanes, lists, defaults, owners, first, clean, completed>>
      /\ \E list, lane : cards' = [cards EXCEPT ![c].list = list, ![c].lane = lane]
  BY DEF Fill, Rescue, Rehome, Place, reads
<1>2. cards \in [Cards -> Card] /\ cards[c].board \in Boards
  BY DEF IInv, Types, TypeOK, Card
<1>3. PICK list, lane : cards' = [cards EXCEPT ![c].list = list, ![c].lane = lane]
  BY <1>1
<1>4. /\ cards'[c].list = list /\ cards'[c].lane = lane /\ cards'[c].board = cards[c].board
      /\ \A d \in Cards \ {c} : cards'[d] = cards[d]
  BY <1>2, <1>3 DEF Card
<1>5. Defaults' = Defaults
  BY <1>1 DEF Defaults
<1>6. ReadsTrue'
  BY <1>1, <1>5 DEF Running, ReadsTrue
<1>7. StructureProgress'
  <2>1. \A b \in boards : defaults[b] # None
    BY <1>1 DEF Running, StructureProgress
  <2>2. phase \in {"rescue", "rehome"} => Unplaced' = {}
    <3> SUFFICES ASSUME phase \in {"rescue", "rehome"}, NEW d \in Cards,
                        cards'[d].lane = None, defaults[cards'[d].board] # None
                 PROVE  FALSE
      BY <1>1 DEF Unplaced
    <3>1. Unplaced = {}
      BY DEF Running, StructureProgress
    <3>2. d = c
      BY <1>4, <3>1 DEF Unplaced
    <3>3. lane = None /\ defaults[cards[c].board] # None
      BY <1>4, <3>2
    <3>4. CASE Rescue(c)
      <4>1. cards'[c].lane = IF lists[first[cards[c].board]].lane # None
                             THEN lists[first[cards[c].board]].lane
                             ELSE defaults[cards[c].board]
        BY <1>2, <3>4 DEF Rescue, Place, Card
      <4> QED BY <1>4, <3>3, <4>1
    <3>5. CASE Rehome(c)
      <4>1. cards'[c].lane = defaults[cards[c].board]
        BY <1>2, <3>5 DEF Rehome, Place, Card
      <4> QED BY <1>4, <3>3, <4>1
    <3>6. ~Fill(c)
      BY DEF Fill
    <3> QED BY <3>4, <3>5, <3>6
  <2>3. phase = "rehome" => \A d \in Cards : ~Lost(d)'
    <3> SUFFICES ASSUME phase = "rehome", NEW d \in Cards PROVE ~Lost(d)'
      OBVIOUS
    <3>1. ~Lost(d)
      BY DEF Running, StructureProgress
    <3>2. Rehome(c)
      BY DEF Fill, Rescue
    <3>3. list = cards[c].list
      BY <1>2, <1>4, <3>2 DEF Rehome, Place, Card
    <3> QED BY <1>1, <1>4, <3>1, <3>3 DEF Lost
  <2> QED BY <1>1, <2>1, <2>2, <2>3 DEF StructureProgress, Merging
<1>8. MergeProgress'
  BY <1>1 DEF MergeProgress, Merging
<1>9. AfterCompletion'
  BY <1>1, NothingToWrite DEF AfterCompletion, Writes
<1> QED BY <1>6, <1>7, <1>8, <1>9 DEF Running

(* The writes of the second step leave to every card its board and lane.   *)
LEMMA StructuredStays ==
    ASSUME Structured, UNCHANGED <<boards, lanes>>,
           \A c \in Cards : /\ cards'[c].board = cards[c].board
                            /\ cards'[c].lane = cards[c].lane
                            /\ cards'[c].archived = cards[c].archived
                            /\ Lost(c)' => Lost(c)
    PROVE  Structured'
<1>1. Defaults' = Defaults
  BY DEF Defaults
<1>2. \A c \in Cards : Foreign(c)' <=> Foreign(c)
  BY DEF Foreign
<1>3. ~NeedsStructure => ~NeedsStructure'
  BY <1>2 DEF NeedsStructure
<1>4. Settled => Settled'
  BY <1>1, <1>2 DEF Settled
<1> QED BY <1>3, <1>4 DEF Structured

(* A board whose lists and their cards only become fewer does not become   *)
(* one that has to be joined.                                              *)
LEMMA PendingStays ==
    ASSUME NEW b \in Boards, marked' \subseteq marked,
           \A i \in ListsOf(b)' : i \in ListsOf(b) /\ lists'[i] = lists[i],
           \A i \in ListsOf(b)' : \A c \in Cards :
               cards'[c].list = i => cards[c].list = i /\ cards'[c].lane = cards[c].lane
    PROVE  Pending(b)' => Pending(b)
<1>1. \A i \in Active(b)' : i \in Active(b) /\ i \in ListsOf(b)' /\ lists'[i] = lists[i]
  BY DEF Active
<1>2. \A i \in Stamped(b)' : i \in Stamped(b)
  BY DEF Stamped
<1>3. Duplicates(b)' => Duplicates(b)
  BY <1>1 DEF Duplicates
<1>4. \A i \in Active(b)' : Mismatch(i)' => Mismatch(i)
  BY <1>1 DEF Mismatch
<1>5. Split(b)' => Split(b)
  BY <1>1, <1>3, <1>4 DEF Split
<1> QED BY <1>2, <1>5 DEF Pending

LEMMA MergeWriteRunning ==
    ASSUME IInv, Running, phase \in Merging \ {"merge"}, ~completed,
           phase' \in Merging \ {"merge"},
           UNCHANGED <<boards, lanes, todo, board, clean, completed>>,
           \A b \in Boards \ {board} : Pending(b)' => Pending(b),
           \A c \in Cards : /\ cards'[c].board = cards[c].board
                            /\ cards'[c].lane = cards[c].lane
                            /\ cards'[c].archived = cards[c].archived
                            /\ Lost(c)' => Lost(c)
    PROVE  Running'
<1>1. ReadsTrue' /\ AfterCompletion'
  BY DEF ReadsTrue, AfterCompletion, Reading, Merging
<1>2. clean => Structured'
  BY StructuredStays DEF Running, StructureProgress
<1>3. StructureProgress'
  BY <1>2 DEF StructureProgress, Merging
<1>4. MergeProgress'
  <2>1. ASSUME NEW b \in Boards, Pending(b)'
        PROVE  b \in todo \/ (phase' # "merge" /\ b = board')
    <3>1. CASE b = board
      BY <2>1, <3>1
    <3>2. CASE b # board
      <4>1. Pending(b)
        BY <2>1, <3>2
      <4> QED BY <4>1, <3>2 DEF Running, MergeProgress
    <3> QED BY <3>1, <3>2
  <2> QED BY <2>1 DEF MergeProgress, Merging
<1> QED BY <1>1, <1>3, <1>4 DEF Running

LEMMA RelinkRunning ==
    ASSUME IInv, Running, NEW c \in Cards, Relink(c)
    PROVE  Running'
<1>1. /\ phase = "relink" /\ phase' = phase /\ cards[c].list = from
      /\ UNCHANGED <<boards, marked, lanes, lists, todo, board, clean, completed>>
      /\ cards' = [cards EXCEPT ![c].list = Survivor(from), ![c].lane = cards[c].lane]
  BY DEF Relink, Held, Place, work
<1>2. cards \in [Cards -> Card]
  BY DEF IInv, Types, TypeOK
<1>3. PICK s : s = Survivor(from)
  OBVIOUS
<1>4. s \in DOMAIN lists /\ lists[s].board = board
  BY <1>1, <1>3, SurvivorFacts DEF IInv, JoinOrdered, Active, ListsOf
<1>5. /\ cards'[c].list = s /\ cards'[c].lane = cards[c].lane
      /\ cards'[c].board = cards[c].board /\ cards'[c].archived = cards[c].archived
      /\ \A d \in Cards \ {c} : cards'[d] = cards[d]
  BY <1>1, <1>2, <1>3 DEF Card
<1>6. \A d \in Cards : Lost(d)' => Lost(d)
  BY <1>1, <1>4, <1>5 DEF Lost
<1>7. ASSUME NEW b \in Boards \ {board} PROVE Pending(b)' => Pending(b)
  <2>1. ListsOf(b)' = ListsOf(b) /\ s \notin ListsOf(b)
    BY <1>1, <1>4, <1>7 DEF ListsOf
  <2>2. \A i \in ListsOf(b)' : \A d \in Cards :
           cards'[d].list = i => cards[d].list = i /\ cards'[d].lane = cards[d].lane
    BY <1>5, <2>1
  <2> QED BY <1>1, <2>1, <2>2, PendingStays
<1>8. ~completed
  BY NothingToWrite DEF Writes
<1> QED BY <1>1, <1>5, <1>6, <1>7, <1>8, MergeWriteRunning DEF Merging

LEMMA DeleteListRunning ==
    ASSUME IInv, Running, DeleteList
    PROVE  Running'
<1>1. /\ phase = "relink" /\ phase' = "join" /\ \A c \in Cards : cards[c].list # from
      /\ lists' = [i \in DOMAIN lists \ {from} |-> lists[i]]
      /\ UNCHANGED <<boards, marked, lanes, cards, todo, board, clean, completed>>
  BY DEF DeleteList, Held
<1>2. DOMAIN lists' = DOMAIN lists \ {from} /\ \A i \in DOMAIN lists' : lists'[i] = lists[i]
  BY <1>1
<1>3. \A c \in Cards : Lost(c)' => Lost(c)
  BY <1>1, <1>2 DEF Lost
<1>4. ASSUME NEW b \in Boards \ {board} PROVE Pending(b)' => Pending(b)
  <2>1. \A i \in ListsOf(b)' : i \in ListsOf(b) /\ lists'[i] = lists[i]
    BY <1>2 DEF ListsOf
  <2> QED BY <1>1, <2>1, PendingStays
<1>5. ~completed
  BY NothingToWrite DEF Writes
<1> QED BY <1>1, <1>3, <1>4, <1>5, MergeWriteRunning DEF Merging

LEMMA UnstampRunning ==
    ASSUME IInv, Running, NEW i \in DOMAIN lists, Unstamp(i)
    PROVE  Running'
<1>1. /\ phase = "unstamp" /\ phase' = phase /\ i \in Stamped(board)
      /\ lists' = [lists EXCEPT ![i].lane = None]
      /\ UNCHANGED <<boards, marked, lanes, cards, todo, board, clean, completed>>
  BY DEF Unstamp, work
<1>2. DOMAIN lists' = DOMAIN lists /\ \A j \in DOMAIN lists \ {i} : lists'[j] = lists[j]
  BY <1>1
<1>3. \A c \in Cards : Lost(c)' => Lost(c)
  BY <1>1, <1>2 DEF Lost
<1>4. ASSUME NEW b \in Boards \ {board} PROVE Pending(b)' => Pending(b)
  <2>1. lists'[i].board = board
    BY <1>1, UnstampFacts DEF Stamped, ListsOf
  <2>2. \A j \in ListsOf(b)' : j \in ListsOf(b) /\ lists'[j] = lists[j]
    BY <1>2, <1>4, <2>1 DEF ListsOf
  <2> QED BY <1>1, <2>2, PendingStays
<1>5. ~completed
  BY NothingToWrite DEF Writes
<1> QED BY <1>1, <1>3, <1>4, <1>5, MergeWriteRunning DEF Merging

LEMMA ClearMarkersRunning ==
    ASSUME IInv, Running, ClearMarkers
    PROVE  Running'
<1>1. /\ phase = "clear" /\ phase' = "merge" /\ marked' = marked \ {board}
      /\ UNCHANGED <<boards, lanes, lists, cards, todo, clean, completed>>
  BY DEF ClearMarkers
<1>2. \A c \in Cards : Lost(c)' => Lost(c)
  BY <1>1 DEF Lost
<1>3. ASSUME NEW b \in Boards \ {board} PROVE Pending(b)' => Pending(b)
  <2>1. \A i \in ListsOf(b)' : i \in ListsOf(b) /\ lists'[i] = lists[i]
    BY <1>1 DEF ListsOf
  <2> QED BY <1>1, <2>1, PendingStays
<1>4. ~completed
  BY NothingToWrite DEF Writes
<1>5. ASSUME NEW b \in Boards, Pending(b)' PROVE b \in todo
  <2>1. CASE b = board
    <3>1. Stamped(board) = {}
      BY <1>1 DEF IInv, JoinOrdered
    <3>2. Stamped(b)' = Stamped(b)
      BY <1>1 DEF Stamped, ListsOf
    <3> QED BY <1>1, <1>5, <2>1, <3>1, <3>2 DEF Pending
  <2>2. CASE b # board
    <3>1. Pending(b)
      BY <1>3, <1>5, <2>2
    <3> QED BY <1>1, <2>2, <3>1 DEF Running, MergeProgress, Merging
  <2> QED BY <2>1, <2>2
<1>6. MergeProgress'
  BY <1>1, <1>5 DEF MergeProgress
<1>7. ReadsTrue' /\ AfterCompletion'
  BY <1>1, <1>4 DEF ReadsTrue, AfterCompletion, Reading
<1>8. StructureProgress'
  <2>1. clean => Structured'
    BY <1>1, <1>2, StructuredStays DEF Running, StructureProgress, Merging
  <2> QED BY <1>1, <2>1 DEF StructureProgress
<1> QED BY <1>6, <1>7, <1>8 DEF Running

LEMMA NextRunning == IInv /\ Running /\ [Next]_vars => Running'
<1> SUFFICES ASSUME IInv, Running, [Next]_vars PROVE Running'
  OBVIOUS
<1>1. CASE Begin \/ End \/ Fail
  BY <1>1, RunStepRunning
<1>2. CASE StructureStep
  BY <1>2, StructureControlRunning, CardRunning, InsertLaneRunning, InsertRescueListRunning
     DEF StructureStep
<1>3. CASE MergeStep
  BY <1>3, MergeControlRunning, RelinkRunning, DeleteListRunning, UnstampRunning,
     ClearMarkersRunning DEF MergeStep
<1>4. CASE UNCHANGED vars
  <2>1. UNCHANGED database /\ UNCHANGED <<phase, defaults, owners, todo, board, clean, completed>>
    BY <1>4 DEF vars, reads, work
  <2>2. /\ Defaults' = Defaults /\ Owners' = Owners
        /\ Settled' = Settled /\ Structured' = Structured /\ Joined' = Joined
        /\ (\A c \in Cards : ~Lost(c))' = (\A c \in Cards : ~Lost(c))
        /\ \A b \in Boards : Pending(b)' = Pending(b) /\ Split(b)' = Split(b)
    BY <2>1, SameDatabase
  <2>3. Unplaced' = Unplaced
    BY <2>1 DEF database, Unplaced
  <2>4. ReadsTrue'
    BY <2>1, <2>2 DEF Running, ReadsTrue, database
  <2>5. StructureProgress'
    BY <2>1, <2>2, <2>3 DEF Running, StructureProgress, database
  <2>6. MergeProgress'
    BY <2>1, <2>2 DEF Running, MergeProgress
  <2>7. AfterCompletion'
    BY <2>1, <2>2 DEF Running, AfterCompletion, IInv, Types, TypeOK
  <2> QED BY <2>4, <2>5, <2>6, <2>7 DEF Running
<1> QED BY <1>1, <1>2, <1>3, <1>4 DEF Next

LEMMA RunsProgress == Spec => []Running
<1>1. Init => Running
  BY InitRunning
<1>2. IInv /\ Running /\ [Next]_vars => Running'
  BY NextRunning
<1> QED BY <1>1, <1>2, Inductive, PTL DEF Spec

-----------------------------------------------------------------------------
(* A run that ends without an error leaves the boards whole, whatever was  *)
(* in the database and wherever earlier runs failed or were killed.        *)
THEOREM RunsRepair == Spec => []RunRepairs
<1>1. ASSUME IInv, Running PROVE RunRepairs
  <2> SUFFICES ASSUME completed
      PROVE /\ \A c \in Cards : ~Lost(c)
            /\ \A c \in Cards : cards[c].board \in boards => cards[c].lane # None /\ ~Foreign(c)
            /\ marked = {}
            /\ \A b \in Boards : Stamped(b) # {} => ~Split(b)
    BY DEF RunRepairs
  <2>1. Structured /\ Joined
    BY <1>1 DEF Running, AfterCompletion
  <2>2. \A c \in Cards : ~Lost(c)
    BY <2>1 DEF Structured, NeedsStructure, Settled
  <2>3. \A c \in Cards : cards[c].board \in boards => cards[c].lane # None /\ ~Foreign(c)
    BY <2>1 DEF Structured, NeedsStructure, Settled
  <2> QED BY <2>1, <2>2, <2>3 DEF Joined
<1> QED BY <1>1, Inductive, RunsProgress, PTL

(* After a run that ended without an error no later run writes, although   *)
(* it may look again at cards of boards that have been deleted.            *)
THEOREM RunsAreIdempotent == Spec => RunIsIdempotent
<1>1. ASSUME IInv, Running, Next, completed PROVE UNCHANGED database
  <2>1. ~Writes
    BY <1>1, NothingToWrite
  <2>2. CASE Begin \/ End \/ Fail
    BY <2>2 DEF Begin, End, Fail
  <2>3. CASE StructureStep
    BY <2>1, <2>3 DEF Writes, StructureStep, CheckStructure, LanesEnd, FillEnds, RescueEnds,
       RehomeEnds
  <2>4. CASE MergeStep
    BY <2>1, <2>4 DEF Writes, MergeStep, CheckMerge, MergeEnds, JoinEnds, UnstampEnds,
       MergeBoard, JoinList
  <2> QED BY <1>1, <2>2, <2>3, <2>4 DEF Next
<1>2. IInv /\ Running /\ [Next]_vars => [completed => UNCHANGED database]_vars
  BY <1>1
<1> QED BY <1>2, Inductive, RunsProgress, PTL DEF Spec, RunIsIdempotent
=============================================================================
