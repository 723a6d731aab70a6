---------------------------- MODULE StoreProofs ----------------------------
(***************************************************************************)
(* Proofs about the document store: what an insert stores and reports,     *)
(* that the WHERE clause loses no document that matches, that an update    *)
(* stores what it changes, that an upsert makes a document its filter      *)
(* finds, that no count, find or pipeline misses a document, and that      *)
(* $group loses none.                                                      *)
(***************************************************************************)
EXTENDS DocumentStore, Functions, FiniteSetTheorems, SequenceTheorems, WellFoundedInduction, TLAPS

(* Every nonempty set of naturals has a least element.                     *)
LEMMA LeastNatural ==
    ASSUME NEW T \in SUBSET Nat, T # {}
    PROVE  \E n \in T : \A m \in T : n <= m
<1> DEFINE Less == OpToRel(<, Nat)
<1>1. \E n \in T : \A m \in T : ~ (<<m, n>> \in Less)
  <2>1. IsWellFoundedOn(Less, Nat)
    BY NatLessThanWellFounded
  <2> HIDE DEF Less
  <2> QED BY <2>1, WFMin
<1>2. PICK n \in T : \A m \in T : ~ (<<m, n>> \in Less)
  BY <1>1
<1>3. \A m \in T : m < n => <<m, n>> \in Less
  BY DEF OpToRel
<1> HIDE DEF Less
<1>4. \A m \in T : ~(m < n)
  BY <1>2, <1>3
<1> QED BY <1>4

(* Induction from a to b, for a property given as the set of the numbers   *)
(* that have it.                                                           *)
LEMMA Upward ==
    ASSUME NEW a \in Nat, NEW b \in Nat, NEW T,
           a <= b => a \in T, \A n \in a + 1 .. b : n - 1 \in T => n \in T
    PROVE  \A n \in a .. b : n \in T
<1> DEFINE Wrong == {n \in a .. b : n \notin T}
<1> SUFFICES ASSUME Wrong # {} PROVE FALSE
  OBVIOUS
<1>1. Wrong \in SUBSET Nat
  OBVIOUS
<1>2. PICK n \in Wrong : \A m \in Wrong : n <= m
  <2> HIDE DEF Wrong
  <2> QED BY <1>1, LeastNatural
<1>3. n \in a + 1 .. b /\ n - 1 \in a .. b
  BY <1>2
<1>4. n - 1 \notin Wrong
  <2> HIDE DEF Wrong
  <2> QED BY <1>2, <1>3
<1> QED BY <1>2, <1>3, <1>4

-----------------------------------------------------------------------------
(* The batches of an insert.                                               *)

(* A batch ends in the request, and no earlier than it begins.             *)
LEMMA BatchEnds ==
    ASSUME NEW request \in Inserts, NEW n \in 1 .. Len(request.docs)
    PROVE  /\ BatchEnd(request, n) \in n .. Len(request.docs)
           /\ request.ordered => \A m \in n .. BatchEnd(request, n) - 1 : Valid(request.docs[m][2])
<1> DEFINE length == Len(request.docs)
           end == Min({length, n + BatchSize - 1})
           invalid == Invalid(request, n .. end)
<1>1. length \in Nat /\ BatchSize \in Nat \ {0}
  BY InsertsAssumption, BatchAssumption
<1>2. end \in n .. length
  <2>1. \E x \in {length, n + BatchSize - 1} : \A y \in {length, n + BatchSize - 1} : x <= y
    BY <1>1
  <2>2. end \in {length, n + BatchSize - 1} /\ \A y \in {length, n + BatchSize - 1} : end <= y
    BY <2>1 DEF Min
  <2> QED BY <1>1, <2>2
<1>3. invalid \subseteq n .. end /\ \A m \in (n .. end) \ invalid : Valid(request.docs[m][2])
  BY DEF Invalid
<1>4. BatchEnd(request, n) = IF request.ordered /\ invalid # {} THEN Min(invalid) ELSE end
  BY DEF BatchEnd
<1> HIDE DEF end, invalid
<1>5. CASE request.ordered /\ invalid # {}
  <2>0. invalid \in SUBSET Nat
    BY <1>1, <1>2, <1>3
  <2>1. \E x \in invalid : \A y \in invalid : x <= y
    BY <2>0, <1>5, LeastNatural
  <2>2. Min(invalid) \in invalid /\ \A y \in invalid : Min(invalid) <= y
    BY <2>1 DEF Min
  <2>3. Min(invalid) \in n .. end
    BY <2>2, <1>3
  <2>4. \A m \in n .. Min(invalid) - 1 : m \in n .. end /\ m \notin invalid
    BY <2>2, <2>3, <1>2, <1>1
  <2> QED BY <1>3, <1>4, <1>5, <2>3, <2>4, <1>2, <1>1
<1>6. CASE ~(request.ordered /\ invalid # {})
  BY <1>1, <1>2, <1>3, <1>4, <1>6
<1> QED BY <1>5, <1>6

(* The batch that begins at a document takes one document after the other. *)
LEMMA BatchSteps ==
    ASSUME NEW request \in Inserts, NEW n \in 1 .. Len(request.docs), NEW state
    PROVE  \E g : /\ g[n - 1] = Begin(state, n)
                  /\ \A m \in n .. BatchEnd(request, n) : g[m] = Take(g[m - 1], m, request)
                  /\ Batch(state, n, request) = g[BatchEnd(request, n)]
<1> DEFINE end == BatchEnd(request, n)
           Eq(g, b) == g = [m \in n - 1 .. b |-> IF m = n - 1 THEN Begin(state, n) ELSE Take(g[m - 1], m, request)]
           T == {b \in n - 1 .. end : \E g : Eq(g, b)}
<1>1. end \in n .. Len(request.docs) /\ Len(request.docs) \in Nat
  BY BatchEnds, InsertsAssumption
<1>2. Batch(state, n, request) = (CHOOSE g : Eq(g, end))[end]
  BY DEF Batch
<1> HIDE DEF end
<1>3. n - 1 \in T
  <2> DEFINE g == [m \in n - 1 .. n - 1 |-> Begin(state, n)]
  <2>1. Eq(g, n - 1)
    OBVIOUS
  <2> HIDE DEF g
  <2> QED BY <2>1, <1>1
<1>4. ASSUME NEW b \in n .. end, b - 1 \in T
      PROVE  b \in T
  <2>1. PICK g : Eq(g, b - 1)
    BY <1>4
  <2> DEFINE h == [m \in n - 1 .. b |-> IF m = b THEN Take(g[b - 1], b, request) ELSE g[m]]
  <2>2. Eq(h, b)
    <3>1. \A m \in n - 1 .. b : h[m] = IF m = n - 1 THEN Begin(state, n) ELSE Take(h[m - 1], m, request)
      <4> SUFFICES ASSUME NEW m \in n - 1 .. b
                   PROVE  h[m] = IF m = n - 1 THEN Begin(state, n) ELSE Take(h[m - 1], m, request)
        OBVIOUS
      <4>1. CASE m = b
        BY <4>1, <1>1
      <4>2. CASE m # b
        <5>1. m \in n - 1 .. b - 1 /\ (m # n - 1 => m - 1 \in n - 1 .. b /\ m - 1 # b)
          BY <4>2, <1>1
        <5>2. g[m] = IF m = n - 1 THEN Begin(state, n) ELSE Take(g[m - 1], m, request)
          BY <2>1, <5>1
        <5> QED BY <4>2, <5>1, <5>2
      <4> QED BY <4>1, <4>2
    <3> QED BY <3>1
  <2> HIDE DEF h
  <2> QED BY <2>2, <1>1
<1>5. end \in T
  <2> HIDE DEF T
  <2>1. \A b \in n - 1 + 1 .. end : b - 1 \in T => b \in T
    BY <1>4, <1>1
  <2>2. n - 1 \in Nat /\ end \in Nat /\ end \in n - 1 .. end
    BY <1>1
  <2> QED BY <1>3, <2>1, <2>2, Upward
<1>6. PICK g : Eq(g, end) /\ g = CHOOSE h : Eq(h, end)
  <2> HIDE DEF Eq
  <2> QED BY <1>5
<1>7. \A m \in n - 1 .. end : g[m] = IF m = n - 1 THEN Begin(state, n) ELSE Take(g[m - 1], m, request)
  BY <1>6
<1>8. g[n - 1] = Begin(state, n) /\ \A m \in n .. end : g[m] = Take(g[m - 1], m, request)
  BY <1>7, <1>1
<1>9. Batch(state, n, request) = g[end]
  BY <1>2, <1>6
<1> HIDE DEF Eq
<1> QED BY <1>8, <1>9 DEF end

(* The stored documents are finitely many, and each may be stored.         *)
Contained(contents) == Bounded(contents) /\ IsFiniteSet(DOMAIN contents)

(* What an insert has done when it has taken the documents up to the mth.  *)
Accounted(s, request, m) ==
    /\ s = [docs |-> s.docs, inserted |-> s.inserted, refused |-> s.refused,
            batches |-> s.batches, ended |-> s.ended, next |-> s.next]
    /\ s.ended \in BOOLEAN
    /\ s.inserted \subseteq 1 .. m /\ s.refused \subseteq 1 .. m
    /\ \A i \in s.inserted : /\ request.docs[i][1] \in DOMAIN s.docs
                             /\ s.docs[request.docs[i][1]] = Stored(request.docs[i][1], request.docs[i][2])
    /\ Contained(docs) => Contained(s.docs)
    /\ ~request.ordered => s.inserted \union s.refused = 1 .. m
    /\ request.ordered => \A r \in s.refused, i \in s.inserted :
                            r < i => \E b \in s.batches : r < b /\ b <= i

(* In a batch that began at the nth document: a duplicate ends it when the *)
(* request is ordered, and a document that is not valid is its last.       *)
InBatch(s, request, n, m) ==
    /\ Accounted(s, request, m)
    /\ n \in s.batches
    /\ s.ended => request.ordered
    /\ request.ordered => s.ended \/ \A r \in s.refused : r < n \/ r = BatchEnd(request, n)

LEMMA BatchTakes ==
    ASSUME NEW request \in Inserts, NEW n \in 1 .. Len(request.docs), NEW m \in n .. BatchEnd(request, n),
           NEW s, InBatch(s, request, n, m - 1), NEW t,
           t = Take(s, m, request)
    PROVE  InBatch(t, request, n, m) /\ t.next = s.next
<1> DEFINE end == BatchEnd(request, n)
           id == request.docs[m][1]
           new == Stored(request.docs[m][1], request.docs[m][2])
<1>1. /\ end \in n .. Len(request.docs) /\ Len(request.docs) \in Nat /\ request.ordered \in BOOLEAN
      /\ request.ordered => \A k \in n .. end - 1 : Valid(request.docs[k][2])
  BY BatchEnds, InsertsAssumption
<1> HIDE DEF end
<1>2. m \in n .. end /\ m \in Nat \ {0} /\ n \in Nat \ {0} /\ n <= m
  BY <1>1 DEF end
<1>3. s.inserted \subseteq 1 .. m /\ s.refused \subseteq 1 .. m /\ m \notin s.inserted /\ m \notin s.refused
  BY <1>2 DEF InBatch, Accounted
<1>4. CASE ~Valid(request.docs[m][2])
  <2>1. t = [s EXCEPT !.refused = @ \union {m}]
    BY <1>4 DEF Take
  <2>2. /\ t.docs = s.docs /\ t.inserted = s.inserted /\ t.refused = s.refused \union {m}
        /\ t.batches = s.batches /\ t.ended = s.ended /\ t.next = s.next
        /\ t = [docs |-> t.docs, inserted |-> t.inserted, refused |-> t.refused,
                batches |-> t.batches, ended |-> t.ended, next |-> t.next]
    BY <2>1 DEF InBatch, Accounted
  <2>3. request.ordered => m = end
    BY <1>1, <1>2, <1>4
  <2>4. ~request.ordered => t.inserted \union t.refused = 1 .. m
    BY <1>2, <2>2 DEF InBatch, Accounted
  <2>5. \A i \in t.inserted : ~(m < i)
    BY <1>2, <2>2 DEF InBatch, Accounted
  <2>6. Accounted(t, request, m)
    BY <1>2, <1>3, <2>2, <2>4, <2>5 DEF InBatch, Accounted
  <2> QED BY <2>2, <2>3, <2>6 DEF InBatch, end
<1>5. CASE Valid(request.docs[m][2]) /\ s.ended
  <2>1. t = s
    BY <1>5 DEF Take, Store
  <2> QED BY <1>2, <1>3, <1>5, <2>1 DEF InBatch, Accounted
<1>6. CASE Valid(request.docs[m][2]) /\ ~s.ended /\ id \in DOMAIN s.docs
  <2>1. t = [s EXCEPT !.refused = @ \union {m}, !.ended = request.ordered]
    BY <1>6 DEF Take, Store
  <2>2. /\ t.docs = s.docs /\ t.inserted = s.inserted /\ t.refused = s.refused \union {m}
        /\ t.batches = s.batches /\ t.ended = request.ordered /\ t.next = s.next
        /\ t = [docs |-> t.docs, inserted |-> t.inserted, refused |-> t.refused,
                batches |-> t.batches, ended |-> t.ended, next |-> t.next]
    BY <2>1 DEF InBatch, Accounted
  <2>4. ~request.ordered => t.inserted \union t.refused = 1 .. m
    BY <1>2, <2>2 DEF InBatch, Accounted
  <2>5. \A i \in t.inserted : ~(m < i)
    BY <1>2, <2>2 DEF InBatch, Accounted
  <2>6. Accounted(t, request, m)
    BY <1>1, <1>2, <1>3, <2>2, <2>4, <2>5 DEF InBatch, Accounted
  <2> QED BY <2>2, <2>6 DEF InBatch
<1>7. CASE Valid(request.docs[m][2]) /\ ~s.ended /\ id \notin DOMAIN s.docs
  <2>1. t = [s EXCEPT !.docs = Put(@, id, new), !.inserted = @ \union {m}]
    BY <1>7 DEF Take, Store
  <2>2. /\ t.docs = Put(s.docs, id, new) /\ t.inserted = s.inserted \union {m} /\ t.refused = s.refused
        /\ t.batches = s.batches /\ t.ended = s.ended /\ t.next = s.next
        /\ t = [docs |-> t.docs, inserted |-> t.inserted, refused |-> t.refused,
                batches |-> t.batches, ended |-> t.ended, next |-> t.next]
    BY <2>1 DEF InBatch, Accounted
  <2>3. /\ DOMAIN t.docs = {id} \union DOMAIN s.docs
        /\ t.docs[id] = new /\ \A i \in DOMAIN s.docs : t.docs[i] = s.docs[i]
    BY <1>7, <2>2 DEF Put
  <2>4. ~request.ordered => t.inserted \union t.refused = 1 .. m
    BY <1>2, <2>2 DEF InBatch, Accounted
  <2>5. \A i \in t.inserted : /\ request.docs[i][1] \in DOMAIN t.docs
                              /\ t.docs[request.docs[i][1]] = Stored(request.docs[i][1], request.docs[i][2])
    BY <2>2, <2>3 DEF InBatch, Accounted
  <2>8. Contained(docs) => Contained(t.docs)
    <3>1. new \in Storable
      BY <1>1, <1>2, <1>7, InsertsAssumption
    <3>2. IsFiniteSet(DOMAIN s.docs) => IsFiniteSet(DOMAIN t.docs)
      BY <2>3, FS_AddElement
    <3> HIDE DEF new
    <3> QED BY <2>3, <3>1, <3>2 DEF InBatch, Accounted, Bounded, Contained
  <2>6. ASSUME request.ordered, NEW r \in t.refused, NEW i \in t.inserted, r < i
        PROVE  \E b \in t.batches : r < b /\ b <= i
    <3>1. CASE i = m
      <4>1. r < n
        BY <1>2, <1>3, <1>7, <2>2, <2>6, <3>1 DEF InBatch, end
      <4> QED BY <1>2, <2>2, <3>1, <4>1 DEF InBatch
    <3>2. CASE i # m
      BY <2>2, <2>6, <3>2 DEF InBatch, Accounted
    <3> QED BY <3>1, <3>2
  <2>7. Accounted(t, request, m)
    BY <1>2, <1>3, <2>2, <2>4, <2>5, <2>6, <2>8 DEF InBatch, Accounted
  <2> QED BY <2>2, <2>7, <1>7 DEF InBatch
<1> QED BY <1>4, <1>5, <1>6, <1>7

LEMMA BatchAccounts ==
    ASSUME NEW request \in Inserts, NEW n \in 1 .. Len(request.docs), NEW s, Accounted(s, request, n - 1)
    PROVE  LET t == Batch(s, n, request)
           IN Accounted(t, request, BatchEnd(request, n)) /\ t.next = s.next
<1> DEFINE end == BatchEnd(request, n)
<1>1. end \in n .. Len(request.docs) /\ Len(request.docs) \in Nat
  BY BatchEnds, InsertsAssumption
<1>2. PICK g : /\ g[n - 1] = Begin(s, n)
               /\ \A m \in n .. end : g[m] = Take(g[m - 1], m, request)
               /\ Batch(s, n, request) = g[end]
  BY BatchSteps
<1> DEFINE T == {m \in n - 1 .. end : InBatch(g[m], request, n, m) /\ g[m].next = s.next}
<1>3. n - 1 \in T
  <2> DEFINE t == g[n - 1]
  <2>1. /\ t.docs = s.docs /\ t.inserted = s.inserted /\ t.refused = s.refused
        /\ t.batches = s.batches \union {n} /\ t.ended = FALSE /\ t.next = s.next
        /\ t = [docs |-> t.docs, inserted |-> t.inserted, refused |-> t.refused,
                batches |-> t.batches, ended |-> t.ended, next |-> t.next]
    BY <1>2 DEF Accounted, Begin
  <2> HIDE DEF t
  <2>2. Accounted(t, request, n - 1)
    BY <2>1 DEF Accounted
  <2>3. \A r \in t.refused : r < n
    BY <2>2, <1>1 DEF Accounted
  <2>4. InBatch(t, request, n, n - 1)
    BY <2>1, <2>2, <2>3 DEF InBatch
  <2> QED BY <2>1, <2>4, <1>1 DEF t
<1>4. ASSUME NEW m \in n .. end, m - 1 \in T
      PROVE  m \in T
  <2>1. g[m] = Take(g[m - 1], m, request)
    BY <1>2
  <2>2. InBatch(g[m - 1], request, n, m - 1) /\ g[m - 1].next = s.next
    BY <1>4
  <2>3. InBatch(g[m], request, n, m) /\ g[m].next = g[m - 1].next
    BY <2>1, <2>2, BatchTakes
  <2> QED BY <2>2, <2>3, <1>1
<1>5. end \in T
  <2> HIDE DEF T
  <2>1. \A m \in n - 1 + 1 .. end : m - 1 \in T => m \in T
    BY <1>4, <1>1
  <2>2. n - 1 \in Nat /\ end \in Nat /\ end \in n - 1 .. end
    BY <1>1
  <2> HIDE DEF end
  <2> QED BY <1>3, <2>1, <2>2, Upward
<1> QED BY <1>2, <1>5 DEF InBatch

(* The recursion of InsertFrom.                                            *)
LEMMA InsertSteps ==
    ASSUME NEW request \in Inserts, NEW state
    PROVE  \E g : /\ g[0] = state
                  /\ \A n \in 1 .. Len(request.docs) :
                       g[n] = IF n = g[n - 1].next THEN AfterBatch(g[n - 1], n, request) ELSE g[n - 1]
                  /\ InsertFrom(state, request) = g[Len(request.docs)]
<1> DEFINE length == Len(request.docs)
           After(s, n) == IF n = s.next THEN AfterBatch(s, n, request) ELSE s
           Eq(g, b) == g = [n \in 0 .. b |-> IF n = 0 THEN state ELSE After(g[n - 1], n)]
           T == {b \in 0 .. length : \E g : Eq(g, b)}
<1>1. length \in Nat
  BY InsertsAssumption
<1>2. InsertFrom(state, request) = (CHOOSE g : Eq(g, length))[length]
  BY DEF InsertFrom
<1> HIDE DEF After, length
<1>3. 0 \in T
  <2> DEFINE g == [n \in 0 .. 0 |-> state]
  <2>1. Eq(g, 0)
    OBVIOUS
  <2> HIDE DEF g
  <2> QED BY <2>1, <1>1
<1>4. ASSUME NEW b \in 1 .. length, b - 1 \in T
      PROVE  b \in T
  <2>1. PICK g : Eq(g, b - 1)
    BY <1>4
  <2> DEFINE h == [n \in 0 .. b |-> IF n = b THEN After(g[b - 1], b) ELSE g[n]]
  <2>2. \A n \in 0 .. b : h[n] = IF n = 0 THEN state ELSE After(h[n - 1], n)
    <3> SUFFICES ASSUME NEW n \in 0 .. b
                 PROVE  h[n] = IF n = 0 THEN state ELSE After(h[n - 1], n)
      OBVIOUS
    <3>1. CASE n = b
      BY <3>1, <1>1
    <3>2. CASE n # b
      <4>1. n \in 0 .. b - 1 /\ (n # 0 => n - 1 \in 0 .. b /\ n - 1 # b)
        BY <3>2, <1>1
      <4>2. g[n] = IF n = 0 THEN state ELSE After(g[n - 1], n)
        BY <2>1, <4>1
      <4> QED BY <3>2, <4>1, <4>2
    <3> QED BY <3>1, <3>2
  <2>3. Eq(h, b)
    BY <2>2
  <2> HIDE DEF h
  <2> QED BY <2>3, <1>1
<1>5. length \in T
  <2> HIDE DEF T
  <2>1. \A b \in 0 + 1 .. length : b - 1 \in T => b \in T
    BY <1>4
  <2> QED BY <1>1, <1>3, <2>1, Upward
<1>6. PICK g : Eq(g, length) /\ g = CHOOSE h : Eq(h, length)
  <2> HIDE DEF Eq
  <2> QED BY <1>5
<1>7. \A n \in 0 .. length : g[n] = IF n = 0 THEN state ELSE After(g[n - 1], n)
  BY <1>6
<1>8. g[0] = state /\ \A n \in 1 .. length : g[n] = After(g[n - 1], n)
  BY <1>7, <1>1
<1>9. InsertFrom(state, request) = g[length]
  BY <1>2, <1>6
<1> HIDE DEF Eq
<1> QED BY <1>8, <1>9 DEF After, length

(* What an insert has done when the next batch begins after a document.    *)
LEMMA InsertAccounts ==
    ASSUME NEW request \in Inserts
    PROVE  Accounted(InsertFrom(Untouched, request), request, Len(request.docs))
<1> DEFINE length == Len(request.docs)
<1>1. length \in Nat /\ request.ordered \in BOOLEAN
  BY InsertsAssumption
<1>2. PICK g : /\ g[0] = Untouched
               /\ \A n \in 1 .. length :
                    g[n] = IF n = g[n - 1].next THEN AfterBatch(g[n - 1], n, request) ELSE g[n - 1]
               /\ InsertFrom(Untouched, request) = g[length]
  BY InsertSteps
<1> DEFINE T == {n \in 0 .. length : g[n].next \in n + 1 .. length + 1 /\ Accounted(g[n], request, g[n].next - 1)}
<1>3. 0 \in T
  <2>1. Accounted(Untouched, request, 0)
    BY DEF Accounted, Untouched
  <2> QED BY <1>1, <1>2, <2>1 DEF Untouched
<1>4. ASSUME NEW n \in 1 .. length, n - 1 \in T
      PROVE  n \in T
  <2> DEFINE s == g[n - 1]
             t == Batch(s, n, request)
  <2>1. s.next \in n .. length + 1 /\ Accounted(s, request, s.next - 1)
    BY <1>4
  <2>2. CASE n # s.next
    <3>1. g[n] = s
      BY <1>2, <2>2
    <3> QED BY <1>1, <2>1, <2>2, <3>1
  <2>3. CASE n = s.next
    <3>1. Accounted(s, request, n - 1)
      BY <2>1, <2>3
    <3>2. Accounted(t, request, BatchEnd(request, n))
      BY <3>1, BatchAccounts
    <3>3. BatchEnd(request, n) \in n .. length
      BY BatchEnds
    <3> DEFINE next == IF IsWhole(s, n, request) /\ request.ordered /\ t.refused # {}
                       THEN length + 1 ELSE BatchEnd(request, n) + 1
    <3>4. g[n] = [t EXCEPT !.next = next]
      BY <1>2, <2>3 DEF AfterBatch
    <3> HIDE DEF t, s, T
    <3>5. next \in n + 1 .. length + 1 /\ (next = BatchEnd(request, n) + 1 \/ request.ordered)
      BY <1>1, <3>3
    <3> HIDE DEF next
    <3>6. /\ g[n].docs = t.docs /\ g[n].inserted = t.inserted /\ g[n].refused = t.refused
          /\ g[n].batches = t.batches /\ g[n].ended = t.ended /\ g[n].next = next
          /\ g[n] = [docs |-> g[n].docs, inserted |-> g[n].inserted, refused |-> g[n].refused,
                     batches |-> g[n].batches, ended |-> g[n].ended, next |-> g[n].next]
      BY <3>2, <3>4 DEF Accounted
    <3>8. g[n].inserted \subseteq 1 .. next - 1 /\ g[n].refused \subseteq 1 .. next - 1
      <4>1. BatchEnd(request, n) <= next - 1
        BY <1>1, <3>3 DEF next
      <4> QED BY <1>1, <3>2, <3>3, <3>5, <3>6, <4>1 DEF Accounted
    <3>9. ~request.ordered => g[n].inserted \union g[n].refused = 1 .. next - 1
      <4>1. ~request.ordered => next - 1 = BatchEnd(request, n)
        BY <1>1, <3>3, <3>5
      <4> QED BY <3>2, <3>6, <4>1 DEF Accounted
    <3>10. Accounted(g[n], request, next - 1)
      BY <3>2, <3>6, <3>8, <3>9 DEF Accounted
    <3> QED BY <1>1, <3>5, <3>6, <3>10 DEF T
  <2> QED BY <2>2, <2>3
<1>5. length \in T
  <2> HIDE DEF T
  <2>1. \A n \in 0 + 1 .. length : n - 1 \in T => n \in T
    BY <1>4
  <2> HIDE DEF length
  <2>2. length \in 0 .. length
    BY <1>1
  <2> QED BY <1>1, <1>3, <2>1, <2>2, Upward
<1>6. g[length].next - 1 = length
  BY <1>1, <1>5
<1> QED BY <1>2, <1>5, <1>6

-----------------------------------------------------------------------------
(* The command that is answered after a step tells which step it was.      *)
LEMMA Answered ==
    ASSUME Next
    PROVE  \/ answer = Idle /\ \E request \in Inserts : Insert(request)
           \/ answer = Idle /\ \E filter \in Filters : Count(filter)
           \/ answer = Idle /\ \E r \in Requests : Update(r.filter, r.change, r.multi, r.upsert)
           \/ answer'.command \notin {"insert", "count", "update", "upsert"}
<1>1. ASSUME NEW filter \in Filters, NEW window \in Windows, Find(filter, window)
      PROVE  answer'.command = "find"
  BY <1>1 DEF Find, Answer
<1>2. ASSUME NEW stages \in Aggregations, Aggregate(stages)
      PROVE  answer'.command = "aggregate"
  BY <1>2 DEF Aggregate, Answer
<1>3. ASSUME NEW document, NEW fields, Compute(document, fields)
      PROVE  answer'.command = "compute"
  BY <1>3 DEF Compute
<1>4. ASSUME NEW document, NEW fields, Project(document, fields)
      PROVE  answer'.command = "project"
  BY <1>4 DEF Project
<1>5. ASSUME NEW filter \in Filters, NEW limited \in BOOLEAN, Delete(filter, limited)
      PROVE  answer'.command = "delete"
  BY <1>5 DEF Delete, Answer
<1>6. Reply => answer'.command = "none"
  BY DEF Reply, Idle
<1> QED BY <1>1, <1>2, <1>3, <1>4, <1>5, <1>6 DEF Next

LEMMA InsertAnswers ==
    ASSUME NEW request, Insert(request)
    PROVE  answer'.command = "insert"
BY DEF Insert

LEMMA CountAnswers ==
    ASSUME NEW filter, Count(filter)
    PROVE  answer'.command = "count"
BY DEF Count, Answer

LEMMA UpdateAnswers ==
    ASSUME NEW filter, NEW change, NEW multi, NEW upsert, Update(filter, change, multi, upsert)
    PROVE  answer'.command \in {"update", "upsert"}
<1> DEFINE found == Query("update", filter)
<1>1. UpdateFound(found, filter, change, multi, upsert)
  BY DEF Update
<1>2. ASSUME UpsertNew(filter, change)
      PROVE  answer'.command \in {"update", "upsert"}
  <2>1. \E ids, more : Answer("update", filter, ids, more) \/ Answer("upsert", filter, ids, more)
    BY <1>2 DEF UpsertNew
  <2> QED BY <2>1 DEF Answer
<1>3. UpdateMatched(found, filter, change, multi) => answer'.command = "update"
  BY DEF UpdateMatched, Answer
<1> QED BY <1>1, <1>2, <1>3 DEF UpdateFound

(* Every insert keeps its order: what it reports as inserted is stored as  *)
(* it was sent, without an order every document is inserted or refused,    *)
(* and with one no document is stored after one that was refused, unless a *)
(* batch began in between (msg_insert.go).                                 *)
THEOREM InsertsKeepTheirOrder == Spec => []InsertsAsOrdered
<1>1. Init => InsertsAsOrdered
  BY DEF Init, Idle, InsertsAsOrdered
<1>2. InsertsAsOrdered /\ [Next]_vars => InsertsAsOrdered'
  <2> SUFFICES ASSUME InsertsAsOrdered, [Next]_vars
               PROVE  InsertsAsOrdered'
    OBVIOUS
  <2>1. CASE vars' = vars
    BY <2>1 DEF vars, InsertsAsOrdered
  <2>2. CASE \E request \in Inserts : Insert(request)
    <3> PICK request \in Inserts : Insert(request)
      BY <2>2
    <3> DEFINE s == InsertFrom(Untouched, request)
    <3>1. Accounted(s, request, Len(request.docs))
      BY InsertAccounts
    <3>2. /\ docs' = s.docs
          /\ answer' = [command |-> "insert", request |-> request, inserted |-> s.inserted,
                        refused |-> s.refused, batches |-> s.batches]
      BY DEF Insert
    <3> HIDE DEF s
    <3>3. DOMAIN request.docs = 1 .. Len(request.docs)
      BY InsertsAssumption
    <3> QED BY <3>1, <3>2, <3>3 DEF Accounted, InsertsAsOrdered
  <2>3. CASE answer'.command # "insert"
    BY <2>3 DEF InsertsAsOrdered
  <2> QED BY <2>1, <2>2, <2>3, Answered, CountAnswers, UpdateAnswers DEF vars
<1> QED BY <1>1, <1>2, PTL DEF Spec

-----------------------------------------------------------------------------
(* Values and paths.                                                       *)

LEMMA AbsentIsNoValue == Absent \notin Bson
BY ValuesAssumption DEF Absent, Null, Scalar, IsArray, IsDocument

(* The steps of Json.                                                      *)
LEMMA JsonSteps ==
    ASSUME NEW K, NEW path \in Seq(K), NEW d
    PROVE  \E g : /\ g[0] = d
                  /\ \A n \in 1 .. Len(path) : g[n] = Inside(g[n - 1], path[n])
                  /\ Json(d, path) = g[Len(path)]
<1> DEFINE length == Len(path)
           Eq(g, b) == g = [n \in 0 .. b |-> IF n = 0 THEN d ELSE Inside(g[n - 1], path[n])]
           T == {b \in 0 .. length : \E g : Eq(g, b)}
<1>1. length \in Nat
  OBVIOUS
<1>2. Json(d, path) = (CHOOSE g : Eq(g, length))[length]
  BY DEF Json
<1> HIDE DEF length
<1>3. 0 \in T
  <2> DEFINE g == [n \in 0 .. 0 |-> d]
  <2>1. Eq(g, 0)
    OBVIOUS
  <2> HIDE DEF g
  <2> QED BY <2>1, <1>1
<1>4. ASSUME NEW b \in 1 .. length, b - 1 \in T
      PROVE  b \in T
  <2>1. PICK g : Eq(g, b - 1)
    BY <1>4
  <2> DEFINE h == [n \in 0 .. b |-> IF n = b THEN Inside(g[b - 1], path[b]) ELSE g[n]]
  <2>2. \A n \in 0 .. b : h[n] = IF n = 0 THEN d ELSE Inside(h[n - 1], path[n])
    <3> SUFFICES ASSUME NEW n \in 0 .. b
                 PROVE  h[n] = IF n = 0 THEN d ELSE Inside(h[n - 1], path[n])
      OBVIOUS
    <3>1. CASE n = b
      BY <3>1, <1>1
    <3>2. CASE n # b
      <4>1. n \in 0 .. b - 1 /\ (n # 0 => n - 1 \in 0 .. b /\ n - 1 # b)
        BY <3>2, <1>1
      <4>2. g[n] = IF n = 0 THEN d ELSE Inside(g[n - 1], path[n])
        BY <2>1, <4>1
      <4> QED BY <3>2, <4>1, <4>2
    <3> QED BY <3>1, <3>2
  <2>3. Eq(h, b)
    BY <2>2
  <2> HIDE DEF h
  <2> QED BY <2>3, <1>1
<1>5. length \in T
  <2> HIDE DEF T
  <2>1. \A b \in 0 + 1 .. length : b - 1 \in T => b \in T
    BY <1>4
  <2>2. length \in 0 .. length
    BY <1>1
  <2> QED BY <1>1, <1>3, <2>1, <2>2, Upward
<1>6. PICK g : Eq(g, length) /\ g = CHOOSE h : Eq(h, length)
  <2> HIDE DEF Eq
  <2> QED BY <1>5
<1>7. \A n \in 0 .. length : g[n] = IF n = 0 THEN d ELSE Inside(g[n - 1], path[n])
  BY <1>6
<1>8. g[0] = d /\ \A n \in 1 .. length : g[n] = Inside(g[n - 1], path[n])
  BY <1>7, <1>1
<1>9. Json(d, path) = g[length]
  BY <1>2, <1>6
<1> HIDE DEF Eq
<1> QED BY <1>8, <1>9 DEF length

(* The steps of FindValues.                                                *)
LEMMA FindSteps ==
    ASSUME NEW K, NEW path \in Seq(K), NEW d
    PROVE  \E g : /\ g[0] = {d}
                  /\ \A n \in 1 .. Len(path) : g[n] = FollowAll(g[n - 1], path[n])
                  /\ FindValues(d, path) = g[Len(path)]
<1> DEFINE length == Len(path)
           Eq(g, b) == g = [n \in 0 .. b |-> IF n = 0 THEN {d} ELSE FollowAll(g[n - 1], path[n])]
           T == {b \in 0 .. length : \E g : Eq(g, b)}
<1>1. length \in Nat
  OBVIOUS
<1>2. FindValues(d, path) = (CHOOSE g : Eq(g, length))[length]
  BY DEF FindValues
<1> HIDE DEF length
<1>3. 0 \in T
  <2> DEFINE g == [n \in 0 .. 0 |-> {d}]
  <2>1. Eq(g, 0)
    OBVIOUS
  <2> HIDE DEF g
  <2> QED BY <2>1, <1>1
<1>4. ASSUME NEW b \in 1 .. length, b - 1 \in T
      PROVE  b \in T
  <2>1. PICK g : Eq(g, b - 1)
    BY <1>4
  <2> DEFINE h == [n \in 0 .. b |-> IF n = b THEN FollowAll(g[b - 1], path[b]) ELSE g[n]]
  <2>2. \A n \in 0 .. b : h[n] = IF n = 0 THEN {d} ELSE FollowAll(h[n - 1], path[n])
    <3> SUFFICES ASSUME NEW n \in 0 .. b
                 PROVE  h[n] = IF n = 0 THEN {d} ELSE FollowAll(h[n - 1], path[n])
      OBVIOUS
    <3>1. CASE n = b
      BY <3>1, <1>1
    <3>2. CASE n # b
      <4>1. n \in 0 .. b - 1 /\ (n # 0 => n - 1 \in 0 .. b /\ n - 1 # b)
        BY <3>2, <1>1
      <4>2. g[n] = IF n = 0 THEN {d} ELSE FollowAll(g[n - 1], path[n])
        BY <2>1, <4>1
      <4> QED BY <3>2, <4>1, <4>2
    <3> QED BY <3>1, <3>2
  <2>3. Eq(h, b)
    BY <2>2
  <2> HIDE DEF h
  <2> QED BY <2>3, <1>1
<1>5. length \in T
  <2> HIDE DEF T
  <2>1. \A b \in 0 + 1 .. length : b - 1 \in T => b \in T
    BY <1>4
  <2>2. length \in 0 .. length
    BY <1>1
  <2> QED BY <1>1, <1>3, <2>1, <2>2, Upward
<1>6. PICK g : Eq(g, length) /\ g = CHOOSE h : Eq(h, length)
  <2> HIDE DEF Eq
  <2> QED BY <1>5
<1>7. \A n \in 0 .. length : g[n] = IF n = 0 THEN {d} ELSE FollowAll(g[n - 1], path[n])
  BY <1>6
<1>8. g[0] = {d} /\ \A n \in 1 .. length : g[n] = FollowAll(g[n - 1], path[n])
  BY <1>7, <1>1
<1>9. FindValues(d, path) = g[length]
  BY <1>2, <1>6
<1> HIDE DEF Eq
<1> QED BY <1>8, <1>9 DEF length

LEMMA InsideBson ==
    ASSUME NEW v \in Bson, NEW key
    PROVE  /\ IsDocument(v) /\ key \in DOMAIN v.fields =>
                v.fields[key] \in Bson /\ Inside(v, key) = v.fields[key] /\ Follow(v, key) = {v.fields[key]}
           /\ ~(IsDocument(v) /\ key \in DOMAIN v.fields) => Inside(v, key) = Absent
           /\ IsDocument(v) /\ key \notin DOMAIN v.fields => Follow(v, key) = {}
<1>1. IsDocument(v) => ~IsArray(v) /\ Elements(v) = {} /\ v.fields \in [DOMAIN v.fields -> Bson]
  BY ValuesAssumption DEF IsDocument, IsArray, Elements, Null, Scalar
<1>2. IsDocument(v) => Follow(v, key) = FieldOf(v, key)
  BY <1>1 DEF Follow
<1> QED BY <1>1, <1>2 DEF Inside, FieldOf

(* What the clause finds on a path is the only thing Go finds there.       *)
LEMMA PathValues ==
    ASSUME NEW d \in Bson, IsDocument(d), NEW K, NEW path \in Seq(K), path # <<>>
    PROVE  /\ Json(d, path) = Absent \/ (Json(d, path) \in Bson /\ FindValues(d, path) = {Json(d, path)})
           /\ Len(path) = 1 => Json(d, path) = Inside(d, path[1])
           /\ Len(path) = 1 /\ Json(d, path) = Absent => FindValues(d, path) = {}
<1> DEFINE length == Len(path)
<1>1. length \in Nat \ {0}
  OBVIOUS
<1>2. PICK g : /\ g[0] = d
               /\ \A n \in 1 .. length : g[n] = Inside(g[n - 1], path[n])
               /\ Json(d, path) = g[length]
  BY JsonSteps
<1>3. PICK h : /\ h[0] = {d}
               /\ \A n \in 1 .. length : h[n] = FollowAll(h[n - 1], path[n])
               /\ FindValues(d, path) = h[length]
  BY FindSteps
<1> HIDE DEF length
<1> DEFINE T == {n \in 0 .. length : g[n] = Absent \/ (g[n] \in Bson /\ h[n] = {g[n]})}
<1>4. 0 \in T
  BY <1>1, <1>2, <1>3
<1>5. ASSUME NEW n \in 1 .. length, n - 1 \in T
      PROVE  n \in T
  <2>1. g[n] = Inside(g[n - 1], path[n]) /\ h[n] = FollowAll(h[n - 1], path[n])
    BY <1>2, <1>3
  <2>2. CASE g[n - 1] = Absent
    <3>1. g[n] = Absent
      BY <2>1, <2>2 DEF Inside, FieldOf, IsDocument, Absent
    <3> QED BY <3>1, <1>1
  <2>3. CASE g[n - 1] \in Bson /\ h[n - 1] = {g[n - 1]}
    <3>1. h[n] = Follow(g[n - 1], path[n])
      BY <2>1, <2>3 DEF FollowAll
    <3> QED BY <1>1, <2>1, <2>3, <3>1, InsideBson
  <2> QED BY <1>5, <2>2, <2>3
<1>6. length \in T
  <2> HIDE DEF T
  <2>1. \A n \in 0 + 1 .. length : n - 1 \in T => n \in T
    BY <1>5
  <2>2. length \in 0 .. length
    BY <1>1
  <2> QED BY <1>1, <1>4, <2>1, <2>2, Upward
<1>7. ASSUME length = 1
      PROVE  Json(d, path) = Inside(d, path[1]) /\ FindValues(d, path) = Follow(d, path[1])
  <2>0. 1 \in 1 .. length /\ 1 - 1 = 0
    BY <1>7
  <2>1. g[1] = Inside(g[0], path[1]) /\ h[1] = FollowAll(h[0], path[1])
    <3> HIDE <1>7
    <3> QED BY <1>2, <1>3, <2>0
  <2>2. FollowAll({d}, path[1]) = Follow(d, path[1])
    BY DEF FollowAll
  <2> QED BY <1>2, <1>3, <1>7, <2>1, <2>2
<1>8. Inside(d, path[1]) = Absent => Follow(d, path[1]) = {}
  BY InsideBson, AbsentIsNoValue
<1> QED BY <1>2, <1>3, <1>6, <1>7, <1>8 DEF length

-----------------------------------------------------------------------------
(* What SQLite selects.                                                    *)

(* A condition on a path, as the commands get it.                          *)
IsCondition(c) ==
    /\ ~IsLogical(c)
    /\ c.path \in Seq(Range(c.path)) /\ c.path # <<>>
    /\ "is" \in DOMAIN c.ops => DOMAIN c.ops = {"is"}
    /\ "elemMatch" \in DOMAIN c.ops => c.ops.elemMatch \in Selectors

(* Go decides about what the clause finds on the path.                     *)
LEMMA FoundByClause ==
    ASSUME NEW d \in Bson, IsDocument(d), NEW c, IsCondition(c), ~ThroughArray(d, c), ConditionHolds(d, c)
    PROVE  LET v == Json(d, c.path)
           IN /\ v \in Bson \union {Absent}
              /\ IF "is" \in DOMAIN c.ops
                 THEN IF v = Absent THEN c.ops.is = Null ELSE EqualsOperand(v, c.ops.is)
                 ELSE FieldMatches(v, c.ops)
<1> DEFINE v == Json(d, c.path)
           values == FindValues(d, c.path)
<1>1. /\ v = Absent \/ (v \in Bson /\ values = {v})
      /\ Len(c.path) = 1 /\ v = Absent => values = {}
      /\ Len(c.path) \in Nat \ {0}
  BY PathValues DEF IsCondition
<1>2. v = Absent => values = {}
  <2>1. ~(Len(c.path) > 1) \/ v # Absent \/ values = {}
    BY DEF ThroughArray, IsMissing
  <2>2. Len(c.path) = 1 \/ Len(c.path) > 1
    <3> HIDE DEF v, values
    <3>1. Len(c.path) \in Nat \ {0}
      BY <1>1
    <3>2. \A n \in Nat \ {0} : n = 1 \/ n > 1
      OBVIOUS
    <3> QED BY <3>1, <3>2
  <2> QED BY <1>1, <2>1, <2>2
<1>3. v # Absent => v \in Bson /\ values = {v}
  BY <1>1
<1>4. IF "is" \in DOMAIN c.ops THEN IsValue(values, c.ops.is)
      ELSE \E x \in (IF values = {} THEN {Absent} ELSE values) : FieldMatches(x, c.ops)
  BY DEF ConditionHolds
<1> HIDE DEF v, values
<1>5. IF "is" \in DOMAIN c.ops
      THEN IF v = Absent THEN c.ops.is = Null ELSE EqualsOperand(v, c.ops.is)
      ELSE FieldMatches(v, c.ops)
  BY <1>2, <1>3, <1>4 DEF IsValue
<1> QED BY <1>1, <1>5 DEF v

(* A value equals a string, an ObjectId, a Boolean or null when it is the  *)
(* same, or an array that contains it.                                     *)
LEMMA EqualToScalar ==
    ASSUME NEW v, NEW x, x.type \in Exact \union {"null"}, Equals(v, x)
    PROVE  v = x \/ IsArray(v)
BY DEF Equals, Exact, IsArray, IsDocument

LEMMA IndexableSelects ==
    ASSUME NEW d \in Bson, IsDocument(d), NEW c, IsCondition(c), ~ThroughArray(d, c), ConditionHolds(d, c),
           ~(NullAmong(c.ops) /\ Json(d, c.path) = Null),
           NEW arrays \in BOOLEAN, arrays \/ ~IsArray(Json(d, c.path)),
           NEW t \in IndexableCondition(c.path, c.ops, arrays)
    PROVE  SelectsField(d, t)
<1> DEFINE v == Json(d, c.path)
<1>1. /\ v \in Bson \union {Absent}
      /\ IF "is" \in DOMAIN c.ops
         THEN IF v = Absent THEN c.ops.is = Null ELSE EqualsOperand(v, c.ops.is)
         ELSE FieldMatches(v, c.ops)
  BY FoundByClause
<1>2. CASE "is" \in DOMAIN c.ops
  <2>1. c.ops.is.type \in Exact /\ t = [sql |-> "equals", path |-> c.path, value |-> c.ops.is, arrays |-> arrays]
    BY <1>2 DEF IndexableCondition, EqualityCondition
  <2>2. v # Absent /\ Equals(v, c.ops.is)
    BY <1>1, <1>2, <2>1 DEF EqualsOperand, Exact, Null, Scalar
  <2>3. v = c.ops.is \/ (arrays /\ IsArray(v))
    BY <2>1, <2>2, EqualToScalar
  <2> QED BY <2>1, <2>3 DEF SelectsField
<1>3. CASE "is" \notin DOMAIN c.ops
  <2> DEFINE among == c.ops.in
  <2>1. /\ "in" \in DOMAIN c.ops /\ \A x \in among : x.type \in Exact \union {"null"}
        /\ t = [sql |-> "in", path |-> c.path, values |-> among \ {Null}, null |-> Null \in among,
                arrays |-> arrays /\ among # {}]
    BY <1>3 DEF IndexableCondition, InCondition
  <2>2. OperatorHolds("in", v, among)
    BY <1>1, <1>3, <2>1 DEF FieldMatches
  <2>3. In(IF v = Absent THEN Null ELSE v, among)
    BY <2>2 DEF OperatorHolds
  <2>4. PICK x \in among : Equals(IF v = Absent THEN Null ELSE v, x)
    BY <2>3 DEF In, EqualsOperand
  <2>5. v = Absent => x = Null
    BY <2>1, <2>4, EqualToScalar DEF IsArray, Null, Scalar
  <2>6. v # Absent => v = x \/ IsArray(v)
    BY <2>1, <2>4, EqualToScalar
  <2>7. v # Null \/ Null \notin among
    BY <2>1 DEF NullAmong
  <2>8. \/ v \in t.values
        \/ t.null /\ IsMissing(v)
        \/ t.arrays /\ IsArray(v)
    <3>1. CASE v = Absent
      BY <2>1, <2>4, <2>5, <3>1 DEF IsMissing
    <3>2. CASE v # Absent /\ IsArray(v)
      BY <2>1, <2>4, <3>2
    <3>3. CASE v # Absent /\ ~IsArray(v)
      BY <2>1, <2>4, <2>6, <2>7, <3>3
    <3> QED BY <3>1, <3>2, <3>3
  <2> QED BY <2>1, <2>8 DEF SelectsField, v
<1> QED BY <1>2, <1>3

LEMMA SelectorConditions ==
    ASSUME NEW f \in Selectors, NEW c \in f, ~IsLogical(c)
    PROVE  IsCondition(c)
BY FiltersAssumption DEF IsCondition

LEMMA PlainIsDirect ==
    ASSUME NEW d, NEW c, IsPlain(c)
    PROVE  ~ThroughArray(d, c)
BY DEF IsPlain, ThroughArray

LEMMA IdIsNoArray ==
    ASSUME NEW d \in Storable
    PROVE  ~IsArray(Json(d, IdPath))
<1>1. d \in Bson /\ IsDocument(d) /\ "_id" \in DOMAIN d.fields /\ d.fields["_id"].type = "objectid"
  BY ValuesAssumption
<1>2. Json(d, IdPath) = Inside(d, IdPath[1])
  <2>1. <<"_id">> \in Seq({"_id"}) /\ <<"_id">> # <<>> /\ Len(<<"_id">>) = 1
    OBVIOUS
  <2> QED BY <1>1, <2>1, PathValues DEF IdPath
<1>3. IdPath[1] = "_id"
  BY DEF IdPath
<1>4. Inside(d, "_id") = d.fields["_id"]
  BY <1>1, InsideBson
<1> QED BY <1>1, <1>2, <1>3, <1>4 DEF IsArray

(* A field of one element of the array satisfies the clause of $elemMatch. *)
LEMMA ElementSelects ==
    ASSUME NEW d \in Bson, IsDocument(d), NEW c, IsCondition(c), IsPlain(c), ConditionHolds(d, c),
           "is" \notin DOMAIN c.ops, "elemMatch" \in DOMAIN c.ops, ~ExplicitNull(d, c),
           NEW t \in ElemMatchCondition(c.path, c.ops.elemMatch)
    PROVE  t.sql = "element" /\ SelectsPart(d, t)
<1> DEFINE v == Json(d, c.path)
           F == c.ops.elemMatch
<1>1. /\ \A x \in F : IsPlain(x) /\ IndexableCondition(x.path, x.ops, TRUE) # {}
      /\ t = [sql |-> "element", path |-> c.path,
              where |-> UNION {IndexableCondition(x.path, x.ops, TRUE) : x \in F}]
  BY DEF ElemMatchCondition
<1>2. v \in Bson \union {Absent} /\ FieldMatches(v, c.ops)
  BY FoundByClause, PlainIsDirect
<1>3. OperatorHolds("elemMatch", v, F)
  BY <1>2 DEF FieldMatches
<1>4. ElemMatch(IF v = Absent THEN Null ELSE v, F) \/ ElemMatch(v, F)
  BY <1>3 DEF OperatorHolds
<1>5. PICK e \in Elements(v) : IsDocument(e) /\ MatchesWithin(e, F)
  BY <1>4 DEF ElemMatch, Elements, IsArray, Null, Scalar
<1>6. v \in Bson /\ IsArray(v) /\ e \in Range(v.elems)
  BY <1>2, <1>5 DEF Elements, IsArray, Absent
<1>7. e \in Bson
  <2> HIDE DEF v
  <2>1. v.elems \in Seq(Bson)
    BY <1>6, ValuesAssumption DEF IsArray, IsDocument, Null, Scalar
  <2> QED BY <1>6, <2>1 DEF Range
<1>8. F \in Selectors
  BY DEF IsCondition
<1>9. FilterDocument(e, F)
  BY <1>5, <1>7, <1>8, KnotsAssumption
<1>10. ASSUME NEW s \in t.where
       PROVE  SelectsField(e, s)
  <2>1. PICK x \in F : s \in IndexableCondition(x.path, x.ops, TRUE)
    BY <1>1
  <2>2. IsPlain(x) /\ IsCondition(x)
    BY <1>1, <1>8, SelectorConditions DEF IsPlain
  <2>3. ConditionHolds(e, x)
    BY <1>9, <2>2 DEF FilterDocument, IsCondition
  <2>4. ~(NullAmong(x.ops) /\ Json(e, x.path) = Null)
    BY <1>5 DEF ExplicitNull
  <2> QED BY <1>5, <1>7, <2>1, <2>2, <2>3, <2>4, PlainIsDirect, IndexableSelects
<1> QED BY <1>1, <1>5, <1>10 DEF SelectsPart

(* A bound that Go and the clause both compare with a number.              *)
LEMMA NumberInRange ==
    ASSUME NEW v, v.type = "number", NEW x, x.type = "number", NEW r \in Ranges
    PROVE  InRange(r, v, x) <=> NumberCompares(v, r, x.value)
<1>1. Comparable(v, x) = {v}
  BY DEF Comparable, SameType, IsArray
<1> QED BY <1>1 DEF InRange, NumberCompares, Ranges

LEMMA RangeSelects ==
    ASSUME NEW v \in Bson \union {Absent}, NEW x, x.type = "number", NEW r \in Ranges,
           InRange(r, IF v = Absent THEN Null ELSE v, x), ~(IsArray(v) /\ r \in {"lt", "lte"})
    PROVE  NumberCompares(v, r, x.value)
<1>1. PICK e \in Comparable(IF v = Absent THEN Null ELSE v, x) : TRUE
  BY DEF InRange, Ranges
<1>2. CASE IsArray(v)
  BY <1>2 DEF NumberCompares, Ranges, IsArray
<1>3. CASE ~IsArray(v)
  <2>1. v # Absent /\ v.type = "number"
    BY <1>1, <1>3 DEF Comparable, SameType, IsArray, Null, Scalar
  <2> QED BY <2>1, NumberInRange
<1> QED BY <1>2, <1>3

FieldClauses == {"equals", "in", "present", "range", "element"}

(* One condition on a field of a stored document.                          *)
LEMMA FieldSelects ==
    ASSUME NEW d \in Storable, NEW c, IsCondition(c), IsPlain(c), ConditionHolds(d, c), ~ExplicitNull(d, c),
           ~(IsArray(Json(d, c.path)) /\ NumericBounds(c.ops) \intersect {"lt", "lte"} # {}),
           NEW t \in FieldCondition(c.path, c.ops)
    PROVE  t.sql \in FieldClauses /\ SelectsPart(d, t)
<1> DEFINE v == Json(d, c.path)
           arrays == c.path # IdPath
<1>1. d \in Bson /\ IsDocument(d) /\ ~ThroughArray(d, c)
  BY ValuesAssumption, PlainIsDirect
<1>2. arrays \/ ~IsArray(v)
  BY IdIsNoArray
<1>3. ASSUME t \in IndexableCondition(c.path, c.ops, arrays)
      PROVE  t.sql \in {"equals", "in"} /\ SelectsPart(d, t)
  <2>1. SelectsField(d, t)
    BY <1>1, <1>2, <1>3, IndexableSelects DEF ExplicitNull
  <2>2. t.sql \in {"equals", "in"}
    BY <1>3 DEF IndexableCondition, EqualityCondition, InCondition
  <2> QED BY <2>1, <2>2 DEF SelectsPart
<1>4. CASE "is" \in DOMAIN c.ops
  BY <1>3, <1>4 DEF FieldCondition, FieldClauses
<1>5. CASE "is" \notin DOMAIN c.ops
  <2>1. v \in Bson \union {Absent} /\ FieldMatches(v, c.ops)
    BY <1>1, <1>5, FoundByClause
  <2>2. t \in OperatorCondition(c.path, c.ops)
    BY <1>5 DEF FieldCondition
  <2>3. CASE "exists" \in DOMAIN c.ops
    <3>1. t = [sql |-> "present", path |-> c.path, present |-> c.ops.exists]
      BY <2>2, <2>3 DEF OperatorCondition
    <3>2. OperatorHolds("exists", v, c.ops.exists)
      BY <2>1, <2>3 DEF FieldMatches
    <3>3. (v # Absent) = c.ops.exists
      BY <3>2 DEF OperatorHolds, Exists
    <3>4. IsMissing(v) # c.ops.exists
      BY <3>3 DEF IsMissing
    <3> QED BY <3>1, <3>4 DEF SelectsPart, SelectsField, FieldClauses
  <2>4. CASE t.sql = "element" /\ "elemMatch" \in DOMAIN c.ops /\ t \in ElemMatchCondition(c.path, c.ops.elemMatch)
    BY <1>1, <1>5, <2>4, ElementSelects DEF FieldClauses
  <2>5. CASE "in" \in DOMAIN c.ops /\ t \in InCondition(c.path, c.ops.in, arrays)
    BY <1>3, <1>5, <2>5 DEF IndexableCondition, FieldClauses
  <2>6. CASE t \in RangeConditions(c.path, c.ops)
    <3>1. PICK r \in NumericBounds(c.ops) : t = [sql |-> "range", path |-> c.path, op |-> r, bound |-> c.ops[r].value]
      BY <2>6 DEF RangeConditions
    <3>2. r \in Ranges /\ r \in DOMAIN c.ops /\ c.ops[r].type = "number"
      BY DEF NumericBounds
    <3>3. OperatorHolds(r, v, c.ops[r])
      BY <2>1, <3>2 DEF FieldMatches
    <3>4. InRange(r, IF v = Absent THEN Null ELSE v, c.ops[r])
      BY <3>2, <3>3 DEF OperatorHolds, Ranges
    <3>5. ~(IsArray(v) /\ r \in {"lt", "lte"})
      OBVIOUS
    <3>6. NumberCompares(v, r, c.ops[r].value)
      BY <2>1, <3>2, <3>4, <3>5, RangeSelects
    <3> QED BY <3>1, <3>6 DEF SelectsPart, SelectsField, FieldClauses
  <2>7. ASSUME t \in ElemMatchCondition(c.path, c.ops.elemMatch)
        PROVE  t.sql = "element"
    <3>1. t = [sql |-> "element", path |-> c.path,
               where |-> UNION {IndexableCondition(x.path, x.ops, TRUE) : x \in c.ops.elemMatch}]
      BY <2>7 DEF ElemMatchCondition
    <3> QED BY <3>1
  <2> QED BY <2>2, <2>3, <2>4, <2>5, <2>6, <2>7 DEF OperatorCondition
<1> QED BY <1>4, <1>5

(* A range that $nor excludes from the numbers of a field.                 *)
LEMMA OutsideSelects ==
    ASSUME NEW d \in Storable, NEW f \in Selectors, NEW g \in SUBSET f, FilterDocument(d, g),
           \A c \in g : ~IsLogical(c) => ~TextIsAbove(d, c, g), NEW s \in OutsideRange(g)
    PROVE  s.sql = "outside" /\ Selects(d, s)
<1>1. PICK t, c, b, r :
         /\ t \in g /\ c \in g
         /\ b \in c.branches /\ r \in b
         /\ IsPlain(t) /\ "type" \in DOMAIN t.ops /\ t.ops.type = "number" /\ t.path = r.path
         /\ IsLogical(c) /\ c.logic = "nor" /\ Cardinality(b) = 1
         /\ IsPlain(r) /\ DOMAIN r.ops = NumericBounds(r.ops)
         /\ s = [sql |-> "outside", path |-> r.path, within |-> RangeConditions(r.path, r.ops)]
  BY DEF OutsideRange
<1> DEFINE v == Json(d, r.path)
<1>2. d \in Bson /\ IsDocument(d)
  BY ValuesAssumption
<1>3. /\ ~IsLogical(t) /\ IsCondition(t) /\ ~IsLogical(r) /\ IsCondition(r) /\ b \in Selectors
  <2>1. b \in Selectors
    BY <1>1, FiltersAssumption
  <2> QED BY <1>1, <2>1, SelectorConditions DEF IsPlain
<1>4. b = {r}
  BY <1>1, <1>3, FiltersAssumption, FS_Singleton
<1>5. v # Absent /\ v \in Bson /\ (v.type = "number" \/ IsArray(v))
  <2>1. ConditionHolds(d, t)
    BY <1>1, <1>3 DEF FilterDocument
  <2>2. "is" \notin DOMAIN t.ops
    BY <1>1, <1>3 DEF IsCondition
  <2>3. v \in Bson \union {Absent} /\ FieldMatches(v, t.ops)
    BY <1>1, <1>2, <1>3, <2>1, <2>2, FoundByClause, PlainIsDirect
  <2>4. OperatorHolds("type", v, "number")
    BY <1>1, <2>3 DEF FieldMatches
  <2>5. IsOfType(v, "number")
    BY <2>4 DEF OperatorHolds
  <2> QED BY <2>3, <2>5 DEF IsOfType, HasType, Elements
<1>6. ~FilterDocument(d, {r})
  <2>1. LogicalHolds(d, c)
    BY <1>1 DEF FilterDocument
  <2>2. ~MatchesWithin(d, b)
    BY <1>1, <2>1 DEF LogicalHolds
  <2> QED BY <1>2, <1>3, <1>4, <2>2, KnotsAssumption
<1>7. PICK o \in DOMAIN r.ops : o \in Ranges /\ r.ops[o].type = "number" /\ ~InRange(o, v, r.ops[o])
  <2>1. \A o \in DOMAIN r.ops : o \in Ranges /\ r.ops[o].type = "number"
    BY <1>1 DEF NumericBounds
  <2>2. ~ConditionHolds(d, r)
    BY <1>3, <1>6 DEF FilterDocument
  <2>3. "is" \notin DOMAIN r.ops
    BY <2>1 DEF Ranges
  <2>4. FindValues(d, r.path) = {v}
    BY <1>2, <1>3, <1>5, PathValues DEF IsCondition
  <2>5. ~FieldMatches(v, r.ops)
    BY <2>2, <2>3, <2>4 DEF ConditionHolds
  <2>6. PICK o \in DOMAIN r.ops : ~OperatorHolds(o, v, r.ops[o])
    BY <2>5 DEF FieldMatches
  <2>7. OperatorHolds(o, v, r.ops[o]) = InRange(o, v, r.ops[o])
    BY <1>5, <2>1 DEF OperatorHolds, Ranges
  <2> QED BY <2>1, <2>6, <2>7
<1>8. \E x \in s.within : ~SelectsField(d, x)
  <2>1. CASE v.type = "number"
    <3> DEFINE x == [sql |-> "range", path |-> r.path, op |-> o, bound |-> r.ops[o].value]
    <3>1. x \in s.within
      BY <1>1 DEF RangeConditions
    <3>2. ~NumberCompares(v, o, r.ops[o].value)
      BY <1>7, <2>1, NumberInRange
    <3>3. ~SelectsField(d, x)
      BY <3>2 DEF SelectsField
    <3> QED BY <3>1, <3>3
  <2>2. CASE IsArray(v)
    <3>1. PICK x \in s.within : x.op \notin {"gt", "gte"}
      BY <1>1, <1>3, <2>2 DEF TextIsAbove
    <3>2. PICK p \in DOMAIN r.ops : x = [sql |-> "range", path |-> r.path, op |-> p, bound |-> r.ops[p].value]
      BY <1>1 DEF RangeConditions
    <3>3. ~NumberCompares(v, p, r.ops[p].value)
      BY <2>2, <3>1, <3>2 DEF NumberCompares, IsArray
    <3>4. ~SelectsField(d, x)
      BY <3>2, <3>3 DEF SelectsField
    <3> QED BY <3>4
  <2> QED BY <1>5, <2>1, <2>2
<1>9. v.type \notin {"null", "absent"}
  BY <1>5 DEF IsArray
<1> QED BY <1>1, <1>8, <1>9 DEF Selects

(* The filters that are pushed with a filter are its own and those of its  *)
(* branches.                                                               *)
LEMMA NestedBranches ==
    ASSUME NEW f \in Selectors, NEW g \in SUBSET f
    PROVE  /\ g \in Nested(g)
           /\ \A c \in g : \A b : IsLogical(c) /\ c.logic # "nor" /\ b \in c.branches =>
                b \in Selectors /\ Levels[b] < Levels[f] /\ b \in Nested(g) /\ Nested(b) \subseteq Nested(g)
<1>1. g \in Nested(g)
  BY DEF Nested
<1>2. ASSUME NEW c \in g, NEW b, IsLogical(c), c.logic # "nor", b \in c.branches
      PROVE  b \in Selectors /\ Levels[b] < Levels[f] /\ b \in Nested(g) /\ Nested(b) \subseteq Nested(g)
  <2>1. b \in Selectors /\ Levels[b] < Levels[f]
    BY <1>2, FiltersAssumption
  <2>2. NestedWithin(b) = Nested(b)
    BY <2>1, KnotsAssumption
  <2>3. NestedWithin(b) \subseteq UNION {NestedWithin(x) : x \in c.branches}
    BY <1>2
  <2>4. UNION {NestedWithin(x) : x \in c.branches} \subseteq Nested(g)
    BY <1>2 DEF Nested
  <2>5. b \in Nested(b)
    BY DEF Nested
  <2> QED BY <2>1, <2>2, <2>3, <2>4, <2>5
<1> QED BY <1>1, <1>2

(* One condition of a filter, when the clause of its branches is known to  *)
(* select what matches them.                                               *)
LEMMA ConditionSelects ==
    ASSUME NEW d \in Storable, NEW f \in Selectors, NEW g \in SUBSET f, FilterDocument(d, g), ~KnownGap(d, g),
           \A b \in Selectors : Levels[b] < Levels[f] /\ FilterDocument(d, b) /\ ~KnownGap(d, b) => Candidate(d, b),
           NEW c \in g, NEW s \in Pushed(c)
    PROVE  Selects(d, s)
<1>1. d \in Bson /\ IsDocument(d)
  BY ValuesAssumption
<1>2. ASSUME NEW x, SelectsPart(d, x), x.sql \in FieldClauses
      PROVE  Selects(d, x)
  BY <1>2 DEF Selects, FieldClauses
<1>3. CASE IsLogical(c) /\ c.logic = "and"
  <2>1. PICK b \in c.branches : s \in WhereWithin(b)
    BY <1>3 DEF Pushed
  <2>2. b \in Selectors /\ Levels[b] < Levels[f] /\ Nested(b) \subseteq Nested(g)
    BY <1>3, NestedBranches
  <2>3. FilterDocument(d, b)
    <3>1. LogicalHolds(d, c)
      BY <1>3 DEF FilterDocument
    <3>2. MatchesWithin(d, b)
      BY <1>3, <3>1 DEF LogicalHolds
    <3> QED BY <1>1, <2>2, <3>2, KnotsAssumption
  <2>4. ~KnownGap(d, b)
    BY <2>2 DEF KnownGap
  <2>5. Candidate(d, b)
    BY <2>2, <2>3, <2>4
  <2>6. s \in WhereClause(b)
    BY <2>1, <2>2, KnotsAssumption
  <2> QED BY <2>5, <2>6 DEF Candidate
<1>4. CASE IsLogical(c) /\ c.logic = "or"
  <2>1. /\ \A b \in c.branches : \A x \in b : IsPlain(x)
        /\ s = [sql |-> "any", branches |-> {UNION {FieldCondition(x.path, x.ops) : x \in b} : b \in c.branches}]
    BY <1>4 DEF Pushed, OrCondition
  <2>2. PICK b \in c.branches : MatchesWithin(d, b)
    <3>1. LogicalHolds(d, c)
      BY <1>4 DEF FilterDocument
    <3> QED BY <1>4, <3>1 DEF LogicalHolds
  <2>3. b \in Selectors /\ b \in Nested(g)
    BY <1>4, NestedBranches
  <2>4. FilterDocument(d, b)
    BY <1>1, <2>2, <2>3, KnotsAssumption
  <2> DEFINE where == UNION {FieldCondition(x.path, x.ops) : x \in b}
  <2>5. ASSUME NEW t \in where
        PROVE  SelectsPart(d, t)
    <3>1. PICK x \in b : t \in FieldCondition(x.path, x.ops)
      OBVIOUS
    <3>2. IsPlain(x) /\ ~IsLogical(x) /\ IsCondition(x)
      BY <2>1, <2>3, SelectorConditions DEF IsPlain
    <3>3. ConditionHolds(d, x)
      BY <2>4, <3>2 DEF FilterDocument
    <3>4. ~ExplicitNull(d, x) /\ ~TextIsAbove(d, x, b)
      BY <2>3, <3>2 DEF KnownGap
    <3>5. ~(IsArray(Json(d, x.path)) /\ NumericBounds(x.ops) \intersect {"lt", "lte"} # {})
      BY <3>4 DEF TextIsAbove
    <3> QED BY <3>1, <3>2, <3>3, <3>4, <3>5, FieldSelects
  <2>6. where \in s.branches
    BY <2>1
  <2> HIDE DEF where
  <2> QED BY <2>1, <2>5, <2>6 DEF Selects
<1>5. CASE IsLogical(c) /\ c.logic \notin {"and", "or"}
  BY <1>5 DEF Pushed
<1>6. CASE ~IsLogical(c)
  <2>1. IsCondition(c) /\ ConditionHolds(d, c)
    BY <1>6, SelectorConditions DEF FilterDocument
  <2>2. ~ExplicitNull(d, c) /\ ~TextIsAbove(d, c, g) /\ ~ThroughArray(d, c)
    BY <1>6, NestedBranches DEF KnownGap
  <2>3. CASE IsPlain(c)
    <3>1. s \in FieldCondition(c.path, c.ops)
      BY <1>6, <2>3 DEF Pushed
    <3>2. ~(IsArray(Json(d, c.path)) /\ NumericBounds(c.ops) \intersect {"lt", "lte"} # {})
      BY <2>2 DEF TextIsAbove
    <3> QED BY <1>2, <2>1, <2>2, <2>3, <3>1, <3>2, FieldSelects
  <2>4. CASE ~IsPlain(c)
    <3>1. s \in IndexableCondition(c.path, c.ops, TRUE)
      BY <1>6, <2>4 DEF Pushed
    <3>2. SelectsField(d, s)
      BY <1>1, <2>1, <2>2, <3>1, IndexableSelects DEF ExplicitNull
    <3>3. s.sql \in {"equals", "in"}
      BY <3>1 DEF IndexableCondition, EqualityCondition, InCondition
    <3> QED BY <1>2, <3>2, <3>3 DEF SelectsPart, FieldClauses
  <2> QED BY <2>3, <2>4
<1> QED BY <1>3, <1>4, <1>5, <1>6

(* The WHERE clause of a filter, or of the part of it that is pushed,      *)
(* selects every stored document that matches, but for the known gaps.     *)
THEOREM ClauseLosesNothing ==
    ASSUME NEW d \in Storable, NEW f \in Selectors, NEW g \in SUBSET f, FilterDocument(d, g), ~KnownGap(d, g)
    PROVE  Candidate(d, g)
<1> DEFINE Holds(b) == \A a \in SUBSET b : FilterDocument(d, a) /\ ~KnownGap(d, a) => Candidate(d, a)
           Wrong == {Levels[b] : b \in {x \in Selectors : ~Holds(x)}}
<1>1. Wrong \in SUBSET Nat
  BY FiltersAssumption
<1>2. ASSUME NEW b \in Selectors, \A x \in Selectors : Levels[x] < Levels[b] => Holds(x)
      PROVE  Holds(b)
  <2> SUFFICES ASSUME NEW a \in SUBSET b, FilterDocument(d, a), ~KnownGap(d, a), NEW s \in WhereClause(a)
               PROVE  Selects(d, s)
    BY DEF Candidate
  <2>1. \A x \in Selectors : Levels[x] < Levels[b] /\ FilterDocument(d, x) /\ ~KnownGap(d, x) => Candidate(d, x)
    BY <1>2
  <2>2. CASE s \in OutsideRange(a)
    <3>1. \A c \in a : ~IsLogical(c) => ~TextIsAbove(d, c, a)
      BY NestedBranches DEF KnownGap
    <3> QED BY <2>2, <3>1, OutsideSelects
  <2>3. CASE s \in UNION {Pushed(c) : c \in a}
    BY <2>1, <2>3, ConditionSelects
  <2> QED BY <2>2, <2>3 DEF WhereClause
<1>3. Wrong = {}
  <2> SUFFICES ASSUME Wrong # {} PROVE FALSE
    OBVIOUS
  <2>1. PICK n \in Wrong : \A m \in Wrong : n <= m
    <3> HIDE DEF Wrong
    <3> QED BY <1>1, LeastNatural
  <2>2. PICK b \in Selectors : n = Levels[b] /\ ~Holds(b)
    BY <2>1
  <2> HIDE DEF Holds
  <2>3. \A x \in Selectors : Levels[x] < Levels[b] => Holds(x)
    <3> SUFFICES ASSUME NEW x \in Selectors, Levels[x] < Levels[b], ~Holds(x) PROVE FALSE
      OBVIOUS
    <3>1. Levels[x] \in Wrong
      OBVIOUS
    <3> HIDE DEF Wrong
    <3>2. Levels[b] <= Levels[x] /\ Levels[x] \in Nat /\ Levels[b] \in Nat
      BY <2>1, <2>2, <3>1, FiltersAssumption
    <3> QED BY <3>2
  <2> QED BY <1>2, <2>2, <2>3
<1> QED BY <1>3

-----------------------------------------------------------------------------
(* The steps in which an update writes the documents it has chosen.        *)
Updated(i, change) == ProcessUpdate(docs[i].fields, change, FALSE)
Unwritten == [docs |-> docs, done |-> {}, failed |-> FALSE]

LEMMA WriteSteps ==
    ASSUME NEW chosen, Len(chosen) \in Nat, NEW change
    PROVE  \E g : /\ g[0] = Unwritten
                  /\ \A n \in 1 .. Len(chosen) : g[n] = WriteChanged(g[n - 1], chosen[n], Updated(chosen[n], change))
                  /\ WriteAll(chosen, change) = g[Len(chosen)]
<1> DEFINE length == Len(chosen)
           Eq(g, b) == g = [n \in 0 .. b |-> IF n = 0 THEN Unwritten
                                             ELSE WriteChanged(g[n - 1], chosen[n], Updated(chosen[n], change))]
           T == {b \in 0 .. length : \E g : Eq(g, b)}
<1>1. length \in Nat
  OBVIOUS
<1>2. WriteAll(chosen, change) = (CHOOSE g : Eq(g, length))[length]
  BY DEF WriteAll, Unwritten, Updated
<1> HIDE DEF length
<1>3. 0 \in T
  <2> DEFINE g == [n \in 0 .. 0 |-> Unwritten]
  <2>1. Eq(g, 0)
    OBVIOUS
  <2> HIDE DEF g
  <2> QED BY <2>1, <1>1
<1>4. ASSUME NEW b \in 1 .. length, b - 1 \in T
      PROVE  b \in T
  <2>1. PICK g : Eq(g, b - 1)
    BY <1>4
  <2> DEFINE h == [n \in 0 .. b |-> IF n = b THEN WriteChanged(g[b - 1], chosen[b], Updated(chosen[b], change)) ELSE g[n]]
  <2>2. \A n \in 0 .. b : h[n] = IF n = 0 THEN Unwritten ELSE WriteChanged(h[n - 1], chosen[n], Updated(chosen[n], change))
    <3> SUFFICES ASSUME NEW n \in 0 .. b
                 PROVE  h[n] = IF n = 0 THEN Unwritten ELSE WriteChanged(h[n - 1], chosen[n], Updated(chosen[n], change))
      OBVIOUS
    <3>1. CASE n = b
      BY <3>1, <1>1
    <3>2. CASE n # b
      <4>1. n \in 0 .. b - 1 /\ (n # 0 => n - 1 \in 0 .. b /\ n - 1 # b)
        BY <3>2, <1>1
      <4>2. g[n] = IF n = 0 THEN Unwritten ELSE WriteChanged(g[n - 1], chosen[n], Updated(chosen[n], change))
        BY <2>1, <4>1
      <4> QED BY <3>2, <4>1, <4>2
    <3> QED BY <3>1, <3>2
  <2>3. Eq(h, b)
    BY <2>2
  <2> HIDE DEF h
  <2> QED BY <2>3, <1>1
<1>5. length \in T
  <2> HIDE DEF T
  <2>1. \A b \in 0 + 1 .. length : b - 1 \in T => b \in T
    BY <1>4
  <2>2. length \in 0 .. length
    BY <1>1
  <2> QED BY <1>1, <1>3, <2>1, <2>2, Upward
<1>6. PICK g : Eq(g, length) /\ g = CHOOSE h : Eq(h, length)
  <2> HIDE DEF Eq
  <2> QED BY <1>5
<1>7. \A n \in 0 .. length :
        g[n] = IF n = 0 THEN Unwritten ELSE WriteChanged(g[n - 1], chosen[n], Updated(chosen[n], change))
  BY <1>6
<1>8. /\ g[0] = Unwritten
      /\ \A n \in 1 .. length : g[n] = WriteChanged(g[n - 1], chosen[n], Updated(chosen[n], change))
  BY <1>7, <1>1
<1>9. WriteAll(chosen, change) = g[length]
  BY <1>2, <1>6
<1> HIDE DEF Eq
<1> QED BY <1>8, <1>9 DEF length

(* A document is written when it is done and has changed.                  *)
Written(s, change) ==
    /\ s = [docs |-> s.docs, done |-> s.done, failed |-> s.failed]
    /\ DOMAIN s.docs = DOMAIN docs
    /\ \A i \in s.done : ~Updated(i, change).error
    /\ \A i \in DOMAIN docs :
         s.docs[i] = IF i \in s.done /\ Updated(i, change).changed THEN Document(Updated(i, change).fields) ELSE docs[i]

LEMMA Writes ==
    ASSUME NEW chosen, chosen \in Seq(DOMAIN docs), NEW change
    PROVE  Written(WriteAll(chosen, change), change)
<1>1. Len(chosen) \in Nat /\ \A n \in 1 .. Len(chosen) : chosen[n] \in DOMAIN docs
  OBVIOUS
<1>2. PICK g : /\ g[0] = Unwritten
               /\ \A n \in 1 .. Len(chosen) : g[n] = WriteChanged(g[n - 1], chosen[n], Updated(chosen[n], change))
               /\ WriteAll(chosen, change) = g[Len(chosen)]
  BY <1>1, WriteSteps
<1> DEFINE T == {n \in 0 .. Len(chosen) : Written(g[n], change)}
<1>3. 0 \in T
  BY <1>1, <1>2 DEF Written, Unwritten
<1>4. ASSUME NEW n \in 1 .. Len(chosen), n - 1 \in T
      PROVE  n \in T
  <2> DEFINE s == g[n - 1]
             t == g[n]
             id == chosen[n]
             result == Updated(id, change)
  <2>1. Written(s, change) /\ id \in DOMAIN docs /\ t = WriteChanged(s, id, result)
    BY <1>1, <1>2, <1>4
  <2> HIDE DEF s, t, id
  <2>2. CASE s.failed \/ result.error
    <3>1. t = [s EXCEPT !.failed = TRUE]
      BY <2>1, <2>2 DEF WriteChanged
    <3>2. /\ t.docs = s.docs /\ t.done = s.done
          /\ t = [docs |-> t.docs, done |-> t.done, failed |-> t.failed]
      BY <2>1, <3>1 DEF Written
    <3>3. Written(t, change)
      BY <2>1, <3>2 DEF Written
    <3> QED BY <3>3 DEF t
  <2>3. CASE ~(s.failed \/ result.error)
    <3> DEFINE new == IF result.changed THEN [s.docs EXCEPT ![id] = Document(result.fields)] ELSE s.docs
    <3>1. t = [s EXCEPT !.done = @ \union {id}, !.docs = new]
      BY <2>1, <2>3 DEF WriteChanged
    <3> HIDE DEF new
    <3>2. /\ t.docs = new /\ t.done = s.done \union {id}
          /\ t = [docs |-> t.docs, done |-> t.done, failed |-> t.failed]
      BY <2>1, <3>1 DEF Written
    <3>3. DOMAIN new = DOMAIN docs
      BY <2>1 DEF Written, new
    <3>4. \A i \in DOMAIN docs :
            new[i] = IF i \in t.done /\ Updated(i, change).changed THEN Document(Updated(i, change).fields) ELSE docs[i]
      BY <2>1, <3>2 DEF Written, new
    <3>5. Written(t, change)
      BY <2>1, <2>3, <3>2, <3>3, <3>4 DEF Written
    <3> QED BY <3>5 DEF t
  <2> QED BY <2>2, <2>3
<1>5. Len(chosen) \in T
  <2> HIDE DEF T
  <2>1. \A n \in 0 + 1 .. Len(chosen) : n - 1 \in T => n \in T
    BY <1>4
  <2>2. Len(chosen) \in 0 .. Len(chosen)
    BY <1>1
  <2> QED BY <1>1, <1>3, <2>1, <2>2, Upward
<1> QED BY <1>2, <1>5

(* An update of the documents it has found.                                *)
LEMMA MatchedWrites ==
    ASSUME IsFiniteSet(DOMAIN docs), NEW found \in SUBSET DOMAIN docs, NEW filter, NEW change, NEW multi,
           UpdateMatched(found, filter, change, multi)
    PROVE  \E s : /\ Written(s, change)
                  /\ docs' = s.docs
                  /\ Answer("update", filter, s.done, [change |-> change, failed |-> s.failed])
<1>1. PICK order \in SetToSeqs(found) :
        \E state \in {WriteAll(IF multi \/ order = <<>> THEN order ELSE <<Head(order)>>, change)} :
          /\ docs' = state.docs
          /\ Answer("update", filter, state.done, [change |-> change, failed |-> state.failed])
  BY DEF UpdateMatched
<1> DEFINE chosen == IF multi \/ order = <<>> THEN order ELSE <<Head(order)>>
<1>2. Cardinality(found) \in Nat
  BY FS_Subset, FS_CardinalityType
<1>3. order \in Seq(DOMAIN docs)
  BY <1>1, <1>2 DEF SetToSeqs
<1>4. order # <<>> => Head(order) \in DOMAIN docs
  BY <1>3
<1>5. chosen \in Seq(DOMAIN docs)
  <2>1. CASE chosen = order
    BY <1>3, <2>1
  <2>2. CASE order # <<>> /\ chosen = <<Head(order)>>
    <3> DEFINE head == Head(order)
    <3>1. head \in DOMAIN docs /\ chosen = <<head>>
      BY <1>4, <2>2
    <3> HIDE DEF head, chosen
    <3> QED BY <3>1
  <2> QED BY <2>1, <2>2
<1> HIDE DEF chosen
<1>6. Written(WriteAll(chosen, change), change)
  BY <1>5, Writes
<1> QED BY <1>1, <1>6 DEF chosen

-----------------------------------------------------------------------------
(* That is so in every state: updates are bounded by it.                   *)
ContentsInv == Contained(docs)

LEMMA Contents == Spec => []ContentsInv
<1>1. Init => ContentsInv
  BY FS_EmptySet DEF Init, Bounded, Contained, ContentsInv
<1>2. ContentsInv /\ [Next]_vars => ContentsInv'
  <2> SUFFICES ASSUME Contained(docs), [Next]_vars
               PROVE  Contained(docs')
    BY DEF ContentsInv
  <2>1. CASE docs' = docs
    BY <2>1
  <2>2. ASSUME NEW request \in Inserts, Insert(request)
        PROVE  Contained(docs')
    BY <2>2, InsertAccounts DEF Insert, Accounted
  <2>3. ASSUME NEW filter \in Filters, NEW limited \in BOOLEAN, Delete(filter, limited)
        PROVE  Contained(docs')
    <3>1. PICK ids : docs' = [i \in DOMAIN docs \ ids |-> docs[i]]
      BY <2>3 DEF Delete
    <3>2. IsFiniteSet(DOMAIN docs')
      BY <3>1, FS_Subset DEF Contained
    <3> QED BY <3>1, <3>2 DEF Bounded, Contained
  <2>4. ASSUME NEW r \in Requests, Update(r.filter, r.change, r.multi, r.upsert)
        PROVE  Contained(docs')
    <3> DEFINE found == Query("update", r.filter)
    <3>1. IsFiniteSet(DOMAIN docs) /\ found \in SUBSET DOMAIN docs
      BY DEF Contained, Query
    <3>2. Bounded(docs') /\ UpdateFound(found, r.filter, r.change, r.multi, r.upsert)
      BY <2>4 DEF Update
    <3> HIDE DEF found
    <3>3. ASSUME UpdateMatched(found, r.filter, r.change, r.multi)
          PROVE  DOMAIN docs' = DOMAIN docs
      BY <3>1, <3>3, MatchedWrites DEF Written
    <3>4. ASSUME UpsertNew(r.filter, r.change)
          PROVE  \E i : DOMAIN docs' = DOMAIN docs \/ DOMAIN docs' = DOMAIN docs \union {i}
      <4>1. \E i, v : docs' = docs \/ docs' = Put(docs, i, v)
        BY <3>4 DEF UpsertNew
      <4> QED BY <4>1 DEF Put
    <3>5. \E i : DOMAIN docs' = DOMAIN docs \/ DOMAIN docs' = DOMAIN docs \union {i}
      BY <3>2, <3>3, <3>4 DEF UpdateFound
    <3>6. IsFiniteSet(DOMAIN docs')
      BY <3>1, <3>5, FS_AddElement
    <3> QED BY <3>2, <3>6 DEF Contained
  <2>5. CASE Next
    <3>1. ASSUME NEW filter \in Filters, Count(filter) PROVE docs' = docs
      BY <3>1 DEF Count
    <3>2. ASSUME NEW filter \in Filters, NEW window \in Windows, Find(filter, window) PROVE docs' = docs
      BY <3>2 DEF Find
    <3>3. ASSUME NEW stages \in Aggregations, Aggregate(stages) PROVE docs' = docs
      BY <3>3 DEF Aggregate
    <3>4. ASSUME NEW document, NEW fields, Compute(document, fields) \/ Project(document, fields) PROVE docs' = docs
      BY <3>4 DEF Compute, Project
    <3>5. ASSUME Reply PROVE docs' = docs
      BY <3>5 DEF Reply
    <3> QED BY <2>1, <2>2, <2>3, <2>4, <2>5, <3>1, <3>2, <3>3, <3>4, <3>5 DEF Next
  <2> QED BY <2>1, <2>5 DEF vars
<1> QED BY <1>1, <1>2, PTL DEF Spec

(* No count misses a document that matches, but for the known gaps.        *)
THEOREM CountsAreComplete == Spec => []CountsMissNothing
<1>1. Init => CountsMissNothing
  BY DEF Init, Idle, CountsMissNothing
<1>2. CountsMissNothing /\ ContentsInv /\ [Next]_vars => CountsMissNothing'
  <2> SUFFICES ASSUME CountsMissNothing, Bounded(docs), [Next]_vars
               PROVE  CountsMissNothing'
    BY DEF ContentsInv, Contained
  <2>1. CASE vars' = vars
    BY <2>1 DEF vars, CountsMissNothing, Matching, Lost
  <2>2. ASSUME NEW filter \in Filters, Count(filter)
        PROVE  CountsMissNothing'
    <3>1. answer' = [command |-> "count", filter |-> filter, ids |-> Query("count", filter), before |-> docs, more |-> <<>>]
      BY <2>2 DEF Count, Answer
    <3>2. ASSUME NEW i \in DOMAIN docs, FilterDocument(docs[i], filter), ~KnownGap(docs[i], filter)
          PROVE  Candidate(docs[i], filter)
      <4>1. docs[i] \in Storable /\ filter \in Selectors
        BY CommandsAssumption DEF Bounded
      <4> QED BY <3>2, <4>1, ClauseLosesNothing
    <3> QED BY <3>1, <3>2 DEF CountsMissNothing, Matching, Lost, Query, PushedPart
  <2>3. CASE answer'.command # "count"
    BY <2>3 DEF CountsMissNothing
  <2>4. ASSUME NEW request \in Inserts, Insert(request) PROVE answer'.command # "count"
    BY <2>4, InsertAnswers
  <2>5. ASSUME NEW r \in Requests, Update(r.filter, r.change, r.multi, r.upsert) PROVE answer'.command # "count"
    BY <2>5, UpdateAnswers
  <2> QED BY <2>1, <2>2, <2>3, <2>4, <2>5, Answered DEF vars
<1> QED BY <1>1, <1>2, Contents, PTL DEF Spec

-----------------------------------------------------------------------------
(* Updates.                                                                *)

(* Two values of one type that compare equal are the same.                 *)
LEMMA EqualsSame ==
    ASSUME NEW a \in Bson, NEW b \in Bson, SameType(a, b), Equals(a, b)
    PROVE  a = b
<1> DEFINE Same(x) == \A y \in Bson : SameType(x, y) /\ Equals(x, y) => x = y
           Wrong == {Depths[x] : x \in {y \in Bson : ~Same(y)}}
<1>1. Wrong \in SUBSET Nat
  BY DepthsAssumption
<1>2. ASSUME NEW x \in Bson, \A y \in Bson : Depths[y] < Depths[x] => Same(y)
      PROVE  Same(x)
  <2> SUFFICES ASSUME NEW y \in Bson, SameType(x, y), Equals(x, y), x # y
               PROVE  FALSE
    OBVIOUS
  <2>1. CASE IsArray(x) /\ IsArray(y)
    <3>1. /\ x = Array(x.elems) /\ x.elems \in Seq(Bson) /\ y = Array(y.elems) /\ y.elems \in Seq(Bson)
      BY <2>1, ValuesAssumption DEF IsArray, IsDocument, Null, Scalar
    <3>2. /\ Len(x.elems) = Len(y.elems)
          /\ \A i \in DOMAIN x.elems : SameType(x.elems[i], y.elems[i]) /\ EqualsWithin(x.elems[i], y.elems[i])
      BY <2>1 DEF Equals, IsArray, IsDocument
    <3>3. ASSUME NEW i \in 1 .. Len(x.elems)
          PROVE  x.elems[i] = y.elems[i]
      <4>1. x.elems[i] \in Bson /\ y.elems[i] \in Bson /\ i \in DOMAIN x.elems
        BY <3>1, <3>2
      <4>2. Depths[x.elems[i]] < Depths[x]
        BY <2>1, <4>1, DepthsAssumption
      <4>3. Equals(x.elems[i], y.elems[i]) /\ SameType(x.elems[i], y.elems[i])
        BY <3>2, <4>1, KnotsAssumption
      <4> QED BY <1>2, <4>1, <4>2, <4>3
    <3>4. x.elems = y.elems
      BY <3>1, <3>2, <3>3
    <3> QED BY <3>1, <3>4
  <2>2. CASE IsDocument(x) /\ IsDocument(y)
    <3>1. /\ x = Document(x.fields) /\ x.fields \in [DOMAIN x.fields -> Bson]
          /\ y = Document(y.fields) /\ y.fields \in [DOMAIN y.fields -> Bson]
      BY <2>2, ValuesAssumption DEF IsArray, IsDocument, Null, Scalar
    <3>2. /\ DOMAIN x.fields = DOMAIN y.fields
          /\ \A k \in DOMAIN x.fields : SameType(x.fields[k], y.fields[k]) /\ EqualsWithin(x.fields[k], y.fields[k])
      BY <2>2 DEF Equals, IsArray, IsDocument
    <3>3. ASSUME NEW k \in DOMAIN x.fields
          PROVE  x.fields[k] = y.fields[k]
      <4>1. x.fields[k] \in Bson /\ y.fields[k] \in Bson
        BY <3>1, <3>2
      <4>2. Depths[x.fields[k]] < Depths[x]
        BY <2>2, DepthsAssumption
      <4>3. Equals(x.fields[k], y.fields[k]) /\ SameType(x.fields[k], y.fields[k])
        BY <3>2, <4>1, KnotsAssumption
      <4> QED BY <1>2, <4>1, <4>2, <4>3
    <3>4. x.fields = y.fields
      BY <3>1, <3>2, <3>3
    <3> QED BY <3>1, <3>4
  <2> QED BY <2>1, <2>2 DEF Equals, SameType, IsArray, IsDocument
<1>3. Wrong = {}
  <2> SUFFICES ASSUME Wrong # {} PROVE FALSE
    OBVIOUS
  <2>1. PICK n \in Wrong : \A m \in Wrong : n <= m
    <3> HIDE DEF Wrong
    <3> QED BY <1>1, LeastNatural
  <2>2. PICK x \in Bson : n = Depths[x] /\ ~Same(x)
    BY <2>1
  <2> HIDE DEF Same
  <2>3. \A y \in Bson : Depths[y] < Depths[x] => Same(y)
    <3> SUFFICES ASSUME NEW y \in Bson, Depths[y] < Depths[x], ~Same(y) PROVE FALSE
      OBVIOUS
    <3>1. Depths[y] \in Wrong
      OBVIOUS
    <3> HIDE DEF Wrong
    <3>2. Depths[x] <= Depths[y] /\ Depths[x] \in Nat /\ Depths[y] \in Nat
      BY <2>1, <2>2, <3>1, DepthsAssumption
    <3> QED BY <3>2
  <2> QED BY <1>2, <2>2, <2>3
<1> QED BY <1>3

(* The fields of a document.                                               *)
Fields(f) == f \in [DOMAIN f -> Bson]

(* What an operator returns.                                               *)
Outcome(p) ==
    /\ p = [fields |-> p.fields, changed |-> p.changed, error |-> p.error]
    /\ p.changed \in BOOLEAN /\ p.error \in BOOLEAN

(* An operator that reports no change has made none.                       *)
Honest(p, fields) == Outcome(p) /\ (~p.changed /\ ~p.error => p.fields = fields)

LEMMA Reports ==
    ASSUME NEW fields
    PROVE  /\ \A f : Honest(Changed(f), fields)
           /\ Honest(Kept(fields), fields)
           /\ Honest(Refused(fields), fields)
BY DEF Honest, Outcome, Changed, Kept, Refused

(* An array that is put in the place of the same array.                    *)
LEMMA MadeHonestly ==
    ASSUME NEW fields, Fields(fields), NEW key \in DOMAIN fields, IsArray(fields[key]),
           NEW elems, NEW changed \in BOOLEAN, ~changed => elems = fields[key].elems
    PROVE  Honest(Made(fields, key, elems, changed), fields)
<1>1. fields[key] = Array(fields[key].elems)
  BY ValuesAssumption DEF Fields, IsArray, IsDocument, Null, Scalar
<1>2. ~changed => Put(fields, key, Array(elems)) = fields
  BY <1>1 DEF Put, Fields
<1> QED BY <1>2 DEF Honest, Outcome, Made

LEMMA PopReports ==
    ASSUME NEW fields, Fields(fields), NEW key, NEW end
    PROVE  Honest(ProcessPop(fields, key, end), fields)
<1>1. \A elems : Honest(Made(fields, key, elems, TRUE), fields)
  BY DEF Honest, Outcome, Made
<1> QED BY <1>1, Reports DEF ProcessPop, OnArray

LEMMA PullReports ==
    ASSUME NEW fields, Fields(fields), NEW key, NEW arg
    PROVE  /\ Honest(ProcessPullAll(fields, key, arg), fields)
           /\ Honest(ProcessPull(fields, key, arg), fields)
<1>1. ASSUME key \in DOMAIN fields, IsArray(fields[key]), NEW result
      PROVE  Honest(Made(fields, key, result, result # fields[key].elems), fields)
  <2>1. (result # fields[key].elems) \in BOOLEAN
    OBVIOUS
  <2> QED BY <1>1, <2>1, MadeHonestly
<1> QED BY <1>1, Reports DEF ProcessPullAll, ProcessPull, Pulled, OnArray

LEMMA PushedElements ==
    ASSUME NEW elems \in Seq(Bson), NEW push, push.each \in Seq(Bson),
           "position" \in DOMAIN push => push.position \in Int, "slice" \in DOMAIN push => push.slice \in Int
    PROVE  PushedOn(elems, push) \in Seq(Bson)
<1> DEFINE length == Len(elems)
           at == IF "position" \in DOMAIN push THEN PushPosition(push.position, length) ELSE length
           combined == SubSeq(elems, 1, at) \o push.each \o SubSeq(elems, at + 1, length)
<1>1. length \in Nat /\ at \in 0 .. length
  BY DEF PushPosition
<1>2. SubSeq(elems, 1, at) \in Seq(Bson) /\ SubSeq(elems, at + 1, length) \in Seq(Bson)
  <2> HIDE DEF at
  <2> QED BY <1>1, SubSeqProperties
<1>3. combined \in Seq(Bson)
  BY <1>2
<1>4. "slice" \in DOMAIN push => Slice(combined, push.slice) \in Seq(Bson)
  <2> HIDE DEF combined
  <2> DEFINE n == Len(combined)
             slice == push.slice
             last == IF slice > n THEN n ELSE slice
             first == (IF n + slice < 0 THEN 0 ELSE n + slice) + 1
  <2> SUFFICES ASSUME slice \in Int
               PROVE  Slice(combined, slice) \in Seq(Bson)
    OBVIOUS
  <2>1. n \in Nat
    BY <1>3
  <2>2. Slice(combined, slice) = IF slice >= 0 THEN SubSeq(combined, 1, last) ELSE SubSeq(combined, first, n)
    BY DEF Slice
  <2> HIDE DEF n, slice
  <2>3. slice >= 0 => last \in 0 .. n
    BY <2>1
  <2>4. slice < 0 => first \in 1 .. n + 1
    BY <2>1
  <2> HIDE DEF last, first
  <2>5. slice >= 0 => SubSeq(combined, 1, last) \in Seq(Bson)
    BY <1>3, <2>1, <2>3, SubSeqProperties DEF n
  <2>6. slice < 0 => SubSeq(combined, first, n) \in Seq(Bson)
    BY <1>3, <2>1, <2>4, SubSeqProperties DEF n
  <2> QED BY <2>2, <2>5, <2>6
<1> QED BY <1>3, <1>4 DEF PushedOn

(* $push reports when it leaves other elements than there were, unless one *)
(* of those was an array.                                                  *)
LEMMA PushReports ==
    ASSUME NEW fields, Fields(fields), NEW key \in DOMAIN fields,
           \A e \in Elements(fields[key]) : ~IsArray(e),
           NEW push, push.each \in Seq(Bson),
           "position" \in DOMAIN push => push.position \in Int, "slice" \in DOMAIN push => push.slice \in Int
    PROVE  Honest(ProcessPush(fields, key, push), fields)
<1> DEFINE elems == fields[key].elems
           result == PushedOn(elems, push)
           changed == \/ Len(result) # Len(elems)
                      \/ \E i \in DOMAIN elems : ~Equals(elems[i], result[i])
<1>1. CASE IsArray(fields[key])
  <2>1. elems \in Seq(Bson) /\ elems = fields[key].elems
    BY <1>1, ValuesAssumption DEF Fields, IsArray, IsDocument, Null, Scalar
  <2>2. result \in Seq(Bson)
    BY <2>1, PushedElements
  <2>3. ASSUME ~changed
        PROVE  result = elems
    <3>1. ASSUME NEW i \in 1 .. Len(elems)
          PROVE  result[i] = elems[i]
      <4>1. elems[i] \in Bson /\ result[i] \in Bson /\ elems[i] \in Elements(fields[key])
        BY <1>1, <2>1, <2>2, <2>3 DEF Elements, Range
      <4>2. ~IsArray(elems[i]) /\ Equals(elems[i], result[i])
        BY <2>1, <2>3, <4>1
      <4>3. result[i] = elems[i] \/ SameType(elems[i], result[i])
        BY <4>2 DEF Equals, IsDocument, SameType
      <4> QED BY <4>1, <4>2, <4>3, EqualsSame
    <3>2. Len(result) = Len(elems)
      BY <2>3
    <3> HIDE DEF result, elems
    <3> QED BY <2>1, <2>2, <3>1, <3>2
  <2>4. changed \in BOOLEAN
    OBVIOUS
  <2>5. ProcessPush(fields, key, push) = Made(fields, key, result, changed)
    BY <1>1 DEF ProcessPush, OnArray
  <2> HIDE DEF changed, result
  <2> QED BY <1>1, <2>3, <2>4, <2>5, MadeHonestly
<1>2. CASE ~IsArray(fields[key])
  BY <1>2, Reports DEF ProcessPush, OnArray
<1> QED BY <1>1, <1>2

(* The steps of $addToSet.                                                 *)
LEMMA AddSteps ==
    ASSUME NEW elems, NEW each \in Seq(Bson)
    PROVE  \E g : /\ g[0] = elems
                  /\ \A n \in 1 .. Len(each) : g[n] = AddOnce(g[n - 1], each[n])
                  /\ AddEach(elems, each) = g[Len(each)]
<1> DEFINE length == Len(each)
           Eq(g, b) == g = [n \in 0 .. b |-> IF n = 0 THEN elems ELSE AddOnce(g[n - 1], each[n])]
           T == {b \in 0 .. length : \E g : Eq(g, b)}
<1>1. length \in Nat
  OBVIOUS
<1>2. AddEach(elems, each) = (CHOOSE g : Eq(g, length))[length]
  BY DEF AddEach
<1> HIDE DEF length
<1>3. 0 \in T
  <2> DEFINE g == [n \in 0 .. 0 |-> elems]
  <2>1. Eq(g, 0)
    OBVIOUS
  <2> HIDE DEF g
  <2> QED BY <2>1, <1>1
<1>4. ASSUME NEW b \in 1 .. length, b - 1 \in T
      PROVE  b \in T
  <2>1. PICK g : Eq(g, b - 1)
    BY <1>4
  <2> DEFINE h == [n \in 0 .. b |-> IF n = b THEN AddOnce(g[b - 1], each[b]) ELSE g[n]]
  <2>2. \A n \in 0 .. b : h[n] = IF n = 0 THEN elems ELSE AddOnce(h[n - 1], each[n])
    <3> SUFFICES ASSUME NEW n \in 0 .. b
                 PROVE  h[n] = IF n = 0 THEN elems ELSE AddOnce(h[n - 1], each[n])
      OBVIOUS
    <3>1. CASE n = b
      BY <3>1, <1>1
    <3>2. CASE n # b
      <4>1. n \in 0 .. b - 1 /\ (n # 0 => n - 1 \in 0 .. b /\ n - 1 # b)
        BY <3>2, <1>1
      <4>2. g[n] = IF n = 0 THEN elems ELSE AddOnce(g[n - 1], each[n])
        BY <2>1, <4>1
      <4> QED BY <3>2, <4>1, <4>2
    <3> QED BY <3>1, <3>2
  <2>3. Eq(h, b)
    BY <2>2
  <2> HIDE DEF h
  <2> QED BY <2>3, <1>1
<1>5. length \in T
  <2> HIDE DEF T
  <2>1. \A b \in 0 + 1 .. length : b - 1 \in T => b \in T
    BY <1>4
  <2>2. length \in 0 .. length
    BY <1>1
  <2> QED BY <1>1, <1>3, <2>1, <2>2, Upward
<1>6. PICK g : Eq(g, length) /\ g = CHOOSE h : Eq(h, length)
  <2> HIDE DEF Eq
  <2> QED BY <1>5
<1>7. \A n \in 0 .. length : g[n] = IF n = 0 THEN elems ELSE AddOnce(g[n - 1], each[n])
  BY <1>6
<1>8. g[0] = elems /\ \A n \in 1 .. length : g[n] = AddOnce(g[n - 1], each[n])
  BY <1>7, <1>1
<1>9. AddEach(elems, each) = g[length]
  BY <1>2, <1>6
<1> HIDE DEF Eq
<1> QED BY <1>8, <1>9 DEF length

LEMMA AddReports ==
    ASSUME NEW fields, Fields(fields), NEW key \in DOMAIN fields, NEW each \in Seq(Bson)
    PROVE  Honest(ProcessAddToSet(fields, key, each), fields)
<1> DEFINE elems == fields[key].elems
           result == AddEach(elems, each)
<1>1. CASE IsArray(fields[key])
  <2>1. elems \in Seq(Bson)
    BY <1>1, ValuesAssumption DEF Fields, IsArray, IsDocument, Null, Scalar
  <2>2. PICK g : /\ g[0] = elems
                 /\ \A n \in 1 .. Len(each) : g[n] = AddOnce(g[n - 1], each[n])
                 /\ result = g[Len(each)]
    BY AddSteps
  <2> HIDE DEF elems, result
  <2> DEFINE T == {n \in 0 .. Len(each) : g[n] \in Seq(Bson) /\ (g[n] = elems \/ Len(g[n]) > Len(elems))}
  <2>3. 0 \in T
    BY <2>1, <2>2
  <2>4. ASSUME NEW n \in 1 .. Len(each), n - 1 \in T
        PROVE  n \in T
    <3>1. each[n] \in Bson
      OBVIOUS
    <3>2. g[n] = g[n - 1] \/ g[n] = Append(g[n - 1], each[n])
      BY <2>2 DEF AddOnce
    <3>3. Append(g[n - 1], each[n]) \in Seq(Bson) /\ Len(Append(g[n - 1], each[n])) = Len(g[n - 1]) + 1
      BY <2>4, <3>1
    <3>4. Len(elems) \in Nat /\ Len(g[n - 1]) \in Nat /\ (Len(g[n - 1]) > Len(elems) \/ g[n - 1] = elems)
      BY <2>1, <2>4
    <3>5. n \in 0 .. Len(each)
      OBVIOUS
    <3>6. CASE g[n] = g[n - 1]
      BY <2>4, <3>5, <3>6
    <3>7. CASE g[n] = Append(g[n - 1], each[n])
      <4>1. Len(g[n]) > Len(elems)
        BY <3>3, <3>4, <3>7
      <4> QED BY <3>3, <3>5, <3>7, <4>1
    <3> QED BY <3>2, <3>6, <3>7
  <2>5. Len(each) \in T
    <3> HIDE DEF T
    <3>1. \A n \in 0 + 1 .. Len(each) : n - 1 \in T => n \in T
      BY <2>4
    <3>2. Len(each) \in Nat /\ Len(each) \in 0 .. Len(each)
      OBVIOUS
    <3> QED BY <2>3, <3>1, <3>2, Upward
  <2>6. Len(result) = Len(elems) => result = elems
    BY <2>1, <2>2, <2>5
  <2>7. ProcessAddToSet(fields, key, each) = Made(fields, key, result, Len(result) # Len(elems))
    BY <1>1 DEF ProcessAddToSet, OnArray, result, elems
  <2>8. (Len(result) # Len(elems)) \in BOOLEAN
    OBVIOUS
  <2> QED BY <1>1, <2>6, <2>7, <2>8, MadeHonestly DEF elems
<1>2. CASE ~IsArray(fields[key])
  BY <1>2, Reports DEF ProcessAddToSet, OnArray
<1> QED BY <1>1, <1>2

(* An operator of an update command.                                       *)
IsStep(s) ==
    /\ s.op \in {"set", "setOnInsert", "unset", "inc", "mul", "max", "min", "rename",
                 "pop", "push", "addToSet", "pullAll", "pull"}
    /\ s.op = "addToSet" => s.arg \in Seq(Bson)
    /\ s.op = "push" => /\ s.arg.each \in Seq(Bson)
                        /\ "position" \in DOMAIN s.arg => s.arg.position \in Int
                        /\ "slice" \in DOMAIN s.arg => s.arg.slice \in Int

LEMMA ValueReports ==
    ASSUME NEW fields, NEW key, NEW arg
    PROVE  /\ Honest(ProcessSet(fields, key, arg), fields)
           /\ Honest(ProcessSetOnInsert(fields, key, arg, FALSE), fields)
           /\ Honest(ProcessUnset(fields, key), fields)
           /\ Honest(ProcessInc(fields, key, arg), fields)
           /\ Honest(ProcessMul(fields, key, arg), fields)
           /\ Honest(ProcessMax(fields, key, arg), fields)
           /\ Honest(ProcessMin(fields, key, arg), fields)
           /\ Honest(ProcessRename(fields, key, arg), fields)
<1> USE Reports
<1>1. \A v : Honest(ProcessSet(fields, key, v), fields)
  BY DEF ProcessSet
<1>2. Honest(ProcessSetOnInsert(fields, key, arg, FALSE), fields)
  BY DEF ProcessSetOnInsert
<1>3. Honest(ProcessUnset(fields, key), fields)
  BY DEF ProcessUnset
<1>4. Honest(ProcessInc(fields, key, arg), fields)
  BY DEF ProcessInc
<1>5. Honest(ProcessMul(fields, key, arg), fields)
  BY <1>1 DEF ProcessMul
<1>6. Honest(ProcessMax(fields, key, arg), fields)
  BY DEF ProcessMax
<1>7. Honest(ProcessMin(fields, key, arg), fields)
  BY DEF ProcessMin
<1>8. Honest(ProcessRename(fields, key, arg), fields)
  BY DEF ProcessRename
<1> QED BY <1>1, <1>2, <1>3, <1>4, <1>5, <1>6, <1>7, <1>8

(* Every operator reports its changes, but for those of Unreported.        *)
LEMMA StepReports ==
    ASSUME NEW fields, Fields(fields), NEW s, IsStep(s),
           s.op \in {"push", "addToSet"} => s.key \in DOMAIN fields,
           s.op = "push" => \A e \in Elements(fields[s.key]) : ~IsArray(e)
    PROVE  Honest(Process(fields, s, FALSE), fields)
<1>1. CASE s.op \in {"set", "setOnInsert", "unset", "inc", "mul", "max", "min", "rename"}
  BY <1>1, ValueReports DEF Process
<1>2. CASE s.op \in {"pop", "pullAll", "pull"}
  BY <1>2, PopReports, PullReports DEF Process
<1>3. CASE s.op = "push"
  BY <1>3, PushReports DEF Process, IsStep
<1>4. CASE s.op = "addToSet"
  BY <1>4, AddReports DEF Process, IsStep
<1> QED BY <1>1, <1>2, <1>3, <1>4 DEF IsStep

(* Also those return an outcome.                                           *)
LEMMA StepOutcome ==
    ASSUME NEW fields, NEW s, IsStep(s), NEW upsert
    PROVE  Outcome(Process(fields, s, upsert))
<1> USE DEF Outcome, Changed, Kept, Refused, Made
<1>1. CASE s.op \in {"set", "unset", "inc", "mul", "max", "min", "rename"}
  BY <1>1 DEF Process, ProcessSet, ProcessUnset, ProcessInc, ProcessMul, ProcessMax, ProcessMin, ProcessRename
<1>2. CASE s.op = "setOnInsert"
  BY <1>2 DEF Process, ProcessSetOnInsert, ProcessSet
<1>3. ASSUME NEW f, NEW k, NEW e, NEW c \in BOOLEAN
      PROVE  Outcome(Made(f, k, e, c))
  OBVIOUS
<1>4. \A f : Outcome(Kept(f)) /\ Outcome(Refused(f))
  OBVIOUS
<1> USE DEF OnArray
<1> HIDE DEF Outcome, Changed, Kept, Refused, Made
<1>5. CASE s.op = "pop"
  BY <1>3, <1>4, <1>5 DEF Process, ProcessPop
<1>6. CASE s.op = "push"
  <2>1. \A elems : Outcome(Made(fields, s.key, PushedOn(elems, s.arg),
                             \/ Len(PushedOn(elems, s.arg)) # Len(elems)
                             \/ \E i \in DOMAIN elems : ~Equals(elems[i], PushedOn(elems, s.arg)[i])))
    BY <1>3
  <2> QED BY <1>4, <1>6, <2>1 DEF Process, ProcessPush
<1>7. CASE s.op = "addToSet"
  <2>1. \A elems : Outcome(Made(fields, s.key, AddEach(elems, s.arg), Len(AddEach(elems, s.arg)) # Len(elems)))
    BY <1>3
  <2> QED BY <1>4, <1>7, <2>1 DEF Process, ProcessAddToSet
<1>8. ASSUME NEW result
      PROVE  Outcome(Made(fields, s.key, result, result # fields[s.key].elems))
  BY <1>3
<1>9. CASE s.op = "pullAll"
  <2>1. Outcome(ProcessPullAll(fields, s.key, s.arg))
    BY <1>4, <1>8 DEF ProcessPullAll, Pulled
  <2> QED BY <1>9, <2>1 DEF Process
<1>10. CASE s.op = "pull"
  <2>1. Outcome(ProcessPull(fields, s.key, s.arg))
    BY <1>4, <1>8 DEF ProcessPull, Pulled
  <2> QED BY <1>10, <2>1 DEF Process
<1> QED BY <1>1, <1>2, <1>5, <1>6, <1>7, <1>9, <1>10 DEF IsStep

(* The steps of an update.                                                 *)
GoesThrough(fields, update, upsert) ==
  \E g : /\ g[0] = Kept(fields)
         /\ \A n \in 1 .. Len(update) : g[n] = ProcessNext(g[n - 1], update[n], upsert)
         /\ ProcessUpdate(fields, update, upsert) = g[Len(update)]

LEMMA UpdateSteps ==
    ASSUME NEW update, Len(update) \in Nat, NEW fields, NEW upsert
    PROVE  GoesThrough(fields, update, upsert)
<1> DEFINE length == Len(update)
           Eq(g, b) == g = [n \in 0 .. b |-> IF n = 0 THEN Kept(fields) ELSE ProcessNext(g[n - 1], update[n], upsert)]
           T == {b \in 0 .. length : \E g : Eq(g, b)}
<1>1. length \in Nat
  OBVIOUS
<1>2. ProcessUpdate(fields, update, upsert) = (CHOOSE g : Eq(g, length))[length]
  BY DEF ProcessUpdate
<1> HIDE DEF length
<1>3. 0 \in T
  <2> DEFINE g == [n \in 0 .. 0 |-> Kept(fields)]
  <2>1. Eq(g, 0)
    OBVIOUS
  <2> HIDE DEF g
  <2> QED BY <2>1, <1>1
<1>4. ASSUME NEW b \in 1 .. length, b - 1 \in T
      PROVE  b \in T
  <2>1. PICK g : Eq(g, b - 1)
    BY <1>4
  <2> DEFINE h == [n \in 0 .. b |-> IF n = b THEN ProcessNext(g[b - 1], update[b], upsert) ELSE g[n]]
  <2>2. \A n \in 0 .. b : h[n] = IF n = 0 THEN Kept(fields) ELSE ProcessNext(h[n - 1], update[n], upsert)
    <3> SUFFICES ASSUME NEW n \in 0 .. b
                 PROVE  h[n] = IF n = 0 THEN Kept(fields) ELSE ProcessNext(h[n - 1], update[n], upsert)
      OBVIOUS
    <3>1. CASE n = b
      BY <3>1, <1>1
    <3>2. CASE n # b
      <4>1. n \in 0 .. b - 1 /\ (n # 0 => n - 1 \in 0 .. b /\ n - 1 # b)
        BY <3>2, <1>1
      <4>2. g[n] = IF n = 0 THEN Kept(fields) ELSE ProcessNext(g[n - 1], update[n], upsert)
        BY <2>1, <4>1
      <4> QED BY <3>2, <4>1, <4>2
    <3> QED BY <3>1, <3>2
  <2>3. Eq(h, b)
    BY <2>2
  <2> HIDE DEF h
  <2> QED BY <2>3, <1>1
<1>5. length \in T
  <2> HIDE DEF T
  <2>1. \A b \in 0 + 1 .. length : b - 1 \in T => b \in T
    BY <1>4
  <2>2. length \in 0 .. length
    BY <1>1
  <2> QED BY <1>1, <1>3, <2>1, <2>2, Upward
<1>6. PICK g : Eq(g, length) /\ g = CHOOSE h : Eq(h, length)
  <2> HIDE DEF Eq
  <2> QED BY <1>5
<1>7. \A n \in 0 .. length : g[n] = IF n = 0 THEN Kept(fields) ELSE ProcessNext(g[n - 1], update[n], upsert)
  BY <1>6
<1>8. g[0] = Kept(fields) /\ \A n \in 1 .. length : g[n] = ProcessNext(g[n - 1], update[n], upsert)
  BY <1>7, <1>1
<1>9. ProcessUpdate(fields, update, upsert) = g[length]
  BY <1>2, <1>6
<1> HIDE DEF Eq
<1> QED BY <1>8, <1>9 DEF GoesThrough, length

(* An update that reports no change, and no error, has made none.          *)
LEMMA UpdateReports ==
    ASSUME NEW fields, Fields(fields), NEW update, update \in Seq(Range(update)), \A s \in Range(update) : IsStep(s),
           ~Unreported(fields, update)
    PROVE  Honest(ProcessUpdate(fields, update, FALSE), fields)
<1>1. PICK g : /\ g[0] = Kept(fields)
               /\ \A n \in 1 .. Len(update) : g[n] = ProcessNext(g[n - 1], update[n], FALSE)
               /\ ProcessUpdate(fields, update, FALSE) = g[Len(update)]
  <2>1. Len(update) \in Nat
    OBVIOUS
  <2>2. GoesThrough(fields, update, FALSE)
    BY <2>1, UpdateSteps
  <2> QED BY <2>2, ZenonT(60) DEF GoesThrough
<1> DEFINE T == {n \in 0 .. Len(update) : Honest(g[n], fields)}
<1>2. 0 \in T
  BY <1>1, Reports
<1>3. ASSUME NEW n \in 1 .. Len(update), n - 1 \in T
      PROVE  n \in T
  <2> DEFINE s == update[n]
             p == g[n - 1]
             q == Process(p.fields, s, FALSE)
  <2>1. g[n] = ProcessNext(p, s, FALSE) /\ Honest(p, fields) /\ IsStep(s) /\ n \in DOMAIN update
    <3>1. n \in DOMAIN update
      BY <1>3
    <3>2. update[n] \in Range(update)
      BY <3>1 DEF Range
    <3> QED BY <1>1, <1>3, <3>1, <3>2
  <2>2. Outcome(q)
    BY <2>1, StepOutcome
  <2>3. p.fields = fields => Honest(q, fields)
    <3>1. s.op \in {"push", "addToSet"} => s.key \in DOMAIN fields
      BY <2>1 DEF Unreported
    <3>2. s.op = "push" => \A e \in Elements(fields[s.key]) : ~IsArray(e)
      BY <2>1 DEF Unreported
    <3> QED BY <2>1, <3>1, <3>2, StepReports
  <2> HIDE DEF p, q, s
  <2>4. CASE p.error
    BY <2>1, <2>4 DEF ProcessNext
  <2>5. CASE ~p.error
    <3>1. g[n] = [q EXCEPT !.changed = p.changed \/ @]
      BY <2>1, <2>5 DEF ProcessNext, q
    <3>2. g[n] = [fields |-> q.fields, changed |-> (p.changed \/ q.changed), error |-> q.error]
      BY <2>2, <3>1 DEF Outcome
    <3> QED BY <2>1, <2>2, <2>3, <2>5, <3>2 DEF Honest, Outcome
  <2> QED BY <2>4, <2>5
<1>4. Len(update) \in T
  <2> HIDE DEF T
  <2>1. \A n \in 0 + 1 .. Len(update) : n - 1 \in T => n \in T
    BY <1>3
  <2>2. Len(update) \in Nat /\ Len(update) \in 0 .. Len(update)
    OBVIOUS
  <2> QED BY <1>2, <2>1, <2>2, Upward
<1> QED BY <1>1, <1>4

(* What an update makes of a document is stored, up to the document that   *)
(* fails, and one that is not written would not have changed: every        *)
(* operator reports its changes, but for an empty array where there was no *)
(* field and an element replaced by one that it contains (msg_update.go,   *)
(* update.go).                                                             *)
THEOREM UpdatesReachTheirDocuments == Spec => []UpdatesAreStored
<1>1. Init => UpdatesAreStored
  BY DEF Init, Idle, UpdatesAreStored
<1>2. UpdatesAreStored /\ ContentsInv /\ [Next]_vars => UpdatesAreStored'
  <2> SUFFICES ASSUME UpdatesAreStored, Contained(docs), [Next]_vars
               PROVE  UpdatesAreStored'
    BY DEF ContentsInv
  <2>1. CASE vars' = vars
    BY <2>1 DEF vars, UpdatesAreStored
  <2>2. ASSUME NEW r \in Requests, Update(r.filter, r.change, r.multi, r.upsert), answer'.command = "update"
        PROVE  UpdatesAreStored'
    <3> DEFINE found == Query("update", r.filter)
               change == r.change
    <3>1. UpdateFound(found, r.filter, change, r.multi, r.upsert)
      BY <2>2 DEF Update
    <3>2. found \in SUBSET DOMAIN docs /\ IsFiniteSet(DOMAIN docs)
      BY DEF Query, Contained
    <3> HIDE DEF found
    <3>3. CASE UpsertNew(r.filter, change)
      <4>1. /\ docs' = docs
            /\ answer' = [command |-> "update", filter |-> r.filter, ids |-> {}, before |-> docs,
                          more |-> [change |-> change, failed |-> TRUE]]
        <5>1. \/ docs' = docs /\ Answer("update", r.filter, {}, [change |-> change, failed |-> TRUE])
              \/ \E ids, more : Answer("upsert", r.filter, ids, more)
          BY <3>3 DEF UpsertNew
        <5> QED BY <2>2, <5>1 DEF Answer
      <4> QED BY <4>1 DEF UpdatesAreStored
    <3>4. CASE UpdateMatched(found, r.filter, change, r.multi)
      <4>1. PICK s : /\ Written(s, change)
                     /\ docs' = s.docs
                     /\ Answer("update", r.filter, s.done, [change |-> change, failed |-> s.failed])
        BY <3>2, <3>4, MatchedWrites
      <4>2. /\ answer'.before = docs /\ answer'.ids = s.done /\ answer'.more.change = change
        BY <4>1 DEF Answer
      <4>3. ASSUME NEW i \in DOMAIN docs
            PROVE  IF i \notin s.done \/ (~Updated(i, change).changed /\ Unreported(docs[i].fields, change))
                   THEN docs'[i].fields = docs[i].fields ELSE docs'[i].fields = Updated(i, change).fields
        <5>1. CASE i \notin s.done \/ (~Updated(i, change).changed /\ Unreported(docs[i].fields, change))
          BY <4>1, <5>1 DEF Written
        <5>2. CASE i \in s.done /\ Updated(i, change).changed
          <6>1. docs'[i] = Document(Updated(i, change).fields)
            BY <4>1, <5>2 DEF Written
          <6> QED BY <5>2, <6>1 DEF Document
        <5>3. CASE i \in s.done /\ ~Updated(i, change).changed /\ ~Unreported(docs[i].fields, change)
          <6>1. docs'[i] = docs[i] /\ ~Updated(i, change).error
            BY <4>1, <5>3 DEF Written
          <6>2. Fields(docs[i].fields)
            BY ValuesAssumption DEF Contained, Bounded, Fields, IsDocument, IsArray, Null, Scalar
          <6>3. change \in Seq(Range(change)) /\ \A step \in Range(change) : IsStep(step)
            BY ChangesAssumption DEF IsStep
          <6>4. Honest(Updated(i, change), docs[i].fields)
            BY <5>3, <6>2, <6>3, UpdateReports DEF Updated
          <6> QED BY <5>3, <6>1, <6>4 DEF Honest
        <5> QED BY <5>1, <5>2, <5>3
      <4> QED BY <4>2, <4>3 DEF UpdatesAreStored, Updated
    <3> QED BY <3>1, <3>3, <3>4 DEF UpdateFound
  <2>3. CASE answer'.command # "update"
    BY <2>3 DEF UpdatesAreStored
  <2>4. ASSUME NEW request \in Inserts, Insert(request) PROVE answer'.command # "update"
    BY <2>4, InsertAnswers
  <2>5. ASSUME NEW filter \in Filters, Count(filter) PROVE answer'.command # "update"
    BY <2>5, CountAnswers
  <2> QED BY <2>1, <2>2, <2>3, <2>4, <2>5, Answered DEF vars
<1> QED BY <1>1, <1>2, Contents, PTL DEF Spec

-----------------------------------------------------------------------------
(* Upserts.                                                                *)

(* The fields that SetByPath goes through, and what it makes of them.      *)
Descent(inner, set, fields, path, value) ==
    /\ inner[1] = fields
    /\ \A n \in 2 .. Len(path) : inner[n] = FieldsAt(inner[n - 1], path[n - 1])
    /\ \A n \in 1 .. Len(path) :
         set[n] = Put(inner[n], path[n], IF n = Len(path) THEN value ELSE Document(set[n + 1]))

LEMMA SetSteps ==
    ASSUME NEW fields, NEW path, Len(path) \in Nat \ {0}, NEW value
    PROVE  \E inner, set : Descent(inner, set, fields, path, value) /\ SetByPath(fields, path, value) = set[1]
<1> DEFINE length == Len(path)
           EqInner(g, b) == g = [n \in 1 .. b |-> IF n = 1 THEN fields ELSE FieldsAt(g[n - 1], path[n - 1])]
           inner == CHOOSE g : EqInner(g, length)
           New(g, n) == Put(inner[n], path[n], IF n = length THEN value ELSE Document(g[n + 1]))
           EqSet(g, b) == g = [n \in length - b .. length |-> New(g, n)]
           set == CHOOSE g : g = [n \in 1 .. length |-> New(g, n)]
<1>1. length \in Nat \ {0}
  OBVIOUS
<1>2. SetByPath(fields, path, value) = set[1]
  BY DEF SetByPath
<1> HIDE DEF length
<1>3. EqInner(inner, length)
  <2> DEFINE T == {b \in 1 .. length : \E g : EqInner(g, b)}
  <2>1. 1 \in T
    <3> DEFINE g == [n \in 1 .. 1 |-> fields]
    <3>1. EqInner(g, 1)
      OBVIOUS
    <3> HIDE DEF g
    <3> QED BY <3>1, <1>1
  <2>2. ASSUME NEW b \in 2 .. length, b - 1 \in T
        PROVE  b \in T
    <3>1. PICK g : EqInner(g, b - 1)
      BY <2>2
    <3> DEFINE h == [n \in 1 .. b |-> IF n = b THEN FieldsAt(g[b - 1], path[b - 1]) ELSE g[n]]
    <3>2. \A n \in 1 .. b : h[n] = IF n = 1 THEN fields ELSE FieldsAt(h[n - 1], path[n - 1])
      <4> SUFFICES ASSUME NEW n \in 1 .. b
                   PROVE  h[n] = IF n = 1 THEN fields ELSE FieldsAt(h[n - 1], path[n - 1])
        OBVIOUS
      <4>1. CASE n = b
        BY <4>1, <1>1
      <4>2. CASE n # b
        <5>1. n \in 1 .. b - 1 /\ (n # 1 => n - 1 \in 1 .. b /\ n - 1 # b)
          BY <4>2, <1>1
        <5>2. g[n] = IF n = 1 THEN fields ELSE FieldsAt(g[n - 1], path[n - 1])
          BY <3>1, <5>1
        <5> QED BY <4>2, <5>1, <5>2
      <4> QED BY <4>1, <4>2
    <3>3. EqInner(h, b)
      BY <3>2
    <3> HIDE DEF h
    <3> QED BY <3>3, <1>1
  <2>3. length \in T
    <3> HIDE DEF T
    <3>1. \A b \in 1 + 1 .. length : b - 1 \in T => b \in T
      BY <2>2
    <3>2. length \in 1 .. length /\ length \in Nat
      BY <1>1
    <3> QED BY <2>1, <3>1, <3>2, Upward
  <2> HIDE DEF EqInner
  <2> QED BY <2>3
<1>4. /\ inner[1] = fields
      /\ \A n \in 2 .. length : inner[n] = FieldsAt(inner[n - 1], path[n - 1])
  <2>1. \A n \in 1 .. length : inner[n] = IF n = 1 THEN fields ELSE FieldsAt(inner[n - 1], path[n - 1])
    <3> HIDE DEF inner
    <3> QED BY <1>3
  <2> HIDE DEF inner
  <2> QED BY <1>1, <2>1
<1> HIDE DEF inner, EqInner
<1>5. \E g : EqSet(g, length - 1)
  <2> DEFINE T == {b \in 0 .. length - 1 : \E g : EqSet(g, b)}
  <2>1. 0 \in T
    <3> DEFINE g == [n \in length .. length |-> Put(inner[n], path[n], value)]
    <3>1. length - 0 = length /\ \A n \in length .. length : n = length
      BY <1>1
    <3>2. EqSet(g, 0)
      BY <3>1
    <3> HIDE DEF g, EqSet
    <3> QED BY <3>2, <1>1
  <2>2. ASSUME NEW b \in 1 .. length - 1, b - 1 \in T
        PROVE  b \in T
    <3>1. PICK g : EqSet(g, b - 1)
      BY <2>2
    <3> DEFINE h == [n \in length - b .. length |-> IF n = length - b THEN New(g, n) ELSE g[n]]
    <3>2. \A n \in length - b .. length : h[n] = New(h, n)
      <4> SUFFICES ASSUME NEW n \in length - b .. length
                   PROVE  h[n] = New(h, n)
        OBVIOUS
      <4>1. n # length => n + 1 \in length - b .. length /\ n + 1 # length - b
        BY <1>1
      <4>2. New(h, n) = New(g, n)
        BY <4>1
      <4>3. CASE n = length - b
        BY <4>2, <4>3
      <4>4. CASE n # length - b
        <5>1. n \in length - (b - 1) .. length
          BY <4>4, <1>1
        <5>2. g[n] = New(g, n)
          <6> HIDE DEF New
          <6> QED BY <3>1, <5>1
        <5> QED BY <4>2, <4>4, <5>2
      <4> QED BY <4>3, <4>4
    <3>3. EqSet(h, b)
      <4> HIDE DEF New
      <4> QED BY <3>2
    <3> HIDE DEF h, EqSet
    <3> QED BY <3>3, <1>1
  <2>3. length - 1 \in T
    <3> HIDE DEF T
    <3>1. \A b \in 0 + 1 .. length - 1 : b - 1 \in T => b \in T
      BY <2>2
    <3>2. length - 1 \in 0 .. length - 1 /\ length - 1 \in Nat
      BY <1>1
    <3> QED BY <2>1, <3>1, <3>2, Upward
  <2> HIDE DEF EqSet
  <2> QED BY <2>3
<1>6. set = [n \in 1 .. length |-> New(set, n)]
  <2>1. length - (length - 1) = 1
    BY <1>1
  <2>2. \E g : g = [n \in 1 .. length |-> New(g, n)]
    <3> HIDE DEF New
    <3> QED BY <1>5, <2>1
  <2> HIDE DEF New
  <2> QED BY <2>2
<1>7. \A n \in 1 .. length : set[n] = Put(inner[n], path[n], IF n = length THEN value ELSE Document(set[n + 1]))
  <2> HIDE DEF set
  <2> QED BY <1>6
<1> HIDE DEF set
<1> QED BY <1>2, <1>4, <1>7 DEF length, Descent

(* A path that leads to a value, through documents only.                   *)
Trace(v, fields, path) ==
    /\ v[0] = Document(fields)
    /\ \A n \in 1 .. Len(path) : /\ IsDocument(v[n - 1])
                                 /\ path[n] \in DOMAIN v[n - 1].fields
                                 /\ v[n] = v[n - 1].fields[path[n]]

LeadsTo(fields, path, value) == \E v : Trace(v, fields, path) /\ v[Len(path)] = value

LEMMA LeadsJson ==
    ASSUME NEW K, NEW path \in Seq(K), NEW fields, NEW value, LeadsTo(fields, path, value)
    PROVE  Json(Document(fields), path) = value
<1>1. PICK v : Trace(v, fields, path) /\ v[Len(path)] = value
  BY DEF LeadsTo
<1>2. PICK g : /\ g[0] = Document(fields)
               /\ \A n \in 1 .. Len(path) : g[n] = Inside(g[n - 1], path[n])
               /\ Json(Document(fields), path) = g[Len(path)]
  BY JsonSteps
<1> DEFINE T == {n \in 0 .. Len(path) : g[n] = v[n]}
<1>3. Len(path) \in Nat
  OBVIOUS
<1>4. 0 \in T
  BY <1>1, <1>2, <1>3 DEF Trace
<1>5. ASSUME NEW n \in 1 .. Len(path), n - 1 \in T
      PROVE  n \in T
  <2>1. /\ IsDocument(v[n - 1]) /\ path[n] \in DOMAIN v[n - 1].fields
        /\ v[n] = v[n - 1].fields[path[n]] /\ g[n] = Inside(v[n - 1], path[n])
    BY <1>1, <1>2, <1>5 DEF Trace
  <2>2. FieldOf(v[n - 1], path[n]) = {v[n]}
    BY <2>1 DEF FieldOf
  <2>3. g[n] = v[n]
    BY <2>1, <2>2 DEF Inside
  <2> QED BY <2>3
<1>6. Len(path) \in T
  <2> HIDE DEF T
  <2>1. \A n \in 0 + 1 .. Len(path) : n - 1 \in T => n \in T
    BY <1>5
  <2>2. Len(path) \in 0 .. Len(path)
    BY <1>3
  <2> QED BY <1>3, <1>4, <2>1, <2>2, Upward
<1> QED BY <1>1, <1>2, <1>6

(* SetByPath puts the value at the end of the path,                        *)
LEMMA SetLeads ==
    ASSUME NEW fields, NEW path, Len(path) \in Nat \ {0}, NEW value
    PROVE  LeadsTo(SetByPath(fields, path, value), path, value)
<1>1. PICK inner, set : Descent(inner, set, fields, path, value) /\ SetByPath(fields, path, value) = set[1]
  BY SetSteps
<1> DEFINE length == Len(path)
<1>2. length \in Nat \ {0}
  OBVIOUS
<1> HIDE DEF length
<1> DEFINE v == [n \in 0 .. length |-> IF n = length THEN value ELSE Document(set[n + 1])]
<1>3. v[0] = Document(set[1]) /\ v[length] = value
  BY <1>2
<1>4. ASSUME NEW n \in 1 .. length
      PROVE  IsDocument(v[n - 1]) /\ path[n] \in DOMAIN v[n - 1].fields /\ v[n] = v[n - 1].fields[path[n]]
  <2>1. v[n - 1] = Document(set[n])
    BY <1>2
  <2>2. set[n] = Put(inner[n], path[n], v[n])
    BY <1>1 DEF length, Descent
  <2> HIDE DEF v
  <2> QED BY <2>1, <2>2 DEF Document, IsDocument, Put
<1> HIDE DEF v
<1> QED BY <1>1, <1>3, <1>4 DEF Trace, LeadsTo, length

(* and leaves where it is what is on a path that parts from that one.      *)
LEMMA SetKeeps ==
    ASSUME NEW fields, NEW path, Len(path) \in Nat \ {0}, NEW value,
           NEW other, Len(other) \in Nat \ {0}, NEW kept, LeadsTo(fields, other, kept),
           \E n \in 1 .. Len(path) : n <= Len(other) /\ path[n] # other[n]
    PROVE  LeadsTo(SetByPath(fields, path, value), other, kept)
<1> DEFINE length == Len(path)
           Parts == {n \in 1 .. length : n <= Len(other) /\ path[n] # other[n]}
<1>1. length \in Nat \ {0} /\ Len(other) \in Nat \ {0}
  OBVIOUS
<1>2. PICK k \in Parts : \A n \in Parts : k <= n
  <2>1. Parts # {} /\ Parts \in SUBSET Nat
    BY <1>1
  <2> HIDE DEF Parts
  <2> QED BY <2>1, LeastNatural
<1>3. /\ k \in 1 .. length /\ k <= Len(other) /\ path[k] # other[k]
      /\ \A n \in 1 .. k - 1 : path[n] = other[n]
  BY <1>1, <1>2
<1>9. PICK inner, set : Descent(inner, set, fields, path, value) /\ SetByPath(fields, path, value) = set[1]
  BY SetSteps
<1>4. /\ inner[1] = fields
      /\ \A n \in 2 .. length : inner[n] = FieldsAt(inner[n - 1], path[n - 1])
      /\ \A n \in 1 .. length :
           set[n] = Put(inner[n], path[n], IF n = length THEN value ELSE Document(set[n + 1]))
      /\ SetByPath(fields, path, value) = set[1]
  BY <1>9 DEF Descent
<1>5. PICK v : Trace(v, fields, other) /\ v[Len(other)] = kept
  BY DEF LeadsTo
<1> HIDE DEF length, Parts
<1>6. \A n \in 1 .. k : v[n - 1].fields = inner[n]
  <2> DEFINE T == {n \in 1 .. k : v[n - 1].fields = inner[n]}
  <2>1. 1 \in T
    BY <1>3, <1>1, <1>4, <1>5 DEF Trace, Document
  <2>2. ASSUME NEW n \in 2 .. k, n - 1 \in T
        PROVE  n \in T
    <3>1. n - 1 \in 1 .. Len(other) /\ n - 1 \in 1 .. k - 1 /\ n \in 2 .. length /\ n - 1 - 1 = n - 2
      BY <1>1, <1>3
    <3>2. other[n - 1] \in DOMAIN v[n - 2].fields /\ v[n - 1] = v[n - 2].fields[other[n - 1]]
      BY <1>5, <3>1 DEF Trace
    <3>3. path[n - 1] = other[n - 1] /\ v[n - 2].fields = inner[n - 1]
      BY <1>3, <2>2, <3>1
    <3>4. inner[n] = FieldsAt(inner[n - 1], path[n - 1])
      BY <1>4, <3>1
    <3>5. inner[n] = v[n - 1].fields
      BY <3>2, <3>3, <3>4 DEF FieldsAt
    <3> QED BY <3>5
  <2> HIDE DEF T
  <2>3. \A n \in 1 + 1 .. k : n - 1 \in T => n \in T
    BY <2>2
  <2>4. k \in Nat
    BY <1>1, <1>3
  <2>5. \A n \in 1 .. k : n \in T
    BY <2>1, <2>3, <2>4, Upward
  <2> QED BY <2>5 DEF T
<1> DEFINE u == [n \in 0 .. Len(other) |-> IF n < k THEN Document(set[n + 1]) ELSE v[n]]
<1>7. u[0] = Document(set[1]) /\ u[Len(other)] = kept
  BY <1>1, <1>3, <1>5
<1>8. ASSUME NEW n \in 1 .. Len(other)
      PROVE  IsDocument(u[n - 1]) /\ other[n] \in DOMAIN u[n - 1].fields /\ u[n] = u[n - 1].fields[other[n]]
  <2>1. CASE n < k
    <3>1. n \in 1 .. length /\ n # length /\ n \in 1 .. k - 1
      BY <1>1, <1>3, <2>1
    <3>2. u[n - 1] = Document(set[n]) /\ u[n] = Document(set[n + 1])
      BY <1>1, <1>3, <2>1
    <3>3. set[n] = Put(inner[n], path[n], u[n]) /\ path[n] = other[n]
      BY <1>3, <1>4, <3>1, <3>2
    <3> HIDE DEF u
    <3> QED BY <3>2, <3>3 DEF Document, IsDocument, Put
  <2>2. CASE n = k
    <3>1. u[n - 1] = Document(set[n]) /\ u[n] = v[n]
      BY <1>1, <1>3, <2>2
    <3>2. \E x : set[n] = Put(inner[n], path[n], x)
      BY <1>3, <1>4, <2>2
    <3>3. v[n - 1].fields = inner[n] /\ path[n] # other[n]
      BY <1>1, <1>3, <1>6, <2>2
    <3>4. other[n] \in DOMAIN v[n - 1].fields /\ v[n] = v[n - 1].fields[other[n]]
      BY <1>5 DEF Trace
    <3> HIDE DEF u
    <3> QED BY <3>1, <3>2, <3>3, <3>4 DEF Document, IsDocument, Put
  <2>3. CASE n > k
    <3>1. u[n - 1] = v[n - 1] /\ u[n] = v[n]
      BY <1>1, <1>3, <2>3
    <3> HIDE DEF u
    <3> QED BY <1>5, <3>1 DEF Trace
  <2> QED BY <1>1, <1>3, <2>1, <2>2, <2>3
<1> HIDE DEF u
<1> QED BY <1>4, <1>7, <1>8 DEF Trace, LeadsTo

(* The steps of FromFilter.                                                *)
FilterNext(fields, c) == SetByPath(fields, c.path, EqualTo(c))

LEMMA FilterSteps ==
    ASSUME NEW filter, Len(SetToSeq(Equalities(filter))) \in Nat
    PROVE  LET conditions == SetToSeq(Equalities(filter))
           IN \E g : /\ g[0] = <<>>
                     /\ \A n \in 1 .. Len(conditions) : g[n] = FilterNext(g[n - 1], conditions[n])
                     /\ FromFilter(filter) = g[Len(conditions)]
<1> DEFINE conditions == SetToSeq(Equalities(filter))
           length == Len(conditions)
           Eq(g, b) == g = [n \in 0 .. b |-> IF n = 0 THEN <<>> ELSE FilterNext(g[n - 1], conditions[n])]
           T == {b \in 0 .. length : \E g : Eq(g, b)}
<1>1. length \in Nat
  OBVIOUS
<1>2. FromFilter(filter) = (CHOOSE g : Eq(g, length))[length]
  BY DEF FromFilter, FilterNext
<1> HIDE DEF length, conditions
<1>3. 0 \in T
  <2> DEFINE g == [n \in 0 .. 0 |-> <<>>]
  <2>1. Eq(g, 0)
    OBVIOUS
  <2> HIDE DEF g
  <2> QED BY <2>1, <1>1
<1>4. ASSUME NEW b \in 1 .. length, b - 1 \in T
      PROVE  b \in T
  <2>1. PICK g : Eq(g, b - 1)
    BY <1>4
  <2> DEFINE h == [n \in 0 .. b |-> IF n = b THEN FilterNext(g[b - 1], conditions[b]) ELSE g[n]]
  <2>2. \A n \in 0 .. b : h[n] = IF n = 0 THEN <<>> ELSE FilterNext(h[n - 1], conditions[n])
    <3> SUFFICES ASSUME NEW n \in 0 .. b
                 PROVE  h[n] = IF n = 0 THEN <<>> ELSE FilterNext(h[n - 1], conditions[n])
      OBVIOUS
    <3>1. CASE n = b
      BY <3>1, <1>1
    <3>2. CASE n # b
      <4>1. n \in 0 .. b - 1 /\ (n # 0 => n - 1 \in 0 .. b /\ n - 1 # b)
        BY <3>2, <1>1
      <4>2. g[n] = IF n = 0 THEN <<>> ELSE FilterNext(g[n - 1], conditions[n])
        BY <2>1, <4>1
      <4> QED BY <3>2, <4>1, <4>2
    <3> QED BY <3>1, <3>2
  <2>3. Eq(h, b)
    BY <2>2
  <2> HIDE DEF h
  <2> QED BY <2>3, <1>1
<1>5. length \in T
  <2> HIDE DEF T
  <2>1. \A b \in 0 + 1 .. length : b - 1 \in T => b \in T
    BY <1>4
  <2>2. length \in 0 .. length
    BY <1>1
  <2> QED BY <1>1, <1>3, <2>1, <2>2, Upward
<1>6. PICK g : Eq(g, length) /\ g = CHOOSE h : Eq(h, length)
  <2> HIDE DEF Eq
  <2> QED BY <1>5
<1>7. \A n \in 0 .. length : g[n] = IF n = 0 THEN <<>> ELSE FilterNext(g[n - 1], conditions[n])
  BY <1>6
<1>8. g[0] = <<>> /\ \A n \in 1 .. length : g[n] = FilterNext(g[n - 1], conditions[n])
  BY <1>7, <1>1
<1>9. FromFilter(filter) = g[length]
  BY <1>2, <1>6
<1> HIDE DEF Eq
<1> QED BY <1>8, <1>9 DEF length, conditions

(* The document an upsert makes of its filter has every value at its path. *)
LEMMA FilterLeads ==
    ASSUME NEW filter, IsFiniteSet(Equalities(filter)), Apart(Equalities(filter)),
           \A c \in Equalities(filter) : Len(c.path) \in Nat \ {0} /\ DOMAIN c.path = 1 .. Len(c.path),
           NEW c \in Equalities(filter)
    PROVE  LeadsTo(FromFilter(filter), c.path, EqualTo(c))
<1> DEFINE E == Equalities(filter)
           conditions == SetToSeq(E)
           length == Cardinality(E)
<1>1. length \in Nat /\ ExistsBijection(1 .. length, E)
  BY FS_CardinalityType
<1>2. conditions \in Injection(1 .. length, E)
  <2> HIDE DEF E, length
  <2>1. \E f : f \in [1 .. length -> E] /\ IsInjective(f)
    BY <1>1 DEF ExistsBijection, Bijection, Injection
  <2> QED BY <2>1 DEF SetToSeq, Injection, length
<1>3. conditions \in Surjection(1 .. length, E)
  <2>1. IsFiniteSet(E)
    OBVIOUS
  <2>2. Cardinality(1 .. length) = length
    BY <1>1, FS_Interval
  <2> HIDE DEF E, conditions
  <2> QED BY <1>2, <2>1, <2>2, FS_Injection DEF length
<1>4. /\ conditions \in [1 .. length -> E] /\ Len(conditions) = length
      /\ \A a, b \in 1 .. length : conditions[a] = conditions[b] => a = b
      /\ \A e \in E : \E n \in 1 .. length : conditions[n] = e
  <2> HIDE DEF E, conditions, length
  <2>1. conditions \in [1 .. length -> E]
    BY <1>2 DEF Injection
  <2>2. Len(conditions) = length
    BY <1>1, <2>1
  <2>3. \A a, b \in 1 .. length : conditions[a] = conditions[b] => a = b
    BY <1>2, <2>1 DEF Injection, IsInjective
  <2> QED BY <1>3, <2>1, <2>2, <2>3 DEF Surjection
<1>5. PICK g : /\ g[0] = <<>>
               /\ \A n \in 1 .. length : g[n] = FilterNext(g[n - 1], conditions[n])
               /\ FromFilter(filter) = g[length]
  BY <1>1, <1>4, FilterSteps
<1>6. PICK k \in 1 .. length : conditions[k] = c
  BY <1>4
<1>7. \A e \in E : Len(e.path) \in Nat \ {0}
  OBVIOUS
<1>8. \A e \in E : e # c => \E n \in 1 .. Len(e.path) : n <= Len(c.path) /\ e.path[n] # c.path[n]
  BY DEF Apart
<1> HIDE DEF E, conditions, length
<1> DEFINE T == {n \in k .. length : LeadsTo(g[n], c.path, EqualTo(c))}
<1>9. k \in T
  <2>1. g[k] = SetByPath(g[k - 1], c.path, EqualTo(c))
    BY <1>5, <1>6 DEF FilterNext
  <2>2. LeadsTo(g[k], c.path, EqualTo(c))
    BY <2>1, <1>7, SetLeads DEF E
  <2> QED BY <1>1, <2>2
<1>10. ASSUME NEW n \in k + 1 .. length, n - 1 \in T
       PROVE  n \in T
  <2> DEFINE e == conditions[n]
  <2>1. n \in 1 .. length /\ n # k
    BY <1>1
  <2>2. e \in E /\ e # c
    BY <1>4, <1>6, <2>1
  <2>3. g[n] = SetByPath(g[n - 1], e.path, EqualTo(e))
    BY <1>5, <2>1 DEF FilterNext
  <2>4. LeadsTo(g[n - 1], c.path, EqualTo(c))
    BY <1>10
  <2> HIDE DEF e
  <2>5. Len(e.path) \in Nat \ {0} /\ Len(c.path) \in Nat \ {0}
    BY <1>7, <2>2 DEF E
  <2>6. LeadsTo(g[n], c.path, EqualTo(c))
    BY <1>8, <2>2, <2>3, <2>4, <2>5, SetKeeps
  <2> QED BY <2>6
<1>11. length \in T
  <2>1. \A n \in k + 1 .. length : n - 1 \in T => n \in T
    BY <1>10
  <2>2. k \in Nat /\ length \in k .. length
    BY <1>1
  <2> HIDE DEF T
  <2> QED BY <1>1, <1>9, <2>1, <2>2, Upward
<1> QED BY <1>5, <1>11

(* An operator leaves a field where it is that is neither its own nor the  *)
(* target of its $rename.                                                  *)
KeepsField(p, fields, key) == key \in DOMAIN p.fields /\ p.fields[key] = fields[key]

LEMMA StepKeeps ==
    ASSUME NEW fields, NEW s, IsStep(s), NEW upsert, NEW key \in DOMAIN fields,
           key # s.key, s.op = "rename" => key # s.arg
    PROVE  KeepsField(Process(fields, s, upsert), fields, key)
<1> USE DEF KeepsField
<1>1. \A v : KeepsField(Changed(Put(fields, s.key, v)), fields, key)
  BY DEF Changed, Put
<1>2. KeepsField(Kept(fields), fields, key) /\ KeepsField(Refused(fields), fields, key)
  BY DEF Kept, Refused
<1>3. ASSUME NEW elems, NEW changed
      PROVE  KeepsField(Made(fields, s.key, elems, changed), fields, key)
  BY DEF Made, Put
<1>4. KeepsField(Changed(Drop(fields, s.key)), fields, key)
  BY DEF Changed, Drop
<1>5. s.op = "rename" => \A v : KeepsField(Changed(Put(Drop(fields, s.key), s.arg, v)), fields, key)
  BY DEF Changed, Put, Drop
<1> HIDE DEF KeepsField
<1>6. CASE s.op \in {"set", "unset", "inc", "mul", "max", "min", "rename"}
  BY <1>1, <1>2, <1>4, <1>5, <1>6
     DEF Process, ProcessSet, ProcessUnset, ProcessInc, ProcessMul, ProcessMax, ProcessMin, ProcessRename
<1>7. CASE s.op = "setOnInsert"
  BY <1>1, <1>2, <1>7 DEF Process, ProcessSetOnInsert, ProcessSet
<1> USE DEF OnArray
<1>8. CASE s.op = "pop"
  BY <1>2, <1>3, <1>8 DEF Process, ProcessPop
<1>9. CASE s.op = "push"
  <2>1. \A elems : KeepsField(Made(fields, s.key, PushedOn(elems, s.arg),
                                \/ Len(PushedOn(elems, s.arg)) # Len(elems)
                                \/ \E i \in DOMAIN elems : ~Equals(elems[i], PushedOn(elems, s.arg)[i])), fields, key)
    BY <1>3
  <2> QED BY <1>2, <1>9, <2>1 DEF Process, ProcessPush
<1>10. CASE s.op = "addToSet"
  <2>1. \A elems : KeepsField(Made(fields, s.key, AddEach(elems, s.arg),
                                Len(AddEach(elems, s.arg)) # Len(elems)), fields, key)
    BY <1>3
  <2> QED BY <1>2, <1>10, <2>1 DEF Process, ProcessAddToSet
<1>11. ASSUME NEW result
       PROVE  KeepsField(Made(fields, s.key, result, result # fields[s.key].elems), fields, key)
  BY <1>3
<1>12. CASE s.op = "pullAll"
  <2>1. KeepsField(ProcessPullAll(fields, s.key, s.arg), fields, key)
    BY <1>2, <1>11 DEF ProcessPullAll, Pulled
  <2> QED BY <1>12, <2>1 DEF Process
<1>13. CASE s.op = "pull"
  <2>1. KeepsField(ProcessPull(fields, s.key, s.arg), fields, key)
    BY <1>2, <1>11 DEF ProcessPull, Pulled
  <2> QED BY <1>13, <2>1 DEF Process
<1> QED BY <1>6, <1>7, <1>8, <1>9, <1>10, <1>12, <1>13 DEF IsStep

(* So does an update, with the fields it does not touch.                   *)
LEMMA UpdateKeeps ==
    ASSUME NEW fields, NEW update, update \in Seq(Range(update)), \A s \in Range(update) : IsStep(s),
           NEW key \in DOMAIN fields, key \notin Touched(update)
    PROVE  KeepsField(ProcessUpdate(fields, update, TRUE), fields, key)
<1>1. PICK g : /\ g[0] = Kept(fields)
               /\ \A n \in 1 .. Len(update) : g[n] = ProcessNext(g[n - 1], update[n], TRUE)
               /\ ProcessUpdate(fields, update, TRUE) = g[Len(update)]
  <2>1. Len(update) \in Nat
    OBVIOUS
  <2>2. GoesThrough(fields, update, TRUE)
    BY <2>1, UpdateSteps
  <2> QED BY <2>2, ZenonT(60) DEF GoesThrough
<1> DEFINE T == {n \in 0 .. Len(update) : Outcome(g[n]) /\ KeepsField(g[n], fields, key)}
<1>2. 0 \in T
  <2>1. Outcome(Kept(fields)) /\ KeepsField(Kept(fields), fields, key)
    BY DEF Outcome, KeepsField, Kept
  <2> QED BY <1>1, <2>1
<1>3. ASSUME NEW n \in 1 .. Len(update), n - 1 \in T
      PROVE  n \in T
  <2> DEFINE s == update[n]
             p == g[n - 1]
             q == Process(p.fields, s, TRUE)
  <2>1. g[n] = ProcessNext(p, s, TRUE) /\ Outcome(p) /\ KeepsField(p, fields, key) /\ IsStep(s)
    <3>1. n \in DOMAIN update
      BY <1>3
    <3>2. update[n] \in Range(update)
      BY <3>1 DEF Range
    <3> QED BY <1>1, <1>3, <3>2
  <2>2. key # s.key /\ (s.op = "rename" => key # s.arg)
    BY DEF Touched
  <2>3. Outcome(q) /\ KeepsField(q, p.fields, key)
    <3>1. key \in DOMAIN p.fields
      BY <2>1 DEF KeepsField
    <3> HIDE DEF p, s
    <3>2. \A upsert : Outcome(Process(p.fields, s, upsert)) /\ KeepsField(Process(p.fields, s, upsert), p.fields, key)
      BY <2>1, <2>2, <3>1, StepOutcome, StepKeeps
    <3> QED BY <3>2, ZenonT(60)
  <2>4. KeepsField(q, fields, key)
    BY <2>1, <2>3 DEF KeepsField
  <2> HIDE DEF p, q, s
  <2>5. CASE p.error
    BY <2>1, <2>5 DEF ProcessNext
  <2>6. CASE ~p.error
    <3>1. g[n] = [q EXCEPT !.changed = p.changed \/ @]
      BY <2>1, <2>6 DEF ProcessNext, q
    <3>2. g[n] = [fields |-> q.fields, changed |-> (p.changed \/ q.changed), error |-> q.error]
      BY <2>3, <3>1 DEF Outcome
    <3>3. Outcome(g[n])
      <4> DEFINE c == p.changed \/ q.changed
      <4>1. c \in BOOLEAN /\ q.error \in BOOLEAN
        BY <2>3 DEF Outcome
      <4>2. g[n] = [fields |-> q.fields, changed |-> c, error |-> q.error]
        BY <3>2
      <4> HIDE DEF c
      <4> QED BY <4>1, <4>2 DEF Outcome
    <3>4. KeepsField(g[n], fields, key)
      BY <2>4, <3>2 DEF KeepsField
    <3> QED BY <3>3, <3>4
  <2> QED BY <2>5, <2>6
<1>4. Len(update) \in T
  <2> HIDE DEF T
  <2>1. \A n \in 0 + 1 .. Len(update) : n - 1 \in T => n \in T
    BY <1>3
  <2>2. Len(update) \in Nat /\ Len(update) \in 0 .. Len(update)
    OBVIOUS
  <2> QED BY <1>2, <2>1, <2>2, Upward
<1> QED BY <1>1, <1>4

(* A path whose first field is kept still leads to its value.              *)
LEMMA KeptLeads ==
    ASSUME NEW fields, NEW path, Len(path) \in Nat \ {0}, NEW value, LeadsTo(fields, path, value),
           NEW new, path[1] \in DOMAIN fields => path[1] \in DOMAIN new /\ new[path[1]] = fields[path[1]]
    PROVE  LeadsTo(new, path, value)
<1>1. PICK v : Trace(v, fields, path) /\ v[Len(path)] = value
  BY DEF LeadsTo
<1> DEFINE u == [n \in 0 .. Len(path) |-> IF n = 0 THEN Document(new) ELSE v[n]]
<1>2. u[0] = Document(new) /\ u[Len(path)] = value
  BY <1>1
<1>3. ASSUME NEW n \in 1 .. Len(path)
      PROVE  IsDocument(u[n - 1]) /\ path[n] \in DOMAIN u[n - 1].fields /\ u[n] = u[n - 1].fields[path[n]]
  <2>1. IsDocument(v[n - 1]) /\ path[n] \in DOMAIN v[n - 1].fields /\ v[n] = v[n - 1].fields[path[n]]
    BY <1>1 DEF Trace
  <2>2. CASE n = 1
    <3>1. v[0] = Document(fields) /\ u[0] = Document(new) /\ u[1] = v[1]
      BY <1>1, <2>2 DEF Trace
    <3> HIDE DEF u
    <3> QED BY <2>1, <2>2, <3>1 DEF Document, IsDocument
  <2>3. CASE n # 1
    BY <2>1, <2>3
  <2> QED BY <2>2, <2>3
<1> HIDE DEF u
<1> QED BY <1>2, <1>3 DEF Trace, LeadsTo

LEMMA LeadsInside ==
    ASSUME NEW fields, Document(fields) \in Bson, NEW path, Len(path) \in Nat, NEW value, LeadsTo(fields, path, value)
    PROVE  value \in Bson
<1>1. PICK v : Trace(v, fields, path) /\ v[Len(path)] = value
  BY DEF LeadsTo
<1> DEFINE T == {n \in 0 .. Len(path) : v[n] \in Bson}
<1>2. 0 \in T
  BY <1>1 DEF Trace
<1>3. ASSUME NEW n \in 1 .. Len(path), n - 1 \in T
      PROVE  n \in T
  <2>1. IsDocument(v[n - 1]) /\ path[n] \in DOMAIN v[n - 1].fields /\ v[n] = v[n - 1].fields[path[n]]
    BY <1>1 DEF Trace
  <2>2. v[n - 1] \in Bson
    BY <1>3
  <2>3. v[n] \in Bson
    BY <2>1, <2>2, InsideBson
  <2> QED BY <2>3
<1>4. Len(path) \in T
  <2> HIDE DEF T
  <2>1. \A n \in 0 + 1 .. Len(path) : n - 1 \in T => n \in T
    BY <1>3
  <2>2. Len(path) \in 0 .. Len(path)
    OBVIOUS
  <2> QED BY <1>2, <2>1, <2>2, Upward
<1> QED BY <1>1, <1>4

(* A filter of equalities finds a document that has the values at their    *)
(* paths, in SQLite and in Go.                                             *)
LEMMA EqualitiesFind ==
    ASSUME NEW fields, Document(fields) \in Storable, NEW filter \in Selectors, filter = Equalities(filter),
           \A c \in filter : LeadsTo(fields, c.path, EqualTo(c))
    PROVE  FilterDocument(Document(fields), filter) /\ Candidate(Document(fields), filter)
<1> DEFINE d == Document(fields)
<1>1. d \in Bson /\ IsDocument(d)
  BY ValuesAssumption
<1>2. ASSUME NEW c \in filter
      PROVE  /\ ~IsLogical(c) /\ DOMAIN c.ops \in {{"is"}, {"eq"}}
             /\ Json(d, c.path) = EqualTo(c) /\ EqualTo(c) # Absent /\ FindValues(d, c.path) = {EqualTo(c)}
  <2>1. ~IsLogical(c) /\ DOMAIN c.ops \in {{"is"}, {"eq"}}
    BY DEF Equalities
  <2>2. c.path \in Seq(Range(c.path)) /\ c.path # <<>>
    BY <2>1, FiltersAssumption
  <2>3. LeadsTo(fields, c.path, EqualTo(c))
    OBVIOUS
  <2>4. Len(c.path) \in Nat
    BY <2>2
  <2>5. EqualTo(c) # Absent
    BY <1>1, <2>3, <2>4, LeadsInside, AbsentIsNoValue
  <2>6. Json(d, c.path) = EqualTo(c)
    BY <2>2, <2>3, LeadsJson
  <2>7. Json(d, c.path) = Absent \/ FindValues(d, c.path) = {Json(d, c.path)}
    BY <1>1, <2>2, PathValues
  <2> QED BY <2>1, <2>5, <2>6, <2>7
<1> HIDE DEF d
<1>3. ASSUME NEW c \in filter
      PROVE  ConditionHolds(d, c)
  <2> DEFINE v == EqualTo(c)
  <2>1. FindValues(d, c.path) = {v} /\ v # Absent
    BY <1>2
  <2>2. EqualsOperand(v, v)
    BY DEF EqualsOperand, Equals
  <2>3. CASE DOMAIN c.ops = {"is"}
    <3>1. v = c.ops.is
      BY <2>3 DEF EqualTo
    <3> QED BY <2>1, <2>2, <2>3, <3>1 DEF ConditionHolds, IsValue
  <2>4. CASE DOMAIN c.ops = {"eq"}
    <3>1. v = c.ops["eq"]
      BY <2>4 DEF EqualTo
    <3> HIDE DEF v
    <3>2. OperatorHolds("eq", v, c.ops["eq"])
      BY <2>1, <2>2, <3>1 DEF OperatorHolds
    <3>3. FieldMatches(v, c.ops)
      BY <2>4, <3>2 DEF FieldMatches
    <3> QED BY <2>1, <2>4, <3>3 DEF ConditionHolds
  <2> QED BY <1>2, <2>3, <2>4
<1>4. FilterDocument(d, filter)
  BY <1>2, <1>3 DEF FilterDocument
<1>5. Nested(filter) = {filter}
  BY <1>2 DEF Nested
<1>6. OutsideRange(filter) = {}
  BY <1>2 DEF OutsideRange
<1>7. ASSUME NEW c \in filter
      PROVE  ~ExplicitNull(d, c) /\ ~TextIsAbove(d, c, filter) /\ ~ThroughArray(d, c)
  <2>1. "in" \notin DOMAIN c.ops /\ "elemMatch" \notin DOMAIN c.ops /\ DOMAIN c.ops \intersect Ranges = {}
    BY <1>2 DEF Ranges
  <2>2. ~ExplicitNull(d, c)
    BY <2>1 DEF ExplicitNull, NullAmong
  <2>3. NumericBounds(c.ops) = {}
    BY <2>1 DEF NumericBounds
  <2>4. ~TextIsAbove(d, c, filter)
    BY <1>6, <2>3 DEF TextIsAbove
  <2>5. ~ThroughArray(d, c)
    BY <1>2 DEF ThroughArray, IsMissing
  <2> QED BY <2>2, <2>4, <2>5
<1>8. ~KnownGap(d, filter)
  BY <1>5, <1>7 DEF KnownGap
<1>9. d \in Storable
  BY DEF d
<1>10. Candidate(d, filter)
  BY <1>4, <1>8, <1>9, ClauseLosesNothing
<1> QED BY <1>4, <1>10 DEF d

(* What an upsert makes of a filter that only has equalities.              *)
LEMMA UpsertHasItsValues ==
    ASSUME NEW r \in Requests, r.filter = Equalities(r.filter), Apart(r.filter),
           {Head(c.path) : c \in r.filter} \intersect Touched(r.change) = {},
           NEW id, FilterId(r.filter) = {} \/ id \in FilterId(r.filter), NEW c \in r.filter
    PROVE  LET rest == {e \in r.filter : IsLogical(e) \/ e.path # IdPath}
               made == ProcessUpdate(FromFilter(rest), r.change, TRUE)
           IN LeadsTo(Put(made.fields, "_id", Scalar("objectid", id)), c.path, EqualTo(c))
<1> DEFINE filter == r.filter
           rest == {e \in filter : IsLogical(e) \/ e.path # IdPath}
           from == FromFilter(rest)
           made == ProcessUpdate(from, r.change, TRUE).fields
           new == Put(made, "_id", Scalar("objectid", id))
<1>1. \A e \in filter : /\ ~IsLogical(e) /\ e.path \in Seq(Range(e.path)) /\ e.path # <<>>
  BY CommandsAssumption, FiltersAssumption DEF Equalities
<1>2. \A e \in filter : /\ Len(e.path) \in Nat \ {0} /\ DOMAIN e.path = 1 .. Len(e.path) /\ Head(e.path) = e.path[1]
  BY <1>1
<1>3. CASE c.path = IdPath
  <2>1. Head(c.path) = "_id" /\ Len(c.path) = 1 /\ c.path[1] = "_id"
    BY <1>3 DEF IdPath
  <2>2. EqualTo(c) = Scalar("objectid", EqualTo(c).value)
    BY <2>1, CommandsAssumption
  <2>3. \A e \in filter : e.path = IdPath => e = c
    BY <1>3 DEF Apart
  <2>4. FilterId(filter) = {EqualTo(c).value}
    BY <1>3, <2>3 DEF FilterId
  <2>5. id = EqualTo(c).value
    BY <2>4
  <2> DEFINE v == [n \in 0 .. 1 |-> IF n = 0 THEN Document(new) ELSE EqualTo(c)]
  <2>6. v[0] = Document(new) /\ v[1] = EqualTo(c)
    OBVIOUS
  <2>7. "_id" \in DOMAIN new /\ new["_id"] = EqualTo(c)
    BY <2>2, <2>5 DEF Put
  <2> HIDE DEF v, new
  <2>8. Trace(v, new, c.path)
    <3>1. \A n \in 1 .. 1 : n = 1 /\ n - 1 = 0
      OBVIOUS
    <3> QED BY <2>1, <2>6, <2>7, <3>1 DEF Trace, IsDocument, Document
  <2> QED BY <2>1, <2>6, <2>8 DEF LeadsTo, new
<1>4. CASE c.path # IdPath
  <2>1. c.path[1] # "_id"
    BY <1>2, <1>4, CommandsAssumption
  <2>2. c \in Equalities(rest) /\ Equalities(rest) \subseteq filter
    BY <1>4 DEF Equalities
  <2>3. IsFiniteSet(Equalities(rest))
    BY <2>2, CommandsAssumption, FiltersAssumption, FS_Subset
  <2>4. Apart(Equalities(rest))
    BY <2>2 DEF Apart
  <2> HIDE DEF rest
  <2>5. LeadsTo(from, c.path, EqualTo(c))
    BY <1>2, <2>2, <2>3, <2>4, FilterLeads
  <2>6. c.path[1] \notin Touched(r.change)
    BY <1>2
  <2>7. r.change \in Seq(Range(r.change)) /\ \A s \in Range(r.change) : IsStep(s)
    BY ChangesAssumption DEF IsStep
  <2> HIDE DEF from
  <2>8. c.path[1] \in DOMAIN from => c.path[1] \in DOMAIN made /\ made[c.path[1]] = from[c.path[1]]
    <3> DEFINE key == c.path[1]
    <3> HIDE DEF key
    <3>1. ASSUME key \in DOMAIN from
          PROVE  KeepsField(ProcessUpdate(from, r.change, TRUE), from, key)
      BY <2>6, <2>7, <3>1, UpdateKeeps DEF key
    <3> QED BY <3>1 DEF KeepsField, key
  <2> HIDE DEF made
  <2>9. LeadsTo(made, c.path, EqualTo(c))
    BY <1>2, <2>5, <2>8, KeptLeads
  <2>10. c.path[1] \in DOMAIN made => c.path[1] \in DOMAIN new /\ new[c.path[1]] = made[c.path[1]]
    BY <2>1 DEF Put
  <2> HIDE DEF new
  <2> QED BY <1>2, <2>9, <2>10, KeptLeads DEF new, made, from, rest
<1> QED BY <1>3, <1>4

(* An upsert makes a new document only when no document matches its filter *)
(* but for the known gaps, and the document it makes of a filter of        *)
(* equalities is found by that filter again, in SQLite and in Go: a second *)
(* upsert updates what the first has made (update.go, msg_update.go).      *)
THEOREM UpsertsKeepToTheirFilter == Spec => []UpsertsAgreeWithFilter
<1>1. Init => UpsertsAgreeWithFilter
  BY DEF Init, Idle, UpsertsAgreeWithFilter
<1>2. UpsertsAgreeWithFilter /\ ContentsInv /\ ContentsInv' /\ [Next]_vars => UpsertsAgreeWithFilter'
  <2> SUFFICES ASSUME UpsertsAgreeWithFilter, Bounded(docs), Bounded(docs'), [Next]_vars
               PROVE  UpsertsAgreeWithFilter'
    BY DEF ContentsInv, Contained, Bounded
  <2>1. CASE vars' = vars
    BY <2>1 DEF vars, UpsertsAgreeWithFilter, MakesNoDouble, IsFoundAgain, Matching, Lost
  <2>2. ASSUME NEW r \in Requests, Update(r.filter, r.change, r.multi, r.upsert), answer'.command = "upsert"
        PROVE  UpsertsAgreeWithFilter'
    <3> DEFINE filter == r.filter
               found == Query("update", filter)
               rest == {c \in filter : IsLogical(c) \/ c.path # IdPath}
               result == ProcessUpdate(FromFilter(rest), r.change, TRUE)
    <3>1. UpdateFound(found, filter, r.change, r.multi, r.upsert)
      BY <2>2 DEF Update
    <3>2. ~UpdateMatched(found, filter, r.change, r.multi)
      <4>1. UpdateMatched(found, filter, r.change, r.multi) => answer'.command = "update"
        BY DEF UpdateMatched, Answer
      <4> QED BY <2>2, <4>1
    <3>3. found = {} /\ UpsertNew(filter, r.change)
      BY <3>1, <3>2 DEF UpdateFound
    <3> HIDE DEF result, found
    <3>4. PICK id : /\ FilterId(filter) = {} \/ id \in FilterId(filter)
                    /\ docs' = Put(docs, id, Stored(id, result.fields))
                    /\ Answer("upsert", filter, {id}, [change |-> r.change])
      <4>1. PICK id \in (IF FilterId(filter) = {} THEN Ids \ DOMAIN docs ELSE FilterId(filter)) :
              \/ Answer("update", filter, {}, [change |-> r.change, failed |-> TRUE])
              \/ /\ docs' = Put(docs, id, Stored(id, result.fields))
                 /\ Answer("upsert", filter, {id}, [change |-> r.change])
        BY <3>3 DEF UpsertNew, result
      <4>2. ~Answer("update", filter, {}, [change |-> r.change, failed |-> TRUE])
        BY <2>2 DEF Answer
      <4> QED BY <4>1, <4>2
    <3>5. answer' = [command |-> "upsert", filter |-> filter, ids |-> {id}, before |-> docs,
                     more |-> [change |-> r.change]]
      BY <3>4 DEF Answer
    <3>6. ASSUME NEW i \in DOMAIN docs, FilterDocument(docs[i], filter)
          PROVE  KnownGap(docs[i], filter)
      <4>1. docs[i] \in Storable /\ filter \in Selectors
        BY CommandsAssumption DEF Bounded
      <4>2. ~Candidate(docs[i], filter)
        BY <3>3, <3>6 DEF found, Query, PushedPart
      <4> QED BY <3>6, <4>1, <4>2, ClauseLosesNothing
    <3>7. MakesNoDouble'
      BY <3>5, <3>6 DEF MakesNoDouble, Matching, Lost, PushedPart
    <3>8. ASSUME filter = Equalities(filter), Apart(filter),
                 {Head(c.path) : c \in filter} \intersect Touched(r.change) = {}
          PROVE  Candidate(docs'[id], filter) /\ FilterDocument(docs'[id], filter)
      <4> DEFINE new == Put(result.fields, "_id", Scalar("objectid", id))
      <4>1. docs'[id] = Document(new) /\ id \in DOMAIN docs'
        BY <3>4 DEF Put, Stored
      <4>2. Document(new) \in Storable
        BY <4>1 DEF Bounded
      <4>3. \A c \in filter : LeadsTo(new, c.path, EqualTo(c))
        BY <3>4, <3>8, UpsertHasItsValues DEF result
      <4>4. filter \in Selectors
        BY CommandsAssumption
      <4> HIDE DEF new
      <4> QED BY <3>8, <4>1, <4>2, <4>3, <4>4, EqualitiesFind
    <3>9. IsFoundAgain'
      BY <3>5, <3>8 DEF IsFoundAgain
    <3> QED BY <3>7, <3>9 DEF UpsertsAgreeWithFilter
  <2>3. CASE answer'.command # "upsert"
    BY <2>3 DEF UpsertsAgreeWithFilter
  <2>4. ASSUME NEW request \in Inserts, Insert(request) PROVE answer'.command # "upsert"
    BY <2>4, InsertAnswers
  <2>5. ASSUME NEW f \in Filters, Count(f) PROVE answer'.command # "upsert"
    BY <2>5, CountAnswers
  <2> QED BY <2>1, <2>2, <2>3, <2>4, <2>5, Answered DEF vars
<1> QED BY <1>1, <1>2, Contents, PTL DEF Spec

-----------------------------------------------------------------------------
(* Finds and pipelines.                                                    *)

Passed(list, d, filter) == IF FilterDocument(d, filter) THEN Append(list, d) ELSE list

(* The steps of a filter over a list of documents.                          *)
LEMMA FilterIterates ==
    ASSUME NEW list, Len(list) \in Nat, NEW filter
    PROVE  \E g : /\ g[0] = <<>>
                  /\ \A n \in 1 .. Len(list) : g[n] = Passed(g[n - 1], list[n], filter)
                  /\ FilterIterator(list, filter) = g[Len(list)]
<1> DEFINE length == Len(list)
           Eq(g, b) == g = [n \in 0 .. b |-> IF n = 0 THEN <<>> ELSE Passed(g[n - 1], list[n], filter)]
           T == {b \in 0 .. length : \E g : Eq(g, b)}
<1>1. length \in Nat
  OBVIOUS
<1>2. FilterIterator(list, filter) = (CHOOSE g : Eq(g, length))[length]
  BY DEF FilterIterator, Passed
<1> HIDE DEF length
<1>3. 0 \in T
  <2> DEFINE g == [n \in 0 .. 0 |-> <<>>]
  <2>1. Eq(g, 0)
    OBVIOUS
  <2> HIDE DEF g
  <2> QED BY <2>1, <1>1
<1>4. ASSUME NEW b \in 1 .. length, b - 1 \in T
      PROVE  b \in T
  <2>1. PICK g : Eq(g, b - 1)
    BY <1>4
  <2> DEFINE h == [n \in 0 .. b |-> IF n = b THEN Passed(g[b - 1], list[b], filter) ELSE g[n]]
  <2>2. \A n \in 0 .. b : h[n] = IF n = 0 THEN <<>> ELSE Passed(h[n - 1], list[n], filter)
    <3> SUFFICES ASSUME NEW n \in 0 .. b
                 PROVE  h[n] = IF n = 0 THEN <<>> ELSE Passed(h[n - 1], list[n], filter)
      OBVIOUS
    <3>1. CASE n = b
      BY <3>1, <1>1
    <3>2. CASE n # b
      <4>1. n \in 0 .. b - 1 /\ (n # 0 => n - 1 \in 0 .. b /\ n - 1 # b)
        BY <3>2, <1>1
      <4>2. g[n] = IF n = 0 THEN <<>> ELSE Passed(g[n - 1], list[n], filter)
        BY <2>1, <4>1
      <4> QED BY <3>2, <4>1, <4>2
    <3> QED BY <3>1, <3>2
  <2>3. Eq(h, b)
    BY <2>2
  <2> HIDE DEF h
  <2> QED BY <2>3, <1>1
<1>5. length \in T
  <2> HIDE DEF T
  <2>1. \A b \in 0 + 1 .. length : b - 1 \in T => b \in T
    BY <1>4
  <2>2. length \in 0 .. length
    BY <1>1
  <2> QED BY <1>1, <1>3, <2>1, <2>2, Upward
<1>6. PICK g : Eq(g, length) /\ g = CHOOSE h : Eq(h, length)
  <2> HIDE DEF Eq
  <2> QED BY <1>5
<1>7. \A n \in 0 .. length : g[n] = IF n = 0 THEN <<>> ELSE Passed(g[n - 1], list[n], filter)
  BY <1>6
<1>8. g[0] = <<>> /\ \A n \in 1 .. length : g[n] = Passed(g[n - 1], list[n], filter)
  BY <1>7, <1>1
<1>9. FilterIterator(list, filter) = g[length]
  BY <1>2, <1>6
<1> HIDE DEF Eq
<1> QED BY <1>8, <1>9 DEF length

Place(list, d, sort) == 1 + Max({0} \union {j \in DOMAIN list : ~DocumentBefore(d, list[j], sort)})

(* The steps of the sort.                                                   *)
LEMMA SortSteps ==
    ASSUME NEW list, Len(list) \in Nat, NEW sort
    PROVE  \E g : /\ g[0] = <<>>
                  /\ \A n \in 1 .. Len(list) : g[n] = InsertAt(g[n - 1], Place(g[n - 1], list[n], sort), list[n])
                  /\ SortDocuments(list, sort) = g[Len(list)]
<1> DEFINE length == Len(list)
           Eq(g, b) == g = [n \in 0 .. b |-> IF n = 0 THEN <<>> ELSE InsertAt(g[n - 1], Place(g[n - 1], list[n], sort), list[n])]
           T == {b \in 0 .. length : \E g : Eq(g, b)}
<1>1. length \in Nat
  OBVIOUS
<1>2. SortDocuments(list, sort) = (CHOOSE g : Eq(g, length))[length]
  BY DEF SortDocuments, InsertionSort, Inserted, Place
<1> HIDE DEF length
<1>3. 0 \in T
  <2> DEFINE g == [n \in 0 .. 0 |-> <<>>]
  <2>1. Eq(g, 0)
    OBVIOUS
  <2> HIDE DEF g
  <2> QED BY <2>1, <1>1
<1>4. ASSUME NEW b \in 1 .. length, b - 1 \in T
      PROVE  b \in T
  <2>1. PICK g : Eq(g, b - 1)
    BY <1>4
  <2> DEFINE h == [n \in 0 .. b |-> IF n = b THEN InsertAt(g[b - 1], Place(g[b - 1], list[b], sort), list[b]) ELSE g[n]]
  <2>2. \A n \in 0 .. b : h[n] = IF n = 0 THEN <<>> ELSE InsertAt(h[n - 1], Place(h[n - 1], list[n], sort), list[n])
    <3> SUFFICES ASSUME NEW n \in 0 .. b
                 PROVE  h[n] = IF n = 0 THEN <<>> ELSE InsertAt(h[n - 1], Place(h[n - 1], list[n], sort), list[n])
      OBVIOUS
    <3>1. CASE n = b
      BY <3>1, <1>1
    <3>2. CASE n # b
      <4>1. n \in 0 .. b - 1 /\ (n # 0 => n - 1 \in 0 .. b /\ n - 1 # b)
        BY <3>2, <1>1
      <4>2. g[n] = IF n = 0 THEN <<>> ELSE InsertAt(g[n - 1], Place(g[n - 1], list[n], sort), list[n])
        BY <2>1, <4>1
      <4> QED BY <3>2, <4>1, <4>2
    <3> QED BY <3>1, <3>2
  <2>3. Eq(h, b)
    BY <2>2
  <2> HIDE DEF h
  <2> QED BY <2>3, <1>1
<1>5. length \in T
  <2> HIDE DEF T
  <2>1. \A b \in 0 + 1 .. length : b - 1 \in T => b \in T
    BY <1>4
  <2>2. length \in 0 .. length
    BY <1>1
  <2> QED BY <1>1, <1>3, <2>1, <2>2, Upward
<1>6. PICK g : Eq(g, length) /\ g = CHOOSE h : Eq(h, length)
  <2> HIDE DEF Eq
  <2> QED BY <1>5
<1>7. \A n \in 0 .. length : g[n] = IF n = 0 THEN <<>> ELSE InsertAt(g[n - 1], Place(g[n - 1], list[n], sort), list[n])
  BY <1>6
<1>8. g[0] = <<>> /\ \A n \in 1 .. length : g[n] = InsertAt(g[n - 1], Place(g[n - 1], list[n], sort), list[n])
  BY <1>7, <1>1
<1>9. SortDocuments(list, sort) = g[length]
  BY <1>2, <1>6
<1> HIDE DEF Eq
<1> QED BY <1>8, <1>9 DEF length

(* The steps of a pipeline.                                                 *)
LEMMA StageSteps ==
    ASSUME NEW list, NEW stages, NEW from, Len(stages) \in Nat
    PROVE  \E g : /\ g[0] = Result(list)
                  /\ \A n \in 1 .. Len(stages) : g[n] = StageNext(g[n - 1], stages[n], from)
                  /\ ProcessStages(list, stages, from) = g[Len(stages)]
<1> DEFINE length == Len(stages)
           Eq(g, b) == g = [n \in 0 .. b |-> IF n = 0 THEN Result(list) ELSE StageNext(g[n - 1], stages[n], from)]
           T == {b \in 0 .. length : \E g : Eq(g, b)}
<1>1. length \in Nat
  OBVIOUS
<1>2. ProcessStages(list, stages, from) = (CHOOSE g : Eq(g, length))[length]
  BY DEF ProcessStages
<1> HIDE DEF length
<1>3. 0 \in T
  <2> DEFINE g == [n \in 0 .. 0 |-> Result(list)]
  <2>1. Eq(g, 0)
    OBVIOUS
  <2> HIDE DEF g
  <2> QED BY <2>1, <1>1
<1>4. ASSUME NEW b \in 1 .. length, b - 1 \in T
      PROVE  b \in T
  <2>1. PICK g : Eq(g, b - 1)
    BY <1>4
  <2> DEFINE h == [n \in 0 .. b |-> IF n = b THEN StageNext(g[b - 1], stages[b], from) ELSE g[n]]
  <2>2. \A n \in 0 .. b : h[n] = IF n = 0 THEN Result(list) ELSE StageNext(h[n - 1], stages[n], from)
    <3> SUFFICES ASSUME NEW n \in 0 .. b
                 PROVE  h[n] = IF n = 0 THEN Result(list) ELSE StageNext(h[n - 1], stages[n], from)
      OBVIOUS
    <3>1. CASE n = b
      BY <3>1, <1>1
    <3>2. CASE n # b
      <4>1. n \in 0 .. b - 1 /\ (n # 0 => n - 1 \in 0 .. b /\ n - 1 # b)
        BY <3>2, <1>1
      <4>2. g[n] = IF n = 0 THEN Result(list) ELSE StageNext(g[n - 1], stages[n], from)
        BY <2>1, <4>1
      <4> QED BY <3>2, <4>1, <4>2
    <3> QED BY <3>1, <3>2
  <2>3. Eq(h, b)
    BY <2>2
  <2> HIDE DEF h
  <2> QED BY <2>3, <1>1
<1>5. length \in T
  <2> HIDE DEF T
  <2>1. \A b \in 0 + 1 .. length : b - 1 \in T => b \in T
    BY <1>4
  <2>2. length \in 0 .. length
    BY <1>1
  <2> QED BY <1>1, <1>3, <2>1, <2>2, Upward
<1>6. PICK g : Eq(g, length) /\ g = CHOOSE h : Eq(h, length)
  <2> HIDE DEF Eq
  <2> QED BY <1>5
<1>7. \A n \in 0 .. length : g[n] = IF n = 0 THEN Result(list) ELSE StageNext(g[n - 1], stages[n], from)
  BY <1>6
<1>8. g[0] = Result(list) /\ \A n \in 1 .. length : g[n] = StageNext(g[n - 1], stages[n], from)
  BY <1>7, <1>1
<1>9. ProcessStages(list, stages, from) = g[length]
  BY <1>2, <1>6
<1> HIDE DEF Eq
<1> QED BY <1>8, <1>9 DEF length

NextHeaps(heaps, list, n, sort, keep) == UNION {KeepBest(list, h, n, sort, keep) : h \in heaps}
Heaps(list, sort, keep) ==
  LET heaps[n \in 0 .. Len(list)] ==
        IF n = 0 THEN {{}} ELSE NextHeaps(heaps[n - 1], list, n, sort, keep)
  IN heaps[Len(list)]

(* The steps of the heap.                                                   *)
LEMMA HeapSteps ==
    ASSUME NEW list, Len(list) \in Nat, NEW sort, NEW keep
    PROVE  \E g : /\ g[0] = {{}}
                  /\ \A n \in 1 .. Len(list) : g[n] = NextHeaps(g[n - 1], list, n, sort, keep)
                  /\ Heaps(list, sort, keep) = g[Len(list)]
<1> DEFINE length == Len(list)
           Eq(g, b) == g = [n \in 0 .. b |-> IF n = 0 THEN {{}} ELSE NextHeaps(g[n - 1], list, n, sort, keep)]
           T == {b \in 0 .. length : \E g : Eq(g, b)}
<1>1. length \in Nat
  OBVIOUS
<1>2. Heaps(list, sort, keep) = (CHOOSE g : Eq(g, length))[length]
  BY DEF Heaps, NextHeaps
<1> HIDE DEF length
<1>3. 0 \in T
  <2> DEFINE g == [n \in 0 .. 0 |-> {{}}]
  <2>1. Eq(g, 0)
    OBVIOUS
  <2> HIDE DEF g
  <2> QED BY <2>1, <1>1
<1>4. ASSUME NEW b \in 1 .. length, b - 1 \in T
      PROVE  b \in T
  <2>1. PICK g : Eq(g, b - 1)
    BY <1>4
  <2> DEFINE h == [n \in 0 .. b |-> IF n = b THEN NextHeaps(g[b - 1], list, b, sort, keep) ELSE g[n]]
  <2>2. \A n \in 0 .. b : h[n] = IF n = 0 THEN {{}} ELSE NextHeaps(h[n - 1], list, n, sort, keep)
    <3> SUFFICES ASSUME NEW n \in 0 .. b
                 PROVE  h[n] = IF n = 0 THEN {{}} ELSE NextHeaps(h[n - 1], list, n, sort, keep)
      OBVIOUS
    <3>1. CASE n = b
      BY <3>1, <1>1
    <3>2. CASE n # b
      <4>1. n \in 0 .. b - 1 /\ (n # 0 => n - 1 \in 0 .. b /\ n - 1 # b)
        BY <3>2, <1>1
      <4>2. g[n] = IF n = 0 THEN {{}} ELSE NextHeaps(g[n - 1], list, n, sort, keep)
        BY <2>1, <4>1
      <4> QED BY <3>2, <4>1, <4>2
    <3> QED BY <3>1, <3>2
  <2>3. Eq(h, b)
    BY <2>2
  <2> HIDE DEF h
  <2> QED BY <2>3, <1>1
<1>5. length \in T
  <2> HIDE DEF T
  <2>1. \A b \in 0 + 1 .. length : b - 1 \in T => b \in T
    BY <1>4
  <2>2. length \in 0 .. length
    BY <1>1
  <2> QED BY <1>1, <1>3, <2>1, <2>2, Upward
<1>6. PICK g : Eq(g, length) /\ g = CHOOSE h : Eq(h, length)
  <2> HIDE DEF Eq
  <2> QED BY <1>5
<1>7. \A n \in 0 .. length : g[n] = IF n = 0 THEN {{}} ELSE NextHeaps(g[n - 1], list, n, sort, keep)
  BY <1>6
<1>8. g[0] = {{}} /\ \A n \in 1 .. length : g[n] = NextHeaps(g[n - 1], list, n, sort, keep)
  BY <1>7, <1>1
<1>9. Heaps(list, sort, keep) = g[length]
  BY <1>2, <1>6
<1> HIDE DEF Eq
<1> QED BY <1>8, <1>9 DEF length

-----------------------------------------------------------------------------
(* Sequences that list the elements of a set, each of them once.           *)

Lists(t, S) ==
  /\ t \in Seq(S)
  /\ \A m, n \in DOMAIN t : t[m] = t[n] => m = n
  /\ \A x \in S : \E n \in DOMAIN t : t[n] = x

(* The documents of a sequence of ids.                                      *)
Image(contents, t) == [n \in DOMAIN t |-> contents[t[n]]]

LEMMA ImageIsSequence ==
    ASSUME NEW contents, NEW S, NEW U, \A x \in S : contents[x] \in U, NEW t, t \in Seq(S)
    PROVE  Image(contents, t) \in Seq(U) /\ Len(Image(contents, t)) = Len(t)
<1>1. Len(t) \in Nat /\ DOMAIN t = 1 .. Len(t) /\ \A n \in 1 .. Len(t) : t[n] \in S
  OBVIOUS
<1>2. Image(contents, t) \in [1 .. Len(t) -> U]
  BY <1>1 DEF Image
<1>3. Image(contents, t) \in Seq(U)
  BY <1>1, <1>2
<1> QED BY <1>1, <1>2, <1>3

(* Two sequences are the same when they agree at every position.            *)
LEMMA SameSequence ==
    ASSUME NEW S, NEW s \in Seq(S), NEW t \in Seq(S), Len(s) = Len(t), \A n \in 1 .. Len(s) : s[n] = t[n]
    PROVE  s = t
<1>1. DOMAIN s = 1 .. Len(s) /\ DOMAIN t = 1 .. Len(s) /\ Len(s) \in Nat
  OBVIOUS
<1>2. s = [n \in 1 .. Len(s) |-> s[n]] /\ t = [n \in 1 .. Len(s) |-> t[n]]
  BY <1>1
<1> QED BY <1>2

LEMMA ListsCount ==
    ASSUME NEW S, NEW t, Lists(t, S)
    PROVE  IsFiniteSet(S) /\ Cardinality(S) = Len(t)
<1>1. t \in Seq(S) /\ Len(t) \in Nat /\ DOMAIN t = 1 .. Len(t)
  BY DEF Lists
<1>2. t \in Bijection(1 .. Len(t), S)
  BY <1>1 DEF Lists, Bijection, Injection, IsInjective, Surjection
<1>3. ExistsBijection(1 .. Len(t), S)
  BY <1>2 DEF ExistsBijection
<1>4. IsFiniteSet(1 .. Len(t)) /\ Cardinality(1 .. Len(t)) = Len(t)
  BY <1>1, FS_Interval
<1> QED BY <1>3, <1>4, FS_Bijection

(* The sequences of the community modules that enumerate a set list it.     *)
LEMMA SetToSeqsLists ==
    ASSUME NEW S, IsFiniteSet(S), NEW t
    PROVE  t \in SetToSeqs(S) <=> Lists(t, S)
<1> DEFINE D == 1 .. Cardinality(S)
<1>1. Cardinality(S) \in Nat
  BY FS_CardinalityType
<1>2. IsFiniteSet(D) /\ Cardinality(D) = Cardinality(S)
  BY <1>1, FS_Interval
<1>3. ASSUME t \in SetToSeqs(S) PROVE Lists(t, S)
  <2>1. t \in [D -> S] /\ \A m, n \in D : m # n => t[m] # t[n]
    BY <1>3 DEF SetToSeqs
  <2>2. t \in Injection(D, S)
    BY <2>1 DEF Injection, IsInjective
  <2>3. t \in Surjection(D, S)
    BY <1>2, <2>2, FS_Injection
  <2>4. t \in Seq(S) /\ DOMAIN t = D
    BY <1>1, <2>1
  <2> QED BY <2>1, <2>3, <2>4 DEF Lists, Surjection
<1>4. ASSUME Lists(t, S) PROVE t \in SetToSeqs(S)
  <2>1. t \in Seq(S) /\ Len(t) = Cardinality(S)
    BY <1>4, ListsCount DEF Lists
  <2>2. t \in [D -> S] /\ DOMAIN t = D
    BY <2>1
  <2> QED BY <1>4, <2>2 DEF Lists, SetToSeqs
<1> QED BY <1>3, <1>4

LEMMA ListExists ==
    ASSUME NEW S, IsFiniteSet(S)
    PROVE  \E t : Lists(t, S)
<1>1. Cardinality(S) \in Nat /\ ExistsBijection(1 .. Cardinality(S), S)
  BY FS_CardinalityType
<1>2. PICK t : t \in Bijection(1 .. Cardinality(S), S)
  BY <1>1 DEF ExistsBijection
<1>3. t \in [1 .. Cardinality(S) -> S] /\ t \in Seq(S) /\ DOMAIN t = 1 .. Cardinality(S)
  BY <1>1, <1>2 DEF Bijection, Injection, IsInjective
<1> QED BY <1>2, <1>3 DEF Lists, Bijection, Injection, IsInjective, Surjection

(* A list of one set behind a list of another lists both.                   *)
LEMMA ListsTogether ==
    ASSUME NEW S, NEW T, S \intersect T = {}, NEW s, Lists(s, S), NEW t, Lists(t, T)
    PROVE  /\ Lists(s \o t, S \union T)
           /\ Len(s \o t) = Len(s) + Len(t)
           /\ \A n \in 1 .. Len(s) : (s \o t)[n] = s[n]
           /\ \A n \in 1 .. Len(t) : (s \o t)[Len(s) + n] = t[n]
<1>1. /\ s \in Seq(S) /\ Len(s) \in Nat /\ DOMAIN s = 1 .. Len(s) /\ \A n \in 1 .. Len(s) : s[n] \in S
      /\ t \in Seq(T) /\ Len(t) \in Nat /\ DOMAIN t = 1 .. Len(t) /\ \A n \in 1 .. Len(t) : t[n] \in T
  BY DEF Lists
<1>2. s \in Seq(S \union T) /\ t \in Seq(S \union T)
  BY <1>1
<1>3. s \o t \in Seq(S \union T) /\ Len(s \o t) = Len(s) + Len(t) /\ DOMAIN (s \o t) = 1 .. Len(s) + Len(t)
  BY <1>1, <1>2
<1>4. \A n \in 1 .. Len(s) + Len(t) : (s \o t)[n] = IF n <= Len(s) THEN s[n] ELSE t[n - Len(s)]
  BY <1>1, <1>2
<1>5. \A n \in 1 .. Len(s) : (s \o t)[n] = s[n]
  BY <1>1, <1>4
<1>6. \A n \in 1 .. Len(t) : (s \o t)[Len(s) + n] = t[n]
  <2> SUFFICES ASSUME NEW n \in 1 .. Len(t) PROVE (s \o t)[Len(s) + n] = t[n]
    OBVIOUS
  <2>1. Len(s) + n \in 1 .. Len(s) + Len(t) /\ ~(Len(s) + n <= Len(s)) /\ Len(s) + n - Len(s) = n
    BY <1>1
  <2> QED BY <1>4, <2>1
<1>7. ASSUME NEW x \in S \union T PROVE \E n \in DOMAIN (s \o t) : (s \o t)[n] = x
  <2>1. CASE x \in S
    <3>1. PICK n \in DOMAIN s : s[n] = x
      BY <2>1 DEF Lists
    <3>2. n \in 1 .. Len(s) /\ n \in DOMAIN (s \o t)
      BY <1>1, <1>3
    <3> QED BY <1>5, <3>1, <3>2
  <2>2. CASE x \in T
    <3>1. PICK n \in DOMAIN t : t[n] = x
      BY <2>2 DEF Lists
    <3>2. n \in 1 .. Len(t) /\ Len(s) + n \in DOMAIN (s \o t)
      BY <1>1, <1>3
    <3> QED BY <1>6, <3>1, <3>2
  <2> QED BY <2>1, <2>2
<1>8. ASSUME NEW m \in DOMAIN (s \o t), NEW n \in DOMAIN (s \o t), (s \o t)[m] = (s \o t)[n]
      PROVE  m = n
  <2>1. m \in 1 .. Len(s) + Len(t) /\ n \in 1 .. Len(s) + Len(t)
    BY <1>3
  <2>2. (m <= Len(s) => m \in DOMAIN s) /\ (~(m <= Len(s)) => m - Len(s) \in DOMAIN t)
    BY <1>1, <2>1
  <2>3. (n <= Len(s) => n \in DOMAIN s) /\ (~(n <= Len(s)) => n - Len(s) \in DOMAIN t)
    BY <1>1, <2>1
  <2>4. CASE m <= Len(s) /\ n <= Len(s)
    BY <1>4, <1>8, <2>1, <2>2, <2>3, <2>4 DEF Lists
  <2>5. CASE ~(m <= Len(s)) /\ ~(n <= Len(s))
    <3>1. m - Len(s) = n - Len(s)
      BY <1>4, <1>8, <2>1, <2>2, <2>3, <2>5 DEF Lists
    <3> QED BY <1>1, <2>1, <3>1
  <2>6. CASE m <= Len(s) /\ ~(n <= Len(s))
    BY <1>1, <1>4, <1>8, <2>1, <2>2, <2>3, <2>6
  <2>7. CASE ~(m <= Len(s)) /\ n <= Len(s)
    BY <1>1, <1>4, <1>8, <2>1, <2>2, <2>3, <2>7
  <2> QED BY <2>4, <2>5, <2>6, <2>7
<1> QED BY <1>3, <1>5, <1>6, <1>7, <1>8 DEF Lists

-----------------------------------------------------------------------------
(* What an insertion does to a list.                                        *)

IsInserted(u, s, p, x) ==
  /\ Len(u) = Len(s) + 1
  /\ DOMAIN u = 1 .. Len(s) + 1
  /\ \A n \in 1 .. Len(s) + 1 : u[n] = IF n < p THEN s[n] ELSE IF n = p THEN x ELSE s[n - 1]

LEMMA InsertedAt ==
    ASSUME NEW S, NEW s, s \in Seq(S), NEW p, p \in 1 .. Len(s) + 1, NEW x
    PROVE  InsertAt(s, p, x) \in Seq(S \union {x}) /\ IsInserted(InsertAt(s, p, x), s, p, x)
<1> DEFINE U == S \union {x}
           a == SubSeq(s, 1, p - 1)
           b == SubSeq(s, p, Len(s))
<1>1. Len(s) \in Nat /\ s \in Seq(U) /\ \A n \in 1 .. Len(s) : s[n] \in U
  OBVIOUS
<1>2. a \in Seq(U) /\ Len(a) = p - 1 /\ \A n \in 1 .. p - 1 : a[n] = s[n]
  <2>1. \A n \in 1 .. p - 1 : s[n] \in U
    BY <1>1
  <2>2. a = [n \in 1 .. p - 1 |-> s[1 + n - 1]]
    BY <1>1
  <2>3. \A n \in 1 .. p - 1 : a[n] = s[n]
    BY <1>1, <2>2
  <2>4. a \in [1 .. p - 1 -> U]
    BY <2>1, <2>2, <2>3
  <2>5. p - 1 \in Nat
    BY <1>1
  <2> HIDE DEF a
  <2> QED BY <2>3, <2>4, <2>5
<1>3. b \in Seq(U) /\ Len(b) = Len(s) + 1 - p /\ \A n \in 1 .. Len(s) + 1 - p : b[n] = s[p + n - 1]
  <2>1. \A n \in 1 .. Len(s) + 1 - p : s[p + n - 1] \in U
    BY <1>1
  <2>2. b = [n \in 1 .. Len(s) - p + 1 |-> s[p + n - 1]]
    BY <1>1
  <2>3. Len(s) - p + 1 = Len(s) + 1 - p /\ Len(s) + 1 - p \in Nat
    BY <1>1
  <2>4. b \in [1 .. Len(s) + 1 - p -> U]
    BY <2>1, <2>2, <2>3
  <2>5. \A n \in 1 .. Len(s) + 1 - p : b[n] = s[p + n - 1]
    BY <2>2, <2>3
  <2> HIDE DEF b
  <2> QED BY <2>3, <2>4, <2>5, SMTT(40)
<1> HIDE DEF a, b
<1>4. <<x>> \in Seq(U) /\ Len(<<x>>) = 1 /\ <<x>>[1] = x
  OBVIOUS
<1> DEFINE c == a \o <<x>>
<1>5. c \in Seq(U) /\ Len(c) = p /\ \A n \in 1 .. p : c[n] = IF n < p THEN s[n] ELSE x
  <2>1. p \in Nat
    BY <1>1
  <2>2. c \in Seq(U) /\ Len(c) = p - 1 + 1 /\ \A n \in 1 .. p - 1 + 1 : c[n] = IF n <= p - 1 THEN a[n] ELSE <<x>>[n - (p - 1)]
    BY <1>2, <1>4
  <2> HIDE DEF c
  <2>3. ASSUME NEW n \in 1 .. p PROVE c[n] = IF n < p THEN s[n] ELSE x
    <3>1. CASE n < p
      BY <1>2, <2>1, <2>2, <3>1
    <3>2. CASE ~(n < p)
      <4>1. n = p /\ n - (p - 1) = 1 /\ ~(n <= p - 1) /\ n \in 1 .. p - 1 + 1
        BY <2>1, <3>2
      <4>2. c[n] = <<x>>[n - (p - 1)]
        BY <2>2, <4>1
      <4> QED BY <1>4, <3>2, <4>1, <4>2
    <3> QED BY <3>1, <3>2
  <2> QED BY <2>1, <2>2, <2>3
<1>6. InsertAt(s, p, x) = c \o b
  BY DEF InsertAt, a, b
<1> HIDE DEF c
<1>7. /\ c \o b \in Seq(U) /\ Len(c \o b) = Len(s) + 1
      /\ \A n \in 1 .. Len(s) + 1 : (c \o b)[n] = IF n <= p THEN c[n] ELSE b[n - p]
  <2>0. c \in Seq(U) /\ b \in Seq(U)
    BY <1>3, <1>5
  <2> HIDE DEF U
  <2>1. c \o b \in Seq(U) /\ Len(c \o b) = Len(c) + Len(b)
    BY <2>0
  <2>2. \A n \in 1 .. Len(c) + Len(b) : (c \o b)[n] = IF n <= Len(c) THEN c[n] ELSE b[n - Len(c)]
    BY <2>0
  <2>3. Len(c) = p /\ Len(c) + Len(b) = Len(s) + 1
    BY <1>1, <1>3, <1>5
  <2> QED BY <2>1, <2>2, <2>3
<1>8. ASSUME NEW n \in 1 .. Len(s) + 1
      PROVE  (c \o b)[n] = IF n < p THEN s[n] ELSE IF n = p THEN x ELSE s[n - 1]
  <2>1. CASE n <= p
    BY <1>1, <1>5, <1>7, <2>1
  <2>2. CASE ~(n <= p)
    <3>1. n - p \in 1 .. Len(s) + 1 - p /\ p + (n - p) - 1 = n - 1 /\ ~(n < p) /\ n # p
      BY <1>1, <2>2
    <3> QED BY <1>3, <1>7, <2>2, <3>1
  <2> QED BY <2>1, <2>2
<1>9. DOMAIN (c \o b) = 1 .. Len(s) + 1
  BY <1>7
<1> QED BY <1>6, <1>7, <1>8, <1>9 DEF IsInserted

IsPlace(p, t) == p \in 1 .. Len(t) + 1

(* The image of an insertion is the insertion into the image.               *)
LEMMA InsertImage ==
    ASSUME NEW contents, NEW S, NEW t, t \in Seq(S), NEW p, IsPlace(p, t), NEW x
    PROVE  InsertAt(Image(contents, t), p, contents[x]) = Image(contents, InsertAt(t, p, x))
<1> DEFINE u == InsertAt(t, p, x)
           w == Image(contents, t)
           v == InsertAt(w, p, contents[x])
           U == {contents[y] : y \in S \union {x}}
<1>0. p \in 1 .. Len(t) + 1
  BY DEF IsPlace
<1>1. u \in Seq(S \union {x}) /\ IsInserted(u, t, p, x)
  BY <1>0, InsertedAt
<1>2. t \in Seq(S \union {x}) /\ Len(t) \in Nat /\ DOMAIN t = 1 .. Len(t)
  OBVIOUS
<1>3. contents[x] \in U /\ \A y \in S \union {x} : contents[y] \in U
  OBVIOUS
<1> HIDE DEF u, U
<1>4. w \in Seq(U) /\ Len(w) = Len(t)
  BY <1>2, <1>3, ImageIsSequence
<1>5. Image(contents, u) \in Seq(U) /\ Len(Image(contents, u)) = Len(u)
  BY <1>1, <1>3, ImageIsSequence
<1>6. \A n \in 1 .. Len(t) : w[n] = contents[t[n]]
  BY <1>2 DEF Image
<1>7. \A n \in DOMAIN u : Image(contents, u)[n] = contents[u[n]]
  BY DEF Image
<1> HIDE DEF w
<1>8. v \in Seq(U \union {contents[x]}) /\ IsInserted(v, w, p, contents[x])
  BY <1>0, <1>4, InsertedAt
<1>9. U \union {contents[x]} = U
  BY <1>3
<1> HIDE DEF v
<1>10. ASSUME NEW n \in 1 .. Len(t) + 1 PROVE v[n] = Image(contents, u)[n]
  <2>1. (n < p => n \in 1 .. Len(t)) /\ (~(n < p) /\ n # p => n - 1 \in 1 .. Len(t))
    BY <1>0, <1>2
  <2>2. u[n] = (IF n < p THEN t[n] ELSE IF n = p THEN x ELSE t[n - 1]) /\ n \in DOMAIN u
    BY <1>1 DEF IsInserted
  <2>3. v[n] = (IF n < p THEN w[n] ELSE IF n = p THEN contents[x] ELSE w[n - 1])
    BY <1>4, <1>8 DEF IsInserted
  <2> QED BY <1>6, <1>7, <2>1, <2>2, <2>3
<1>11. Len(u) = Len(t) + 1 /\ Len(v) = Len(t) + 1
  BY <1>1, <1>4, <1>8 DEF IsInserted
<1>12. v = Image(contents, u)
  BY <1>5, <1>8, <1>9, <1>10, <1>11, SameSequence
<1> QED BY <1>12 DEF u, v, w

(* Inserting what it does not list yet makes a list of one element more.    *)
LEMMA ListsInserted ==
    ASSUME NEW S, NEW t, Lists(t, S), NEW p \in 1 .. Len(t) + 1, NEW x, x \notin S
    PROVE  Lists(InsertAt(t, p, x), S \union {x})
<1> DEFINE u == InsertAt(t, p, x)
<1>1. t \in Seq(S) /\ Len(t) \in Nat /\ DOMAIN t = 1 .. Len(t) /\ \A n \in 1 .. Len(t) : t[n] \in S
  BY DEF Lists
<1>0. u \in Seq(S \union {x}) /\ IsInserted(u, t, p, x)
  BY <1>1, InsertedAt
<1> HIDE DEF u
<1>2. /\ u \in Seq(S \union {x}) /\ DOMAIN u = 1 .. Len(t) + 1
      /\ \A n \in 1 .. Len(t) + 1 : u[n] = IF n < p THEN t[n] ELSE IF n = p THEN x ELSE t[n - 1]
  BY <1>0 DEF IsInserted
<1>3. ASSUME NEW m \in DOMAIN u, NEW n \in DOMAIN u, u[m] = u[n]
      PROVE  m = n
  <2>1. /\ m < p => m \in DOMAIN t /\ u[m] = t[m]
        /\ m = p => u[m] = x
        /\ m > p => m - 1 \in DOMAIN t /\ u[m] = t[m - 1]
    BY <1>1, <1>2
  <2>2. /\ n < p => n \in DOMAIN t /\ u[n] = t[n]
        /\ n = p => u[n] = x
        /\ n > p => n - 1 \in DOMAIN t /\ u[n] = t[n - 1]
    BY <1>1, <1>2
  <2>3. \A k \in DOMAIN t : t[k] # x
    BY <1>1
  <2>4. \A k, l \in DOMAIN t : t[k] = t[l] => k = l
    BY DEF Lists
  <2>5. CASE m < p
    BY <1>1, <1>2, <1>3, <2>1, <2>2, <2>3, <2>4, <2>5
  <2>6. CASE m = p
    BY <1>1, <1>2, <1>3, <2>1, <2>2, <2>3, <2>6
  <2>7. CASE m > p
    <3>1. CASE n > p
      <4>1. m - 1 = n - 1
        BY <1>3, <2>1, <2>2, <2>4, <2>7, <3>1
      <4> QED BY <1>2, <4>1
    <3>2. CASE ~(n > p)
      BY <1>1, <1>2, <1>3, <2>1, <2>2, <2>3, <2>4, <2>7, <3>2
    <3> QED BY <3>1, <3>2
  <2> QED BY <1>1, <1>2, <2>5, <2>6, <2>7
<1>4. ASSUME NEW y \in S \union {x}
      PROVE  \E n \in DOMAIN u : u[n] = y
  <2>1. CASE y = x
    <3>1. p \in DOMAIN u /\ ~(p < p)
      BY <1>1, <1>2
    <3> QED BY <1>2, <2>1, <3>1
  <2>2. CASE y # x
    <3>1. PICK n \in DOMAIN t : t[n] = y
      BY <2>2 DEF Lists
    <3>2. n \in 1 .. Len(t) /\ n \in DOMAIN u /\ n + 1 \in DOMAIN u /\ n + 1 - 1 = n
      BY <1>1, <1>2
    <3>3. CASE n < p
      BY <1>2, <3>1, <3>2, <3>3
    <3>4. CASE ~(n < p)
      <4>1. ~(n + 1 < p) /\ n + 1 # p
        BY <3>2, <3>4
      <4>2. u[n + 1] = t[n]
        BY <1>2, <3>2, <4>1
      <4> QED BY <3>1, <3>2, <4>2
    <3> QED BY <3>3, <3>4
  <2> QED BY <2>1, <2>2
<1>5. Lists(u, S \union {x})
  BY <1>2, <1>3, <1>4 DEF Lists
<1> QED BY <1>5 DEF u

-----------------------------------------------------------------------------
(* Sorting.                                                                 *)

LEMMA GreatestNatural ==
    ASSUME NEW n \in Nat, NEW T \in SUBSET (0 .. n), T # {}
    PROVE  Max(T) \in T /\ \A y \in T : y <= Max(T)
<1> DEFINE R == {n - y : y \in T}
<1>1. R \in SUBSET Nat /\ R # {}
  <2>1. \A y \in T : n - y \in Nat
    OBVIOUS
  <2> QED BY <2>1
<1>2. PICK r \in R : \A s \in R : r <= s
  <2> HIDE DEF R
  <2> QED BY <1>1, LeastNatural
<1>3. PICK x \in T : r = n - x
  BY <1>2
<1>4. \A y \in T : x >= y
  <2> SUFFICES ASSUME NEW y \in T PROVE x >= y
    OBVIOUS
  <2>1. n - y \in R
    OBVIOUS
  <2> HIDE DEF R
  <2>2. n - x <= n - y /\ x \in 0 .. n /\ y \in 0 .. n
    BY <1>2, <1>3, <2>1
  <2> QED BY <2>2
<1>5. Max(T) \in T /\ \A y \in T : Max(T) >= y
  BY <1>3, <1>4 DEF Max
<1> QED BY <1>5

(* Where the sort puts a document: behind the last that is not behind it.   *)
LEMMA PlaceIn ==
    ASSUME NEW list, Len(list) \in Nat, DOMAIN list = 1 .. Len(list), NEW d, NEW sort
    PROVE  /\ Place(list, d, sort) \in 1 .. Len(list) + 1
           /\ Place(list, d, sort) > 1 => ~DocumentBefore(d, list[Place(list, d, sort) - 1], sort)
           /\ \A j \in Place(list, d, sort) .. Len(list) : DocumentBefore(d, list[j], sort)
<1> DEFINE T == {0} \union {j \in DOMAIN list : ~DocumentBefore(d, list[j], sort)}
<1>1. T \in SUBSET (0 .. Len(list)) /\ T # {}
  OBVIOUS
<1>2. Max(T) \in T /\ \A y \in T : y <= Max(T)
  <2> HIDE DEF T
  <2> QED BY <1>1, GreatestNatural
<1>3. Place(list, d, sort) = 1 + Max(T)
  BY DEF Place
<1> DEFINE k == Max(T)
<1> HIDE DEF k
<1>4. k \in T /\ k \in 0 .. Len(list) /\ Place(list, d, sort) = 1 + k /\ 1 + k - 1 = k /\ \A y \in T : y <= k
  BY <1>1, <1>2, <1>3 DEF k
<1>5. 1 + k > 1 => ~DocumentBefore(d, list[k], sort)
  BY <1>4
<1>6. ASSUME NEW j \in 1 + k .. Len(list), ~DocumentBefore(d, list[j], sort)
      PROVE  FALSE
  <2>1. j \in T
    BY <1>4, <1>6
  <2>2. j \in Nat /\ k \in Nat /\ j > k /\ j <= k
    BY <1>4, <2>1
  <2> QED BY <2>2
<1> QED BY <1>4, <1>5, <1>6

(* Of two documents that differ for a sort one is before the other, and so  *)
(* it is before or behind every third.                                      *)
OrderedBy(V, sort) ==
  \A p, q, r \in V :
    DocumentBefore(p, q, sort) =>
      ~DocumentBefore(q, p, sort) /\ (DocumentBefore(p, r, sort) \/ DocumentBefore(r, q, sort))

(* A document that is inserted at its place leaves the list sorted.         *)
LEMMA InsertSorted ==
    ASSUME NEW V, NEW sort, OrderedBy(V, sort), NEW list, list \in Seq(V), Sorted(list, sort), NEW d \in V
    PROVE  Sorted(InsertAt(list, Place(list, d, sort), d), sort)
<1> DEFINE p == Place(list, d, sort)
           u == InsertAt(list, p, d)
           B(x, y) == DocumentBefore(x, y, sort)
<1>1. Len(list) \in Nat /\ DOMAIN list = 1 .. Len(list) /\ \A n \in 1 .. Len(list) : list[n] \in V
  OBVIOUS
<1>2. p \in 1 .. Len(list) + 1 /\ (p > 1 => ~B(d, list[p - 1])) /\ \A j \in p .. Len(list) : B(d, list[j])
  BY <1>1, PlaceIn
<1> HIDE DEF p
<1>3. IsInserted(u, list, p, d)
  BY <1>2, InsertedAt
<1>4. \A x, y, z \in V : B(x, y) => ~B(y, x) /\ (B(x, z) \/ B(z, y))
  BY DEF OrderedBy
<1>5. \A m, n \in 1 .. Len(list) : m < n => ~B(list[n], list[m])
  BY <1>1 DEF Sorted
<1> HIDE DEF B, u
<1>6. \A j \in p .. Len(list) : ~B(list[j], d)
  <2> SUFFICES ASSUME NEW j \in p .. Len(list) PROVE ~B(list[j], d)
    OBVIOUS
  <2>1. j \in 1 .. Len(list) /\ list[j] \in V
    BY <1>1, <1>2
  <2> QED BY <1>2, <1>4, <2>1
<1>7. \A j \in 1 .. p - 1 : ~B(d, list[j])
  <2> SUFFICES ASSUME NEW j \in 1 .. p - 1, B(d, list[j]) PROVE FALSE
    OBVIOUS
  <2>1. j \in 1 .. Len(list) /\ p - 1 \in 1 .. Len(list) /\ p > 1 /\ (j = p - 1 \/ j < p - 1)
    BY <1>1, <1>2
  <2>2. ~B(d, list[p - 1]) /\ list[j] \in V /\ list[p - 1] \in V
    BY <1>1, <1>2, <2>1
  <2>3. j < p - 1 => ~B(list[p - 1], list[j])
    BY <1>5, <2>1
  <2> QED BY <1>4, <2>1, <2>2, <2>3
<1>8. ASSUME NEW m \in 1 .. Len(list) + 1, NEW n \in 1 .. Len(list) + 1, m < n
      PROVE  ~B(u[n], u[m])
  <2>1. /\ u[m] = (IF m < p THEN list[m] ELSE IF m = p THEN d ELSE list[m - 1])
        /\ u[n] = (IF n < p THEN list[n] ELSE IF n = p THEN d ELSE list[n - 1])
    BY <1>3 DEF IsInserted
  <2>2. CASE n < p
    BY <1>1, <1>2, <1>5, <1>8, <2>1, <2>2
  <2>3. CASE n = p
    BY <1>1, <1>2, <1>7, <1>8, <2>1, <2>3
  <2>4. CASE n > p /\ m = p
    BY <1>1, <1>2, <1>6, <1>8, <2>1, <2>4
  <2>5. CASE n > p /\ m < p
    <3>1. m \in 1 .. Len(list) /\ n - 1 \in 1 .. Len(list) /\ m < n - 1
      BY <1>1, <1>2, <1>8, <2>5
    <3> QED BY <1>1, <1>2, <1>5, <2>1, <2>5, <3>1
  <2>6. CASE n > p /\ m > p
    <3>1. m - 1 \in 1 .. Len(list) /\ n - 1 \in 1 .. Len(list) /\ m - 1 < n - 1
      BY <1>1, <1>2, <1>8, <2>6
    <3> QED BY <1>1, <1>2, <1>5, <2>1, <2>6, <3>1
  <2> QED BY <1>1, <1>2, <2>2, <2>3, <2>4, <2>5, <2>6
<1>9. DOMAIN u = 1 .. Len(list) + 1
  BY <1>3 DEF IsInserted
<1> QED BY <1>8, <1>9 DEF Sorted, B, u, p

(* The sort of the documents a set of ids has, listed in any order, lists    *)
(* them again; when they are in an order, it is sorted.                     *)
LEMMA SortLists ==
    ASSUME NEW contents, NEW S, NEW V, \A x \in S : contents[x] \in V, NEW t, Lists(t, S), NEW sort
    PROVE  \E u : /\ Lists(u, S)
                  /\ SortDocuments(Image(contents, t), sort) = Image(contents, u)
                  /\ OrderedBy(V, sort) => Sorted(Image(contents, u), sort)
<1> DEFINE list == Image(contents, t)
           Before(n) == {t[m] : m \in 1 .. n}
           Good(v, u, n) == /\ Lists(u, Before(n))
                            /\ v = Image(contents, u)
                            /\ OrderedBy(V, sort) => Sorted(v, sort)
<1>1. t \in Seq(S) /\ Len(t) \in Nat /\ DOMAIN t = 1 .. Len(t) /\ \A n \in 1 .. Len(t) : t[n] \in S
  BY DEF Lists
<1>2. Len(list) = Len(t) /\ \A n \in 1 .. Len(t) : list[n] = contents[t[n]]
  <2>1. Len(list) = Len(t)
    BY <1>1, ImageIsSequence
  <2> QED BY <1>1, <2>1 DEF Image
<1> HIDE DEF list
<1>3. PICK g : /\ g[0] = <<>>
               /\ \A n \in 1 .. Len(list) : g[n] = InsertAt(g[n - 1], Place(g[n - 1], list[n], sort), list[n])
               /\ SortDocuments(list, sort) = g[Len(list)]
  BY <1>1, <1>2, SortSteps
<1> DEFINE T == {n \in 0 .. Len(t) : \E u : Good(g[n], u, n)}
<1>4. 0 \in T
  <2>1. Lists(<<>>, Before(0))
    BY DEF Lists
  <2>2. <<>> = Image(contents, <<>>) /\ Sorted(<<>>, sort)
    BY DEF Image, Sorted
  <2>3. Good(g[0], <<>>, 0)
    BY <1>3, <2>1, <2>2
  <2> HIDE DEF Good
  <2> QED BY <1>1, <2>3
<1>5. ASSUME NEW n \in 1 .. Len(t), n - 1 \in T
      PROVE  n \in T
  <2> DEFINE v == g[n - 1]
             x == t[n]
             p == Place(v, contents[x], sort)
  <2>1. PICK u : Good(v, u, n - 1)
    BY <1>5
  <2>2. Lists(u, Before(n - 1)) /\ v = Image(contents, u) /\ (OrderedBy(V, sort) => Sorted(v, sort))
    BY <2>1
  <2>3. g[n] = InsertAt(v, p, contents[x])
    BY <1>2, <1>3
  <2>4. x \in S /\ contents[x] \in V
    BY <1>1
  <2>5. x \notin Before(n - 1)
    <3> SUFFICES ASSUME NEW m \in 1 .. n - 1, t[m] = t[n] PROVE FALSE
      OBVIOUS
    <3>1. m \in DOMAIN t /\ n \in DOMAIN t /\ m # n
      BY <1>1
    <3> QED BY <3>1 DEF Lists
  <2>6. Before(n) = Before(n - 1) \union {x}
    <3>1. 1 .. n = (1 .. n - 1) \union {n}
      BY <1>1
    <3> QED BY <3>1
  <2>7. \A y \in Before(n - 1) : contents[y] \in V
    <3> SUFFICES ASSUME NEW m \in 1 .. n - 1 PROVE contents[t[m]] \in V
      OBVIOUS
    <3>1. m \in 1 .. Len(t)
      BY <1>1
    <3> QED BY <1>1, <3>1
  <2> HIDE DEF Before, v, x
  <2>8. v \in Seq(V) /\ Len(v) = Len(u) /\ u \in Seq(Before(n - 1))
    BY <2>2, <2>7, ImageIsSequence DEF Lists
  <2>9. p \in 1 .. Len(u) + 1
    BY <2>8, PlaceIn
  <2> HIDE DEF p
  <2>10. Lists(InsertAt(u, p, x), Before(n))
    BY <2>2, <2>5, <2>6, <2>9, ListsInserted
  <2>11. g[n] = Image(contents, InsertAt(u, p, x))
    <3>1. InsertAt(Image(contents, u), p, contents[x]) = Image(contents, InsertAt(u, p, x))
      <4>1. u \in Seq(Before(n - 1)) /\ IsPlace(p, u)
        BY <2>8, <2>9 DEF IsPlace
      <4> QED BY <4>1, InsertImage
    <3> QED BY <2>2, <2>3, <3>1
  <2>12. OrderedBy(V, sort) => Sorted(g[n], sort)
    BY <2>2, <2>3, <2>4, <2>8, InsertSorted DEF p
  <2>13. Good(g[n], InsertAt(u, p, x), n)
    BY <2>10, <2>11, <2>12
  <2> HIDE DEF Good
  <2> QED BY <1>1, <2>13
<1>6. Len(t) \in T
  <2> HIDE DEF T
  <2>1. \A n \in 0 + 1 .. Len(t) : n - 1 \in T => n \in T
    BY <1>5
  <2>2. Len(t) \in 0 .. Len(t)
    BY <1>1
  <2> QED BY <1>1, <1>4, <2>1, <2>2, Upward
<1>7. PICK u : Good(g[Len(t)], u, Len(t))
  <2> HIDE DEF Good
  <2> QED BY <1>6
<1>8. Before(Len(t)) = S
  <2>1. \A x \in S : \E m \in 1 .. Len(t) : t[m] = x
    BY <1>1 DEF Lists
  <2> QED BY <1>1, <2>1
<1> HIDE DEF Before
<1>9. Lists(u, S) /\ g[Len(t)] = Image(contents, u) /\ (OrderedBy(V, sort) => Sorted(Image(contents, u), sort))
  BY <1>7, <1>8
<1>10. SortDocuments(list, sort) = Image(contents, u)
  BY <1>2, <1>3, <1>9
<1> QED BY <1>9, <1>10 DEF list

-----------------------------------------------------------------------------
(* Filtering.                                                               *)

AppendsTo(contents, t, x) == Image(contents, Append(t, x)) = Append(Image(contents, t), contents[x])

LEMMA ListsAppended ==
    ASSUME NEW contents, NEW S, NEW t, Lists(t, S), NEW x, x \notin S
    PROVE  Lists(Append(t, x), S \union {x}) /\ AppendsTo(contents, t, x)
<1> DEFINE u == Append(t, x)
           w == Image(contents, t)
           U == {contents[y] : y \in S \union {x}}
<1>1. t \in Seq(S) /\ Len(t) \in Nat /\ DOMAIN t = 1 .. Len(t) /\ t \in Seq(S \union {x}) /\ \A n \in 1 .. Len(t) : t[n] \in S
  BY DEF Lists
<1>2. u \in Seq(S \union {x}) /\ Len(u) = Len(t) + 1 /\ DOMAIN u = 1 .. Len(t) + 1
  BY <1>1
<1>3. u[Len(t) + 1] = x /\ \A n \in 1 .. Len(t) : u[n] = t[n]
  BY <1>1
<1>4. contents[x] \in U /\ \A y \in S \union {x} : contents[y] \in U
  OBVIOUS
<1> HIDE DEF u, U
<1>5. \A y \in S \union {x} : \E n \in DOMAIN u : u[n] = y
  <2>1. Len(t) + 1 \in DOMAIN u
    BY <1>1, <1>2
  <2>2. \A y \in S : \E n \in 1 .. Len(t) : t[n] = y
    BY <1>1 DEF Lists
  <2>3. \A n \in 1 .. Len(t) : n \in DOMAIN u
    BY <1>1, <1>2
  <2> QED BY <1>3, <2>1, <2>2, <2>3
<1>6. ASSUME NEW m \in DOMAIN u, NEW n \in DOMAIN u, u[m] = u[n] PROVE m = n
  <2>1. \A k \in DOMAIN u : k = Len(t) + 1 \/ k \in 1 .. Len(t)
    BY <1>1, <1>2
  <2>2. \A k \in 1 .. Len(t) : u[k] = t[k] /\ t[k] # x
    BY <1>1, <1>3
  <2>3. \A k, l \in 1 .. Len(t) : t[k] = t[l] => k = l
    BY <1>1 DEF Lists
  <2>4. (m = Len(t) + 1 \/ m \in 1 .. Len(t)) /\ (n = Len(t) + 1 \/ n \in 1 .. Len(t))
    BY <2>1
  <2> QED BY <1>3, <1>6, <2>2, <2>3, <2>4
<1>7. Lists(u, S \union {x})
  BY <1>2, <1>5, <1>6 DEF Lists
<1>8. w \in Seq(U) /\ Len(w) = Len(t)
  BY <1>1, <1>4, ImageIsSequence
<1>9. Image(contents, u) \in Seq(U) /\ Len(Image(contents, u)) = Len(t) + 1
  BY <1>2, <1>4, ImageIsSequence
<1>10. \A n \in 1 .. Len(t) : w[n] = contents[t[n]]
  BY <1>1 DEF Image
<1>11. \A n \in 1 .. Len(t) + 1 : Image(contents, u)[n] = contents[u[n]]
  BY <1>2 DEF Image
<1> HIDE DEF w
<1>12. Append(w, contents[x]) \in Seq(U) /\ Len(Append(w, contents[x])) = Len(t) + 1
  BY <1>4, <1>8
<1>13. /\ Append(w, contents[x])[Len(t) + 1] = contents[x]
       /\ \A n \in 1 .. Len(t) : Append(w, contents[x])[n] = w[n]
  BY <1>8
<1>14. ASSUME NEW n \in 1 .. Len(t) + 1 PROVE Append(w, contents[x])[n] = Image(contents, u)[n]
  <2>1. n = Len(t) + 1 \/ n \in 1 .. Len(t)
    BY <1>1
  <2> QED BY <1>3, <1>10, <1>11, <1>13, <2>1
<1>15. Append(w, contents[x]) = Image(contents, u)
  BY <1>9, <1>12, <1>14, SameSequence
<1> QED BY <1>7, <1>15 DEF AppendsTo, u, w

MatchesOf(contents, S, filter) == {x \in S : FilterDocument(contents[x], filter)}

(* The documents a filter leaves of those a set of ids has, listed in any    *)
(* order, are the ones that match.                                          *)
LEMMA FilterLists ==
    ASSUME NEW contents, NEW S, NEW t, Lists(t, S), NEW filter
    PROVE  \E u : /\ Lists(u, MatchesOf(contents, S, filter))
                  /\ FilterIterator(Image(contents, t), filter) = Image(contents, u)
<1> DEFINE list == Image(contents, t)
           Of(n) == {x \in {t[m] : m \in 1 .. n} : FilterDocument(contents[x], filter)}
           Good(v, u, n) == Lists(u, Of(n)) /\ v = Image(contents, u)
<1>1. t \in Seq(S) /\ Len(t) \in Nat /\ DOMAIN t = 1 .. Len(t) /\ \A n \in 1 .. Len(t) : t[n] \in S
  BY DEF Lists
<1>2. Len(list) = Len(t) /\ \A n \in 1 .. Len(t) : list[n] = contents[t[n]]
  <2>1. \A x \in S : contents[x] \in {contents[y] : y \in S}
    OBVIOUS
  <2>2. Len(list) = Len(t)
    BY <1>1, <2>1, ImageIsSequence
  <2> QED BY <1>1, <2>2 DEF Image
<1> HIDE DEF list
<1>3. PICK g : /\ g[0] = <<>>
               /\ \A n \in 1 .. Len(list) : g[n] = Passed(g[n - 1], list[n], filter)
               /\ FilterIterator(list, filter) = g[Len(list)]
  BY <1>1, <1>2, FilterIterates
<1> DEFINE T == {n \in 0 .. Len(t) : \E u : Good(g[n], u, n)}
<1>4. 0 \in T
  <2>1. Lists(<<>>, Of(0))
    BY DEF Lists
  <2>2. <<>> = Image(contents, <<>>)
    BY DEF Image
  <2>3. Good(g[0], <<>>, 0)
    BY <1>3, <2>1, <2>2
  <2> HIDE DEF Good
  <2> QED BY <1>1, <2>3
<1>5. ASSUME NEW n \in 1 .. Len(t), n - 1 \in T
      PROVE  n \in T
  <2> DEFINE x == t[n]
  <2>1. PICK u : Good(g[n - 1], u, n - 1)
    BY <1>5
  <2>2. Lists(u, Of(n - 1)) /\ g[n - 1] = Image(contents, u)
    BY <2>1
  <2>3. g[n] = Passed(g[n - 1], contents[x], filter)
    BY <1>2, <1>3
  <2>4. x \notin Of(n - 1)
    <3> SUFFICES ASSUME NEW m \in 1 .. n - 1, t[m] = t[n] PROVE FALSE
      OBVIOUS
    <3>1. m \in DOMAIN t /\ n \in DOMAIN t /\ m # n
      BY <1>1
    <3> QED BY <3>1 DEF Lists
  <2>5. Of(n) = IF FilterDocument(contents[x], filter) THEN Of(n - 1) \union {x} ELSE Of(n - 1)
    <3>1. 1 .. n = (1 .. n - 1) \union {n}
      BY <1>1
    <3> QED BY <3>1
  <2> HIDE DEF Of, x
  <2>6. CASE FilterDocument(contents[x], filter)
    <3>0. Of(n) = Of(n - 1) \union {x}
      BY <2>5, <2>6
    <3>4. Lists(Append(u, x), Of(n - 1) \union {x}) /\ AppendsTo(contents, u, x)
      BY <2>2, <2>4, ListsAppended
    <3>1. Lists(Append(u, x), Of(n)) /\ Image(contents, Append(u, x)) = Append(Image(contents, u), contents[x])
      BY <3>0, <3>4 DEF AppendsTo
    <3>2. g[n] = Image(contents, Append(u, x))
      BY <2>2, <2>3, <2>6, <3>1 DEF Passed
    <3>3. Good(g[n], Append(u, x), n)
      BY <3>1, <3>2
    <3> HIDE DEF Good
    <3> QED BY <1>1, <3>3
  <2>7. CASE ~FilterDocument(contents[x], filter)
    <3>1. Good(g[n], u, n)
      BY <2>2, <2>3, <2>5, <2>7 DEF Passed
    <3> HIDE DEF Good
    <3> QED BY <1>1, <3>1
  <2> QED BY <2>6, <2>7
<1>6. Len(t) \in T
  <2> HIDE DEF T
  <2>1. \A n \in 0 + 1 .. Len(t) : n - 1 \in T => n \in T
    BY <1>5
  <2>2. Len(t) \in 0 .. Len(t)
    BY <1>1
  <2> QED BY <1>1, <1>4, <2>1, <2>2, Upward
<1>7. PICK u : Good(g[Len(t)], u, Len(t))
  <2> HIDE DEF Good
  <2> QED BY <1>6
<1>8. Of(Len(t)) = MatchesOf(contents, S, filter)
  <2>1. \A x \in S : \E m \in 1 .. Len(t) : t[m] = x
    BY <1>1 DEF Lists
  <2>2. {t[m] : m \in 1 .. Len(t)} = S
    BY <1>1, <2>1
  <2> QED BY <2>2 DEF MatchesOf
<1> HIDE DEF Of
<1>9. Lists(u, MatchesOf(contents, S, filter)) /\ g[Len(t)] = Image(contents, u)
  BY <1>7, <1>8
<1>10. FilterIterator(list, filter) = Image(contents, u)
  BY <1>2, <1>3, <1>9
<1> QED BY <1>9, <1>10 DEF list

(* Two lists of which a filter passes the same documents.                   *)
Alike(s, t, filter) == FilterIterator(s, filter) = FilterIterator(t, filter)

(* A document that does not match makes no difference where it is inserted. *)
LEMMA InsertedUnseen ==
    ASSUME NEW V, NEW s, s \in Seq(V), NEW p, IsPlace(p, s), NEW d \in V, NEW filter, ~FilterDocument(d, filter)
    PROVE  Alike(InsertAt(s, p, d), s, filter)
<1> DEFINE u == InsertAt(s, p, d)
<1>1. Len(s) \in Nat /\ p \in 1 .. Len(s) + 1
  BY DEF IsPlace
<1>2. IsInserted(u, s, p, d)
  BY <1>1, InsertedAt
<1> HIDE DEF u
<1>3. Len(u) = Len(s) + 1
  BY <1>2 DEF IsInserted
<1>4. \A n \in 1 .. Len(s) + 1 : u[n] = IF n < p THEN s[n] ELSE IF n = p THEN d ELSE s[n - 1]
  BY <1>2 DEF IsInserted
<1>5. PICK g : /\ g[0] = <<>>
               /\ \A n \in 1 .. Len(s) : g[n] = Passed(g[n - 1], s[n], filter)
               /\ FilterIterator(s, filter) = g[Len(s)]
  BY <1>1, FilterIterates
<1>6. Len(u) \in Nat
  BY <1>1, <1>3
<1>7. PICK h : /\ h[0] = <<>>
               /\ \A n \in 1 .. Len(u) : h[n] = Passed(h[n - 1], u[n], filter)
               /\ FilterIterator(u, filter) = h[Len(u)]
  BY <1>6, FilterIterates
<1> DEFINE T == {n \in 0 .. Len(u) : h[n] = IF n < p THEN g[n] ELSE g[n - 1]}
<1>8. 0 \in T
  BY <1>1, <1>5, <1>6, <1>7
<1>9. ASSUME NEW n \in 1 .. Len(u), n - 1 \in T
      PROVE  n \in T
  <2>1. h[n] = Passed(h[n - 1], u[n], filter)
    BY <1>7
  <2>2. h[n - 1] = IF n - 1 < p THEN g[n - 1] ELSE g[n - 1 - 1]
    BY <1>9
  <2>3. n \in 1 .. Len(s) + 1
    BY <1>3
  <2>4. CASE n < p
    <3>1. n \in 1 .. Len(s) /\ n - 1 < p
      BY <1>1, <2>4
    <3>2. g[n] = Passed(g[n - 1], s[n], filter) /\ u[n] = s[n]
      BY <1>4, <1>5, <2>3, <2>4, <3>1
    <3>3. h[n] = g[n]
      BY <2>1, <2>2, <3>1, <3>2
    <3> QED BY <2>4, <3>3
  <2>5. CASE n = p
    <3>1. u[n] = d /\ h[n - 1] = g[n - 1]
      BY <1>1, <1>4, <2>2, <2>3, <2>5
    <3>2. h[n] = g[n - 1]
      BY <2>1, <3>1 DEF Passed
    <3> QED BY <1>1, <2>5, <3>2
  <2>6. CASE n > p
    <3>1. n - 1 \in 1 .. Len(s) /\ ~(n < p) /\ n # p /\ ~(n - 1 < p)
      BY <1>1, <2>3, <2>6
    <3>2. u[n] = s[n - 1] /\ h[n - 1] = g[n - 1 - 1]
      BY <1>4, <2>2, <2>3, <3>1
    <3>3. g[n - 1] = Passed(g[n - 1 - 1], s[n - 1], filter)
      BY <1>5, <3>1
    <3>4. h[n] = g[n - 1]
      BY <2>1, <3>2, <3>3
    <3> QED BY <3>1, <3>4
  <2> QED BY <1>1, <2>3, <2>4, <2>5, <2>6
<1>10. Len(u) \in T
  <2> HIDE DEF T
  <2>1. \A n \in 0 + 1 .. Len(u) : n - 1 \in T => n \in T
    BY <1>9
  <2>2. Len(u) \in 0 .. Len(u)
    BY <1>6
  <2> QED BY <1>6, <1>8, <2>1, <2>2, Upward
<1>11. ~(Len(u) < p) /\ Len(u) - 1 = Len(s)
  BY <1>1, <1>3
<1>12. h[Len(u)] = g[Len(s)]
  BY <1>10, <1>11
<1> QED BY <1>5, <1>7, <1>12 DEF Alike, u

(* Nor do documents that do not match at the end of a list.                 *)
LEMMA EndUnseen ==
    ASSUME NEW V, NEW s, s \in Seq(V), NEW r, r \in Seq(V), NEW filter, \A n \in 1 .. Len(r) : ~FilterDocument(r[n], filter)
    PROVE  Alike(s \o r, s, filter)
<1> DEFINE u == s \o r
<1>1. Len(s) \in Nat /\ Len(r) \in Nat
  OBVIOUS
<1>2. Len(u) = Len(s) + Len(r) /\ Len(u) \in Nat
  BY <1>1
<1>3. \A n \in 1 .. Len(s) + Len(r) : u[n] = IF n <= Len(s) THEN s[n] ELSE r[n - Len(s)]
  BY <1>1
<1> HIDE DEF u
<1>4. PICK g : /\ g[0] = <<>>
               /\ \A n \in 1 .. Len(s) : g[n] = Passed(g[n - 1], s[n], filter)
               /\ FilterIterator(s, filter) = g[Len(s)]
  BY <1>1, FilterIterates
<1>5. PICK h : /\ h[0] = <<>>
               /\ \A n \in 1 .. Len(u) : h[n] = Passed(h[n - 1], u[n], filter)
               /\ FilterIterator(u, filter) = h[Len(u)]
  BY <1>2, FilterIterates
<1> DEFINE T == {n \in 0 .. Len(u) : h[n] = IF n <= Len(s) THEN g[n] ELSE g[Len(s)]}
<1>6. 0 \in T
  BY <1>1, <1>2, <1>4, <1>5
<1>7. ASSUME NEW n \in 1 .. Len(u), n - 1 \in T
      PROVE  n \in T
  <2>1. h[n] = Passed(h[n - 1], u[n], filter)
    BY <1>5
  <2>2. h[n - 1] = IF n - 1 <= Len(s) THEN g[n - 1] ELSE g[Len(s)]
    BY <1>7
  <2>3. n \in 1 .. Len(s) + Len(r)
    BY <1>2
  <2>4. CASE n <= Len(s)
    <3>1. n \in 1 .. Len(s) /\ n - 1 <= Len(s)
      BY <1>1, <2>4
    <3>2. g[n] = Passed(g[n - 1], s[n], filter) /\ u[n] = s[n]
      BY <1>3, <1>4, <2>3, <2>4, <3>1
    <3>3. h[n] = g[n]
      BY <2>1, <2>2, <3>1, <3>2
    <3> QED BY <2>4, <3>3
  <2>5. CASE ~(n <= Len(s))
    <3>1. n - Len(s) \in 1 .. Len(r)
      BY <1>1, <2>3, <2>5
    <3>2. ~FilterDocument(u[n], filter)
      BY <1>3, <2>3, <2>5, <3>1
    <3>3. h[n - 1] = g[Len(s)]
      <4>1. n - 1 <= Len(s) => n - 1 = Len(s)
        BY <1>1, <2>5
      <4> QED BY <2>2, <4>1
    <3>4. h[n] = g[Len(s)]
      BY <2>1, <3>2, <3>3 DEF Passed
    <3> QED BY <2>5, <3>4
  <2> QED BY <2>4, <2>5
<1>8. Len(u) \in T
  <2> HIDE DEF T
  <2>1. \A n \in 0 + 1 .. Len(u) : n - 1 \in T => n \in T
    BY <1>7
  <2>2. Len(u) \in 0 .. Len(u)
    BY <1>2
  <2> QED BY <1>2, <1>6, <2>1, <2>2, Upward
<1>9. h[Len(u)] = g[Len(s)]
  <2>1. Len(u) <= Len(s) => Len(u) = Len(s)
    BY <1>1, <1>2
  <2> QED BY <1>8, <2>1
<1> QED BY <1>4, <1>5, <1>9 DEF Alike, u

(* Nor when the list is sorted before it is filtered.                       *)
LEMMA SortUnseen ==
    ASSUME NEW V, NEW s, s \in Seq(V), NEW r, r \in Seq(V), NEW sort, NEW filter,
           \A n \in 1 .. Len(r) : ~FilterDocument(r[n], filter)
    PROVE  Alike(SortDocuments(s \o r, sort), SortDocuments(s, sort), filter)
<1> DEFINE u == s \o r
<1>1. Len(s) \in Nat /\ Len(r) \in Nat
  OBVIOUS
<1>2. u \in Seq(V) /\ Len(u) = Len(s) + Len(r) /\ Len(u) \in Nat
  BY <1>1
<1>3. \A n \in 1 .. Len(s) + Len(r) : u[n] = IF n <= Len(s) THEN s[n] ELSE r[n - Len(s)]
  BY <1>1
<1>4. \A n \in 1 .. Len(u) : u[n] \in V
  BY <1>2
<1> HIDE DEF u
<1>5. PICK g : /\ g[0] = <<>>
               /\ \A n \in 1 .. Len(s) : g[n] = InsertAt(g[n - 1], Place(g[n - 1], s[n], sort), s[n])
               /\ SortDocuments(s, sort) = g[Len(s)]
  BY <1>1, SortSteps
<1>6. PICK h : /\ h[0] = <<>>
               /\ \A n \in 1 .. Len(u) : h[n] = InsertAt(h[n - 1], Place(h[n - 1], u[n], sort), u[n])
               /\ SortDocuments(u, sort) = h[Len(u)]
  BY <1>2, SortSteps
<1> DEFINE T == {n \in 0 .. Len(u) : h[n] \in Seq(V) /\ IF n <= Len(s) THEN h[n] = g[n] ELSE Alike(h[n], g[Len(s)], filter)}
<1>7. 0 \in T
  <2>1. h[0] \in Seq(V) /\ h[0] = g[0] /\ 0 <= Len(s) /\ 0 \in 0 .. Len(u)
    BY <1>1, <1>2, <1>5, <1>6
  <2> QED BY <2>1
<1>8. ASSUME NEW n \in 1 .. Len(u), n - 1 \in T
      PROVE  n \in T
  <2> DEFINE p == Place(h[n - 1], u[n], sort)
  <2>1. h[n] = InsertAt(h[n - 1], p, u[n]) /\ u[n] \in V
    BY <1>4, <1>6
  <2>2. h[n - 1] \in Seq(V) /\ IF n - 1 <= Len(s) THEN h[n - 1] = g[n - 1] ELSE Alike(h[n - 1], g[Len(s)], filter)
    BY <1>8
  <2>3. n \in 1 .. Len(s) + Len(r)
    BY <1>2
  <2>4. p \in 1 .. Len(h[n - 1]) + 1
    <3>1. Len(h[n - 1]) \in Nat /\ DOMAIN h[n - 1] = 1 .. Len(h[n - 1])
      BY <2>2
    <3> QED BY <3>1, PlaceIn
  <2> HIDE DEF p
  <2>5. h[n] \in Seq(V)
    <3>1. InsertAt(h[n - 1], p, u[n]) \in Seq(V \union {u[n]})
      BY <2>2, <2>4, InsertedAt
    <3>2. V \union {u[n]} = V
      BY <2>1
    <3> QED BY <2>1, <3>1, <3>2
  <2>6. CASE n <= Len(s)
    <3>1. n \in 1 .. Len(s) /\ n - 1 <= Len(s)
      BY <1>1, <2>6
    <3>2. u[n] = s[n] /\ h[n - 1] = g[n - 1]
      BY <1>3, <2>2, <2>3, <2>6, <3>1
    <3>3. h[n] = g[n]
      BY <1>5, <2>1, <3>1, <3>2 DEF p
    <3> QED BY <2>5, <2>6, <3>3
  <2>7. CASE ~(n <= Len(s))
    <3>1. n - Len(s) \in 1 .. Len(r)
      BY <1>1, <2>3, <2>7
    <3>2. ~FilterDocument(u[n], filter)
      BY <1>3, <2>3, <2>7, <3>1
    <3>3. Alike(h[n], h[n - 1], filter)
      <4>1. IsPlace(p, h[n - 1])
        BY <2>4 DEF IsPlace
      <4> QED BY <2>1, <2>2, <3>2, <4>1, InsertedUnseen
    <3>4. Alike(h[n - 1], g[Len(s)], filter)
      <4>1. n - 1 <= Len(s) => n - 1 = Len(s)
        BY <1>1, <2>7
      <4>2. h[n - 1] = g[n - 1] => Alike(h[n - 1], g[n - 1], filter)
        BY DEF Alike
      <4> QED BY <2>2, <4>1, <4>2
    <3>5. Alike(h[n], g[Len(s)], filter)
      BY <3>3, <3>4 DEF Alike
    <3> QED BY <2>5, <2>7, <3>5
  <2> QED BY <2>6, <2>7
<1>9. Len(u) \in T
  <2> HIDE DEF T
  <2>1. \A n \in 0 + 1 .. Len(u) : n - 1 \in T => n \in T
    BY <1>8
  <2>2. Len(u) \in 0 .. Len(u)
    BY <1>2
  <2> QED BY <1>2, <1>7, <2>1, <2>2, Upward
<1>10. Alike(h[Len(u)], g[Len(s)], filter)
  <2>1. Len(u) <= Len(s) => Len(u) = Len(s)
    BY <1>1, <1>2
  <2>2. Alike(g[Len(s)], g[Len(s)], filter)
    BY DEF Alike
  <2> QED BY <1>9, <2>1, <2>2
<1> QED BY <1>5, <1>6, <1>10 DEF u

-----------------------------------------------------------------------------
(* Pipelines.                                                               *)

(* What is lost to the clause of a command is in a known gap.               *)
LEMMA OnlyGapsLose ==
    ASSUME NEW d \in Storable, NEW command, NEW f \in Selectors, FilterDocument(d, f), ~Candidate(d, PushedPart(command, f))
    PROVE  KnownGap(d, PushedPart(command, f))
<1> DEFINE g == PushedPart(command, f)
<1>1. g \in SUBSET f
  BY DEF PushedPart, TopLevel
<1> HIDE DEF g
<1>2. FilterDocument(d, g)
  BY <1>1 DEF FilterDocument
<1>3. ~Candidate(d, g)
  BY DEF g
<1>4. KnownGap(d, g)
  BY <1>1, <1>2, <1>3, ClauseLosesNothing
<1> QED BY <1>4 DEF g

(* Two results of a stage that the next stages cannot tell apart.           *)
SameResult(p, q) == p.docs = q.docs /\ p.failed = q.failed

LEMMA NextAgrees ==
    ASSUME NEW p, NEW q, SameResult(p, q), NEW s, NEW from
    PROVE  SameResult(StageNext(p, s, from), StageNext(q, s, from))
<1>1. p.docs = q.docs /\ p.failed = q.failed
  BY DEF SameResult
<1>2. CASE p.failed
  <2>1. StageNext(p, s, from) = p /\ StageNext(q, s, from) = q
    BY <1>1, <1>2 DEF StageNext
  <2> QED BY <2>1
<1>3. CASE ~p.failed
  <2> DEFINE result == ProcessStage(p.docs, s, from)
             Of(x) == [docs |-> result.docs, failed |-> result.failed, input |-> x.docs]
  <2>1. StageNext(p, s, from) = Of(p) /\ StageNext(q, s, from) = Of(q)
    BY <1>1, <1>3 DEF StageNext
  <2> QED BY <2>1 DEF SameResult
<1> QED BY <1>2, <1>3

LEMMA MatchStage ==
    ASSUME NEW list, NEW s, s.stage = "match", NEW from
    PROVE  ProcessStage(list, s, from) = Result(FilterIterator(list, s.filter))
BY DEF ProcessStage

LEMMA SortStage ==
    ASSUME NEW list, NEW s, s.stage = "sort", NEW from
    PROVE  ProcessStage(list, s, from) = Result(SortDocuments(list, s.sort))
BY DEF ProcessStage

(* A stage that has not failed.                                             *)
IsResult(p, list) == p.docs = list /\ p.failed = FALSE

LEMMA NextOf ==
    ASSUME NEW p, NEW list, IsResult(p, list), NEW s, NEW from, NEW next, ProcessStage(list, s, from) = Result(next)
    PROVE  IsResult(StageNext(p, s, from), next)
BY DEF StageNext, Result, IsResult

(* The results of stages that follow one another.                           *)
FollowOn(g, stages, from) == \A n \in 1 .. Len(stages) : g[n] = StageNext(g[n - 1], stages[n], from)

LEMMA StagesFollow ==
    ASSUME NEW list, NEW stages, NEW from, Len(stages) \in Nat
    PROVE  \E g : IsResult(g[0], list) /\ FollowOn(g, stages, from) /\ ProcessStages(list, stages, from) = g[Len(stages)]
<1>1. PICK g : /\ g[0] = Result(list)
               /\ \A n \in 1 .. Len(stages) : g[n] = StageNext(g[n - 1], stages[n], from)
               /\ ProcessStages(list, stages, from) = g[Len(stages)]
  BY StageSteps
<1>2. IsResult(g[0], list) /\ FollowOn(g, stages, from)
  BY <1>1 DEF Result, IsResult, FollowOn
<1> QED BY <1>1, <1>2

(* Results that agree after one stage agree after all that follow.          *)
LEMMA RestAgrees ==
    ASSUME NEW stages, Len(stages) \in Nat, NEW from, NEW g, FollowOn(g, stages, from), NEW h, FollowOn(h, stages, from),
           NEW k, k \in 0 .. Len(stages), SameResult(g[k], h[k])
    PROVE  SameResult(g[Len(stages)], h[Len(stages)])
<1> DEFINE length == Len(stages)
           T == {n \in k .. length : SameResult(g[n], h[n])}
<1>1. k \in T
  OBVIOUS
<1>2. ASSUME NEW n \in k + 1 .. length, n - 1 \in T
      PROVE  n \in T
  <2>1. n \in 1 .. length /\ n \in k .. length
    OBVIOUS
  <2>2. g[n] = StageNext(g[n - 1], stages[n], from) /\ h[n] = StageNext(h[n - 1], stages[n], from)
    BY <2>1 DEF FollowOn
  <2>3. SameResult(g[n - 1], h[n - 1])
    BY <1>2
  <2> QED BY <2>1, <2>2, <2>3, NextAgrees
<1> HIDE DEF T
<1>3. \A n \in k .. length : n \in T
  <2>1. \A n \in k + 1 .. length : n - 1 \in T => n \in T
    BY <1>2
  <2>2. k \in Nat /\ (k <= length => k \in T)
    BY <1>1
  <2> QED BY <2>1, <2>2, Upward
<1>4. length \in T
  BY <1>3
<1> QED BY <1>4 DEF T

(* The pipeline of the documents that SQLite selects makes of them what it  *)
(* makes of those with others that the pushed filter does not match.        *)
LEMMA PipelineAlike ==
    ASSUME NEW V, NEW s, s \in Seq(V), NEW r, r \in Seq(V), NEW stages, stages \in Seq(Range(stages)), NEW from,
           \A n \in 1 .. Len(r) : ~FilterDocument(r[n], PushdownMatch(stages))
    PROVE  SameResult(ProcessStages(s \o r, stages, from), ProcessStages(s, stages, from))
<1> DEFINE matches == {n \in DOMAIN stages : stages[n].stage = "match" /\ n <= 2 /\ \A m \in 1 .. n - 1 : stages[m].stage = "sort"}
           filter == PushdownMatch(stages)
<1>1. Len(stages) \in Nat /\ DOMAIN stages = 1 .. Len(stages) /\ matches \in SUBSET Nat
  OBVIOUS
<1>2. filter = IF matches = {} THEN {} ELSE stages[Min(matches)].filter
  BY DEF PushdownMatch
<1>3. CASE matches = {}
  <2>1. \A d : FilterDocument(d, filter)
    BY <1>2, <1>3 DEF FilterDocument
  <2>2. Len(r) = 0
    BY <2>1
  <2>3. r = <<>> /\ s \o r = s
    BY <2>2
  <2> QED BY <2>3 DEF SameResult
<1>4. CASE matches # {}
  <2> HIDE DEF matches
  <2>1. PICK k \in matches : \A n \in matches : k <= n
    BY <1>1, <1>4, LeastNatural
  <2>2. Min(matches) \in matches
    BY <2>1 DEF Min
  <2> DEFINE j == Min(matches)
  <2> HIDE DEF j
  <2>3. /\ j \in 1 .. Len(stages) /\ stages[j].stage = "match" /\ filter = stages[j].filter
        /\ j = 1 \/ (j = 2 /\ stages[1].stage = "sort")
    <3>1. j \in DOMAIN stages /\ stages[j].stage = "match" /\ j <= 2 /\ \A m \in 1 .. j - 1 : stages[m].stage = "sort"
      BY <2>2 DEF j, matches
    <3>2. filter = stages[j].filter
      BY <1>2, <1>4 DEF j
    <3>3. j = 1 \/ j = 2
      BY <1>1, <3>1
    <3>4. j = 2 => stages[1].stage = "sort"
      <4>1. j = 2 => 1 \in 1 .. j - 1
        OBVIOUS
      <4> QED BY <3>1, <4>1
    <3>5. j \in 1 .. Len(stages) /\ stages[j].stage = "match"
      BY <1>1, <3>1
    <3> HIDE DEF filter
    <3> QED BY <3>2, <3>3, <3>4, <3>5
  <2> DEFINE u == s \o r
  <2> HIDE DEF u
  <2>4. PICK g : IsResult(g[0], u) /\ FollowOn(g, stages, from) /\ ProcessStages(u, stages, from) = g[Len(stages)]
    BY <1>1, StagesFollow
  <2>5. PICK h : IsResult(h[0], s) /\ FollowOn(h, stages, from) /\ ProcessStages(s, stages, from) = h[Len(stages)]
    BY <1>1, StagesFollow
  <2> HIDE DEF filter
  <2>6. \A n \in 1 .. Len(r) : ~FilterDocument(r[n], filter)
    BY DEF filter
  <2>7. CASE j = 1
    <3>1. g[1] = StageNext(g[0], stages[1], from) /\ h[1] = StageNext(h[0], stages[1], from)
      BY <2>3, <2>4, <2>5, <2>7 DEF FollowOn
    <3>2. \A list : ProcessStage(list, stages[1], from) = Result(FilterIterator(list, filter))
      BY <2>3, <2>7, MatchStage
    <3>3. IsResult(g[1], FilterIterator(u, filter))
      BY <2>4, <3>1, <3>2, NextOf
    <3>4. IsResult(h[1], FilterIterator(s, filter))
      BY <2>5, <3>1, <3>2, NextOf
    <3>5. Alike(u, s, filter)
      BY <2>6, EndUnseen DEF u
    <3>6. SameResult(g[1], h[1])
      BY <3>3, <3>4, <3>5 DEF SameResult, IsResult, Alike
    <3>7. 1 \in 0 .. Len(stages)
      BY <2>3, <2>7
    <3>8. SameResult(g[Len(stages)], h[Len(stages)])
      BY <1>1, <2>4, <2>5, <3>6, <3>7, RestAgrees
    <3> QED BY <2>4, <2>5, <3>8 DEF u
  <2>8. CASE j = 2
    <3>1. /\ g[1] = StageNext(g[0], stages[1], from) /\ h[1] = StageNext(h[0], stages[1], from)
          /\ g[2] = StageNext(g[1], stages[2], from) /\ h[2] = StageNext(h[1], stages[2], from)
      <4>1. 1 \in 1 .. Len(stages) /\ 2 \in 1 .. Len(stages) /\ 1 - 1 = 0 /\ 2 - 1 = 1
        BY <1>1, <2>3, <2>8
      <4> QED BY <2>4, <2>5, <4>1 DEF FollowOn
    <3> DEFINE Of(list) == SortDocuments(list, stages[1].sort)
    <3>2. \A list : ProcessStage(list, stages[1], from) = Result(Of(list))
      BY <2>3, <2>8, SortStage
    <3>3. \A list : ProcessStage(list, stages[2], from) = Result(FilterIterator(list, filter))
      BY <2>3, <2>8, MatchStage
    <3>4. Alike(Of(u), Of(s), filter)
      BY <2>6, SortUnseen DEF u
    <3> HIDE DEF Of
    <3>5. IsResult(g[1], Of(u))
      BY <2>4, <3>1, <3>2, NextOf
    <3>6. IsResult(h[1], Of(s))
      BY <2>5, <3>1, <3>2, NextOf
    <3>7. IsResult(g[2], FilterIterator(Of(u), filter))
      BY <3>1, <3>3, <3>5, NextOf
    <3>8. IsResult(h[2], FilterIterator(Of(s), filter))
      BY <3>1, <3>3, <3>6, NextOf
    <3>9. SameResult(g[2], h[2])
      BY <3>4, <3>7, <3>8 DEF SameResult, IsResult, Alike
    <3>10. 2 \in 0 .. Len(stages)
      BY <2>3, <2>8
    <3>11. SameResult(g[Len(stages)], h[Len(stages)])
      BY <1>1, <2>4, <2>5, <3>9, <3>10, RestAgrees
    <3> QED BY <2>4, <2>5, <3>11 DEF u
  <2> QED BY <2>3, <2>7, <2>8
<1> QED BY <1>3, <1>4

LEMMA ImageTogether ==
    ASSUME NEW contents, NEW S, NEW s, s \in Seq(S), NEW t, t \in Seq(S)
    PROVE  Image(contents, s \o t) = Image(contents, s) \o Image(contents, t)
<1> DEFINE U == {contents[x] : x \in S}
           u == s \o t
           v == Image(contents, s)
           w == Image(contents, t)
<1>1. Len(s) \in Nat /\ Len(t) \in Nat /\ DOMAIN s = 1 .. Len(s) /\ DOMAIN t = 1 .. Len(t)
  OBVIOUS
<1>2. u \in Seq(S) /\ Len(u) = Len(s) + Len(t) /\ DOMAIN u = 1 .. Len(s) + Len(t)
  BY <1>1
<1>3. \A n \in 1 .. Len(s) + Len(t) : u[n] = IF n <= Len(s) THEN s[n] ELSE t[n - Len(s)]
  BY <1>1
<1>4. \A x \in S : contents[x] \in U
  OBVIOUS
<1> HIDE DEF u, U
<1>5. Image(contents, u) \in Seq(U) /\ Len(Image(contents, u)) = Len(s) + Len(t)
  BY <1>2, <1>4, ImageIsSequence
<1>6. v \in Seq(U) /\ Len(v) = Len(s) /\ w \in Seq(U) /\ Len(w) = Len(t)
  BY <1>4, ImageIsSequence
<1>7. /\ \A n \in 1 .. Len(s) + Len(t) : Image(contents, u)[n] = contents[u[n]]
      /\ \A n \in 1 .. Len(s) : v[n] = contents[s[n]]
      /\ \A n \in 1 .. Len(t) : w[n] = contents[t[n]]
  BY <1>1, <1>2 DEF Image
<1> HIDE DEF v, w
<1>8. v \o w \in Seq(U) /\ Len(v \o w) = Len(s) + Len(t)
  BY <1>6, SMTT(40)
<1>9. \A n \in 1 .. Len(v) + Len(w) : (v \o w)[n] = IF n <= Len(v) THEN v[n] ELSE w[n - Len(v)]
  BY <1>6
<1>10. ASSUME NEW n \in 1 .. Len(s) + Len(t) PROVE Image(contents, u)[n] = (v \o w)[n]
  <2>1. CASE n <= Len(s)
    <3>1. n \in 1 .. Len(s)
      BY <1>1, <2>1
    <3> QED BY <1>3, <1>6, <1>7, <1>9, <2>1, <3>1, SMTT(40)
  <2>2. CASE ~(n <= Len(s))
    <3>1. n - Len(s) \in 1 .. Len(t)
      BY <1>1, <2>2
    <3> QED BY <1>3, <1>6, <1>7, <1>9, <2>2, <3>1, SMTT(40)
  <2> QED BY <2>1, <2>2
<1>11. Image(contents, u) = v \o w
  BY <1>5, <1>8, <1>10, SameSequence
<1> QED BY <1>11 DEF u, v, w

OrdersOf(contents, ids) == {[n \in DOMAIN s |-> contents[s[n]]] : s \in SetToSeqs(ids)}

(* An aggregation answers what its pipeline makes of the whole collection,   *)
(* but for the known gaps.                                                  *)
LEMMA AggregateAnswers ==
    ASSUME Contained(docs), NEW stages \in Aggregations, Aggregate(stages)
    PROVE  PipelinesMissNothing'
<1> DEFINE match == PushdownMatch(stages)
           selected == {i \in DOMAIN docs : Candidate(docs[i], PushedPart("aggregate", match))}
           missed == {i \in DOMAIN docs : FilterDocument(docs[i], match) /\ i \notin selected}
           ids == DOMAIN docs \ missed
<1>1. PICK from \in SetToSeqs(DOMAIN docs), order \in SetToSeqs(selected) :
        answer' = [command |-> "aggregate", filter |-> match, ids |-> {}, before |-> docs,
                   more |-> [stages |-> stages, result |-> ProcessStages(InOrder(order), stages, InOrder(from))]]
  BY DEF Aggregate, Answer
<1>2. stages \in Seq(Range(stages)) /\ match \in Selectors
  BY CommandsAssumption
<1>3. IsFiniteSet(DOMAIN docs) /\ \A i \in DOMAIN docs : docs[i] \in Storable
  BY DEF Contained, Bounded
<1>4. \A i \in missed : KnownGap(docs[i], PushedPart("aggregate", match))
  <2> SUFFICES ASSUME NEW i \in missed PROVE KnownGap(docs[i], PushedPart("aggregate", match))
    OBVIOUS
  <2>1. docs[i] \in Storable /\ FilterDocument(docs[i], match) /\ ~Candidate(docs[i], PushedPart("aggregate", match))
    BY <1>3
  <2> HIDE DEF match
  <2> QED BY <1>2, <2>1, OnlyGapsLose
<1> HIDE DEF match
<1>5. selected \in SUBSET ids /\ ids \in SUBSET DOMAIN docs /\ \A i \in ids \ selected : ~FilterDocument(docs[i], match)
  OBVIOUS
<1>6. ids \in Seen'
  <2>1. Matching' = {i \in DOMAIN docs : FilterDocument(docs[i], match)}
    BY <1>1 DEF Matching
  <2>2. \A i \in DOMAIN docs : Lost(i)' <=> KnownGap(docs[i], PushedPart("aggregate", match))
    BY <1>1 DEF Lost
  <2>3. missed \in SUBSET {i \in Matching' : Lost(i)'}
    BY <1>4, <2>1, <2>2
  <2>4. answer'.before = docs
    BY <1>1
  <2> HIDE DEF missed
  <2> QED BY <2>3, <2>4 DEF Seen
<1> HIDE DEF selected, ids
<1>7. IsFiniteSet(selected) /\ IsFiniteSet(ids \ selected) /\ IsFiniteSet(ids)
  BY <1>3, <1>5, FS_Subset
<1>8. Lists(order, selected)
  BY <1>1, <1>7, SetToSeqsLists
<1>9. PICK rest : Lists(rest, ids \ selected)
  BY <1>7, ListExists
<1>10. Lists(order \o rest, ids)
  <2>1. selected \union (ids \ selected) = ids /\ selected \intersect (ids \ selected) = {}
    BY <1>5
  <2>2. Lists(order \o rest, selected \union (ids \ selected))
    BY <1>8, <1>9, <2>1, ListsTogether
  <2> QED BY <2>1, <2>2
<1>11. order \o rest \in SetToSeqs(ids)
  BY <1>7, <1>10, SetToSeqsLists
<1>12. order \in Seq(ids) /\ rest \in Seq(ids) /\ \A n \in 1 .. Len(rest) : rest[n] \in ids \ selected
  <2>1. order \in Seq(selected) /\ rest \in Seq(ids \ selected)
    BY <1>8, <1>9 DEF Lists
  <2> QED BY <1>5, <2>1
<1> DEFINE s == Image(docs, order)
           r == Image(docs, rest)
<1>13. Image(docs, order \o rest) = s \o r
  BY <1>12, ImageTogether
<1>14. s \in Seq(Storable) /\ r \in Seq(Storable) /\ Len(r) = Len(rest)
  <2>1. \A i \in ids : docs[i] \in Storable
    BY <1>3, <1>5
  <2> QED BY <1>12, <2>1, ImageIsSequence
<1>15. \A n \in 1 .. Len(r) : ~FilterDocument(r[n], match)
  <2>1. \A n \in 1 .. Len(rest) : r[n] = docs[rest[n]]
    BY <1>12 DEF Image
  <2> QED BY <1>5, <1>12, <1>14, <2>1
<1>16. InOrder(order) = s
  BY DEF InOrder, Image
<1> HIDE DEF s, r
<1>17. SameResult(ProcessStages(s \o r, stages, InOrder(from)), ProcessStages(s, stages, InOrder(from)))
  BY <1>2, <1>14, <1>15, PipelineAlike DEF match
<1>18. answer'.before = docs
  BY <1>1
<1>19. s \o r \in OrdersOf(docs, ids)
  <2>1. Image(docs, order \o rest) = [n \in DOMAIN (order \o rest) |-> docs[(order \o rest)[n]]]
    BY DEF Image
  <2> QED BY <1>11, <1>13, <2>1 DEF OrdersOf
<1>20. InOrder(from) \in OrdersOf(docs, DOMAIN docs)
  BY <1>1 DEF OrdersOf, InOrder
<1>21. /\ answer'.more.stages = stages
       /\ answer'.more.result = ProcessStages(s, stages, InOrder(from))
  BY <1>1, <1>16
<1>22. \E x \in {ProcessStages(s \o r, stages, InOrder(from))} :
         x.failed = answer'.more.result.failed /\ x.docs = answer'.more.result.docs
  BY <1>17, <1>21 DEF SameResult
<1>23. \E b \in Seen' : \E x \in OrdersOf(docs, b), y \in OrdersOf(docs, DOMAIN docs) : \E z \in {ProcessStages(x, stages, y)} :
         z.failed = answer'.more.result.failed /\ z.docs = answer'.more.result.docs
  BY <1>6, <1>19, <1>20, <1>22
<1> QED BY <1>18, <1>21, <1>23 DEF PipelinesMissNothing, Orders, OrdersOf

-----------------------------------------------------------------------------
(* Windows.                                                                 *)

LEMMA PartOf ==
    ASSUME NEW V, NEW s, s \in Seq(V), NEW m \in Nat, NEW n \in Nat, m <= n, n <= Len(s)
    PROVE  /\ SubSeq(s, m + 1, n) \in Seq(V)
           /\ Len(SubSeq(s, m + 1, n)) = n - m
           /\ \A k \in 1 .. n - m : SubSeq(s, m + 1, n)[k] = s[m + k]
<1> DEFINE u == SubSeq(s, m + 1, n)
<1>1. Len(s) \in Nat /\ DOMAIN s = 1 .. Len(s) /\ \A k \in 1 .. Len(s) : s[k] \in V
  OBVIOUS
<1>2. u = [k \in 1 .. n - (m + 1) + 1 |-> s[(m + 1) + k - 1]]
  BY <1>1
<1>3. n - (m + 1) + 1 = n - m /\ n - m \in Nat /\ \A k \in 1 .. n - m : (m + 1) + k - 1 = m + k /\ m + k \in 1 .. Len(s)
  BY <1>1
<1>4. u = [k \in 1 .. n - m |-> s[(m + 1) + k - 1]]
  BY <1>2, <1>3
<1> HIDE DEF u
<1>5. \A k \in 1 .. n - m : u[k] = s[m + k]
  BY <1>3, <1>4
<1>6. u \in [1 .. n - m -> V]
  BY <1>1, <1>3, <1>4
<1>7. u \in Seq(V) /\ Len(u) = n - m
  BY <1>3, <1>6
<1> QED BY <1>5, <1>7 DEF u

LEMMA LimitOf ==
    ASSUME NEW V, NEW s, s \in Seq(V), NEW n \in Nat, n > 0
    PROVE  Limit(s, n) = SubSeq(s, 0 + 1, IF Len(s) < n THEN Len(s) ELSE n)
<1> DEFINE k == IF Len(s) < n THEN Len(s) ELSE n
<1>1. Len(s) \in Nat
  OBVIOUS
<1>2. k \in {n, Len(s)} /\ \A y \in {n, Len(s)} : k <= y
  BY <1>1
<1>3. \A x \in {n, Len(s)} : (\A y \in {n, Len(s)} : x <= y) => x = k
  BY <1>1
<1> HIDE DEF k
<1>4. Min({n, Len(s)}) = k
  BY <1>2, <1>3 DEF Min
<1>5. n # 0 /\ 0 + 1 = 1
  OBVIOUS
<1> QED BY <1>4, <1>5 DEF Limit, k

(* The first of a listed set, up to a limit.                                *)
LEMMA LimitLists ==
    ASSUME NEW S, NEW t, Lists(t, S), NEW n \in Nat
    PROVE  \E A \in SUBSET S : Lists(Limit(t, n), A) /\ (A = S \/ (n > 0 /\ Len(Limit(t, n)) = n))
<1>1. t \in Seq(S) /\ Len(t) \in Nat /\ DOMAIN t = 1 .. Len(t) /\ \A k \in 1 .. Len(t) : t[k] \in S
  BY DEF Lists
<1>2. CASE n = 0
  BY <1>2 DEF Limit
<1>3. CASE n > 0 /\ Len(t) < n
  <2>1. Limit(t, n) = SubSeq(t, 0 + 1, Len(t))
    BY <1>1, <1>3, LimitOf
  <2>2. /\ SubSeq(t, 0 + 1, Len(t)) \in Seq(S) /\ Len(SubSeq(t, 0 + 1, Len(t))) = Len(t) - 0
        /\ \A k \in 1 .. Len(t) - 0 : SubSeq(t, 0 + 1, Len(t))[k] = t[0 + k]
    BY <1>1, PartOf
  <2>3. \A k \in 1 .. Len(t) : SubSeq(t, 0 + 1, Len(t))[k] = t[k]
    BY <1>1, <2>2
  <2>4. SubSeq(t, 0 + 1, Len(t)) = t
    BY <1>1, <2>2, <2>3, SameSequence
  <2> QED BY <2>1, <2>4
<1>4. CASE n > 0 /\ ~(Len(t) < n)
  <2> DEFINE u == SubSeq(t, 0 + 1, n)
             A == {t[k] : k \in 1 .. n}
  <2>1. Limit(t, n) = u
    BY <1>1, <1>4, LimitOf
  <2>2. u \in Seq(S) /\ Len(u) = n - 0 /\ \A k \in 1 .. n - 0 : u[k] = t[0 + k]
    BY <1>1, <1>4, PartOf
  <2> HIDE DEF u
  <2>3. Len(u) = n /\ \A k \in 1 .. n : u[k] = t[k] /\ k \in DOMAIN t
    BY <1>1, <1>4, <2>2
  <2>4. DOMAIN u = 1 .. n /\ u = [k \in 1 .. n |-> u[k]]
    BY <2>2, <2>3
  <2>5. u \in Seq(A)
    <3>1. \A k \in 1 .. n : u[k] \in A
      BY <2>3
    <3> HIDE DEF A
    <3>2. u \in [1 .. n -> A]
      BY <2>4, <3>1
    <3> QED BY <3>2
  <2>6. A \in SUBSET S
    BY <1>1, <2>3
  <2>7. \A x \in A : \E k \in DOMAIN u : u[k] = x
    BY <2>3, <2>4
  <2>8. \A k, l \in DOMAIN u : u[k] = u[l] => k = l
    BY <2>3, <2>4 DEF Lists
  <2> HIDE DEF A
  <2>9. Lists(u, A)
    BY <2>5, <2>7, <2>8 DEF Lists
  <2> QED BY <1>4, <2>1, <2>3, <2>6, <2>9
<1> QED BY <1>1, <1>2, <1>3, <1>4

(* A window that is full.                                                   *)
LEMMA WindowOf ==
    ASSUME NEW V, NEW s, s \in Seq(V), NEW skip \in Nat, NEW limit \in Nat, limit > 0, skip + limit <= Len(s)
    PROVE  /\ Limit(Skip(s, skip), limit) \in Seq(V)
           /\ Len(Limit(Skip(s, skip), limit)) = limit
           /\ \A k \in 1 .. limit : Limit(Skip(s, skip), limit)[k] = s[skip + k]
<1> DEFINE a == Skip(s, skip)
           b == Limit(a, limit)
<1>1. Len(s) \in Nat /\ skip <= Len(s)
  OBVIOUS
<1>2. a \in Seq(V) /\ Len(a) = Len(s) - skip /\ \A k \in 1 .. Len(s) - skip : a[k] = s[skip + k]
  BY <1>1, PartOf DEF Skip
<1> HIDE DEF a
<1>3. Len(a) \in Nat /\ limit <= Len(a) /\ ~(Len(a) < limit)
  BY <1>1, <1>2
<1>4. b = SubSeq(a, 0 + 1, limit)
  BY <1>2, <1>3, LimitOf
<1> HIDE DEF b
<1>5. b \in Seq(V) /\ Len(b) = limit - 0 /\ \A k \in 1 .. limit - 0 : b[k] = a[0 + k]
  BY <1>2, <1>3, <1>4, PartOf
<1>6. Len(b) = limit /\ \A k \in 1 .. limit : b[k] = a[k] /\ k \in 1 .. Len(s) - skip
  BY <1>2, <1>3, <1>5
<1>7. \A k \in 1 .. limit : b[k] = s[skip + k]
  BY <1>2, <1>6
<1> QED BY <1>5, <1>6, <1>7 DEF a, b

(* It does not depend on what is behind it.                                 *)
LEMMA WindowBefore ==
    ASSUME NEW V, NEW s, s \in Seq(V), NEW r, r \in Seq(V), NEW skip \in Nat, NEW limit \in Nat, limit > 0,
           skip + limit <= Len(s)
    PROVE  Limit(Skip(s \o r, skip), limit) = Limit(Skip(s, skip), limit)
<1> DEFINE u == s \o r
           a == Limit(Skip(s, skip), limit)
           b == Limit(Skip(u, skip), limit)
<1>1. Len(s) \in Nat /\ Len(r) \in Nat
  OBVIOUS
<1>2. u \in Seq(V) /\ Len(u) = Len(s) + Len(r)
  OBVIOUS
<1>3. \A k \in 1 .. Len(s) : u[k] = s[k]
  BY <1>1
<1> HIDE DEF u
<1>4. skip + limit <= Len(u)
  BY <1>1, <1>2
<1>5. a \in Seq(V) /\ Len(a) = limit /\ \A k \in 1 .. limit : a[k] = s[skip + k]
  BY WindowOf
<1>6. b \in Seq(V) /\ Len(b) = limit /\ \A k \in 1 .. limit : b[k] = u[skip + k]
  BY <1>2, <1>4, WindowOf
<1> HIDE DEF a, b
<1>7. \A k \in 1 .. limit : skip + k \in 1 .. Len(s)
  BY <1>1
<1>8. \A k \in 1 .. limit : b[k] = a[k]
  BY <1>3, <1>5, <1>6, <1>7
<1>9. b = a
  BY <1>5, <1>6, <1>8, SameSequence
<1> QED BY <1>9 DEF a, b, u

(* None of the other documents of a set comes before one of a part of it.   *)
NoneAhead(contents, A, M, sort) == \A x \in A, y \in M \ A : ~DocumentBefore(contents[y], contents[x], sort)

(* The window of a list is that of a sorted list of all.                    *)
WindowFrom(contents, r, M, sort, skip, limit) ==
  \E s \in OrdersOf(contents, M) :
    Sorted(s, sort) /\ Limit(Skip(Image(contents, r), skip), limit) = Limit(Skip(s, skip), limit)

(* A sorted list of a part, of which no other document comes before one,    *)
(* gives the window of a sorted list of all, when it fills the window.      *)
LEMMA WindowExtends ==
    ASSUME NEW contents, NEW M, IsFiniteSet(M), NEW V, \A x \in M : contents[x] \in V, NEW sort, OrderedBy(V, sort),
           NEW A, A \in SUBSET M, NEW r, Lists(r, A), Sorted(Image(contents, r), sort),
           NoneAhead(contents, A, M, sort),
           NEW skip \in Nat, NEW limit \in Nat, A = M \/ (limit > 0 /\ skip + limit <= Len(r))
    PROVE  WindowFrom(contents, r, M, sort, skip, limit)
<1>1. IsFiniteSet(M \ A)
  BY FS_Difference
<1>2. PICK t : Lists(t, M \ A)
  BY <1>1, ListExists
<1>3. PICK q : Lists(q, M \ A) /\ Sorted(Image(contents, q), sort)
  <2>1. \A x \in M \ A : contents[x] \in V
    OBVIOUS
  <2>2. \E u : /\ Lists(u, M \ A)
               /\ SortDocuments(Image(contents, t), sort) = Image(contents, u)
               /\ OrderedBy(V, sort) => Sorted(Image(contents, u), sort)
    BY <1>2, <2>1, SortLists
  <2> QED BY <2>2
<1> DEFINE u == r \o q
           v == Image(contents, r)
           w == Image(contents, q)
<1>4. u \in SetToSeqs(M)
  <2>1. A \union (M \ A) = M /\ A \intersect (M \ A) = {}
    OBVIOUS
  <2>2. Lists(r \o q, A \union (M \ A))
    BY <1>3, <2>1, ListsTogether
  <2> QED BY <2>1, <2>2, SetToSeqsLists
<1>5. /\ r \in Seq(A) /\ Len(r) \in Nat /\ DOMAIN r = 1 .. Len(r) /\ \A n \in 1 .. Len(r) : r[n] \in A
      /\ q \in Seq(M \ A) /\ Len(q) \in Nat /\ DOMAIN q = 1 .. Len(q) /\ \A n \in 1 .. Len(q) : q[n] \in M \ A
  BY <1>3 DEF Lists
<1>6. Image(contents, u) = v \o w
  <2>1. r \in Seq(M) /\ q \in Seq(M)
    BY <1>5
  <2> QED BY <2>1, ImageTogether
<1>7. v \in Seq(V) /\ Len(v) = Len(r) /\ w \in Seq(V) /\ Len(w) = Len(q)
  BY <1>5, ImageIsSequence
<1>8. /\ \A n \in 1 .. Len(r) : v[n] = contents[r[n]]
      /\ \A n \in 1 .. Len(q) : w[n] = contents[q[n]]
  BY <1>5 DEF Image
<1> HIDE DEF v, w
<1>9. /\ v \o w \in Seq(V) /\ Len(v \o w) = Len(r) + Len(q) /\ DOMAIN (v \o w) = 1 .. Len(r) + Len(q)
      /\ \A n \in 1 .. Len(r) + Len(q) : (v \o w)[n] = IF n <= Len(r) THEN v[n] ELSE w[n - Len(r)]
  <2>1. v \o w \in Seq(V) /\ Len(v \o w) = Len(v) + Len(w)
    BY <1>7
  <2>2. \A n \in 1 .. Len(v) + Len(w) : (v \o w)[n] = IF n <= Len(v) THEN v[n] ELSE w[n - Len(v)]
    BY <1>7
  <2> QED BY <1>5, <1>7, <2>1, <2>2
<1>10. Sorted(v \o w, sort)
  <2> SUFFICES ASSUME NEW m \in 1 .. Len(r) + Len(q), NEW n \in 1 .. Len(r) + Len(q), m < n
               PROVE  ~DocumentBefore((v \o w)[n], (v \o w)[m], sort)
    BY <1>9 DEF Sorted
  <2>1. \A k, l \in 1 .. Len(r) : k < l => ~DocumentBefore(v[l], v[k], sort)
    <3>1. DOMAIN v = 1 .. Len(r)
      BY <1>7
    <3> QED BY <3>1 DEF Sorted, v
  <2>2. \A k, l \in 1 .. Len(q) : k < l => ~DocumentBefore(w[l], w[k], sort)
    <3>1. DOMAIN w = 1 .. Len(q)
      BY <1>7
    <3> QED BY <1>3, <3>1 DEF Sorted, w
  <2>3. \A k \in 1 .. Len(r), l \in 1 .. Len(q) : ~DocumentBefore(w[l], v[k], sort)
    BY <1>5, <1>8 DEF NoneAhead
  <2>4. CASE n <= Len(r)
    <3>1. m \in 1 .. Len(r) /\ n \in 1 .. Len(r) /\ m <= Len(r)
      BY <1>5, <2>4
    <3>2. (v \o w)[m] = v[m] /\ (v \o w)[n] = v[n]
      BY <1>9, <2>4, <3>1
    <3> QED BY <2>1, <3>1, <3>2
  <2>5. CASE ~(n <= Len(r)) /\ m <= Len(r)
    <3>1. m \in 1 .. Len(r) /\ n - Len(r) \in 1 .. Len(q)
      BY <1>5, <2>5
    <3>2. (v \o w)[m] = v[m] /\ (v \o w)[n] = w[n - Len(r)]
      BY <1>9, <2>5
    <3> QED BY <2>3, <3>1, <3>2
  <2>6. CASE ~(n <= Len(r)) /\ ~(m <= Len(r))
    <3>1. m - Len(r) \in 1 .. Len(q) /\ n - Len(r) \in 1 .. Len(q) /\ m - Len(r) < n - Len(r)
      BY <1>5, <2>6
    <3>2. (v \o w)[m] = w[m - Len(r)] /\ (v \o w)[n] = w[n - Len(r)]
      BY <1>9, <2>6
    <3> QED BY <2>2, <3>1, <3>2
  <2> QED BY <1>5, <2>4, <2>5, <2>6
<1>11. Limit(Skip(v, skip), limit) = Limit(Skip(v \o w, skip), limit)
  <2>1. CASE A = M
    <3>1. Len(q) = 0
      BY <1>5, <2>1
    <3>2. w = <<>>
      BY <1>7, <3>1
    <3>3. v \o w = v
      BY <1>7, <3>2
    <3> QED BY <3>3
  <2>2. CASE limit > 0 /\ skip + limit <= Len(r)
    BY <1>7, <2>2, WindowBefore
  <2> QED BY <2>1, <2>2
<1>12. v \o w \in OrdersOf(contents, M)
  <2>1. Image(contents, u) = [n \in DOMAIN u |-> contents[u[n]]]
    BY DEF Image
  <2> HIDE DEF u
  <2> QED BY <1>4, <1>6, <2>1 DEF OrdersOf
<1> QED BY <1>10, <1>11, <1>12 DEF WindowFrom, v

-----------------------------------------------------------------------------
(* The heap.                                                                *)

(* The heap after a number of documents: as many of the least of them as it *)
(* keeps, or all of them.                                                   *)
KeepsLeast(h, list, n, sort, keep) ==
  /\ h \in SUBSET (1 .. n)
  /\ Cardinality(h) <= keep
  /\ h = 1 .. n \/ Cardinality(h) = keep
  /\ \A x \in h, y \in (1 .. n) \ h : ~DocumentBefore(list[y], list[x], sort)

LEMMA HeapStep ==
    ASSUME NEW V, NEW list, NEW sort, OrderedBy(V, sort), NEW keep \in Nat, NEW n \in Nat, n > 0,
           \A k \in 1 .. n : list[k] \in V,
           NEW old, KeepsLeast(old, list, n - 1, sort, keep), NEW h, h \in KeepBest(list, old, n, sort, keep)
    PROVE  KeepsLeast(h, list, n, sort, keep)
<1> DEFINE B(x, y) == DocumentBefore(list[x], list[y], sort)
<1>1. /\ old \in SUBSET (1 .. n - 1) /\ Cardinality(old) <= keep
      /\ old = 1 .. n - 1 \/ Cardinality(old) = keep
      /\ \A x \in old, y \in (1 .. n - 1) \ old : ~B(y, x)
  BY DEF KeepsLeast
<1>2. \A x, y, z \in 1 .. n : B(x, y) => ~B(y, x) /\ (B(x, z) \/ B(z, y))
  BY DEF OrderedBy
<1>3. n - 1 \in Nat /\ 1 .. n = (1 .. n - 1) \union {n} /\ n \notin 1 .. n - 1
  OBVIOUS
<1>4. IsFiniteSet(old) /\ Cardinality(old) \in Nat
  <2>1. IsFiniteSet(1 .. n - 1)
    BY <1>3, FS_Interval
  <2> QED BY <1>1, <2>1, FS_Subset, FS_CardinalityType
<1>5. CASE Cardinality(old) < keep
  <2>1. h = old \union {n}
    BY <1>5 DEF KeepBest
  <2>2. h = 1 .. n
    BY <1>1, <1>3, <1>4, <1>5, <2>1
  <2>3. Cardinality(h) = Cardinality(old) + 1
    <3>1. n \notin old
      BY <1>1, <1>3
    <3> QED BY <1>4, <2>1, <3>1, FS_AddElement
  <2>4. Cardinality(h) <= keep
    BY <1>4, <1>5, <2>3
  <2> QED BY <2>2, <2>4 DEF KeepsLeast
<1>6. CASE ~(Cardinality(old) < keep)
  <2>1. Cardinality(old) = keep
    BY <1>1, <1>4, <1>6
  <2>2. PICK m \in GreatestOf(list, old, sort) : h = IF B(n, m) THEN (old \ {m}) \union {n} ELSE old
    BY <1>6 DEF KeepBest
  <2>3. m \in old /\ m \in 1 .. n /\ n \in 1 .. n /\ m # n /\ \A y \in old : ~B(m, y)
    BY <1>1, <1>3, <2>2 DEF GreatestOf
  <2>4. CASE B(n, m)
    <3>1. h = (old \ {m}) \union {n}
      BY <2>2, <2>4
    <3>2. Cardinality(h) = keep
      <4>1. IsFiniteSet(old \ {m}) /\ Cardinality(old \ {m}) = Cardinality(old) - 1
        BY <1>4, <2>3, FS_RemoveElement
      <4>2. n \notin old \ {m}
        BY <1>1, <1>3
      <4>3. Cardinality(h) = Cardinality(old \ {m}) + 1
        BY <3>1, <4>1, <4>2, FS_AddElement
      <4> QED BY <1>4, <2>1, <4>1, <4>3
    <3>3. h \in SUBSET (1 .. n)
      BY <1>1, <1>3, <2>3, <3>1
    <3>4. ASSUME NEW x \in h, NEW y \in (1 .. n) \ h
          PROVE  ~B(y, x)
      <4>1. x \in 1 .. n /\ y \in 1 .. n /\ (x = n \/ (x \in old /\ x # m)) /\ (y = m \/ y \in (1 .. n - 1) \ old)
        BY <1>3, <3>1, <3>3
      <4>2. CASE x = n /\ y = m
        BY <1>2, <2>3, <2>4, <4>2
      <4>3. CASE x = n /\ y \in (1 .. n - 1) \ old
        <5>1. ~B(y, m)
          BY <1>1, <2>3, <4>3
        <5> QED BY <1>2, <2>3, <2>4, <4>1, <4>3, <5>1
      <4>4. CASE x \in old /\ y = m
        BY <2>3, <4>4
      <4>5. CASE x \in old /\ y \in (1 .. n - 1) \ old
        BY <1>1, <4>5
      <4> QED BY <4>1, <4>2, <4>3, <4>4, <4>5
    <3>5. Cardinality(h) <= keep
      BY <3>2
    <3> QED BY <3>2, <3>3, <3>4, <3>5 DEF KeepsLeast
  <2>5. CASE ~B(n, m)
    <3>1. h = old
      BY <2>2, <2>5
    <3>2. ASSUME NEW x \in h, NEW y \in (1 .. n) \ h
          PROVE  ~B(y, x)
      <4>1. x \in old /\ x \in 1 .. n /\ y \in 1 .. n /\ (y = n \/ y \in (1 .. n - 1) \ old)
        BY <1>1, <1>3, <3>1
      <4>2. CASE y = n
        BY <1>2, <2>3, <2>5, <4>1, <4>2
      <4>3. CASE y \in (1 .. n - 1) \ old
        BY <1>1, <4>1, <4>3
      <4> QED BY <4>1, <4>2, <4>3
    <3>3. h \in SUBSET (1 .. n) /\ Cardinality(h) = keep /\ Cardinality(h) <= keep
      BY <1>1, <1>3, <2>1, <3>1
    <3> QED BY <3>2, <3>3 DEF KeepsLeast
  <2> QED BY <2>4, <2>5
<1> QED BY <1>5, <1>6

LEMMA HeapKeeps ==
    ASSUME NEW V, NEW list, list \in Seq(V), NEW sort, OrderedBy(V, sort), NEW keep \in Nat,
           NEW h, h \in Heaps(list, sort, keep)
    PROVE  KeepsLeast(h, list, Len(list), sort, keep)
<1>1. Len(list) \in Nat /\ \A k \in 1 .. Len(list) : list[k] \in V
  OBVIOUS
<1>2. PICK g : /\ g[0] = {{}}
               /\ \A n \in 1 .. Len(list) : g[n] = NextHeaps(g[n - 1], list, n, sort, keep)
               /\ Heaps(list, sort, keep) = g[Len(list)]
  BY <1>1, HeapSteps
<1> DEFINE T == {n \in 0 .. Len(list) : \A x \in g[n] : KeepsLeast(x, list, n, sort, keep)}
<1>3. 0 \in T
  <2>1. KeepsLeast({}, list, 0, sort, keep)
    <3>1. Cardinality({}) = 0 /\ {} = 1 .. 0
      BY FS_EmptySet
    <3> QED BY <3>1 DEF KeepsLeast
  <2>2. g[0] = {{}}
    BY <1>2
  <2>3. \A x \in g[0] : KeepsLeast(x, list, 0, sort, keep)
    BY <2>1, <2>2
  <2>4. 0 \in 0 .. Len(list)
    BY <1>1
  <2> QED BY <2>3, <2>4
<1>4. ASSUME NEW n \in 1 .. Len(list), n - 1 \in T
      PROVE  n \in T
  <2> SUFFICES ASSUME NEW x \in g[n] PROVE KeepsLeast(x, list, n, sort, keep)
    BY <1>1
  <2>1. x \in NextHeaps(g[n - 1], list, n, sort, keep)
    BY <1>2
  <2>2. PICK old \in g[n - 1] : x \in KeepBest(list, old, n, sort, keep)
    BY <2>1 DEF NextHeaps
  <2>3. KeepsLeast(old, list, n - 1, sort, keep)
    BY <1>4
  <2>4. n \in Nat /\ n > 0 /\ \A k \in 1 .. n : list[k] \in V
    BY <1>1
  <2> QED BY <2>2, <2>3, <2>4, HeapStep
<1>5. Len(list) \in T
  <2> HIDE DEF T
  <2>1. \A n \in 0 + 1 .. Len(list) : n - 1 \in T => n \in T
    BY <1>4
  <2>2. Len(list) \in 0 .. Len(list)
    BY <1>1
  <2> QED BY <1>1, <1>3, <2>1, <2>2, Upward
<1> QED BY <1>2, <1>5

(* What the heap returns of the documents a set of ids has is a sorted list  *)
(* of as many as it keeps, or of all, and none of the others is before one. *)
LEMMA HeapLists ==
    ASSUME NEW contents, NEW M, NEW V, \A x \in M : contents[x] \in V, NEW t, Lists(t, M),
           NEW sort, OrderedBy(V, sort), NEW keep \in Nat, NEW s, s \in SortLimit(Image(contents, t), sort, keep)
    PROVE  \E A \in SUBSET M : \E r : /\ Lists(r, A) /\ s = Image(contents, r) /\ Sorted(s, sort)
                                        /\ (A = M \/ keep <= Len(r))
                                        /\ NoneAhead(contents, A, M, sort)
<1> DEFINE list == Image(contents, t)
<1>1. t \in Seq(M) /\ Len(t) \in Nat /\ DOMAIN t = 1 .. Len(t) /\ \A n \in 1 .. Len(t) : t[n] \in M
  BY DEF Lists
<1>2. list \in Seq(V) /\ Len(list) = Len(t)
  BY <1>1, ImageIsSequence
<1>3. \A n \in 1 .. Len(t) : list[n] = contents[t[n]]
  BY <1>1 DEF Image
<1> HIDE DEF list
<1>4. s \in {x \in {[k \in DOMAIN order |-> list[order[k]]] : order \in UNION {SetToSeqs(h) : h \in Heaps(list, sort, keep)}} : Sorted(x, sort)}
  BY DEF SortLimit, Heaps, NextHeaps, list
<1>5. PICK h \in Heaps(list, sort, keep) :
        \E order \in SetToSeqs(h) : s = [k \in DOMAIN order |-> list[order[k]]] /\ Sorted(s, sort)
  BY <1>4
<1>6. PICK order \in SetToSeqs(h) : s = [k \in DOMAIN order |-> list[order[k]]] /\ Sorted(s, sort)
  BY <1>5
<1>7. KeepsLeast(h, list, Len(t), sort, keep)
  BY <1>2, HeapKeeps
<1>8. /\ h \in SUBSET (1 .. Len(t)) /\ (h = 1 .. Len(t) \/ Cardinality(h) = keep)
      /\ \A x \in h, y \in (1 .. Len(t)) \ h : ~DocumentBefore(list[y], list[x], sort)
  BY <1>7 DEF KeepsLeast
<1>9. IsFiniteSet(h)
  <2>1. IsFiniteSet(1 .. Len(t))
    BY <1>1, FS_Interval
  <2> QED BY <1>8, <2>1, FS_Subset
<1>10. Lists(order, h) /\ Cardinality(h) = Len(order)
  BY <1>6, <1>9, SetToSeqsLists, ListsCount
<1>11. order \in Seq(h) /\ Len(order) \in Nat /\ DOMAIN order = 1 .. Len(order) /\ \A k \in 1 .. Len(order) : order[k] \in h
  BY <1>10 DEF Lists
<1> DEFINE r == [k \in 1 .. Len(order) |-> t[order[k]]]
           A == {t[x] : x \in h}
<1>12. A \in SUBSET M
  BY <1>1, <1>8
<1>13. r \in Seq(A) /\ Len(r) = Len(order) /\ DOMAIN r = 1 .. Len(order)
  <2>1. \A k \in 1 .. Len(order) : t[order[k]] \in A
    BY <1>11
  <2> HIDE DEF A
  <2>2. r \in [1 .. Len(order) -> A]
    BY <2>1
  <2> QED BY <1>11, <2>2
<1>14. \A k \in 1 .. Len(order) : r[k] = t[order[k]] /\ order[k] \in 1 .. Len(t) /\ order[k] \in h
  BY <1>8, <1>11
<1> HIDE DEF r
<1>15. Lists(r, A)
  <2>1. ASSUME NEW k \in DOMAIN r, NEW l \in DOMAIN r, r[k] = r[l] PROVE k = l
    <3>1. k \in 1 .. Len(order) /\ l \in 1 .. Len(order)
      BY <1>13
    <3>2. order[k] = order[l]
      BY <1>1, <1>14, <2>1, <3>1 DEF Lists
    <3> QED BY <1>10, <1>11, <3>1, <3>2 DEF Lists
  <2>2. ASSUME NEW x \in h PROVE \E k \in DOMAIN r : r[k] = t[x]
    <3>1. PICK k \in DOMAIN order : order[k] = x
      BY <1>10 DEF Lists
    <3> QED BY <1>11, <1>13, <1>14, <3>1
  <2> QED BY <1>13, <2>1, <2>2 DEF Lists
<1>16. s = Image(contents, r)
  <2>1. \A k \in 1 .. Len(order) : list[order[k]] = contents[r[k]]
    BY <1>3, <1>14
  <2> QED BY <1>6, <1>11, <1>13, <2>1 DEF Image
<1>17. A = M \/ keep <= Len(r)
  <2>1. h = 1 .. Len(t) => \A x \in M : \E k \in h : t[k] = x
    BY <1>1 DEF Lists
  <2>2. h = 1 .. Len(t) => A = M
    BY <1>12, <2>1
  <2>3. Cardinality(h) = keep => keep <= Len(r)
    BY <1>10, <1>13
  <2> QED BY <1>8, <2>2, <2>3
<1>18. ASSUME NEW x \in A, NEW y \in M \ A
       PROVE  ~DocumentBefore(contents[y], contents[x], sort)
  <2>1. PICK j \in h : x = t[j]
    OBVIOUS
  <2>2. PICK k \in 1 .. Len(t) : y = t[k]
    BY <1>1 DEF Lists
  <2>3. k \notin h /\ j \in 1 .. Len(t)
    BY <1>8, <2>2
  <2> QED BY <1>3, <1>8, <2>1, <2>2, <2>3
<1> HIDE DEF A
<1>19. Lists(r, A) /\ s = Image(contents, r) /\ Sorted(s, sort) /\ (A = M \/ keep <= Len(r))
  BY <1>6, <1>15, <1>16, <1>17
<1> QED BY <1>12, <1>18, <1>19 DEF NoneAhead

-----------------------------------------------------------------------------
(* The sort of a find.                                                      *)

(* What orders documents by each of its keys orders them.                   *)
LEMMA SortOrders ==
    ASSUME NEW V, NEW sort, DOMAIN sort \in SUBSET Nat, \A n \in DOMAIN sort : 1 .. n \in SUBSET DOMAIN sort,
           \A n \in DOMAIN sort : n > 0 /\
             \A p, q, r \in V : KeyBefore(p, q, sort[n]) =>
               ~KeyBefore(q, p, sort[n]) /\ (KeyBefore(p, r, sort[n]) \/ KeyBefore(r, q, sort[n]))
    PROVE  OrderedBy(V, sort)
<1> DEFINE B(n, x, y) == KeyBefore(x, y, sort[n])
           Same(n, x, y) == ~B(n, x, y) /\ ~B(n, y, x)
           First(n, x, y) == B(n, x, y) /\ \A m \in 1 .. n - 1 : Same(m, x, y)
<1>1. \A x, y : DocumentBefore(x, y, sort) <=> \E n \in DOMAIN sort : First(n, x, y)
  BY DEF DocumentBefore
<1>2. \A n \in DOMAIN sort : \A x, y, z \in V : B(n, x, y) => ~B(n, y, x) /\ (B(n, x, z) \/ B(n, z, y))
  OBVIOUS
<1>3. \A n \in DOMAIN sort : n \in Nat /\ n > 0 /\ 1 .. n \in SUBSET DOMAIN sort
  OBVIOUS
<1> HIDE DEF B
<1> SUFFICES ASSUME NEW p \in V, NEW q \in V, NEW r \in V, DocumentBefore(p, q, sort)
             PROVE  ~DocumentBefore(q, p, sort) /\ (DocumentBefore(p, r, sort) \/ DocumentBefore(r, q, sort))
  BY DEF OrderedBy
<1>4. PICK n \in DOMAIN sort : First(n, p, q)
  BY <1>1
<1>5. ASSUME NEW m \in DOMAIN sort, First(m, q, p) PROVE FALSE
  <2>1. m \in Nat /\ n \in Nat /\ m > 0 /\ n > 0
    BY <1>3
  <2>2. m = n \/ m \in 1 .. n - 1 \/ n \in 1 .. m - 1
    BY <2>1
  <2> QED BY <1>2, <1>4, <1>5, <2>2
<1>6. \E m \in DOMAIN sort : First(m, p, r) \/ First(m, r, q)
  <2> DEFINE T == {m \in 1 .. n : ~Same(m, p, r) \/ ~Same(m, r, q)}
  <2>1. n \in T
    <3>1. B(n, p, r) \/ B(n, r, q)
      BY <1>2, <1>4
    <3>2. n \in 1 .. n
      BY <1>3
    <3> QED BY <3>1, <3>2
  <2>2. T \in SUBSET Nat
    OBVIOUS
  <2>3. PICK m \in T : \A k \in T : m <= k
    <3> HIDE DEF T
    <3> QED BY <2>1, <2>2, LeastNatural
  <2>4. m \in 1 .. n /\ m \in DOMAIN sort /\ n \in Nat
    BY <1>3, <2>3
  <2>5. \A k \in 1 .. m - 1 : Same(k, p, r) /\ Same(k, r, q)
    <3> SUFFICES ASSUME NEW k \in 1 .. m - 1 PROVE Same(k, p, r) /\ Same(k, r, q)
      OBVIOUS
    <3>1. k \in 1 .. n /\ ~(m <= k)
      BY <2>4
    <3>2. k \notin T
      <4> HIDE DEF T
      <4> QED BY <2>3, <3>1
    <3> QED BY <3>1, <3>2
  <2>6. B(m, p, r) \/ B(m, r, q)
    <3>1. CASE m = n
      BY <1>2, <1>4, <3>1
    <3>2. CASE m # n
      <4>1. m \in 1 .. n - 1
        BY <2>4, <3>2
      <4>2. Same(m, p, q)
        BY <1>4, <4>1
      <4>3. ~Same(m, p, r) \/ ~Same(m, r, q)
        BY <2>3
      <4> QED BY <1>2, <2>4, <4>2, <4>3
    <3> QED BY <3>1, <3>2
  <2> QED BY <2>4, <2>5, <2>6
<1> QED BY <1>1, <1>5, <1>6

LEMMA WindowOrders ==
    ASSUME NEW w \in Windows
    PROVE  OrderedBy(Storable, w.sort) /\ w.skip \in Nat /\ w.limit \in Nat
<1>1. /\ w.skip \in Nat /\ w.limit \in Nat /\ w.sort \in Seq(Range(w.sort))
      /\ \A key \in Range(w.sort) :
           LET values == {SortKey(d, key) : d \in Storable}
               before == {pair \in values \X values : CompareOrderForSort(pair[1], pair[2], key.ascending)}
           IN \A a, b \in values : <<a, b>> \in before =>
                <<b, a>> \notin before /\ \A c \in values : <<a, c>> \in before \/ <<c, b>> \in before
  BY WindowsAssumption
<1> DEFINE sort == w.sort
<1>2. Len(sort) \in Nat /\ DOMAIN sort = 1 .. Len(sort) /\ \A n \in DOMAIN sort : sort[n] \in Range(sort)
  BY <1>1 DEF Range
<1>3. ASSUME NEW key \in Range(sort), NEW p \in Storable, NEW q \in Storable, NEW r \in Storable, KeyBefore(p, q, key)
      PROVE  ~KeyBefore(q, p, key) /\ (KeyBefore(p, r, key) \/ KeyBefore(r, q, key))
  <2> DEFINE values == {SortKey(d, key) : d \in Storable}
             before == {pair \in values \X values : CompareOrderForSort(pair[1], pair[2], key.ascending)}
  <2>1. \A a, b \in values : <<a, b>> \in before =>
          <<b, a>> \notin before /\ \A c \in values : <<a, c>> \in before \/ <<c, b>> \in before
    BY <1>1
  <2>2. \A x, y \in Storable : <<SortKey(x, key), SortKey(y, key)>> \in before <=> KeyBefore(x, y, key)
    BY DEF KeyBefore
  <2>3. SortKey(p, key) \in values /\ SortKey(q, key) \in values /\ SortKey(r, key) \in values
    OBVIOUS
  <2> HIDE DEF values, before
  <2> QED BY <1>3, <2>1, <2>2, <2>3
<1> HIDE DEF sort
<1>4. DOMAIN sort \in SUBSET Nat /\ \A n \in DOMAIN sort : n > 0 /\ 1 .. n \in SUBSET DOMAIN sort
  BY <1>2
<1>5. \A n \in DOMAIN sort : \A p, q, r \in Storable : KeyBefore(p, q, sort[n]) =>
        ~KeyBefore(q, p, sort[n]) /\ (KeyBefore(p, r, sort[n]) \/ KeyBefore(r, q, sort[n]))
  BY <1>2, <1>3
<1>6. OrderedBy(Storable, sort)
  BY <1>4, <1>5, SortOrders
<1> QED BY <1>1, <1>6 DEF sort

-----------------------------------------------------------------------------
(* Finds.                                                                   *)

LimitPushed(filter, w) == IF filter = {} /\ w.sort = <<>> /\ w.skip = 0 THEN w.limit ELSE 0

(* A find that goes through a set of documents, in any order, returns the   *)
(* window it is asked for of a sorted order of those that match.            *)
LEMMA FoundWindow ==
    ASSUME NEW contents, NEW S, IsFiniteSet(S), \A x \in S : contents[x] \in Storable, NEW order, Lists(order, S),
           NEW filter, NEW w \in Windows,
           NEW result \in FindIter(FilterIterator(Image(contents, Limit(order, LimitPushed(filter, w))), filter), w)
    PROVE  \E s \in OrdersOf(contents, MatchesOf(contents, S, filter)) :
             Sorted(s, w.sort) /\ result = Limit(Skip(s, w.skip), w.limit)
<1>1. PICK skip \in Nat, limit \in Nat : OrderedBy(Storable, w.sort) /\ skip = w.skip /\ limit = w.limit
  BY WindowOrders
<1>2. PICK pushed \in Nat : pushed = LimitPushed(filter, w)
  BY <1>1 DEF LimitPushed
<1> DEFINE sort == w.sort
           t == Limit(order, pushed)
           M == MatchesOf(contents, S, filter)
<1>3. PICK B \in SUBSET S : Lists(t, B) /\ (B = S \/ (pushed > 0 /\ Len(t) = pushed))
  BY LimitLists
<1> HIDE DEF t, sort
<1> DEFINE C == MatchesOf(contents, B, filter)
<1>4. PICK u : Lists(u, C) /\ result \in FindIter(Image(contents, u), w)
  <2>1. \E u : Lists(u, C) /\ FilterIterator(Image(contents, t), filter) = Image(contents, u)
    BY <1>3, FilterLists
  <2> QED BY <1>2, <2>1 DEF t
<1>5. C \in SUBSET M /\ IsFiniteSet(M) /\ \A x \in M : contents[x] \in Storable
  <2>1. M \in SUBSET S /\ C \in SUBSET M
    BY DEF MatchesOf
  <2> QED BY <2>1, FS_Subset
<1>6. C = M \/ (sort = <<>> /\ skip = 0 /\ limit > 0 /\ Cardinality(C) = limit)
  <2>1. CASE B = S
    BY <2>1
  <2>2. CASE pushed > 0 /\ Len(t) = pushed
    <3>1. filter = {} /\ sort = <<>> /\ skip = 0 /\ pushed = limit
      BY <1>1, <1>2, <2>2 DEF LimitPushed, sort
    <3>2. C = B
      BY <3>1 DEF FilterDocument, MatchesOf
    <3>3. Cardinality(B) = Len(t)
      BY <1>3, ListsCount
    <3> QED BY <2>2, <3>1, <3>2, <3>3
  <2> QED BY <1>3, <2>1, <2>2
<1> HIDE DEF C, M
<1>7. OrderedBy(Storable, sort)
  BY <1>1 DEF sort
<1>8. CASE sort # <<>> /\ limit > 0
  <2>1. Lists(u, M)
    BY <1>4, <1>6, <1>8
  <2>2. PICK keep \in Nat : keep = skip + limit
    OBVIOUS
  <2>3. PICK s \in SortLimit(Image(contents, u), sort, keep) : result = Limit(Skip(s, skip), limit)
    BY <1>1, <1>4, <1>8, <2>2 DEF FindIter, sort
  <2>4. PICK A \in SUBSET M : \E r : /\ Lists(r, A) /\ s = Image(contents, r) /\ Sorted(s, sort)
                                     /\ (A = M \/ keep <= Len(r))
                                     /\ NoneAhead(contents, A, M, sort)
    BY <1>5, <1>7, <2>1, HeapLists
  <2>5. PICK r : /\ Lists(r, A) /\ s = Image(contents, r) /\ Sorted(s, sort)
                 /\ (A = M \/ keep <= Len(r))
                 /\ NoneAhead(contents, A, M, sort)
    BY <2>4
  <2>6. Sorted(Image(contents, r), sort) /\ (A = M \/ (limit > 0 /\ skip + limit <= Len(r)))
    BY <1>8, <2>2, <2>5
  <2>7. WindowFrom(contents, r, M, sort, skip, limit)
    BY <1>5, <1>7, <2>5, <2>6, WindowExtends
  <2>8. result = Limit(Skip(Image(contents, r), skip), limit)
    BY <2>3, <2>5
  <2> QED BY <1>1, <2>7, <2>8 DEF WindowFrom, M, sort
<1>9. CASE ~(sort # <<>> /\ limit > 0)
  <2>1. \A x \in C : contents[x] \in Storable
    BY <1>5
  <2>2. PICK r : /\ Lists(r, C)
                 /\ SortDocuments(Image(contents, u), sort) = Image(contents, r)
                 /\ OrderedBy(Storable, sort) => Sorted(Image(contents, r), sort)
    BY <1>4, <2>1, SortLists
  <2>3. Sorted(Image(contents, r), sort)
    BY <1>7, <2>2
  <2>4. result = Limit(Skip(Image(contents, r), skip), limit)
    BY <1>1, <1>4, <1>9, <2>2 DEF FindIter, sort
  <2>5. Cardinality(C) = Len(r) /\ Len(r) \in Nat
    BY <2>2, ListsCount DEF Lists
  <2>6. C = M \/ (limit > 0 /\ skip + limit <= Len(r))
    BY <1>6, <2>5
  <2>7. NoneAhead(contents, C, M, sort)
    <3>1. CASE C = M
      BY <3>1 DEF NoneAhead
    <3>2. CASE sort = <<>>
      BY <3>2 DEF DocumentBefore, NoneAhead
    <3> QED BY <1>6, <3>1, <3>2
  <2>8. WindowFrom(contents, r, M, sort, skip, limit)
    BY <1>5, <1>7, <2>2, <2>3, <2>6, <2>7, WindowExtends
  <2> QED BY <1>1, <2>4, <2>8 DEF WindowFrom, M, sort
<1> QED BY <1>8, <1>9

(* A find misses nothing, but for the known gaps.                           *)
LEMMA FindAnswers ==
    ASSUME Contained(docs), NEW filter \in Filters, NEW window \in Windows, Find(filter, window)
    PROVE  FindsMissNothing'
<1> DEFINE pushed == LimitPushed(filter, window)
           selected == {i \in DOMAIN docs : Candidate(docs[i], PushedPart("find", filter))}
           missed == {i \in DOMAIN docs : FilterDocument(docs[i], filter) /\ i \notin selected}
           ids == DOMAIN docs \ missed
           found == MatchesOf(docs, selected, filter)
<1>1. PICK order \in SetToSeqs(selected) :
        \E result \in FindIter(FilterIterator(InOrder(Limit(order, pushed)), filter), window) :
          answer' = [command |-> "find", filter |-> filter, ids |-> {}, before |-> docs,
                     more |-> [window |-> window, result |-> result]]
  BY DEF Find, Answer, LimitPushed
<1>2. PICK result \in FindIter(FilterIterator(InOrder(Limit(order, pushed)), filter), window) :
        answer' = [command |-> "find", filter |-> filter, ids |-> {}, before |-> docs,
                   more |-> [window |-> window, result |-> result]]
  BY <1>1
<1>3. IsFiniteSet(DOMAIN docs) /\ \A i \in DOMAIN docs : docs[i] \in Storable
  BY DEF Contained, Bounded
<1>4. \A i \in missed : KnownGap(docs[i], PushedPart("find", filter))
  <2> SUFFICES ASSUME NEW i \in missed PROVE KnownGap(docs[i], PushedPart("find", filter))
    OBVIOUS
  <2>1. docs[i] \in Storable /\ FilterDocument(docs[i], filter) /\ ~Candidate(docs[i], PushedPart("find", filter))
    BY <1>3
  <2>2. filter \in Selectors
    BY CommandsAssumption
  <2> QED BY <2>1, <2>2, OnlyGapsLose
<1>5. Matching' = {i \in DOMAIN docs : FilterDocument(docs[i], filter)}
  BY <1>2 DEF Matching
<1>6. ids \in Seen'
  <2>1. \A i \in DOMAIN docs : Lost(i)' <=> KnownGap(docs[i], PushedPart("find", filter))
    BY <1>2 DEF Lost
  <2>2. missed \in SUBSET {i \in Matching' : Lost(i)'}
    BY <1>4, <1>5, <2>1
  <2>3. answer'.before = docs
    BY <1>2
  <2> HIDE DEF missed
  <2> QED BY <2>2, <2>3 DEF Seen
<1>7. ids \intersect Matching' = found
  BY <1>5 DEF MatchesOf
<1>8. selected \in SUBSET DOMAIN docs
  OBVIOUS
<1> HIDE DEF selected, ids
<1>9. IsFiniteSet(selected) /\ \A i \in selected : docs[i] \in Storable
  BY <1>3, <1>8, FS_Subset
<1>10. Lists(order, selected)
  BY <1>1, <1>9, SetToSeqsLists
<1>11. result \in FindIter(FilterIterator(Image(docs, Limit(order, pushed)), filter), window)
  BY <1>2 DEF InOrder, Image
<1>12. \E s \in OrdersOf(docs, found) :
         Sorted(s, window.sort) /\ result = Limit(Skip(s, window.skip), window.limit)
  BY <1>9, <1>10, <1>11, FoundWindow
<1>13. answer'.before = docs /\ answer'.more.window = window /\ answer'.more.result = result
  BY <1>2
<1>14. \E b \in Seen' : \E s \in OrdersOf(docs, b \intersect Matching') :
         Sorted(s, window.sort) /\ result = Limit(Skip(s, window.skip), window.limit)
  BY <1>6, <1>7, <1>12
<1> QED BY <1>13, <1>14 DEF FindsMissNothing, Orders, OrdersOf

(* No query misses a document that matches, but for the known gaps: a count *)
(* counts them all, a find returns the window it is asked for of a sorted   *)
(* order of them, and a pipeline returns what it makes of the whole         *)
(* collection (msg_count.go, msg_find.go, msg_aggregate.go).                *)
THEOREM QueriesAreComplete == Spec => []QueriesMissNothing
<1>1. Init => FindsMissNothing /\ PipelinesMissNothing
  BY DEF Init, Idle, FindsMissNothing, PipelinesMissNothing
<1>2. FindsMissNothing /\ PipelinesMissNothing /\ ContentsInv /\ [Next]_vars => FindsMissNothing' /\ PipelinesMissNothing'
  <2> SUFFICES ASSUME FindsMissNothing, PipelinesMissNothing, Contained(docs), [Next]_vars
               PROVE  FindsMissNothing' /\ PipelinesMissNothing'
    BY DEF ContentsInv
  <2>1. CASE vars' = vars
    <3>1. answer' = answer
      BY <2>1 DEF vars
    <3>2. FindsMissNothing' <=> FindsMissNothing
      BY <3>1 DEF FindsMissNothing, Seen, Orders, Matching, Lost
    <3>3. PipelinesMissNothing' <=> PipelinesMissNothing
      BY <3>1 DEF PipelinesMissNothing, Seen, Orders, Matching, Lost
    <3> QED BY <3>2, <3>3
  <2>2. CASE answer'.command \notin {"find", "aggregate"}
    BY <2>2 DEF FindsMissNothing, PipelinesMissNothing
  <2>3. ASSUME NEW filter \in Filters, NEW window \in Windows, Find(filter, window)
        PROVE  FindsMissNothing' /\ PipelinesMissNothing'
    <3>1. answer'.command = "find"
      BY <2>3 DEF Find, Answer
    <3> QED BY <2>3, <3>1, FindAnswers DEF PipelinesMissNothing
  <2>4. ASSUME NEW stages \in Aggregations, Aggregate(stages)
        PROVE  FindsMissNothing' /\ PipelinesMissNothing'
    <3>1. answer'.command = "aggregate"
      BY <2>4 DEF Aggregate, Answer
    <3> QED BY <2>4, <3>1, AggregateAnswers DEF FindsMissNothing
  <2>5. ASSUME NEW request \in Inserts, Insert(request) PROVE answer'.command \notin {"find", "aggregate"}
    BY <2>5, InsertAnswers
  <2>6. ASSUME NEW filter \in Filters, Count(filter) PROVE answer'.command \notin {"find", "aggregate"}
    BY <2>6, CountAnswers
  <2>7. ASSUME NEW r \in Requests, Update(r.filter, r.change, r.multi, r.upsert)
        PROVE  answer'.command \notin {"find", "aggregate"}
    BY <2>7, UpdateAnswers
  <2>8. ASSUME NEW filter \in Filters, NEW limited \in BOOLEAN, Delete(filter, limited)
        PROVE  answer'.command \notin {"find", "aggregate"}
    BY <2>8 DEF Delete, Answer
  <2>9. ASSUME NEW document, NEW fields, Compute(document, fields) \/ Project(document, fields)
        PROVE  answer'.command \notin {"find", "aggregate"}
    BY <2>9 DEF Compute, Project
  <2>10. ASSUME Reply PROVE answer'.command \notin {"find", "aggregate"}
    BY <2>10 DEF Reply, Idle
  <2> QED BY <2>1, <2>2, <2>3, <2>4, <2>5, <2>6, <2>7, <2>8, <2>9, <2>10 DEF Next, vars
<1> QED BY <1>1, <1>2, Contents, CountsAreComplete, PTL DEF Spec, QueriesMissNothing


-----------------------------------------------------------------------------
(* Groups.                                                                 *)

(* The steps by which documents are grouped.                               *)
GroupsBySteps(list, keys) ==
  \E g : /\ g[0] = <<>>
         /\ \A n \in 1 .. Len(list) : g[n] = AddOrAppend(g[n - 1], keys[n], list[n])
         /\ GroupDocuments(list, keys) = g[Len(list)]

LEMMA GroupSteps ==
    ASSUME NEW list, Len(list) \in Nat, NEW keys
    PROVE  GroupsBySteps(list, keys)
<1> DEFINE length == Len(list)
           Eq(g, b) == g = [n \in 0 .. b |-> IF n = 0 THEN <<>> ELSE AddOrAppend(g[n - 1], keys[n], list[n])]
           T == {b \in 0 .. length : \E g : Eq(g, b)}
<1>1. length \in Nat
  OBVIOUS
<1>2. GroupDocuments(list, keys) = (CHOOSE g : Eq(g, length))[length]
  BY DEF GroupDocuments
<1> HIDE DEF length
<1>3. 0 \in T
  <2> DEFINE g == [n \in 0 .. 0 |-> <<>>]
  <2>1. Eq(g, 0)
    OBVIOUS
  <2> HIDE DEF g
  <2> QED BY <2>1, <1>1
<1>4. ASSUME NEW b \in 1 .. length, b - 1 \in T
      PROVE  b \in T
  <2>1. PICK g : Eq(g, b - 1)
    BY <1>4
  <2> DEFINE h == [n \in 0 .. b |-> IF n = b THEN AddOrAppend(g[b - 1], keys[b], list[b]) ELSE g[n]]
  <2>2. \A n \in 0 .. b : h[n] = IF n = 0 THEN <<>> ELSE AddOrAppend(h[n - 1], keys[n], list[n])
    <3> SUFFICES ASSUME NEW n \in 0 .. b
                 PROVE  h[n] = IF n = 0 THEN <<>> ELSE AddOrAppend(h[n - 1], keys[n], list[n])
      OBVIOUS
    <3>1. CASE n = b
      BY <3>1, <1>1
    <3>2. CASE n # b
      <4>1. n \in 0 .. b - 1 /\ (n # 0 => n - 1 \in 0 .. b /\ n - 1 # b)
        BY <3>2, <1>1
      <4>2. g[n] = IF n = 0 THEN <<>> ELSE AddOrAppend(g[n - 1], keys[n], list[n])
        BY <2>1, <4>1
      <4> QED BY <3>2, <4>1, <4>2
    <3> QED BY <3>1, <3>2
  <2>3. Eq(h, b)
    BY <2>2
  <2> HIDE DEF h
  <2> QED BY <2>3, <1>1
<1>5. length \in T
  <2> HIDE DEF T
  <2>1. \A b \in 0 + 1 .. length : b - 1 \in T => b \in T
    BY <1>4
  <2>2. length \in 0 .. length
    BY <1>1
  <2> QED BY <1>1, <1>3, <2>1, <2>2, Upward
<1>6. PICK g : Eq(g, length) /\ g = CHOOSE h : Eq(h, length)
  <2> HIDE DEF Eq
  <2> QED BY <1>5
<1>7. \A n \in 0 .. length : g[n] = IF n = 0 THEN <<>> ELSE AddOrAppend(g[n - 1], keys[n], list[n])
  BY <1>6
<1>8. g[0] = <<>> /\ \A n \in 1 .. length : g[n] = AddOrAppend(g[n - 1], keys[n], list[n])
  BY <1>7, <1>1
<1>9. GroupDocuments(list, keys) = g[length]
  BY <1>2, <1>6
<1> HIDE DEF Eq
<1> QED BY <1>8, <1>9 DEF GroupsBySteps, length

(* The steps by which the fields of a group are computed.                  *)
OnlyId(group) == [key \in {"_id"} |-> group.key]
NextField(prior, group, output, n) ==
  Put(prior, output[n].field, Accumulate(output[n].op, output[n].of, IF n = 1 THEN group.docs ELSE <<>>))
FieldsBySteps(group, output) ==
  \E g : /\ g[0] = OnlyId(group)
         /\ \A n \in 1 .. Len(output) : g[n] = NextField(g[n - 1], group, output, n)
         /\ GroupFields(group, output) = g[Len(output)]

LEMMA FieldSteps ==
    ASSUME NEW group, NEW output, Len(output) \in Nat
    PROVE  FieldsBySteps(group, output)
<1> DEFINE length == Len(output)
           Eq(g, b) == g = [n \in 0 .. b |-> IF n = 0 THEN OnlyId(group) ELSE NextField(g[n - 1], group, output, n)]
           T == {b \in 0 .. length : \E g : Eq(g, b)}
<1>1. length \in Nat
  OBVIOUS
<1>2. GroupFields(group, output) = (CHOOSE g : Eq(g, length))[length]
  BY DEF GroupFields, OnlyId, NextField
<1> HIDE DEF length
<1>3. 0 \in T
  <2> DEFINE g == [n \in 0 .. 0 |-> OnlyId(group)]
  <2>1. Eq(g, 0)
    OBVIOUS
  <2> HIDE DEF g
  <2> QED BY <2>1, <1>1
<1>4. ASSUME NEW b \in 1 .. length, b - 1 \in T
      PROVE  b \in T
  <2>1. PICK g : Eq(g, b - 1)
    BY <1>4
  <2> DEFINE h == [n \in 0 .. b |-> IF n = b THEN NextField(g[b - 1], group, output, b) ELSE g[n]]
  <2>2. \A n \in 0 .. b : h[n] = IF n = 0 THEN OnlyId(group) ELSE NextField(h[n - 1], group, output, n)
    <3> SUFFICES ASSUME NEW n \in 0 .. b
                 PROVE  h[n] = IF n = 0 THEN OnlyId(group) ELSE NextField(h[n - 1], group, output, n)
      OBVIOUS
    <3>1. CASE n = b
      BY <3>1, <1>1
    <3>2. CASE n # b
      <4>1. n \in 0 .. b - 1 /\ (n # 0 => n - 1 \in 0 .. b /\ n - 1 # b)
        BY <3>2, <1>1
      <4>2. g[n] = IF n = 0 THEN OnlyId(group) ELSE NextField(g[n - 1], group, output, n)
        BY <2>1, <4>1
      <4> QED BY <3>2, <4>1, <4>2
    <3> QED BY <3>1, <3>2
  <2>3. Eq(h, b)
    BY <2>2
  <2> HIDE DEF h
  <2> QED BY <2>3, <1>1
<1>5. length \in T
  <2> HIDE DEF T
  <2>1. \A b \in 0 + 1 .. length : b - 1 \in T => b \in T
    BY <1>4
  <2>2. length \in 0 .. length
    BY <1>1
  <2> QED BY <1>1, <1>3, <2>1, <2>2, Upward
<1>6. PICK g : Eq(g, length) /\ g = CHOOSE h : Eq(h, length)
  <2> HIDE DEF Eq
  <2> QED BY <1>5
<1>7. \A n \in 0 .. length : g[n] = IF n = 0 THEN OnlyId(group) ELSE NextField(g[n - 1], group, output, n)
  BY <1>6
<1>8. g[0] = OnlyId(group) /\ \A n \in 1 .. length : g[n] = NextField(g[n - 1], group, output, n)
  BY <1>7, <1>1
<1>9. GroupFields(group, output) = g[length]
  BY <1>2, <1>6
<1> HIDE DEF Eq
<1> QED BY <1>8, <1>9 DEF FieldsBySteps, length

(* Keys are the same for a group when they are equal.                      *)
LEMMA KeysAreValues ==
    ASSUME NEW a \in Bson, NEW b \in Bson
    PROVE  SameKey(a, b) <=> a = b
<1>1. SameKey(a, b) => a = b
  BY EqualsSame DEF SameKey
<1>2. SameKey(a, a)
  BY DEF SameKey, SameType, Equals
<1> QED BY <1>1, <1>2

(* The positions of a key, and a group that has what is there, in order.   *)
WithKey(keys, n, key) == {m \in 1 .. n : keys[m] = key}
Increasing(t) == \A a, b \in DOMAIN t : a < b => t[a] < t[b]
HasThose(group, list, keys, n) ==
  \E t : Lists(t, WithKey(keys, n, group.key)) /\ Increasing(t) /\ group.docs = Image(list, t)

Parted(groups, V, list, keys, n) ==
  /\ groups \in Seq([key : Bson, docs : Seq(V)])
  /\ \A i, j \in DOMAIN groups : groups[i].key = groups[j].key => i = j
  /\ \A m \in 1 .. n : \E i \in DOMAIN groups : groups[i].key = keys[m]
  /\ \A i \in DOMAIN groups : \E m \in 1 .. n : groups[i].key = keys[m]
  /\ \A i \in DOMAIN groups : HasThose(groups[i], list, keys, n)

(* A group that a document does not belong to stays as it is.              *)
LEMMA OthersStay ==
    ASSUME NEW group, NEW list, NEW keys, NEW n \in Nat, n > 0, group.key # keys[n], HasThose(group, list, keys, n - 1)
    PROVE  HasThose(group, list, keys, n)
<1>1. WithKey(keys, n, group.key) = WithKey(keys, n - 1, group.key)
  <2>1. \A m : m \in 1 .. n <=> m \in 1 .. n - 1 \/ m = n
    OBVIOUS
  <2> QED BY <2>1 DEF WithKey
<1> QED BY <1>1 DEF HasThose

(* The group of a document gets it.                                        *)
LEMMA OwnGrows ==
    ASSUME NEW group, NEW list, NEW keys, NEW n \in Nat, n > 0, group.key = keys[n], HasThose(group, list, keys, n - 1),
           NEW new, new.key = keys[n], new.docs = Append(group.docs, list[n])
    PROVE  HasThose(new, list, keys, n)
<1> DEFINE S == WithKey(keys, n - 1, keys[n])
<1>1. PICK t : Lists(t, S) /\ Increasing(t) /\ group.docs = Image(list, t)
  BY DEF HasThose
<1>2. n \notin S /\ WithKey(keys, n, keys[n]) = S \union {n} /\ \A m \in S : m \in Nat /\ m < n
  <2>1. \A m : m \in 1 .. n <=> m \in 1 .. n - 1 \/ m = n
    OBVIOUS
  <2>2. \A m \in 1 .. n - 1 : m \in Nat /\ m < n
    OBVIOUS
  <2> QED BY <2>1, <2>2 DEF WithKey
<1> HIDE DEF S
<1> DEFINE u == Append(t, n)
<1>3. Lists(u, S \union {n}) /\ Image(list, u) = Append(Image(list, t), list[n])
  <2>1. Lists(Append(t, n), S \union {n}) /\ AppendsTo(list, t, n)
    BY <1>1, <1>2, ListsAppended
  <2> QED BY <2>1 DEF AppendsTo
<1>4. t \in Seq(S) /\ Len(t) \in Nat /\ DOMAIN t = 1 .. Len(t) /\ \A k \in 1 .. Len(t) : t[k] \in S
  BY <1>1 DEF Lists
<1>5. DOMAIN u = 1 .. Len(t) + 1 /\ u[Len(t) + 1] = n /\ \A k \in 1 .. Len(t) : u[k] = t[k]
  BY <1>4
<1> HIDE DEF u
<1>6. ASSUME NEW a \in DOMAIN u, NEW b \in DOMAIN u, a < b PROVE u[a] < u[b]
  <2>1. a \in 1 .. Len(t) /\ u[a] = t[a] /\ t[a] \in S
    BY <1>4, <1>5, <1>6
  <2>2. CASE b = Len(t) + 1
    BY <1>2, <1>5, <2>1, <2>2
  <2>3. CASE b # Len(t) + 1
    <3>1. b \in 1 .. Len(t) /\ u[b] = t[b]
      BY <1>4, <1>5, <2>3
    <3> QED BY <1>1, <1>4, <1>6, <2>1, <3>1 DEF Increasing
  <2> QED BY <2>2, <2>3
<1>7. Lists(u, WithKey(keys, n, new.key)) /\ Increasing(u) /\ new.docs = Image(list, u)
  BY <1>1, <1>2, <1>3, <1>6 DEF Increasing
<1> QED BY <1>7 DEF HasThose

(* A document with a key of its own is a group.                            *)
LEMMA NewGroup ==
    ASSUME NEW group, NEW list, NEW keys, NEW n \in Nat, n > 0, \A m \in 1 .. n - 1 : keys[m] # keys[n],
           group.key = keys[n], group.docs = <<list[n]>>
    PROVE  HasThose(group, list, keys, n)
<1>1. WithKey(keys, n, keys[n]) = {n}
  <2>1. \A m : m \in 1 .. n <=> m \in 1 .. n - 1 \/ m = n
    OBVIOUS
  <2> QED BY <2>1 DEF WithKey
<1>2. Lists(<<n>>, {n}) /\ Increasing(<<n>>)
  BY DEF Lists, Increasing
<1>3. <<list[n]>> = Image(list, <<n>>)
  BY DEF Image
<1> QED BY <1>1, <1>2, <1>3 DEF HasThose

LEMMA GroupStep ==
    ASSUME NEW V, NEW list, list \in Seq(V), NEW keys, \A m \in 1 .. Len(list) : keys[m] \in Bson,
           NEW n \in 1 .. Len(list), NEW groups, Parted(groups, V, list, keys, n - 1)
    PROVE  Parted(AddOrAppend(groups, keys[n], list[n]), V, list, keys, n)
<1> DEFINE G == [key : Bson, docs : Seq(V)]
           key == keys[n]
           d == list[n]
           same == {i \in DOMAIN groups : SameKey(key, groups[i].key)}
           new == AddOrAppend(groups, key, d)
<1>1. /\ Len(list) \in Nat /\ n \in Nat /\ n > 0 /\ key \in Bson /\ d \in V
      /\ \A m : m \in 1 .. n <=> m \in 1 .. n - 1 \/ m = n
  OBVIOUS
<1>2. /\ groups \in Seq(G) /\ Len(groups) \in Nat /\ DOMAIN groups = 1 .. Len(groups)
      /\ \A i, j \in DOMAIN groups : groups[i].key = groups[j].key => i = j
      /\ \A m \in 1 .. n - 1 : \E i \in DOMAIN groups : groups[i].key = keys[m]
      /\ \A i \in DOMAIN groups : \E m \in 1 .. n - 1 : groups[i].key = keys[m]
      /\ \A i \in DOMAIN groups : HasThose(groups[i], list, keys, n - 1)
  <2>1. groups \in Seq(G)
    BY DEF Parted
  <2>2. Len(groups) \in Nat /\ DOMAIN groups = 1 .. Len(groups)
    BY <2>1
  <2> HIDE DEF G
  <2> QED BY <2>1, <2>2 DEF Parted
<1>3. \A i \in 1 .. Len(groups) : groups[i] \in G /\ groups[i].key \in Bson /\ groups[i].docs \in Seq(V)
  <2>1. \A i \in 1 .. Len(groups) : groups[i] \in G
    <3> HIDE DEF G
    <3> QED BY <1>2
  <2> QED BY <2>1
<1>4. same = {i \in 1 .. Len(groups) : groups[i].key = key}
  <2>1. \A i \in 1 .. Len(groups) : SameKey(key, groups[i].key) <=> groups[i].key = key
    BY <1>1, <1>3, KeysAreValues
  <2> QED BY <1>2, <2>1
<1>5. CASE same = {}
  <2> DEFINE group == [key |-> key, docs |-> <<d>>]
  <2>1. new = Append(groups, group)
    BY <1>5 DEF AddOrAppend
  <2>2. group \in G /\ group.key = key /\ group.docs = <<d>>
    BY <1>1
  <2> HIDE DEF group, G
  <2>3. /\ new \in Seq(G) /\ Len(new) = Len(groups) + 1 /\ DOMAIN new = 1 .. Len(groups) + 1
        /\ new[Len(groups) + 1] = group /\ \A i \in 1 .. Len(groups) : new[i] = groups[i]
    <3> HIDE DEF new
    <3>1. new \in Seq(G) /\ new = Append(groups, group)
      BY <1>2, <2>1, <2>2
    <3> QED BY <1>2, <3>1
  <2> HIDE DEF new
  <2>4. \A i \in 1 .. Len(groups) : groups[i].key # key
    BY <1>4, <1>5
  <2>5. \A m \in 1 .. n - 1 : keys[m] # key
    BY <1>2, <2>4
  <2>6. \A i \in DOMAIN new : i = Len(groups) + 1 \/ i \in 1 .. Len(groups)
    BY <1>2, <2>3
  <2>7. \A i, j \in DOMAIN new : new[i].key = new[j].key => i = j
    <3> SUFFICES ASSUME NEW i \in DOMAIN new, NEW j \in DOMAIN new, new[i].key = new[j].key PROVE i = j
      OBVIOUS
    <3>1. \A k \in 1 .. Len(groups) : k \in DOMAIN groups /\ new[k] = groups[k] /\ groups[k].key # key
      BY <1>2, <2>3, <2>4
    <3>2. new[Len(groups) + 1].key = key
      BY <2>2, <2>3
    <3>3. CASE i \in 1 .. Len(groups) /\ j \in 1 .. Len(groups)
      BY <1>2, <3>1, <3>3
    <3>4. CASE ~(i \in 1 .. Len(groups) /\ j \in 1 .. Len(groups))
      BY <2>6, <3>1, <3>2, <3>4
    <3> QED BY <3>3, <3>4
  <2>8. ASSUME NEW m \in 1 .. n PROVE \E i \in DOMAIN new : new[i].key = keys[m]
    <3>1. CASE m = n
      <4>1. Len(groups) + 1 \in DOMAIN new
        BY <1>2, <2>3
      <4> QED BY <2>2, <2>3, <3>1, <4>1
    <3>2. CASE m # n
      <4>1. PICK i \in DOMAIN groups : groups[i].key = keys[m]
        BY <1>1, <1>2, <3>2
      <4>2. i \in DOMAIN new /\ new[i] = groups[i]
        BY <1>2, <2>3
      <4> QED BY <4>1, <4>2
    <3> QED BY <3>1, <3>2
  <2>9. ASSUME NEW i \in DOMAIN new PROVE HasThose(new[i], list, keys, n)
    <3>1. HasThose(group, list, keys, n)
      BY <1>1, <2>2, <2>5, NewGroup
    <3>2. ASSUME i \in 1 .. Len(groups) PROVE HasThose(groups[i], list, keys, n)
      <4>1. HasThose(groups[i], list, keys, n - 1) /\ groups[i].key # keys[n]
        BY <1>2, <2>4, <3>2
      <4> QED BY <1>1, <4>1, OthersStay
    <3> QED BY <2>3, <2>6, <3>1, <3>2
  <2>10. \A i \in DOMAIN new : \E m \in 1 .. n : new[i].key = keys[m]
    BY <1>1, <1>2, <2>2, <2>3, <2>6
  <2> QED BY <2>3, <2>7, <2>8, <2>9, <2>10 DEF Parted, new, G
<1>6. CASE same # {}
  <2> DEFINE i == Min(same)
  <2>1. PICK k \in 1 .. Len(groups) : same = {k} /\ groups[k].key = key
    <3>1. PICK k \in same : TRUE
      BY <1>6
    <3>2. \A j \in same : j = k
      BY <1>2, <1>4, <3>1
    <3>3. same = {k}
      BY <3>2
    <3> QED BY <1>4, <3>1, <3>3
  <2>2. i = k
    <3>1. k \in {k} /\ \A y \in {k} : k <= y
      OBVIOUS
    <3>2. \A x \in {k} : x = k
      OBVIOUS
    <3>3. Min({k}) = k
      BY <3>1, <3>2 DEF Min
    <3> QED BY <2>1, <3>3
  <2>3. new = [groups EXCEPT ![k].docs = Append(@, d)]
    BY <1>6, <2>2 DEF AddOrAppend
  <2> DEFINE group == [groups[k] EXCEPT !.docs = Append(@, d)]
  <2>4. group \in G /\ group.key = key /\ group.docs = Append(groups[k].docs, d)
    <3>1. groups[k] \in G /\ Append(groups[k].docs, d) \in Seq(V)
      BY <1>1, <1>3
    <3> QED BY <2>1, <3>1
  <2>5. new = [groups EXCEPT ![k] = group]
    BY <2>3
  <2> HIDE DEF group, new
  <2>6. /\ new \in Seq(G) /\ DOMAIN new = 1 .. Len(groups) /\ new[k] = group
        /\ \A j \in 1 .. Len(groups) : j # k => new[j] = groups[j]
    BY <1>2, <2>4, <2>5
  <2> HIDE DEF G
  <2>7. \A j \in 1 .. Len(groups) : new[j].key = groups[j].key
    BY <2>1, <2>4, <2>6
  <2>8. \A j, l \in DOMAIN new : new[j].key = new[l].key => j = l
    BY <1>2, <2>6, <2>7
  <2>9. ASSUME NEW m \in 1 .. n PROVE \E j \in DOMAIN new : new[j].key = keys[m]
    <3>1. CASE m = n
      BY <2>1, <2>6, <2>7, <3>1
    <3>2. CASE m # n
      <4>1. PICK j \in DOMAIN groups : groups[j].key = keys[m]
        BY <1>1, <1>2, <3>2
      <4> QED BY <1>2, <2>6, <2>7, <4>1
    <3> QED BY <3>1, <3>2
  <2>10. ASSUME NEW j \in DOMAIN new PROVE HasThose(new[j], list, keys, n)
    <3>1. CASE j = k
      <4>1. HasThose(groups[k], list, keys, n - 1)
        BY <1>2
      <4>2. HasThose(group, list, keys, n)
        BY <1>1, <2>1, <2>4, <4>1, OwnGrows
      <4> QED BY <2>6, <3>1, <4>2
    <3>2. CASE j # k
      <4>1. HasThose(groups[j], list, keys, n - 1) /\ groups[j].key # keys[n]
        BY <1>2, <2>1, <2>6, <3>2
      <4>2. HasThose(groups[j], list, keys, n)
        BY <1>1, <4>1, OthersStay
      <4> QED BY <2>6, <3>2, <4>2
    <3> QED BY <3>1, <3>2
  <2>11. ASSUME NEW j \in DOMAIN new PROVE \E m \in 1 .. n : new[j].key = keys[m]
    <3>1. j \in DOMAIN groups /\ j \in 1 .. Len(groups)
      BY <1>2, <2>6
    <3>2. PICK m \in 1 .. n - 1 : groups[j].key = keys[m]
      BY <1>2, <3>1
    <3>3. m \in 1 .. n
      BY <1>1, <3>2
    <3> QED BY <2>7, <3>1, <3>2, <3>3
  <2> QED BY <2>6, <2>8, <2>9, <2>10, <2>11 DEF Parted, new, G
<1> QED BY <1>5, <1>6

LEMMA GroupsPart ==
    ASSUME NEW V, NEW list, list \in Seq(V), NEW keys, \A m \in 1 .. Len(list) : keys[m] \in Bson
    PROVE  Parted(GroupDocuments(list, keys), V, list, keys, Len(list))
<1>1. Len(list) \in Nat
  OBVIOUS
<1>2. PICK g : /\ g[0] = <<>>
               /\ \A n \in 1 .. Len(list) : g[n] = AddOrAppend(g[n - 1], keys[n], list[n])
               /\ GroupDocuments(list, keys) = g[Len(list)]
  BY <1>1, GroupSteps DEF GroupsBySteps
<1> DEFINE T == {n \in 0 .. Len(list) : Parted(g[n], V, list, keys, n)}
<1>3. 0 \in T
  <2>1. Parted(<<>>, V, list, keys, 0)
    BY DEF Parted
  <2> QED BY <1>1, <1>2, <2>1
<1>4. ASSUME NEW n \in 1 .. Len(list), n - 1 \in T PROVE n \in T
  <2>1. Parted(g[n - 1], V, list, keys, n - 1)
    BY <1>4
  <2>2. Parted(AddOrAppend(g[n - 1], keys[n], list[n]), V, list, keys, n)
    BY <2>1, GroupStep
  <2> QED BY <1>1, <1>2, <2>2
<1>5. Len(list) \in T
  <2> HIDE DEF T
  <2>1. \A n \in 0 + 1 .. Len(list) : n - 1 \in T => n \in T
    BY <1>4
  <2>2. Len(list) \in 0 .. Len(list)
    BY <1>1
  <2> QED BY <1>1, <1>3, <2>1, <2>2, Upward
<1> QED BY <1>2, <1>5

(* The documents of a key, by steps.                                       *)
NextHaving(prior, d, by, key) == IF KeyOf(by, d) = key THEN Append(prior, d) ELSE prior
HavingBySteps(list, by, key) ==
  \E g : /\ g[0] = <<>>
         /\ \A n \in 1 .. Len(list) : g[n] = NextHaving(g[n - 1], list[n], by, key)
         /\ Having(list, by, key) = g[Len(list)]

LEMMA HavingSteps ==
    ASSUME NEW list, Len(list) \in Nat, NEW by, NEW key
    PROVE  HavingBySteps(list, by, key)
<1> DEFINE length == Len(list)
           Eq(g, b) == g = [n \in 0 .. b |-> IF n = 0 THEN <<>> ELSE NextHaving(g[n - 1], list[n], by, key)]
           T == {b \in 0 .. length : \E g : Eq(g, b)}
<1>1. length \in Nat
  OBVIOUS
<1>2. Having(list, by, key) = (CHOOSE g : Eq(g, length))[length]
  BY DEF Having, NextHaving
<1> HIDE DEF length
<1>3. 0 \in T
  <2> DEFINE g == [n \in 0 .. 0 |-> <<>>]
  <2>1. Eq(g, 0)
    OBVIOUS
  <2> HIDE DEF g
  <2> QED BY <2>1, <1>1
<1>4. ASSUME NEW b \in 1 .. length, b - 1 \in T
      PROVE  b \in T
  <2>1. PICK g : Eq(g, b - 1)
    BY <1>4
  <2> DEFINE h == [n \in 0 .. b |-> IF n = b THEN NextHaving(g[b - 1], list[b], by, key) ELSE g[n]]
  <2>2. \A n \in 0 .. b : h[n] = IF n = 0 THEN <<>> ELSE NextHaving(h[n - 1], list[n], by, key)
    <3> SUFFICES ASSUME NEW n \in 0 .. b
                 PROVE  h[n] = IF n = 0 THEN <<>> ELSE NextHaving(h[n - 1], list[n], by, key)
      OBVIOUS
    <3>1. CASE n = b
      BY <3>1, <1>1
    <3>2. CASE n # b
      <4>1. n \in 0 .. b - 1 /\ (n # 0 => n - 1 \in 0 .. b /\ n - 1 # b)
        BY <3>2, <1>1
      <4>2. g[n] = IF n = 0 THEN <<>> ELSE NextHaving(g[n - 1], list[n], by, key)
        BY <2>1, <4>1
      <4> QED BY <3>2, <4>1, <4>2
    <3> QED BY <3>1, <3>2
  <2>3. Eq(h, b)
    BY <2>2
  <2> HIDE DEF h
  <2> QED BY <2>3, <1>1
<1>5. length \in T
  <2> HIDE DEF T
  <2>1. \A b \in 0 + 1 .. length : b - 1 \in T => b \in T
    BY <1>4
  <2>2. length \in 0 .. length
    BY <1>1
  <2> QED BY <1>1, <1>3, <2>1, <2>2, Upward
<1>6. PICK g : Eq(g, length) /\ g = CHOOSE h : Eq(h, length)
  <2> HIDE DEF Eq
  <2> QED BY <1>5
<1>7. \A n \in 0 .. length : g[n] = IF n = 0 THEN <<>> ELSE NextHaving(g[n - 1], list[n], by, key)
  BY <1>6
<1>8. g[0] = <<>> /\ \A n \in 1 .. length : g[n] = NextHaving(g[n - 1], list[n], by, key)
  BY <1>7, <1>1
<1>9. Having(list, by, key) = g[length]
  BY <1>2, <1>6
<1> HIDE DEF Eq
<1> QED BY <1>8, <1>9 DEF HavingBySteps, length

(* They are those at the positions of the key, in order.                   *)
LEMMA HavingLists ==
    ASSUME NEW list, Len(list) \in Nat, NEW by, NEW keys, \A m \in 1 .. Len(list) : keys[m] = KeyOf(by, list[m]), NEW key
    PROVE  HasThose([key |-> key, docs |-> Having(list, by, key)], list, keys, Len(list))
<1>1. PICK g : /\ g[0] = <<>>
               /\ \A n \in 1 .. Len(list) : g[n] = NextHaving(g[n - 1], list[n], by, key)
               /\ Having(list, by, key) = g[Len(list)]
  BY HavingSteps DEF HavingBySteps
<1> DEFINE At(n) == [key |-> key, docs |-> g[n]]
           T == {n \in 0 .. Len(list) : HasThose(At(n), list, keys, n)}
<1>2. 0 \in T
  <2>1. WithKey(keys, 0, key) = {}
    BY DEF WithKey
  <2>2. Lists(<<>>, {}) /\ Increasing(<<>>) /\ <<>> = Image(list, <<>>)
    BY DEF Lists, Increasing, Image
  <2>3. At(0).key = key /\ At(0).docs = <<>>
    BY <1>1
  <2> HIDE DEF At
  <2>4. HasThose(At(0), list, keys, 0)
    BY <2>1, <2>2, <2>3 DEF HasThose
  <2> QED BY <2>4
<1>3. ASSUME NEW n \in 1 .. Len(list), n - 1 \in T PROVE n \in T
  <2>1. HasThose(At(n - 1), list, keys, n - 1) /\ n \in Nat /\ n > 0
    BY <1>3
  <2>2. At(n).key = key /\ At(n - 1).key = key /\ At(n).docs = NextHaving(At(n - 1).docs, list[n], by, key)
    BY <1>1
  <2>3. keys[n] = KeyOf(by, list[n])
    OBVIOUS
  <2>4. n \in 0 .. Len(list)
    OBVIOUS
  <2>5. At(n) = [key |-> key, docs |-> g[n]] /\ At(n - 1) = [key |-> key, docs |-> g[n - 1]]
    OBVIOUS
  <2> HIDE DEF At
  <2>6. CASE keys[n] = key
    <3>1. At(n).docs = Append(At(n - 1).docs, list[n])
      BY <2>2, <2>3, <2>6 DEF NextHaving
    <3>2. HasThose(At(n), list, keys, n)
      BY <2>1, <2>2, <2>6, <3>1, OwnGrows
    <3> QED BY <2>4, <3>2
  <2>7. CASE keys[n] # key
    <3>1. At(n) = At(n - 1)
      BY <2>2, <2>3, <2>5, <2>7 DEF NextHaving
    <3>2. HasThose(At(n - 1), list, keys, n)
      BY <2>1, <2>2, <2>7, OthersStay
    <3> QED BY <2>4, <3>1, <3>2
  <2> QED BY <2>6, <2>7
<1>4. Len(list) \in T
  <2> HIDE DEF T
  <2>1. \A n \in 0 + 1 .. Len(list) : n - 1 \in T => n \in T
    BY <1>3
  <2>2. Len(list) \in 0 .. Len(list)
    OBVIOUS
  <2> QED BY <1>2, <2>1, <2>2, Upward
<1> QED BY <1>1, <1>4

(* Two increasing lists of a set are the same.                             *)
LEMMA IncreasingOnce ==
    ASSUME NEW S \in SUBSET Nat, NEW t, Lists(t, S), Increasing(t), NEW u, Lists(u, S), Increasing(u)
    PROVE  t = u
<1>1. /\ t \in Seq(S) /\ Len(t) \in Nat /\ DOMAIN t = 1 .. Len(t) /\ \A k \in 1 .. Len(t) : t[k] \in S /\ t[k] \in Nat
      /\ u \in Seq(S) /\ DOMAIN u = 1 .. Len(t) /\ Len(u) = Len(t) /\ \A k \in 1 .. Len(t) : u[k] \in S /\ u[k] \in Nat
  <2>1. Len(t) = Len(u)
    BY ListsCount
  <2>2. t \in Seq(S) /\ u \in Seq(S)
    BY DEF Lists
  <2>3. /\ Len(t) \in Nat /\ DOMAIN t = 1 .. Len(t) /\ DOMAIN u = 1 .. Len(u)
        /\ (\A k \in 1 .. Len(t) : t[k] \in S) /\ \A k \in 1 .. Len(u) : u[k] \in S
    BY <2>2
  <2>4. \A x \in S : x \in Nat
    OBVIOUS
  <2> QED BY <2>1, <2>2, <2>3, <2>4
<1> DEFINE Wrong == {k \in 1 .. Len(t) : t[k] # u[k]}
<1>2. ASSUME Wrong # {} PROVE FALSE
  <2>1. Wrong \in SUBSET Nat
    OBVIOUS
  <2>2. PICK k \in Wrong : \A l \in Wrong : k <= l
    <3> HIDE DEF Wrong
    <3> QED BY <1>2, <2>1, LeastNatural
  <2>3. k \in 1 .. Len(t) /\ t[k] # u[k]
    OBVIOUS
  <2>4. \A l \in 1 .. Len(t) : l < k => t[l] = u[l]
    <3> SUFFICES ASSUME NEW l \in 1 .. Len(t), l < k PROVE t[l] = u[l]
      OBVIOUS
    <3>1. ~(k <= l)
      BY <2>3
    <3>2. l \notin Wrong
      <4> HIDE DEF Wrong
      <4> QED BY <2>2, <3>1
    <3> QED BY <3>2
  <2> HIDE DEF Wrong
  <2>5. \A a, b \in 1 .. Len(t) : (a < b => t[a] < t[b] /\ u[a] < u[b]) /\ (t[a] = t[b] => a = b) /\ (u[a] = u[b] => a = b)
    BY <1>1 DEF Lists, Increasing
  <2>6. PICK j \in 1 .. Len(t) : u[j] = t[k]
    BY <1>1, <2>3 DEF Lists
  <2>7. PICK i \in 1 .. Len(t) : t[i] = u[k]
    BY <1>1, <2>3 DEF Lists
  <2>8. ~(j < k) /\ ~(i < k)
    BY <2>3, <2>4, <2>5, <2>6, <2>7
  <2>9. k < j /\ k < i
    BY <2>3, <2>6, <2>7, <2>8
  <2>10. u[k] < t[k] /\ t[k] < u[k]
    BY <2>3, <2>5, <2>6, <2>7, <2>9
  <2> QED BY <1>1, <2>3, <2>10
<1> HIDE DEF Wrong
<1>3. \A k \in 1 .. Len(t) : t[k] = u[k]
  BY <1>2 DEF Wrong
<1> QED BY <1>1, <1>3, SameSequence
(* What the first accumulator computes stays, and so does the key.         *)
FirstOf(group, output) == Accumulate(output[1].op, output[1].of, group.docs)
Shows(fields, group, output, n) ==
  /\ "_id" \in DOMAIN fields /\ fields["_id"] = group.key
  /\ n > 0 => output[1].field \in DOMAIN fields /\ fields[output[1].field] = FirstOf(group, output)

LEMMA ShowsStep ==
    ASSUME NEW group, NEW output, NEW n \in 1 .. Len(output), Len(output) \in Nat,
           \A m \in 1 .. Len(output) : output[m].field # "_id" /\ (output[m].field = output[1].field => m = 1),
           NEW prior, Shows(prior, group, output, n - 1)
    PROVE  Shows(NextField(prior, group, output, n), group, output, n)
<1> DEFINE key == output[n].field
           value == Accumulate(output[n].op, output[n].of, IF n = 1 THEN group.docs ELSE <<>>)
           next == NextField(prior, group, output, n)
<1>1. next = [k \in DOMAIN prior \union {key} |-> IF k = key THEN value ELSE prior[k]]
  BY DEF NextField, Put
<1>2. key # "_id" /\ (n # 1 => key # output[1].field /\ n - 1 > 0)
  OBVIOUS
<1>3. n = 1 => key = output[1].field /\ value = FirstOf(group, output)
  BY DEF FirstOf
<1> HIDE DEF key, value, next
<1>4. "_id" \in DOMAIN next /\ next["_id"] = group.key
  BY <1>1, <1>2 DEF Shows
<1>5. output[1].field \in DOMAIN next /\ next[output[1].field] = FirstOf(group, output)
  <2>1. CASE n = 1
    BY <1>1, <1>3, <2>1
  <2>2. CASE n # 1
    <3>1. output[1].field \in DOMAIN prior /\ prior[output[1].field] = FirstOf(group, output)
      BY <1>2, <2>2 DEF Shows
    <3> QED BY <1>1, <1>2, <2>2, <3>1
  <2> QED BY <2>1, <2>2
<1> QED BY <1>4, <1>5 DEF Shows, next

LEMMA GroupShows ==
    ASSUME NEW group, NEW output, Len(output) \in Nat,
           \A m \in 1 .. Len(output) : output[m].field # "_id" /\ (output[m].field = output[1].field => m = 1)
    PROVE  Shows(GroupFields(group, output), group, output, Len(output))
<1>1. PICK g : /\ g[0] = OnlyId(group)
               /\ \A n \in 1 .. Len(output) : g[n] = NextField(g[n - 1], group, output, n)
               /\ GroupFields(group, output) = g[Len(output)]
  BY FieldSteps DEF FieldsBySteps
<1> DEFINE T == {n \in 0 .. Len(output) : Shows(g[n], group, output, n)}
<1>2. 0 \in T
  <2>1. Shows(OnlyId(group), group, output, 0)
    BY DEF Shows, OnlyId
  <2> QED BY <1>1, <2>1
<1>3. ASSUME NEW n \in 1 .. Len(output), n - 1 \in T PROVE n \in T
  <2>1. Shows(g[n - 1], group, output, n - 1)
    BY <1>3
  <2>2. Shows(NextField(g[n - 1], group, output, n), group, output, n)
    BY <2>1, ShowsStep
  <2> QED BY <1>1, <2>2
<1>4. Len(output) \in T
  <2> HIDE DEF T
  <2>1. \A n \in 0 + 1 .. Len(output) : n - 1 \in T => n \in T
    BY <1>3
  <2>2. Len(output) \in 0 .. Len(output)
    OBVIOUS
  <2> QED BY <1>2, <2>1, <2>2, Upward
<1> QED BY <1>1, <1>4

(* $group has one group for every key of its documents, with all those that *)
(* have the key, in their order, and computes the first output from them    *)
(* (group.go): it loses and doubles no document.  No output is named _id,   *)
(* which is the key, or as another, which group.go refuses.                 *)
THEOREM GroupsLoseNothing ==
    ASSUME NEW V, NEW in \in Seq(V), NEW by, \A d \in V : KeyOf(by, d) \in Bson,
           NEW O, NEW output \in Seq(O), output # <<>>,
           \A m \in DOMAIN output : output[m].field # "_id",
           \A m, n \in DOMAIN output : output[m].field = output[n].field => m = n
    PROVE  GroupsAreWhole([stage |-> "group", by |-> by, output |-> output], in, Group(in, by, output))
<1> DEFINE keys == [n \in DOMAIN in |-> OrNull(Evaluate(by, in[n]))]
           groups == GroupDocuments(in, keys)
           out == Group(in, by, output)
           s == [stage |-> "group", by |-> by, output |-> output]
           Id(d) == d.fields["_id"]
           ids == [n \in DOMAIN groups |-> groups[n].key]
           IdSet == {Id(d) : d \in Range(out)}
<1>1. /\ Len(in) \in Nat /\ DOMAIN in = 1 .. Len(in) /\ \A m \in 1 .. Len(in) : in[m] \in V
      /\ Len(output) \in Nat /\ DOMAIN output = 1 .. Len(output) /\ 1 \in 1 .. Len(output) /\ Len(output) > 0
  OBVIOUS
<1>2. \A m \in 1 .. Len(in) : keys[m] = KeyOf(by, in[m]) /\ keys[m] \in Bson
  BY <1>1 DEF KeyOf
<1>3. out = [n \in DOMAIN groups |-> Document(GroupFields(groups[n], output))]
  BY DEF Group
<1>4. s.stage = "group" /\ s.by = by /\ s.output = output /\ Outputs(s) = output
  BY DEF Outputs
<1> HIDE DEF keys, s
<1>5. Parted(groups, V, in, keys, Len(in))
  BY <1>1, <1>2, GroupsPart
<1> HIDE DEF groups, out
<1>6. /\ groups \in Seq([key : Bson, docs : Seq(V)]) /\ Len(groups) \in Nat /\ DOMAIN groups = 1 .. Len(groups)
      /\ \A i, j \in 1 .. Len(groups) : groups[i].key = groups[j].key => i = j
      /\ \A m \in 1 .. Len(in) : \E i \in 1 .. Len(groups) : groups[i].key = keys[m]
      /\ \A i \in 1 .. Len(groups) : \E m \in 1 .. Len(in) : groups[i].key = keys[m]
      /\ \A i \in 1 .. Len(groups) : HasThose(groups[i], in, keys, Len(in))
  <2>1. groups \in Seq([key : Bson, docs : Seq(V)])
    BY <1>5 DEF Parted
  <2>2. Len(groups) \in Nat /\ DOMAIN groups = 1 .. Len(groups)
    BY <2>1
  <2> QED BY <1>5, <2>1, <2>2 DEF Parted
<1>7. DOMAIN out = 1 .. Len(groups) /\ Len(out) = Len(groups)
  BY <1>3, <1>6
<1>8. \A i \in 1 .. Len(groups) :
         Id(out[i]) = groups[i].key /\ out[i].fields[output[1].field] = FirstOf(groups[i], output)
  <2> SUFFICES ASSUME NEW i \in 1 .. Len(groups)
               PROVE  Id(out[i]) = groups[i].key /\ out[i].fields[output[1].field] = FirstOf(groups[i], output)
    OBVIOUS
  <2>1. Shows(GroupFields(groups[i], output), groups[i], output, Len(output))
    BY <1>1, GroupShows
  <2>2. out[i].fields = GroupFields(groups[i], output)
    BY <1>3, <1>6 DEF Document
  <2> QED BY <1>1, <2>1, <2>2 DEF Shows
<1>9. \A d : d \in Range(out) <=> \E i \in 1 .. Len(groups) : d = out[i]
  BY <1>7 DEF Range
<1>10. {KeyOf(by, d) : d \in Range(in)} = IdSet
  <2>1. ASSUME NEW d \in Range(in) PROVE KeyOf(by, d) \in IdSet
    <3>1. PICK m \in 1 .. Len(in) : d = in[m]
      BY <1>1 DEF Range
    <3>2. PICK i \in 1 .. Len(groups) : groups[i].key = keys[m]
      BY <1>6
    <3>3. out[i] \in Range(out) /\ Id(out[i]) = KeyOf(by, d)
      BY <1>2, <1>8, <1>9, <3>1, <3>2
    <3> QED BY <3>3
  <2>2. ASSUME NEW d \in Range(out) PROVE Id(d) \in {KeyOf(by, e) : e \in Range(in)}
    <3>1. PICK i \in 1 .. Len(groups) : d = out[i]
      BY <1>9
    <3>2. PICK m \in 1 .. Len(in) : groups[i].key = keys[m]
      BY <1>6
    <3>3. in[m] \in Range(in) /\ Id(d) = KeyOf(by, in[m])
      BY <1>1, <1>2, <1>8, <3>1, <3>2 DEF Range
    <3> QED BY <3>3
  <2> HIDE DEF Id
  <2> QED BY <2>1, <2>2
<1>11. Cardinality(IdSet) = Len(out)
  <2>1. \A i \in 1 .. Len(groups) : ids[i] \in IdSet
    <3> SUFFICES ASSUME NEW i \in 1 .. Len(groups) PROVE Id(out[i]) \in IdSet
      BY <1>6, <1>8
    <3>1. out[i] \in Range(out)
      BY <1>9
    <3> QED BY <3>1
  <2>2. ids \in Seq(IdSet) /\ Len(ids) = Len(groups) /\ DOMAIN ids = 1 .. Len(groups)
    <3> HIDE DEF IdSet
    <3> QED BY <1>6, <2>1
  <2>3. \A x \in IdSet : \E i \in 1 .. Len(groups) : ids[i] = x
    <3> SUFFICES ASSUME NEW d \in Range(out) PROVE \E i \in 1 .. Len(groups) : ids[i] = Id(d)
      OBVIOUS
    <3>1. PICK i \in 1 .. Len(groups) : d = out[i]
      BY <1>9
    <3> QED BY <1>6, <1>8, <3>1
  <2>4. \A i, j \in 1 .. Len(groups) : ids[i] = ids[j] => i = j
    BY <1>6
  <2> HIDE DEF ids, IdSet
  <2>5. Lists(ids, IdSet)
    BY <2>2, <2>3, <2>4 DEF Lists
  <2> QED BY <1>7, <2>2, <2>5, ListsCount
<1>12. ASSUME NEW d \in Range(out)
       PROVE  d.fields[output[1].field] = Accumulate(output[1].op, output[1].of, Having(in, by, Id(d)))
  <2>1. PICK i \in 1 .. Len(groups) : d = out[i]
    BY <1>9
  <2> DEFINE key == groups[i].key
  <2>2. PICK t : Lists(t, WithKey(keys, Len(in), key)) /\ Increasing(t) /\ groups[i].docs = Image(in, t)
    BY <1>6 DEF HasThose
  <2>3. HasThose([key |-> key, docs |-> Having(in, by, key)], in, keys, Len(in))
    BY <1>1, <1>2, HavingLists
  <2>4. PICK u : Lists(u, WithKey(keys, Len(in), key)) /\ Increasing(u) /\ Having(in, by, key) = Image(in, u)
    <3> HIDE DEF key
    <3> QED BY <2>3 DEF HasThose
  <2>5. WithKey(keys, Len(in), key) \in SUBSET Nat
    BY DEF WithKey
  <2>6. t = u
    BY <2>2, <2>4, <2>5, IncreasingOnce
  <2>7. groups[i].docs = Having(in, by, Id(d))
    BY <1>8, <2>1, <2>2, <2>4, <2>6
  <2> QED BY <1>8, <2>1, <2>7 DEF FirstOf
<1> HIDE DEF Id
<1>13. GroupsAreWhole(s, in, out)
  <2> USE DEF Id
  <2>1. s.stage # "sortByCount" /\ Outputs(s)[1] = output[1]
    BY <1>4
  <2> QED BY <1>4, <1>10, <1>11, <1>12, <2>1 DEF GroupsAreWhole
<1> QED BY <1>13 DEF s, out
=============================================================================
