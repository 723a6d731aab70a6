---------------------------- MODULE FerretProofs ----------------------------
(***************************************************************************)
(* The commands that write to the embedded FerretDB server.                *)
(*                                                                         *)
(* For any documents, commands and operators: the gate is never leaked or  *)
(* shared, no command writes from a stale snapshot, and so the documents   *)
(* change as AtomicDocuments says.                                         *)
(*                                                                         *)
(* For any names, indexes, commands and failures, of commands that the     *)
(* gate lets in one at a time: the registry agrees with its tables, what a *)
(* client was told stays, and a collection is whole.                       *)
(***************************************************************************)
EXTENDS MutationGate, MetadataRegistry, FiniteSetTheorems, SequenceTheorems, WellFoundedInduction, TLAPS

-----------------------------------------------------------------------------
(* The mutation gate.                                                      *)


(* The document a command works on is still one it has to update.          *)
WorkToDo == \A c \in Commands : stage[c] = "modifying" => current[c] \in todo[c]

(* A command the client has not sent is unknown to the server.             *)
Unsent == \A c \in Commands : client[c] = "idle" => stage[c] = "new"

OneAtATime == TypeOK /\ TokenOfRunning /\ SnapshotCurrent /\ WorkToDo /\ Unsent

LEMMA GateStarts == Init => OneAtATime
<1> SUFFICES ASSUME Init PROVE OneAtATime
    OBVIOUS
<1>1. SomeId \in Ids
    BY GateAssumption DEF SomeId
<1>2. TypeOK
    BY <1>1, DocumentsAssumption DEF Init, AtomicInit, TypeOK, Stages
<1>3. TokenOfRunning /\ SnapshotCurrent /\ WorkToDo /\ Unsent
    BY GateAssumption DEF Init, TokenOfRunning, SnapshotCurrent, WorkToDo, Unsent
<1>4. QED
    BY <1>2, <1>3 DEF OneAtATime

(* Steps of clients and connections leave the server and its documents.    *)
LEMMA ClientInv ==
    ASSUME OneAtATime, NEW c \in Commands, Send(c) \/ GiveUp(c) \/ Cancel(c) \/ Reply(c)
    PROVE  OneAtATime'
<1> USE DEF OneAtATime, TypeOK, TokenOfRunning, SnapshotCurrent, WorkToDo, Unsent, Stages, server
<1>1. CASE Send(c)
    <2>1. stage[c] = "new"
        BY <1>1 DEF Send
    <2>2. QED
        BY <1>1, <2>1 DEF Send
<1>2. CASE GiveUp(c)
    BY <1>2 DEF GiveUp
<1>3. CASE Cancel(c)
    BY <1>3 DEF Cancel
<1>4. CASE Reply(c)
    BY <1>4 DEF Reply
<1>5. QED
    BY <1>1, <1>2, <1>3, <1>4

(* The ways into and out of the gate.                                      *)
LEMMA GateInv ==
    ASSUME OneAtATime, NEW c \in Commands,
           Acquire(c) \/ Refuse(c) \/ Complete(c) \/ Fail(c)
    PROVE  OneAtATime'
<1> USE GateAssumption
    DEF OneAtATime, TypeOK, TokenOfRunning, SnapshotCurrent, WorkToDo, Unsent, Stages
<1>1. CASE Acquire(c)
    BY <1>1 DEF Acquire, Free
<1>2. CASE Refuse(c)
    BY <1>2 DEF Refuse, TokenOfRefused
<1>3. CASE Complete(c)
    BY <1>3 DEF Complete
<1>4. CASE Fail(c)
    BY <1>4 DEF Fail, TokenAfterError
<1>5. QED
    BY <1>1, <1>2, <1>3, <1>4

LEMMA ReadInv ==
    ASSUME OneAtATime, NEW c \in Commands, NEW i \in Ids, Read(c, i)
    PROVE  OneAtATime'
BY DEF Read, OneAtATime, TypeOK, TokenOfRunning, SnapshotCurrent, WorkToDo, Unsent, Stages

(* The one command that writes is the only one with a snapshot.            *)
LEMMA ReplaceInv ==
    ASSUME OneAtATime, NEW c \in Commands, Replace(c)
    PROVE  OneAtATime'
<1> USE DEF OneAtATime, TypeOK, Stages
<1>1. Update(c, snapshot[c]) \in Docs
    BY DocumentsAssumption
<1>2. TypeOK'
    BY <1>1 DEF Replace
<1>3. \A e \in Commands : stage'[e] # "modifying"
    <2> SUFFICES ASSUME NEW e \in Commands PROVE stage'[e] # "modifying"
        OBVIOUS
    <2>1. gate = c
        BY DEF Replace, TokenOfRunning
    <2>2. CASE e = c
        BY <2>2 DEF Replace
    <2>3. CASE e # c
        BY <2>1, <2>3 DEF Replace, TokenOfRunning
    <2>4. QED
        BY <2>2, <2>3
<1>4. TokenOfRunning' /\ Unsent'
    BY DEF Replace, TokenOfRunning, Unsent
<1>5. SnapshotCurrent' /\ WorkToDo'
    BY <1>3 DEF SnapshotCurrent, WorkToDo
<1>6. QED
    BY <1>2, <1>4, <1>5

LEMMA GateStep == OneAtATime /\ [Next]_vars => OneAtATime'
<1> SUFFICES ASSUME OneAtATime, [Next]_vars PROVE OneAtATime'
    OBVIOUS
<1>1. CASE UNCHANGED vars
    BY <1>1 DEF vars, OneAtATime, TypeOK, TokenOfRunning, SnapshotCurrent, WorkToDo, Unsent
<1>2. CASE Next
    <2> PICK c \in Commands :
            \/ Send(c) \/ GiveUp(c) \/ Cancel(c) \/ Reply(c)
            \/ Acquire(c) \/ Step(c)
        BY <1>2 DEF Next
    <2>1. CASE Send(c) \/ GiveUp(c) \/ Cancel(c) \/ Reply(c)
        BY <2>1, ClientInv
    <2>2. CASE Acquire(c) \/ Refuse(c) \/ Complete(c) \/ Fail(c)
        BY <2>2, GateInv
    <2>3. CASE Replace(c)
        BY <2>3, ReplaceInv
    <2>4. CASE \E i \in Ids : Read(c, i)
        BY <2>4, ReadInv
    <2>5. QED
        BY <2>1, <2>2, <2>3, <2>4 DEF Step
<1>3. QED
    BY <1>1, <1>2

THEOREM GateInductive == Spec => []OneAtATime
<1>1. QED
    BY GateStarts, GateStep, PTL DEF Spec

(* The variables keep their types, for any documents and commands.         *)
THEOREM TypeCorrect == Spec => []TypeOK
<1>1. OneAtATime => TypeOK
    BY DEF OneAtATime
<1>2. QED
    BY <1>1, GateInductive, PTL

(* The gate holds the token of the one command that runs and no other: no  *)
(* way out of lockMutation or of a command leaks it, for any number of     *)
(* commands.                                                               *)
THEOREM GateIsExact == Spec => []TokenOfRunning
<1>1. OneAtATime => TokenOfRunning
    BY DEF OneAtATime
<1>2. QED
    BY <1>1, GateInductive, PTL

(* No command replaces a document from contents another has replaced.      *)
THEOREM NoLostUpdate == Spec => []SnapshotCurrent
<1>1. OneAtATime => SnapshotCurrent
    BY DEF OneAtATime
<1>2. QED
    BY <1>1, GateInductive, PTL

(* Every step of the server is one atomic update or changes no document.   *)
LEMMA StepRefines ==
    ASSUME OneAtATime, [Next]_vars
    PROVE  [Atomic!AtomicNext]_<<docs, todo>>
<1>1. CASE UNCHANGED vars
    BY <1>1 DEF vars
<1>2. CASE Next
    <2> PICK c \in Commands :
            \/ Send(c) \/ GiveUp(c) \/ Cancel(c) \/ Reply(c)
            \/ Acquire(c) \/ Step(c)
        BY <1>2 DEF Next
    <2>1. CASE Replace(c)
        <3>1. current[c] \in todo[c] /\ current[c] \in Ids
            BY <2>1 DEF Replace, OneAtATime, WorkToDo, TypeOK
        <3>2. snapshot[c] = docs[current[c]]
            BY <2>1 DEF Replace, OneAtATime, SnapshotCurrent
        <3>3. Atomic!Apply(c, current[c])
            BY <2>1, <3>1, <3>2 DEF Replace, Atomic!Apply, OneAtATime, TypeOK
        <3>4. QED
            BY <3>1, <3>3 DEF Atomic!AtomicNext
    <2>2. CASE \/ Send(c) \/ GiveUp(c) \/ Cancel(c) \/ Reply(c) \/ Acquire(c)
               \/ Refuse(c) \/ Complete(c) \/ Fail(c) \/ \E i \in Ids : Read(c, i)
        <3>1. UNCHANGED <<docs, todo>>
            BY <2>2 DEF Send, GiveUp, Cancel, Reply, Acquire, Refuse, Complete, Fail, Read
        <3>2. QED
            BY <3>1
    <2>3. QED
        BY <2>1, <2>2 DEF Step
<1>3. QED
    BY <1>1, <1>2

(* The gated server implements atomic single-document updates, for any     *)
(* documents, filters and update operators.                                *)
THEOREM GateLinearizes == Spec => Linearizable
<1>1. Init => Atomic!AtomicInit
    BY DEF Init, AtomicInit, Atomic!AtomicInit
<1>2. OneAtATime /\ [Next]_vars => [Atomic!AtomicNext]_<<docs, todo>>
    BY StepRefines
<1>3. QED
    BY <1>1, <1>2, GateInductive, PTL DEF Spec, Linearizable, Atomic!AtomicSpec

-----------------------------------------------------------------------------
(* The registry.                                                           *)

(* Every nonempty set of naturals has a least element.                     *)
LEMMA NatLeast ==
    ASSUME NEW T \in SUBSET Nat, T # {}
    PROVE  \E n \in T : \A m \in T : n <= m
<1> DEFINE Less == OpToRel(<, Nat)
<1>1. \E n \in T : \A m \in T : ~ (<<m, n>> \in Less)
  <2>1. IsWellFoundedOn(Less, Nat)
    BY NatLessThanWellFounded
  <2> HIDE DEF Less
  <2> QED BY <2>1, WFMin
<1>2. PICK n \in T : \A m \in T : ~ (<<m, n>> \in Less)
  BY <1>1
<1>3. \A m \in T : m < n => <<m, n>> \in Less
  BY DEF OpToRel
<1> HIDE DEF Less
<1>4. \A m \in T : ~(m < n)
  BY <1>2, <1>3
<1> QED BY <1>4

Settings(s) ==
    /\ s = [uuid |-> s.uuid, indexes |-> s.indexes, capped |-> s.capped, current |-> s.current]
    /\ s.indexes = [i \in DOMAIN s.indexes |-> s.indexes[i]]

Collection(c, T, N) ==
    /\ c = [table |-> c.table, settings |-> c.settings, born |-> c.born]
    /\ Settings(c.settings)
    /\ c.table \in T
    /\ c.born \in 0 .. N

(* Collections of tables T, the last of which was the Nth, by name: no two *)
(* have the same table or number.                                          *)
Collections(f, T, N) ==
    /\ f = [n \in DOMAIN f |-> f[n]]
    /\ IsFiniteSet(DOMAIN f)
    /\ \A n \in DOMAIN f : Collection(f[n], T, N)
    /\ \A n, m \in DOMAIN f : f[n].table = f[m].table \/ f[n].born = f[m].born => n = m

Steps == {"idle", "open", "metadata", "table", "row", "index", "deleteRow", "dropTable", "unindex", "write"}

Creations == {"create", "insert", "createIndexes"}

TableShapes(T) ==
    /\ T = [t \in DOMAIN T |-> T[t]]
    /\ \A t \in DOMAIN T :
         /\ T[t] = [docs |-> T[t].docs, indexes |-> T[t].indexes, recordIds |-> T[t].recordIds]
         /\ T[t].indexes = [i \in DOMAIN T[t].indexes |-> T[t].indexes[i]]

Shapes ==
    /\ file \in {"none", "empty", "ready"} /\ up \in {"down", "starting", "up"} /\ open \in BOOLEAN
    /\ counted = [commands |-> counted.commands, failures |-> counted.failures, born |-> counted.born]
    /\ counted.born \in Nat
    /\ TableShapes(tables)
    /\ marks = [orphaned |-> marks.orphaned, halfMade |-> marks.halfMade,
                leftover |-> marks.leftover, unindexed |-> marks.unindexed]

Commanded ==
    /\ op = [at |-> op.at, goal |-> op.goal, name |-> op.name, table |-> op.table, list |-> op.list, made |-> op.made,
             asked |-> op.asked, settings |-> op.settings, creating |-> op.creating, capped |-> op.capped]
    /\ op.at \in Steps /\ op.creating \in BOOLEAN
    /\ Settings(op.settings)
    /\ op.at = "idle" => op = Idle
    /\ op.at \in {"open", "metadata", "table", "row"} \/ op.creating => op.goal \in Creations
    /\ op.at \in {"open", "metadata", "table", "row", "write", "unindex"} => ~op.creating
    /\ op.at = "index" /\ ~op.creating => op.goal = "createIndexes"

(* The pool has the database, with its metadata table.                     *)
Attached == open /\ op.at # "metadata"

(* What a command may rely on where it is.                                 *)
Control ==
    /\ up # "up" => op = Idle
    /\ up = "down" => ~open
    /\ up = "starting" => colls = rows /\ (open <=> file = "ready")
    /\ ~Attached => colls = Empty
    /\ file # "ready" => rows = Empty
    /\ Attached => file = "ready"
    /\ op.at \notin {"idle", "open"} => open
    /\ op.at \in {"index", "deleteRow", "dropTable", "unindex", "write"} => op.name \in DOMAIN colls
    /\ op.at \in {"index", "deleteRow", "dropTable", "unindex"} => op.table = colls[op.name].table
    /\ op.at = "row" =>
         /\ op.name \notin DOMAIN colls /\ op.table \in DOMAIN tables
         /\ \A n \in DOMAIN colls : colls[n].table # op.table
    /\ op.at = "dropTable" => op.name \notin DOMAIN rows
    /\ op.creating /\ op.at = "index" => op.name \in DOMAIN rows
    /\ op.creating /\ op.at \in {"deleteRow", "dropTable"} => op.table \in marks.halfMade

(* Memory has the collections of the metadata table under their names, and *)
(* as they are there, except those that a crash would leave half made; and *)
(* besides them only such as a crash would leave without a row.            *)
Agreed ==
    Attached =>
      /\ \A n \in DOMAIN rows :
           /\ n \in DOMAIN colls /\ colls[n].table = rows[n].table /\ colls[n].born = rows[n].born
           /\ colls[n].settings = rows[n].settings \/ rows[n].table \in Interrupted.halfMade
      /\ \A n \in DOMAIN colls \ DOMAIN rows : colls[n].table \in Interrupted.orphaned

Named == Collections(rows, DOMAIN tables, counted.born) /\ Collections(colls, DOMAIN tables, counted.born)

RegistryInv == Shapes /\ Named /\ Commanded /\ Control /\ Agreed

-----------------------------------------------------------------------------
(* Functions from names to collections.                                    *)

Set(f, t, s) == [n \in DOMAIN f |-> IF f[n].table = t THEN [f[n] EXCEPT !.settings = s] ELSE f[n]]

LEMMA WithFacts ==
    ASSUME NEW f, NEW x, NEW v
    PROVE  /\ DOMAIN With(f, x, v) = DOMAIN f \cup {x}
           /\ \A y \in DOMAIN f : With(f, x, v)[y] = f[y]
           /\ x \notin DOMAIN f => With(f, x, v)[x] = v
           /\ With(f, x, v) = [y \in DOMAIN With(f, x, v) |-> With(f, x, v)[y]]
BY DEF With

LEMMA WithoutFacts ==
    ASSUME NEW f, NEW x
    PROVE  /\ DOMAIN Without(f, x) = DOMAIN f \ {x}
           /\ \A y \in DOMAIN f \ {x} : Without(f, x)[y] = f[y]
           /\ Without(f, x) = [y \in DOMAIN Without(f, x) |-> Without(f, x)[y]]
BY DEF Without

LEMMA RecordEdits ==
    /\ \A s, v : s = [uuid |-> s.uuid, indexes |-> s.indexes, capped |-> s.capped, current |-> s.current]
         => /\ [s EXCEPT !.current = v] = [uuid |-> s.uuid, indexes |-> s.indexes, capped |-> s.capped, current |-> v]
            /\ [s EXCEPT !.indexes = v] = [uuid |-> s.uuid, indexes |-> v, capped |-> s.capped, current |-> s.current]
    /\ \A t, v : t = [docs |-> t.docs, indexes |-> t.indexes, recordIds |-> t.recordIds]
         => [t EXCEPT !.indexes = v] = [docs |-> t.docs, indexes |-> v, recordIds |-> t.recordIds]
<1>1. ASSUME NEW s, NEW v, s = [uuid |-> s.uuid, indexes |-> s.indexes, capped |-> s.capped, current |-> s.current]
      PROVE  /\ [s EXCEPT !.current = v] = [uuid |-> s.uuid, indexes |-> s.indexes, capped |-> s.capped, current |-> v]
             /\ [s EXCEPT !.indexes = v] = [uuid |-> s.uuid, indexes |-> v, capped |-> s.capped, current |-> s.current]
  BY <1>1
<1>2. ASSUME NEW t, NEW v, t = [docs |-> t.docs, indexes |-> t.indexes, recordIds |-> t.recordIds]
      PROVE  [t EXCEPT !.indexes = v] = [docs |-> t.docs, indexes |-> v, recordIds |-> t.recordIds]
  BY <1>2
<1> QED BY <1>1, <1>2

LEMMA SettingsEdits ==
    ASSUME NEW s, Settings(s), NEW indexes, indexes = [i \in DOMAIN indexes |-> indexes[i]]
    PROVE  Settings([s EXCEPT !.current = TRUE]) /\ Settings([s EXCEPT !.indexes = indexes])
<1>1. /\ [s EXCEPT !.current = TRUE] = [uuid |-> s.uuid, indexes |-> s.indexes, capped |-> s.capped, current |-> TRUE]
      /\ [s EXCEPT !.indexes = indexes] = [uuid |-> s.uuid, indexes |-> indexes, capped |-> s.capped, current |-> s.current]
  BY RecordEdits, Zenon DEF Settings
<1> QED BY <1>1 DEF Settings

LEMMA TableEdits ==
    ASSUME NEW T, TableShapes(T), NEW t, NEW new, NEW indexes
    PROVE  /\ indexes = [i \in DOMAIN indexes |-> indexes[i]]
              => /\ TableShapes([T EXCEPT ![t].indexes = indexes])
                 /\ DOMAIN [T EXCEPT ![t].indexes = indexes] = DOMAIN T
           /\ TableShapes([T EXCEPT ![t].docs = new]) /\ DOMAIN [T EXCEPT ![t].docs = new] = DOMAIN T
           /\ \A capped : TableShapes(With(T, t, NewTable(capped)))
           /\ TableShapes(Without(T, t))
<1>1. indexes = [i \in DOMAIN indexes |-> indexes[i]] => TableShapes([T EXCEPT ![t].indexes = indexes])
  <2> SUFFICES ASSUME indexes = [i \in DOMAIN indexes |-> indexes[i]] PROVE TableShapes([T EXCEPT ![t].indexes = indexes])
    OBVIOUS
  <2> DEFINE U == [T EXCEPT ![t].indexes = indexes]
  <2>1. DOMAIN U = DOMAIN T /\ U = [u \in DOMAIN U |-> U[u]]
    OBVIOUS
  <2>2. \A u \in DOMAIN T : U[u] = IF u = t THEN [T[t] EXCEPT !.indexes = indexes] ELSE T[u]
    OBVIOUS
  <2>3. t \in DOMAIN T => [T[t] EXCEPT !.indexes = indexes] = [docs |-> T[t].docs, indexes |-> indexes, recordIds |-> T[t].recordIds]
    BY RecordEdits, Zenon DEF TableShapes
  <2> HIDE DEF U
  <2>4. TableShapes(U)
    BY <2>1, <2>2, <2>3 DEF TableShapes
  <2> QED BY <2>4 DEF U
<1>2. TableShapes([T EXCEPT ![t].docs = new])
  BY DEF TableShapes
<1>3. ASSUME NEW capped PROVE TableShapes(With(T, t, NewTable(capped)))
  <2> DEFINE v == NewTable(capped)
             U == With(T, t, v)
  <2>1. v = [docs |-> v.docs, indexes |-> v.indexes, recordIds |-> v.recordIds] /\ v.indexes = [i \in DOMAIN v.indexes |-> v.indexes[i]]
    BY DEF NewTable, Empty
  <2> HIDE DEF v
  <2>2. DOMAIN U = DOMAIN T \cup {t} /\ \A u \in DOMAIN U : U[u] = IF u \in DOMAIN T THEN T[u] ELSE v
    BY DEF With
  <2>3. U = [u \in DOMAIN U |-> U[u]]
    BY DEF With
  <2> HIDE DEF U
  <2>4. TableShapes(U)
    BY <2>1, <2>2, <2>3 DEF TableShapes
  <2> QED BY <2>4 DEF U, v
<1>4. TableShapes(Without(T, t))
  BY DEF TableShapes, Without
<1> QED BY <1>1, <1>2, <1>3, <1>4

LEMMA NoCollections ==
    ASSUME NEW T, NEW N
    PROVE  Collections(Empty, T, N) /\ DOMAIN Empty = {}
<1>1. DOMAIN Empty = {} /\ Empty = [n \in DOMAIN Empty |-> Empty[n]]
  BY DEF Empty
<1>2. IsFiniteSet({})
  BY FS_EmptySet
<1> QED BY <1>1, <1>2 DEF Collections

LEMMA CollectionsGrow ==
    ASSUME NEW f, NEW T, NEW U, T \subseteq U, NEW N \in Nat, NEW M \in Nat, N <= M, Collections(f, T, N)
    PROVE  Collections(f, U, M)
<1>1. \A c : Collection(c, T, N) => Collection(c, U, M)
  BY DEF Collection
<1> QED BY <1>1 DEF Collections

LEMMA CollectionsWith ==
    ASSUME NEW f, NEW T, NEW N, Collections(f, T, N), NEW x, x \notin DOMAIN f,
           NEW c, Collection(c, T, N), \A n \in DOMAIN f : f[n].table # c.table /\ f[n].born # c.born
    PROVE  Collections(With(f, x, c), T, N)
<1>1. IsFiniteSet(DOMAIN f \cup {x})
  BY FS_AddElement DEF Collections
<1> DEFINE g == With(f, x, c)
<1>2. /\ DOMAIN g = DOMAIN f \cup {x} /\ g[x] = c /\ \A n \in DOMAIN f : g[n] = f[n]
      /\ g = [n \in DOMAIN g |-> g[n]]
  BY WithFacts
<1> HIDE DEF g
<1>3. \A n \in DOMAIN g : Collection(g[n], T, N)
  BY <1>2 DEF Collections
<1>4. \A n, m \in DOMAIN g : g[n].table = g[m].table \/ g[n].born = g[m].born => n = m
  BY <1>2 DEF Collections
<1>5. Collections(g, T, N)
  BY <1>1, <1>2, <1>3, <1>4 DEF Collections
<1> QED BY <1>5 DEF g

LEMMA CollectionsWithout ==
    ASSUME NEW f, NEW T, NEW N, Collections(f, T, N), NEW x
    PROVE  Collections(Without(f, x), T, N)
<1>1. IsFiniteSet(DOMAIN f \ {x})
  BY FS_RemoveElement DEF Collections
<1> DEFINE g == Without(f, x)
<1>2. DOMAIN g = DOMAIN f \ {x} /\ (\A n \in DOMAIN g : g[n] = f[n]) /\ g = [n \in DOMAIN g |-> g[n]]
  BY DEF Without
<1> HIDE DEF g
<1>3. Collections(g, T, N)
  BY <1>1, <1>2 DEF Collections
<1> QED BY <1>3 DEF g

LEMMA CollectionsElsewhere ==
    ASSUME NEW f, NEW T, NEW N, Collections(f, T, N), NEW t, \A n \in DOMAIN f : f[n].table # t
    PROVE  Collections(f, T \ {t}, N)
BY DEF Collections, Collection

LEMMA SetFacts ==
    ASSUME NEW f, NEW T, NEW N, Collections(f, T, N), NEW t, NEW s
    PROVE  /\ DOMAIN Set(f, t, s) = DOMAIN f
           /\ \A n \in DOMAIN f : Set(f, t, s)[n].table = f[n].table /\ Set(f, t, s)[n].born = f[n].born
           /\ \A n \in DOMAIN f : Set(f, t, s)[n].settings = IF f[n].table = t THEN s ELSE f[n].settings
           /\ \A n \in DOMAIN f : Set(f, t, s)[n] =
                 [table |-> Set(f, t, s)[n].table, settings |-> Set(f, t, s)[n].settings, born |-> Set(f, t, s)[n].born]
           /\ Set(f, t, s) = [n \in DOMAIN Set(f, t, s) |-> Set(f, t, s)[n]]
BY DEF Set, Collections, Collection

LEMMA CollectionsSet ==
    ASSUME NEW f, NEW T, NEW N, Collections(f, T, N), NEW t, NEW s, Settings(s)
    PROVE  Collections(Set(f, t, s), T, N)
<1> DEFINE g == Set(f, t, s)
<1>1. /\ DOMAIN g = DOMAIN f /\ g = [n \in DOMAIN g |-> g[n]]
      /\ \A n \in DOMAIN f : g[n].table = f[n].table /\ g[n].born = f[n].born
      /\ \A n \in DOMAIN f : g[n].settings = IF f[n].table = t THEN s ELSE f[n].settings
      /\ \A n \in DOMAIN f : g[n] = [table |-> g[n].table, settings |-> g[n].settings, born |-> g[n].born]
  BY SetFacts
<1> HIDE DEF g
<1>2. \A n \in DOMAIN g : Collection(g[n], T, N)
  BY <1>1 DEF Collections, Collection
<1>3. Collections(g, T, N)
  BY <1>1, <1>2 DEF Collections
<1> QED BY <1>3 DEF g

LEMMA SetOne ==
    ASSUME NEW f, NEW T, NEW N, Collections(f, T, N), NEW n \in DOMAIN f, NEW s
    PROVE  [f EXCEPT ![n].settings = s] = Set(f, f[n].table, s)
BY DEF Set, Collections

LEMMA StoredIsSet == \A t, s : Stored(t, s) = Set(rows, t, s)
BY DEF Stored, RowsOf, Set

(* There is a number that no collection has in its table: there are more   *)
(* of them than collections.                                               *)
LEMMA TableIsFree ==
    ASSUME Collections(colls, DOMAIN tables, counted.born), NEW name
    PROVE  \A n \in DOMAIN colls : colls[n].table # TableFor(name)
<1> DEFINE Taken(n, k) == colls[n].table = <<name, k>>
           Vacant == {k \in 0 .. Cardinality(DOMAIN colls) : \A n \in DOMAIN colls : ~Taken(n, k)}
           Owner == [k \in 0 .. Cardinality(DOMAIN colls) |-> CHOOSE n \in DOMAIN colls : Taken(n, k)]
<1>1. IsFiniteSet(DOMAIN colls) /\ Cardinality(DOMAIN colls) \in Nat
  BY FS_CardinalityType DEF Collections
<1>2. Vacant # {}
  <2> SUFFICES ASSUME Vacant = {} PROVE FALSE
    OBVIOUS
  <2>1. \A k \in 0 .. Cardinality(DOMAIN colls) : Owner[k] \in DOMAIN colls /\ Taken(Owner[k], k)
    OBVIOUS
  <2>2. Owner \in [0 .. Cardinality(DOMAIN colls) -> DOMAIN colls]
    BY <2>1
  <2>3. IsFiniteSet(0 .. Cardinality(DOMAIN colls)) /\ Cardinality(0 .. Cardinality(DOMAIN colls)) = Cardinality(DOMAIN colls) + 1
    BY <1>1, FS_Interval
  <2>4. \A k, l \in 0 .. Cardinality(DOMAIN colls) : Owner[k] = Owner[l] => k = l
    <3> HIDE DEF Owner
    <3> QED BY <2>1
  <2> HIDE DEF Owner, Taken, Vacant
  <2>5. PICK k \in 0 .. Cardinality(DOMAIN colls), l \in 0 .. Cardinality(DOMAIN colls) : k # l /\ Owner[k] = Owner[l]
    BY <1>1, <2>2, <2>3, FS_PigeonHole
  <2> QED BY <2>4, <2>5
<1>3. PICK k \in Vacant : \A m \in Vacant : k <= m
  <2>1. Vacant \in SUBSET Nat
    BY <1>1
  <2> HIDE DEF Vacant
  <2> QED BY <1>2, <2>1, NatLeast
<1>4. Min(Vacant) \in Vacant
  <2> HIDE DEF Vacant
  <2> QED BY <1>3 DEF Min
<1>5. TableFor(name) = <<name, Min(Vacant)>>
  BY DEF TableFor
<1> QED BY <1>4, <1>5

-----------------------------------------------------------------------------
(* The first invariant: what memory and the metadata table have in common. *)

LEMMA IdleFacts ==
    /\ Idle.at = "idle" /\ Idle.creating = FALSE
    /\ Idle = [at |-> Idle.at, goal |-> Idle.goal, name |-> Idle.name, table |-> Idle.table, list |-> Idle.list,
               made |-> Idle.made, asked |-> Idle.asked, settings |-> Idle.settings, creating |-> Idle.creating,
               capped |-> Idle.capped]
    /\ Settings(Idle.settings)
BY DEF Idle, Blank, Empty, Settings

(* What an idle command leaves is what is marked.                          *)
LEMMA CommandedIdle == op' = Idle => Commanded'
BY IdleFacts DEF Commanded, Steps, Creations

LEMMA RegistryStarts == RegistryAssumption /\ RegistryInit => RegistryInv
<1> SUFFICES ASSUME RegistryAssumption, RegistryInit PROVE RegistryInv
  OBVIOUS
<1>1. Commanded
  BY IdleFacts DEF RegistryInit, Commanded, Steps, Creations
<1>2. up = "down" /\ open = FALSE /\ colls = Empty /\ op = Idle /\ marks = NoMarks
  BY DEF RegistryInit
<1>3. CASE file = "none" /\ rows = Empty /\ tables = Empty /\ counted = [commands |-> 0, failures |-> 0, born |-> 0]
  <2>1. DOMAIN tables = {} /\ counted.born = 0
    BY <1>3 DEF Empty
  <2>2. Shapes
    BY <1>2, <1>3, <2>1 DEF Shapes, NoMarks, Empty, TableShapes
  <2>3. Named
    BY <1>2, <1>3, NoCollections DEF Named
  <2>4. Control
    BY <1>2, <1>3, IdleFacts DEF Control, Attached
  <2>5. Agreed
    BY <1>2 DEF Agreed, Attached
  <2> QED BY <1>1, <2>2, <2>3, <2>4, <2>5 DEF RegistryInv
<1>4. ASSUME NEW old \in Databases, NEW number \in Injection(DOMAIN old, 1 .. Cardinality(DOMAIN old)), Old(old, number)
      PROVE  RegistryInv
  <2>1. /\ IsFiniteSet(DOMAIN old) /\ Cardinality(DOMAIN old) \in Nat
        /\ \A n \in DOMAIN old : old[n].indexes = [i \in DOMAIN old[n].indexes |-> old[n].indexes[i]]
    BY FS_CardinalityType DEF RegistryAssumption
  <2>2. /\ \A n \in DOMAIN old : number[n] \in 1 .. Cardinality(DOMAIN old)
        /\ \A n, m \in DOMAIN old : number[n] = number[m] => n = m
    BY DEF Injection, IsInjective
  <2>3. /\ file = "ready" /\ counted = [commands |-> 0, failures |-> 0, born |-> Cardinality(DOMAIN old)]
        /\ DOMAIN rows = DOMAIN old /\ DOMAIN tables = {<<n, 0>> : n \in DOMAIN old}
        /\ rows = [n \in DOMAIN rows |-> rows[n]] /\ tables = [t \in DOMAIN tables |-> tables[t]]
    BY <1>4 DEF Old
  <2>4. \A n \in DOMAIN rows :
          rows[n] = [table |-> <<n, 0>>, born |-> number[n],
                     settings |-> [uuid |-> TRUE, indexes |-> old[n].indexes, capped |-> old[n].capped, current |-> FALSE]]
    BY <1>4, <2>3 DEF Old
  <2>5. \A t \in DOMAIN tables :
          tables[t] = [docs |-> {number[t[1]]}, recordIds |-> old[t[1]].capped,
                       indexes |-> [i \in DOMAIN old[t[1]].indexes |-> [key |-> old[t[1]].indexes[i], covering |-> FALSE]]]
    BY <1>4, <2>3 DEF Old
  <2>6. Shapes
    <3>1. TableShapes(tables)
      <4>1. \A t \in DOMAIN tables :
              /\ tables[t] = [docs |-> tables[t].docs, indexes |-> tables[t].indexes, recordIds |-> tables[t].recordIds]
              /\ tables[t].indexes = [i \in DOMAIN tables[t].indexes |-> tables[t].indexes[i]]
        BY <2>5
      <4> QED BY <2>3, <4>1 DEF TableShapes
    <3> QED BY <1>2, <2>1, <2>3, <3>1 DEF Shapes, NoMarks
  <2>7. Named
    <3>1. \A n \in DOMAIN rows : Collection(rows[n], DOMAIN tables, counted.born)
      BY <2>1, <2>2, <2>3, <2>4 DEF Collection, Settings
    <3>2. \A n, m \in DOMAIN rows : rows[n].table = rows[m].table \/ rows[n].born = rows[m].born => n = m
      BY <2>2, <2>3, <2>4
    <3>3. Collections(rows, DOMAIN tables, counted.born)
      BY <2>1, <2>3, <3>1, <3>2 DEF Collections
    <3> QED BY <1>2, <3>3, NoCollections DEF Named
  <2>8. Control
    BY <1>2, <2>3, IdleFacts DEF Control, Attached
  <2>9. Agreed
    BY <1>2 DEF Agreed, Attached
  <2> QED BY <1>1, <2>6, <2>7, <2>8, <2>9 DEF RegistryInv
<1> QED BY <1>3, <1>4 DEF RegistryInit

LEMMA ProcessStep ==
    ASSUME RegistryInv, Start \/ (\E name \in DOMAIN colls : UpgradeIndexFormat(name)) \/ Serve \/ Crash
    PROVE  RegistryInv'
<1> USE DEF RegistryInv
<1>1. CASE Start
  <2>1. Commanded' /\ Shapes' /\ Named'
    BY <1>1 DEF Start, Commanded, Shapes, Named
  <2>2. op = Idle
    BY <1>1 DEF Start, Control
  <2>3. Control'
    BY <1>1, <2>2, IdleFacts DEF Start, Control, Attached, Shapes
  <2>4. Agreed'
    BY <1>1 DEF Start, Agreed, Attached
  <2> QED BY <2>1, <2>3, <2>4
<1>2. ASSUME NEW name \in DOMAIN colls, UpgradeIndexFormat(name) PROVE RegistryInv'
  <2> DEFINE s == [colls[name].settings EXCEPT !.current = TRUE]
             t == colls[name].table
  <2>1. op = Idle /\ colls = rows /\ up = "starting"
    BY <1>2 DEF UpgradeIndexFormat, Control
  <2>2. Settings(s)
    <3>1. Settings(colls[name].settings)
      BY DEF Named, Collections, Collection
    <3>2. colls[name].settings.indexes = [i \in DOMAIN colls[name].settings.indexes |-> colls[name].settings.indexes[i]]
      BY <3>1 DEF Settings
    <3> QED BY <3>1, <3>2, SettingsEdits
  <2>3. rows' = Set(rows, t, s) /\ colls' = Set(colls, t, s)
    <3>1. rows' = Stored(t, s) /\ colls' = [colls EXCEPT ![name].settings = s]
      BY <1>2 DEF UpgradeIndexFormat
    <3> HIDE DEF s
    <3>2. Collections(colls, DOMAIN tables, counted.born)
      BY DEF Named
    <3>3. [colls EXCEPT ![name].settings = s] = Set(colls, t, s)
      BY <3>2, SetOne
    <3> QED BY <3>1, <3>3, StoredIsSet
  <2> HIDE DEF s, t
  <2>4. /\ DOMAIN tables' = DOMAIN tables
        /\ UNCHANGED <<file, up, open, op, counted>> /\ counted.born \in Nat
    BY <1>2 DEF UpgradeIndexFormat, Shapes
  <2>5. Shapes'
    <3>1. tables' = [tables EXCEPT ![t].indexes = Rebuilt(tables[t].indexes, s)] \/ t \notin DOMAIN tables
      BY <1>2 DEF UpgradeIndexFormat, Shapes, TableShapes, s, t
    <3>2. t \in DOMAIN tables
      BY DEF Named, Collections, Collection, t
    <3>3. TableShapes(tables')
      <4>1. \A indexes : Rebuilt(indexes, s) = [i \in DOMAIN Rebuilt(indexes, s) |-> Rebuilt(indexes, s)[i]]
        BY DEF Rebuilt
      <4> DEFINE r == Rebuilt(tables[t].indexes, s)
      <4>2. r = [i \in DOMAIN r |-> r[i]] /\ TableShapes(tables)
        BY <4>1 DEF Shapes
      <4> HIDE DEF r
      <4>3. TableShapes([tables EXCEPT ![t].indexes = r])
        BY <4>2, TableEdits
      <4> QED BY <3>1, <3>2, <4>3 DEF r
    <3>4. marks' = [orphaned |-> marks'.orphaned, halfMade |-> marks'.halfMade,
                    leftover |-> marks'.leftover, unindexed |-> marks'.unindexed]
      BY <1>2 DEF UpgradeIndexFormat, Shapes
    <3> QED BY <1>2, <3>3, <3>4 DEF UpgradeIndexFormat, Shapes
  <2>6. Named'
    BY <2>2, <2>3, <2>4, CollectionsSet DEF Named
  <2>7. Commanded'
    BY <2>4 DEF Commanded
  <2>8. DOMAIN rows' = DOMAIN rows /\ rows' = colls'
    BY <2>1, <2>3, SetFacts DEF Named
  <2>9. Control'
    <3>1. file # "ready" => DOMAIN rows = {}
      BY NoCollections DEF Control
    <3>2. open /\ file = "ready"
      BY <2>1, <3>1 DEF Control
    <3> QED BY <2>1, <2>4, <2>8, <3>2, IdleFacts DEF Control, Attached
  <2>10. Agreed'
    BY <2>8 DEF Agreed
  <2> QED BY <2>5, <2>6, <2>7, <2>9, <2>10
<1>3. CASE Serve
  <2>1. op = Idle /\ op.at = "idle"
    BY <1>3, IdleFacts DEF Serve, Control
  <2> QED BY <1>3, <2>1 DEF Serve, Commanded, Shapes, Named, Control, Attached, Agreed, Interrupted
<1>4. CASE Crash
  <2>1. Commanded'
    BY <1>4, CommandedIdle DEF Crash
  <2>2. Shapes'
    BY <1>4 DEF Crash, Shapes, Fails, Interrupted
  <2>3. Named'
    BY <1>4, NoCollections DEF Crash, Fails, Named, Shapes
  <2>4. Control' /\ Agreed'
    BY <1>4, IdleFacts DEF Crash, Control, Attached, Agreed
  <2> QED BY <2>1, <2>2, <2>3, <2>4
<1> QED BY <1>1, <1>2, <1>3, <1>4

(* What a step that leaves the database and memory alone, and marks no     *)
(* less than what it interrupts, has to show.                              *)
LEMMA NamedStays ==
    ASSUME Named, UNCHANGED <<rows, colls, tables>>, counted'.born = counted.born
    PROVE  Named'
BY DEF Named

LEMMA CountedStays == (Counted \/ Fails) /\ Shapes
    => /\ counted' = [commands |-> counted'.commands, failures |-> counted'.failures, born |-> counted'.born]
       /\ counted'.born = counted.born /\ counted'.born \in Nat
BY DEF Counted, Fails, Shapes

(* The commands begin when none runs, and have only to say where.          *)
LEMMA BeginStep ==
    ASSUME RegistryInv,
           \/ \E name \in Names, capped \in BOOLEAN : Create(name, capped)
           \/ \E name \in Names, list \in IndexLists : CreateIndexes(name, list)
           \/ \E name \in Names : Insert(name) \/ Drop(name)
           \/ \E name \in DOMAIN colls : \E indexes \in SUBSET DOMAIN Listed(name) : DropIndexes(name, indexes)
    PROVE  RegistryInv'
<1> USE DEF RegistryInv
<1>1. up = "up" /\ op = Idle /\ Counted /\ UNCHANGED <<file, rows, tables, up, open, colls, marks>>
  BY DEF Create, CreateIndexes, Insert, Drop, DropIndexes, Ready
<1>2. op.at = "idle" /\ ~op.creating
  BY <1>1, IdleFacts
<1>3. Shapes' /\ Named'
  BY <1>1, NamedStays, CountedStays DEF Shapes
<1>4. \/ op'.at = "open"
      \/ op'.at = "write" /\ op'.name \in DOMAIN colls
      \/ op'.at \in {"deleteRow", "unindex"} /\ op'.name \in DOMAIN colls /\ op'.table = colls[op'.name].table
  <2>1. ASSUME NEW name, NEW capped, Create(name, capped) PROVE op'.at = "open"
    BY <2>1 DEF Create, Begin, Idle
  <2>2. ASSUME NEW name, NEW list, CreateIndexes(name, list) PROVE op'.at = "open"
    BY <2>2 DEF CreateIndexes, Begin, Idle
  <2>3. ASSUME NEW name, Insert(name)
        PROVE  op'.at = "open" \/ (op'.at = "write" /\ op'.name = name /\ name \in DOMAIN colls)
    BY <2>3 DEF Insert, Begin, Idle
  <2>4. ASSUME NEW name, Drop(name)
        PROVE  op'.at = "deleteRow" /\ op'.name = name /\ name \in DOMAIN colls /\ op'.table = colls[name].table
    BY <2>4 DEF Drop, Begin, Idle
  <2>5. ASSUME NEW name, NEW indexes, DropIndexes(name, indexes)
        PROVE  op'.at = "unindex" /\ op'.name = name /\ name \in DOMAIN colls /\ op'.table = colls[name].table
    BY <2>5 DEF DropIndexes, Begin, Idle
  <2> QED BY <2>1, <2>2, <2>3, <2>4, <2>5
<1>5. op'.creating = FALSE /\ op'.made = {}
  BY DEF Create, CreateIndexes, Insert, Drop, DropIndexes, Begin, Idle
<1>6. Commanded'
  <2>1. op' = [at |-> op'.at, goal |-> op'.goal, name |-> op'.name, table |-> op'.table, list |-> op'.list, made |-> op'.made,
               asked |-> op'.asked, settings |-> op'.settings, creating |-> op'.creating, capped |-> op'.capped]
    BY DEF Create, CreateIndexes, Insert, Drop, DropIndexes, Begin, Idle
  <2>2. Settings(op'.settings)
    <3>1. op'.settings = Blank \/ \E n \in DOMAIN colls : op'.settings = colls[n].settings
      BY DEF Create, CreateIndexes, Insert, Drop, DropIndexes, Begin, Idle
    <3>2. Settings(Blank)
      BY IdleFacts DEF Idle
    <3> QED BY <3>1, <3>2 DEF Named, Collections, Collection
  <2>3. op'.at = "open" => op'.goal \in Creations
    BY DEF Create, CreateIndexes, Insert, Drop, DropIndexes, Begin, Idle, Creations
  <2> QED BY <1>4, <1>5, <2>1, <2>2, <2>3 DEF Commanded, Steps
<1>7. DOMAIN colls # {} => open /\ Attached
  BY NoCollections DEF Control, Attached
<1>8. Control'
  BY <1>1, <1>2, <1>4, <1>5, <1>7 DEF Control, Attached
<1>9. Agreed'
  <2>1. Attached' => Attached
    BY <1>1, <1>2 DEF Attached
  <2>2. Interrupted.halfMade \subseteq Interrupted'.halfMade /\ Interrupted.orphaned \subseteq Interrupted'.orphaned
    BY <1>1, <1>2 DEF Interrupted, When
  <2> QED BY <1>1, <2>1, <2>2 DEF Agreed
<1> QED BY <1>3, <1>6, <1>8, <1>9

(* A collection that has a row takes it along.                             *)
LEMMA RowsAfterRename ==
    ASSUME NEW T, NEW N, Collections(rows, T, N), Collections(colls, T, N), NEW name, NEW new, Rename(name, new),
           DOMAIN rows \subseteq DOMAIN colls, \A n \in DOMAIN rows : colls[n].table = rows[n].table
    PROVE  rows' = IF name \in DOMAIN rows THEN With(Without(rows, name), new, rows[name]) ELSE rows
<1>1. name \in DOMAIN colls /\ new \notin DOMAIN colls
  BY DEF Rename
<1>2. RowsOf(colls[name].table) = {name} \cap DOMAIN rows
  BY <1>1 DEF RowsOf, Collections
<1>3. rows' = [n \in (DOMAIN rows \ RowsOf(colls[name].table)) \cup When(RowsOf(colls[name].table) # {}, new) |->
                   IF n = new THEN rows[CHOOSE m \in RowsOf(colls[name].table) : TRUE] ELSE rows[n]]
  BY DEF Rename
<1>4. new \notin DOMAIN rows /\ rows = [n \in DOMAIN rows |-> rows[n]]
  BY <1>1 DEF Collections
<1>5. CASE name \in DOMAIN rows
  <2>1. RowsOf(colls[name].table) = {name} /\ (CHOOSE m \in {name} : TRUE) = name
    BY <1>2, <1>5
  <2>2. rows' = [n \in (DOMAIN rows \ {name}) \cup {new} |-> IF n = new THEN rows[name] ELSE rows[n]]
    BY <1>3, <2>1 DEF When
  <2> QED BY <1>4, <1>5, <2>2 DEF With, Without
<1>6. CASE name \notin DOMAIN rows
  <2>1. RowsOf(colls[name].table) = {}
    BY <1>2, <1>6
  <2>2. rows' = [n \in DOMAIN rows |-> IF n = new THEN rows[CHOOSE m \in {} : TRUE] ELSE rows[n]]
    BY <1>3, <2>1 DEF When
  <2> QED BY <1>4, <1>6, <2>2
<1> QED BY <1>5, <1>6

LEMMA RenameStep ==
    ASSUME RegistryInv, NEW name \in Names, NEW new \in Names, Rename(name, new)
    PROVE  RegistryInv'
<1> USE DEF RegistryInv
<1>1. /\ up = "up" /\ op = Idle /\ Counted /\ UNCHANGED <<file, tables, up, open, op, marks>>
      /\ name \in DOMAIN colls /\ new \notin DOMAIN colls
      /\ colls' = With(Without(colls, name), new, colls[name])
  BY DEF Rename, Ready
<1>2. op.at = "idle" /\ ~op.creating /\ Attached /\ Attached'
  <2>1. op.at = "idle" /\ ~op.creating
    BY <1>1, IdleFacts
  <2>2. Attached
    BY <1>1, NoCollections DEF Control
  <2> QED BY <1>1, <2>1, <2>2 DEF Attached
<1>3. /\ Collections(rows, DOMAIN tables, counted.born) /\ Collections(colls, DOMAIN tables, counted.born)
      /\ DOMAIN rows \subseteq DOMAIN colls /\ \A n \in DOMAIN rows : colls[n].table = rows[n].table
  BY <1>2 DEF Named, Agreed
<1>4. rows' = IF name \in DOMAIN rows THEN With(Without(rows, name), new, rows[name]) ELSE rows
  BY <1>3, RowsAfterRename
<1>5. /\ DOMAIN colls' = (DOMAIN colls \ {name}) \cup {new}
      /\ \A n \in DOMAIN colls \ {name} : colls'[n] = colls[n]
      /\ colls'[new] = colls[name]
  BY <1>1 DEF With, Without
<1>6. /\ DOMAIN rows' = (DOMAIN rows \ {name}) \cup When(name \in DOMAIN rows, new)
      /\ \A n \in DOMAIN rows \ {name} : rows'[n] = rows[n]
      /\ name \in DOMAIN rows => rows'[new] = rows[name]
  BY <1>1, <1>3, <1>4 DEF With, Without, When
<1>7. Named'
  <2>1. \A f : Collections(f, DOMAIN tables, counted.born) /\ name \in DOMAIN f /\ new \notin DOMAIN f
           => Collections(With(Without(f, name), new, f[name]), DOMAIN tables, counted.born)
    <3> SUFFICES ASSUME NEW f, Collections(f, DOMAIN tables, counted.born), name \in DOMAIN f, new \notin DOMAIN f
                 PROVE  Collections(With(Without(f, name), new, f[name]), DOMAIN tables, counted.born)
      OBVIOUS
    <3> DEFINE g == Without(f, name)
    <3>1. Collections(g, DOMAIN tables, counted.born) /\ DOMAIN g = DOMAIN f \ {name} /\ \A n \in DOMAIN g : g[n] = f[n]
      BY CollectionsWithout DEF Without
    <3> HIDE DEF g
    <3>2. Collection(f[name], DOMAIN tables, counted.born) /\ \A n \in DOMAIN g : g[n].table # f[name].table /\ g[n].born # f[name].born
      BY <3>1 DEF Collections
    <3>3. Collections(With(g, new, f[name]), DOMAIN tables, counted.born)
      BY <3>1, <3>2, CollectionsWith
    <3> QED BY <3>3 DEF g
  <2>2. DOMAIN tables' = DOMAIN tables /\ counted'.born = counted.born
    BY <1>1, CountedStays
  <2>3. new \notin DOMAIN rows
    BY <1>1, <1>3
  <2> QED BY <1>1, <1>3, <1>4, <2>1, <2>2, <2>3 DEF Named
<1>8. Shapes' /\ Commanded'
  BY <1>1, CountedStays DEF Shapes, Commanded
<1>9. Control'
  BY <1>1, <1>2, NoCollections DEF Control, Attached
<1>10. Agreed'
  <2>1. Interrupted' = Interrupted
    BY <1>1 DEF Interrupted
  <2> QED BY <1>1, <1>2, <1>3, <1>5, <1>6, <2>1 DEF Agreed, When
<1> QED BY <1>7, <1>8, <1>9, <1>10

(* Whether the file goes or not, memory forgets what was in it.            *)
LEMMA RemoveStep ==
    ASSUME RegistryInv, NEW removed \in BOOLEAN, RemoveFile(removed), Counted \/ Fails \/ UNCHANGED counted,
           UNCHANGED up, up = "up", op' = Idle
    PROVE  RegistryInv'
<1> USE DEF RegistryInv
<1>1. open' = FALSE /\ colls' = Empty
  BY DEF RemoveFile
<1>2. /\ counted' = [commands |-> counted'.commands, failures |-> counted'.failures, born |-> counted'.born]
      /\ counted'.born = counted.born /\ counted'.born \in Nat
  BY CountedStays DEF Shapes
<1>3. Shapes' /\ Named'
  <2>1. CASE removed
    <3>1. file' = "none" /\ rows' = Empty /\ tables' = Empty /\ marks' = NoMarks
      BY <2>1 DEF RemoveFile
    <3>2. TableShapes(tables')
      BY <3>1 DEF TableShapes, Empty
    <3> QED BY <1>1, <1>2, <3>1, <3>2, NoCollections DEF Shapes, Named, NoMarks
  <2>2. CASE ~removed
    BY <1>1, <1>2, <2>2, NoCollections DEF RemoveFile, Shapes, Named
  <2> QED BY <2>1, <2>2
<1>4. Commanded'
  BY CommandedIdle
<1>5. Control'
  BY <1>1, IdleFacts DEF Control, Attached, RemoveFile
<1>6. Agreed'
  BY <1>1 DEF Agreed, Attached
<1> QED BY <1>3, <1>4, <1>5, <1>6

LEMMA OpenStep ==
    ASSUME RegistryInv, OpenDatabase \/ CreateMetadata \/ MetadataFails \/ NothingDone \/ Exists \/ DropDatabase
    PROVE  RegistryInv'
<1> USE DEF RegistryInv
<1>1. CASE OpenDatabase
  <2>1. /\ op.at = "open" /\ ~op.creating /\ open' = TRUE /\ file' = (IF file = "none" THEN "empty" ELSE file)
        /\ op' = [op EXCEPT !.at = IF open THEN "table" ELSE "metadata"]
        /\ UNCHANGED <<rows, tables, up, colls, marks, counted>>
    BY <1>1 DEF OpenDatabase, Commanded
  <2>2. Shapes' /\ Named'
    BY <2>1, NamedStays DEF Shapes
  <2>3. Commanded'
    BY <2>1 DEF Commanded, Steps
  <2>4. op'.at = (IF open THEN "table" ELSE "metadata") /\ op'.creating = FALSE
    BY <2>1 DEF Commanded
  <2>5. up = "up"
    BY <2>1, IdleFacts DEF Control, Shapes
  <2>6. Control'
    BY <2>1, <2>4, <2>5 DEF Control, Attached, Shapes
  <2>7. Interrupted' = Interrupted
    BY <2>1, <2>4 DEF Interrupted, When
  <2>8. Agreed'
    BY <2>1, <2>4, <2>7 DEF Agreed, Attached, Shapes
  <2> QED BY <2>2, <2>3, <2>6, <2>8
<1>2. CASE CreateMetadata
  <2>1. /\ op.at = "metadata" /\ ~op.creating /\ file = "empty" /\ file' = "ready"
        /\ op' = [op EXCEPT !.at = "table"]
        /\ UNCHANGED <<rows, tables, up, open, colls, marks, counted>>
    BY <1>2 DEF CreateMetadata, Commanded
  <2>2. Shapes' /\ Named'
    BY <2>1, NamedStays DEF Shapes
  <2>3. Commanded'
    BY <2>1 DEF Commanded, Steps
  <2>4. op'.at = "table" /\ op'.creating = FALSE
    BY <2>1 DEF Commanded
  <2>5. up = "up" /\ rows = Empty /\ colls = Empty /\ open
    BY <2>1, IdleFacts DEF Control, Shapes, Attached
  <2>6. Control'
    BY <2>1, <2>4, <2>5 DEF Control, Attached
  <2>7. Agreed'
    BY <2>1, <2>5, NoCollections DEF Agreed
  <2> QED BY <2>2, <2>3, <2>6, <2>7
<1>3. CASE MetadataFails
  <2>1. \E removed \in BOOLEAN : RemoveFile(removed) /\ (Fails \/ UNCHANGED counted)
    BY <1>3 DEF MetadataFails
  <2>2. op' = Idle /\ UNCHANGED up /\ up = "up"
    BY <1>3, IdleFacts DEF MetadataFails, Control
  <2> QED BY <2>1, <2>2, RemoveStep
<1>4. CASE NothingDone
  <2>1. /\ op.at \in {"open", "table"} /\ ~op.creating /\ op' = Idle /\ Fails
        /\ UNCHANGED <<file, rows, tables, up, open, colls, marks>>
    BY <1>4 DEF NothingDone, Commanded
  <2>2. Shapes' /\ Named' /\ Commanded'
    BY <2>1, NamedStays, CountedStays, CommandedIdle DEF Shapes
  <2>3. Control'
    BY <2>1, IdleFacts DEF Control, Attached
  <2>4. Interrupted' = Interrupted
    BY <2>1, IdleFacts DEF Interrupted, When
  <2>5. Agreed'
    BY <2>1, <2>4 DEF Agreed, Attached
  <2> QED BY <2>2, <2>3, <2>5
<1>5. CASE Exists
  <2> DEFINE c == colls[op.name]
  <2>1. /\ op.at = "table" /\ ~op.creating /\ op.name \in DOMAIN colls
        /\ op.goal \in Creations
        /\ op' = Continue([op EXCEPT !.table = c.table], c.settings)
        /\ UNCHANGED <<file, rows, tables, up, open, colls, marks, counted>>
    BY <1>5 DEF Exists, Commanded
  <2>2. Shapes' /\ Named'
    BY <2>1, NamedStays DEF Shapes
  <2>3. Settings(c.settings)
    BY <2>1 DEF Named, Collections, Collection
  <2> HIDE DEF c
  <2>4. \/ op' = Idle
        \/ op' = [op EXCEPT !.table = c.table, !.at = "write", !.creating = FALSE]
        \/ op.goal = "createIndexes" /\ op' = [op EXCEPT !.table = c.table, !.at = "index", !.creating = FALSE, !.settings = c.settings, !.made = {}]
    BY <2>1 DEF Continue, Creations, Commanded
  <2>5. Commanded'
    BY <2>1, <2>3, <2>4, CommandedIdle DEF Commanded, Steps
  <2>6. /\ op'.creating = FALSE /\ op'.at \in {"idle", "write", "index"} /\ (op'.at # "index" \/ op'.made = {})
        /\ op'.at # "idle" => op'.name = op.name /\ op'.table = c.table
    BY <2>4, IdleFacts DEF Commanded
  <2>7. up = "up" /\ open
    BY <2>1, IdleFacts DEF Control
  <2>8. Control'
    BY <2>1, <2>6, <2>7 DEF Control, Attached, c
  <2>9. Interrupted' = Interrupted
    BY <2>1, <2>6 DEF Interrupted, When
  <2>10. Agreed'
    BY <2>1, <2>6, <2>9 DEF Agreed, Attached
  <2> QED BY <2>2, <2>5, <2>8, <2>10
<1>6. CASE DropDatabase
  <2>1. \E removed \in BOOLEAN : RemoveFile(removed) /\ (Counted \/ Fails)
    BY <1>6 DEF DropDatabase
  <2>2. op' = Idle /\ UNCHANGED up /\ up = "up"
    BY <1>6 DEF DropDatabase, Ready
  <2> QED BY <2>1, <2>2, RemoveStep
<1> QED BY <1>1, <1>2, <1>3, <1>4, <1>5, <1>6

(* A new collection has a table that no other has, and a new number.       *)
LEMMA TableStep ==
    ASSUME RegistryInv, CreateTable \/ InsertRow \/ RowFails
    PROVE  RegistryInv'
<1> USE DEF RegistryInv
<1>1. CASE CreateTable
  <2> DEFINE table == TableFor(op.name)
  <2>1. /\ op.at = "table" /\ ~op.creating /\ op.name \notin DOMAIN colls
        /\ tables' = With(tables, table, NewTable(op.capped))
        /\ op' = [op EXCEPT !.at = "row", !.table = table]
        /\ UNCHANGED <<file, rows, up, open, colls, marks, counted>>
    BY <1>1 DEF CreateTable, Made, Commanded
  <2>2. \A n \in DOMAIN colls : colls[n].table # table
    BY TableIsFree DEF Named
  <2> HIDE DEF table
  <2>3. DOMAIN tables' = DOMAIN tables \cup {table} /\ TableShapes(tables')
    <3>1. TableShapes(tables)
      BY DEF Shapes
    <3>2. TableShapes(With(tables, table, NewTable(op.capped)))
      BY <3>1, TableEdits
    <3> QED BY <2>1, <3>2 DEF With
  <2>4. Shapes'
    BY <2>1, <2>3 DEF Shapes
  <2>5. Named'
    <3>1. counted.born \in Nat /\ counted.born <= counted.born /\ counted'.born = counted.born
      BY <2>1 DEF Shapes
    <3> QED BY <2>1, <2>3, <3>1, CollectionsGrow DEF Named
  <2>6. Commanded'
    BY <2>1 DEF Commanded, Steps
  <2>7. op'.at = "row" /\ op'.creating = FALSE /\ op'.name = op.name /\ op'.table = table
    BY <2>1 DEF Commanded
  <2>8. Control'
    BY <2>1, <2>2, <2>3, <2>7, IdleFacts DEF Control, Attached
  <2>9. Interrupted'.halfMade = Interrupted.halfMade /\ Interrupted.orphaned \subseteq Interrupted'.orphaned
    BY <2>1, <2>7 DEF Interrupted, When
  <2>10. Agreed'
    BY <2>1, <2>7, <2>9 DEF Agreed, Attached
  <2> QED BY <2>4, <2>5, <2>6, <2>8, <2>10
<1>2. CASE InsertRow
  <2> DEFINE number == counted.born + 1
             row == [table |-> op.table, settings |-> Blank, born |-> number]
             new == [table |-> op.table, settings |-> NewSettings(op.capped), born |-> number]
  <2>1. /\ op.at = "row" /\ ~op.creating /\ op.name \notin DOMAIN rows
        /\ rows' = With(rows, op.name, row) /\ colls' = With(colls, op.name, new)
        /\ counted' = [counted EXCEPT !.born = @ + 1]
        /\ op' = [op EXCEPT !.at = "index", !.creating = TRUE, !.settings = NewSettings(op.capped)]
        /\ UNCHANGED <<file, tables, up, open, marks>>
    BY <1>2 DEF InsertRow, Commanded
  <2>2. /\ op.name \notin DOMAIN colls /\ op.table \in DOMAIN tables
        /\ \A n \in DOMAIN colls : colls[n].table # op.table
        /\ Attached /\ up = "up"
    BY <2>1, IdleFacts DEF Control, Attached
  <2>3. /\ counted' = [commands |-> counted'.commands, failures |-> counted'.failures, born |-> counted'.born]
        /\ counted'.born = number /\ counted.born \in Nat /\ number \in Nat /\ counted.born < number
    BY <2>1 DEF Shapes
  <2>4. Settings(Blank) /\ Settings(NewSettings(op.capped))
    BY DEF Settings, Blank, NewSettings, Empty
  <2>5. Shapes'
    BY <2>1, <2>3 DEF Shapes
  <2>6. Named'
    <3>1. Collections(rows, DOMAIN tables, number) /\ Collections(colls, DOMAIN tables, number)
      BY <2>3, CollectionsGrow DEF Named
    <3>2. Collection(row, DOMAIN tables, number) /\ Collection(new, DOMAIN tables, number)
      BY <2>2, <2>3, <2>4 DEF Collection
    <3>3. \A n \in DOMAIN colls : colls[n].table # new.table /\ colls[n].born # new.born
      <4>1. \A n \in DOMAIN colls : colls[n].born \in 0 .. counted.born
        BY DEF Named, Collections, Collection
      <4> QED BY <2>2, <2>3, <4>1
    <3>4. \A n \in DOMAIN rows : rows[n].table # row.table /\ rows[n].born # row.born
      <4>1. \A n \in DOMAIN rows : n \in DOMAIN colls /\ colls[n].table = rows[n].table /\ colls[n].born = rows[n].born
        BY <2>2 DEF Agreed
      <4> QED BY <3>3, <4>1
    <3> HIDE DEF row, new, number
    <3>5. Collections(With(rows, op.name, row), DOMAIN tables, number)
      BY <2>1, <3>1, <3>2, <3>4, CollectionsWith
    <3>6. Collections(With(colls, op.name, new), DOMAIN tables, number)
      BY <2>2, <3>1, <3>2, <3>3, CollectionsWith
    <3> QED BY <2>1, <2>3, <3>5, <3>6 DEF Named
  <2>7. /\ op'.at = "index" /\ op'.creating = TRUE /\ op'.name = op.name /\ op'.table = op.table /\ op'.goal = op.goal
        /\ op'.settings = NewSettings(op.capped) /\ op.goal \in Creations
    BY <2>1 DEF Commanded
  <2>8. Commanded'
    BY <2>1, <2>4, <2>7 DEF Commanded, Steps
  <2>9. /\ DOMAIN rows' = DOMAIN rows \cup {op.name} /\ DOMAIN colls' = DOMAIN colls \cup {op.name}
        /\ (\A n \in DOMAIN rows : rows'[n] = rows[n]) /\ (\A n \in DOMAIN colls : colls'[n] = colls[n])
        /\ rows'[op.name] = row /\ colls'[op.name] = new
    BY <2>1, <2>2 DEF With
  <2>10. Control'
    BY <2>1, <2>2, <2>7, <2>9 DEF Control, Attached
  <2>11. Interrupted'.halfMade = Interrupted.halfMade \cup {op.table} /\ Interrupted.orphaned \ {op.table} \subseteq Interrupted'.orphaned
    BY <2>1, <2>7 DEF Interrupted, When
  <2>12. Agreed'
    BY <2>2, <2>9, <2>11 DEF Agreed
  <2> QED BY <2>5, <2>6, <2>8, <2>10, <2>12
<1>3. CASE RowFails
  <2>1. /\ op.at = "row" /\ ~op.creating /\ op' = Idle
        /\ \/ DropsTable(op.table)
           \/ marks' = Interrupted /\ UNCHANGED tables
        /\ UNCHANGED counted \/ Fails
        /\ UNCHANGED <<file, rows, up, open, colls>>
    BY <1>3 DEF RowFails, Commanded
  <2>2. /\ \A n \in DOMAIN colls : colls[n].table # op.table
        /\ \A n \in DOMAIN rows : n \in DOMAIN colls /\ colls[n].table = rows[n].table
        /\ Attached /\ up = "up"
    BY <2>1, IdleFacts DEF Control, Attached, Agreed
  <2>3. /\ counted' = [commands |-> counted'.commands, failures |-> counted'.failures, born |-> counted'.born]
        /\ counted'.born = counted.born /\ counted'.born \in Nat
    BY <2>1, CountedStays DEF Shapes
  <2>4. Shapes'
    <3>1. TableShapes(tables')
      <4>1. TableShapes(tables) /\ (tables' = tables \/ tables' = Without(tables, op.table))
        BY <2>1 DEF DropsTable, Shapes
      <4>2. TableShapes(Without(tables, op.table))
        BY <4>1, TableEdits
      <4> QED BY <4>1, <4>2
    <3>2. marks' = [orphaned |-> marks'.orphaned, halfMade |-> marks'.halfMade,
                    leftover |-> marks'.leftover, unindexed |-> marks'.unindexed]
      BY <2>1 DEF DropsTable, Forget, Interrupted, Shapes
    <3> QED BY <2>1, <2>3, <3>1, <3>2 DEF Shapes
  <2>5. Named'
    <3>1. DOMAIN tables' = DOMAIN tables \/ DOMAIN tables' = DOMAIN tables \ {op.table}
      BY <2>1 DEF DropsTable, Without
    <3>2. \A n \in DOMAIN rows : rows[n].table # op.table
      BY <2>2
    <3> QED BY <2>1, <2>2, <2>3, <3>1, <3>2, CollectionsElsewhere DEF Named
  <2>6. Commanded'
    BY <2>1, CommandedIdle
  <2>7. Control'
    BY <2>1, <2>2, IdleFacts DEF Control, Attached
  <2>8. /\ Interrupted.halfMade \ {op.table} \subseteq Interrupted'.halfMade
        /\ Interrupted.orphaned \ {op.table} \subseteq Interrupted'.orphaned
    BY <2>1, IdleFacts DEF Interrupted, When, DropsTable, Forget, Shapes
  <2>9. Agreed'
    BY <2>1, <2>2, <2>8 DEF Agreed, Attached
  <2> QED BY <2>4, <2>5, <2>6, <2>7, <2>9
<1> QED BY <1>1, <1>2, <1>3

LEMMA IndexStep ==
    ASSUME RegistryInv, CreateIndex \/ WriteSettings \/ IndexFails
    PROVE  RegistryInv'
<1> USE DEF RegistryInv
<1>1. /\ op.at = "index" /\ op.name \in DOMAIN colls /\ op.table = colls[op.name].table
      /\ op.creating => op.name \in DOMAIN rows
      /\ up = "up" /\ open /\ Attached
  <2>1. op.at = "index"
    BY DEF CreateIndex, WriteSettings, IndexFails
  <2> QED BY <2>1, IdleFacts DEF Control, Attached
<1>2. /\ Collections(rows, DOMAIN tables, counted.born) /\ Collections(colls, DOMAIN tables, counted.born)
      /\ TableShapes(tables) /\ Settings(op.settings)
  BY DEF Named, Shapes, Commanded
<1>3. op.table \in DOMAIN tables
  BY <1>1, <1>2 DEF Collections, Collection
<1>4. CASE CreateIndex
  <2>1. /\ UNCHANGED <<file, rows, up, open, colls, marks, counted>>
        /\ \/ op' = [op EXCEPT !.list = After] /\ UNCHANGED tables
           \/ \E i, b, k : /\ tables' = [tables EXCEPT ![op.table].indexes = With(tables[op.table].indexes, i, b)]
                           /\ op' = [op EXCEPT !.list = After, !.made = op.made \cup {i},
                                               !.settings.indexes = With(op.settings.indexes, i, k)]
    <3>1. CASE NextIndex[1] \in DOMAIN op.settings.indexes
      BY <1>4, <3>1 DEF CreateIndex
    <3>2. CASE NextIndex[1] \notin DOMAIN op.settings.indexes
      <4> DEFINE i == NextIndex[1]
                 k == NextIndex[2]
      <4>1. /\ tables' = [tables EXCEPT ![op.table].indexes = With(tables[op.table].indexes, i, Built(i, k))]
            /\ op' = [op EXCEPT !.list = After, !.made = op.made \cup {i},
                                !.settings.indexes = With(op.settings.indexes, i, k)]
            /\ UNCHANGED <<file, rows, up, open, colls, marks, counted>>
        BY <1>3, <1>4, <3>2 DEF CreateIndex
      <4> HIDE DEF i, k
      <4> QED BY <4>1
    <3> QED BY <3>1, <3>2
  <2>2. DOMAIN tables' = DOMAIN tables /\ TableShapes(tables')
    <3>1. ASSUME NEW i, NEW b, tables' = [tables EXCEPT ![op.table].indexes = With(tables[op.table].indexes, i, b)]
          PROVE  DOMAIN tables' = DOMAIN tables /\ TableShapes(tables')
      <4> DEFINE v == With(tables[op.table].indexes, i, b)
      <4>1. v = [x \in DOMAIN v |-> v[x]]
        BY DEF With
      <4> HIDE DEF v
      <4>2. /\ TableShapes([tables EXCEPT ![op.table].indexes = v])
            /\ DOMAIN [tables EXCEPT ![op.table].indexes = v] = DOMAIN tables
        BY <1>2, <4>1, TableEdits
      <4> QED BY <3>1, <4>2 DEF v
    <3> QED BY <1>2, <2>1, <3>1
  <2>3. /\ Settings(op'.settings)
        /\ op'.at = "index" /\ op'.creating = op.creating /\ op'.name = op.name /\ op'.table = op.table /\ op'.goal = op.goal
        /\ op' = [at |-> op'.at, goal |-> op'.goal, name |-> op'.name, table |-> op'.table, list |-> op'.list, made |-> op'.made,
                  asked |-> op'.asked, settings |-> op'.settings, creating |-> op'.creating, capped |-> op'.capped]
    <3>1. CASE op' = [op EXCEPT !.list = After]
      BY <1>1, <1>2, <3>1 DEF Commanded
    <3>2. ASSUME NEW i, NEW k, op' = [op EXCEPT !.list = After, !.made = op.made \cup {i},
                                                !.settings.indexes = With(op.settings.indexes, i, k)]
          PROVE  <2>3
      <4> DEFINE v == With(op.settings.indexes, i, k)
                 s == [op.settings EXCEPT !.indexes = v]
      <4>1. v = [x \in DOMAIN v |-> v[x]]
        BY DEF With
      <4>2. op' = [op EXCEPT !.list = After, !.made = op.made \cup {i}, !.settings = s]
        BY <3>2 DEF Commanded
      <4> HIDE DEF v
      <4>3. Settings(s)
        BY <1>2, <4>1, SettingsEdits
      <4> HIDE DEF s
      <4> QED BY <1>1, <4>2, <4>3 DEF Commanded
    <3> QED BY <2>1, <3>1, <3>2
  <2>4. Shapes'
    BY <2>1, <2>2 DEF Shapes
  <2>5. Named'
    BY <2>1, <2>2 DEF Named
  <2>6. Commanded'
    BY <1>1, <2>3, IdleFacts DEF Commanded
  <2>7. Control'
    BY <1>1, <2>1, <2>2, <2>3 DEF Control, Attached
  <2>8. Interrupted'.halfMade = Interrupted.halfMade /\ Interrupted'.orphaned = Interrupted.orphaned
    BY <1>1, <2>1, <2>3 DEF Interrupted, When
  <2>9. Agreed'
    BY <1>1, <2>1, <2>8 DEF Agreed
  <2> QED BY <2>4, <2>5, <2>6, <2>7, <2>9
<1>5. CASE WriteSettings
  <2> DEFINE s == op.settings
             t == op.table
  <2>1. /\ rows' = Set(rows, t, s) /\ UNCHANGED <<file, tables, up, open, marks, counted>>
        /\ op' = IF op.creating THEN Continue(op, s) ELSE Idle
    BY <1>5, StoredIsSet DEF WriteSettings
  <2>2. colls' = Set(colls, t, s)
    <3>1. colls' = [colls EXCEPT ![op.name].settings = s]
      BY <1>5 DEF WriteSettings
    <3> HIDE DEF s
    <3>2. [colls EXCEPT ![op.name].settings = s] = Set(colls, colls[op.name].table, s)
      BY <1>1, <1>2, SetOne
    <3> QED BY <1>1, <3>1, <3>2
  <2>3. Shapes'
    BY <2>1 DEF Shapes
  <2>4. Named'
    BY <1>2, <2>1, <2>2, CollectionsSet DEF Named
  <2>5. \/ op' = Idle
        \/ op' = [op EXCEPT !.at = "write", !.creating = FALSE]
        \/ op.goal = "createIndexes" /\ op' = [op EXCEPT !.at = "index", !.creating = FALSE, !.settings = s, !.made = {}]
    BY <2>1 DEF Continue, Creations, Commanded
  <2>6. Commanded'
    BY <1>2, <2>5, CommandedIdle DEF Commanded, Steps
  <2>7. /\ op'.creating = FALSE /\ op'.at \in {"idle", "write", "index"} /\ (op'.at # "index" \/ op'.made = {})
        /\ op'.at # "idle" => op'.name = op.name /\ op'.table = t
    BY <2>5, IdleFacts DEF Commanded
  <2>8. /\ DOMAIN rows' = DOMAIN rows /\ DOMAIN colls' = DOMAIN colls
        /\ \A n \in DOMAIN rows : rows'[n].table = rows[n].table /\ rows'[n].born = rows[n].born
        /\ \A n \in DOMAIN colls : colls'[n].table = colls[n].table /\ colls'[n].born = colls[n].born
        /\ \A n \in DOMAIN rows : rows'[n].settings = IF rows[n].table = t THEN s ELSE rows[n].settings
        /\ \A n \in DOMAIN colls : colls'[n].settings = IF colls[n].table = t THEN s ELSE colls[n].settings
    BY <1>2, <2>1, <2>2, SetFacts
  <2> HIDE DEF s, t
  <2>9. Control'
    BY <1>1, <2>1, <2>7, <2>8 DEF Control, Attached, t
  <2>10. Interrupted.halfMade \ {t} \subseteq Interrupted'.halfMade /\ Interrupted.orphaned \subseteq Interrupted'.orphaned
    BY <1>1, <2>1, <2>7 DEF Interrupted, When, t
  <2>11. Agreed'
    BY <1>1, <2>8, <2>10 DEF Agreed
  <2> QED BY <2>3, <2>4, <2>6, <2>9, <2>11
<1>6. CASE IndexFails
  <2> DEFINE v == [i \in DOMAIN tables[op.table].indexes \ TakenBack |-> tables[op.table].indexes[i]]
             s == colls[op.name].settings
  <2>1. /\ Fails /\ marks' = Interrupted /\ UNCHANGED <<file, up, open, colls>>
        /\ tables' = [tables EXCEPT ![op.table].indexes = v]
        /\ rows' \in {rows, Stored(op.table, s)}
        /\ op' = IF op.creating THEN [op EXCEPT !.at = "deleteRow"] ELSE Idle
    BY <1>3, <1>6 DEF IndexFails
  <2>2. DOMAIN tables' = DOMAIN tables /\ TableShapes(tables')
    <3>1. v = [x \in DOMAIN v |-> v[x]]
      OBVIOUS
    <3> HIDE DEF v
    <3> QED BY <1>2, <2>1, <3>1, TableEdits
  <2> HIDE DEF v
  <2>3. Settings(s)
    BY <1>1, <1>2 DEF Collections, Collection
  <2>4. /\ counted' = [commands |-> counted'.commands, failures |-> counted'.failures, born |-> counted'.born]
        /\ counted'.born = counted.born /\ counted'.born \in Nat
    BY <2>1, CountedStays
  <2>5. Shapes'
    BY <2>1, <2>2, <2>4 DEF Shapes, Interrupted
  <2>6. Named'
    <3>1. rows' = rows \/ rows' = Set(rows, op.table, s)
      BY <2>1, StoredIsSet
    <3>2. Collections(rows', DOMAIN tables, counted.born)
      BY <1>2, <2>3, <3>1, CollectionsSet
    <3> QED BY <1>2, <2>1, <2>2, <2>4, <3>2 DEF Named
  <2>7. Commanded'
    BY <2>1, CommandedIdle DEF Commanded, Steps
  <2>8. IF op.creating
        THEN op'.at = "deleteRow" /\ op'.creating = TRUE /\ op'.name = op.name /\ op'.table = op.table
        ELSE op' = Idle /\ op'.at = "idle" /\ op'.creating = FALSE
    BY <2>1, IdleFacts DEF Commanded
  <2>9. /\ DOMAIN rows' = DOMAIN rows
        /\ \A n \in DOMAIN rows : rows'[n].table = rows[n].table /\ rows'[n].born = rows[n].born
        /\ \A n \in DOMAIN rows : rows'[n].settings = rows[n].settings \/ (rows[n].table = op.table /\ rows'[n].settings = s)
    BY <1>2, <2>1, StoredIsSet, SetFacts
  <2>10. op.creating => op.table \in marks'.halfMade
    BY <1>1, <2>1 DEF Interrupted, When
  <2>11. Control'
    BY <1>1, <2>1, <2>2, <2>8, <2>9, <2>10 DEF Control, Attached
  <2>12. Interrupted.halfMade \subseteq Interrupted'.halfMade /\ Interrupted.orphaned \subseteq Interrupted'.orphaned
    BY <2>1 DEF Interrupted
  <2>13. \A n \in DOMAIN colls : colls[n].table = op.table => colls[n].settings = s
    BY <1>1, <1>2 DEF Collections
  <2>14. Agreed'
    BY <1>1, <2>1, <2>9, <2>12, <2>13 DEF Agreed
  <2> QED BY <2>5, <2>6, <2>7, <2>11, <2>14
<1> QED BY <1>4, <1>5, <1>6

LEMMA DropStep ==
    ASSUME RegistryInv, DeleteRow \/ DropTable \/ DropFails
    PROVE  RegistryInv'
<1> USE DEF RegistryInv
<1>1. /\ op.at \in {"deleteRow", "dropTable"} /\ op.name \in DOMAIN colls /\ op.table = colls[op.name].table
      /\ up = "up" /\ open /\ Attached
  <2>1. op.at \in {"deleteRow", "dropTable"}
    BY DEF DeleteRow, DropTable, DropFails
  <2> QED BY <2>1, IdleFacts DEF Control, Attached
<1>2. /\ Collections(rows, DOMAIN tables, counted.born) /\ Collections(colls, DOMAIN tables, counted.born)
      /\ TableShapes(tables)
  BY DEF Named, Shapes
<1>3. CASE DeleteRow
  <2>1. /\ op.at = "deleteRow" /\ rows' = Without(rows, op.name) /\ op' = [op EXCEPT !.at = "dropTable"]
        /\ UNCHANGED <<file, tables, up, open, colls, marks, counted>>
    BY <1>3 DEF DeleteRow, RowsAfterDelete
  <2>2. Shapes'
    BY <2>1 DEF Shapes
  <2>3. Named'
    BY <1>2, <2>1, CollectionsWithout DEF Named
  <2>4. Commanded'
    BY <2>1 DEF Commanded, Steps
  <2>5. op'.at = "dropTable" /\ op'.creating = op.creating /\ op'.name = op.name /\ op'.table = op.table
    BY <2>1 DEF Commanded
  <2>6. DOMAIN rows' = DOMAIN rows \ {op.name} /\ \A n \in DOMAIN rows' : rows'[n] = rows[n]
    BY <2>1 DEF Without
  <2>7. Control'
    BY <1>1, <2>1, <2>5, <2>6 DEF Control, Attached
  <2>8. /\ Interrupted.halfMade \ {op.table} \subseteq Interrupted'.halfMade
        /\ Interrupted'.orphaned = Interrupted.orphaned \cup {op.table}
    BY <1>1, <2>1, <2>5 DEF Interrupted, When
  <2>9. \A n \in DOMAIN rows' : colls[n].table # op.table
    BY <1>1, <1>2, <2>6 DEF Collections, Agreed
  <2>10. Agreed'
    BY <1>1, <2>1, <2>6, <2>8, <2>9 DEF Agreed
  <2> QED BY <2>2, <2>3, <2>4, <2>7, <2>10
<1>4. CASE DropTable
  <2>1. /\ op.at = "dropTable" /\ tables' = Without(tables, op.table) /\ marks' = Forget(op.table)
        /\ colls' = Without(colls, op.name) /\ op' = Idle
        /\ UNCHANGED <<file, rows, up, open, counted>>
    BY <1>4 DEF DropTable, TablesAfterDrop
  <2>2. Shapes'
    <3>1. TableShapes(tables')
      BY <1>2, <2>1, TableEdits
    <3>2. marks' = [orphaned |-> marks'.orphaned, halfMade |-> marks'.halfMade,
                    leftover |-> marks'.leftover, unindexed |-> marks'.unindexed]
      BY <2>1 DEF Forget, Shapes
    <3> QED BY <2>1, <3>1, <3>2 DEF Shapes
  <2>3. op.name \notin DOMAIN rows
    BY <2>1 DEF Control
  <2>4. \A n \in DOMAIN rows : n \in DOMAIN colls /\ rows[n].table = colls[n].table /\ colls[n].table # op.table
    BY <1>1, <1>2, <2>3 DEF Collections, Agreed
  <2>5. DOMAIN colls' = DOMAIN colls \ {op.name} /\ \A n \in DOMAIN colls' : colls'[n] = colls[n] /\ colls[n].table # op.table
    BY <1>1, <1>2, <2>1 DEF Without, Collections
  <2>6. Named'
    <3>1. DOMAIN tables' = DOMAIN tables \ {op.table}
      BY <2>1 DEF Without
    <3>2. Collections(rows, DOMAIN tables \ {op.table}, counted.born)
      BY <1>2, <2>4, CollectionsElsewhere
    <3>3. Collections(colls', DOMAIN tables, counted.born)
      BY <1>2, <2>1, CollectionsWithout
    <3>4. Collections(colls', DOMAIN tables \ {op.table}, counted.born)
      BY <2>5, <3>3, CollectionsElsewhere
    <3> QED BY <2>1, <3>1, <3>2, <3>4 DEF Named
  <2>7. Commanded'
    BY <2>1, CommandedIdle
  <2>8. Control'
    BY <1>1, <2>1, IdleFacts DEF Control, Attached
  <2>9. /\ Interrupted.halfMade \ {op.table} \subseteq Interrupted'.halfMade
        /\ Interrupted.orphaned \ {op.table} \subseteq Interrupted'.orphaned
    BY <1>1, <2>1, IdleFacts DEF Interrupted, When, Forget, Shapes
  <2>10. Agreed'
    BY <1>1, <2>1, <2>3, <2>4, <2>5, <2>9 DEF Agreed
  <2> QED BY <2>2, <2>6, <2>7, <2>8, <2>10
<1>5. CASE DropFails
  <2>1. Fails /\ marks' = Interrupted /\ op' = Idle /\ UNCHANGED <<file, rows, tables, up, open, colls>>
    BY <1>5 DEF DropFails
  <2>2. Shapes' /\ Named'
    <3>1. marks' = [orphaned |-> marks'.orphaned, halfMade |-> marks'.halfMade,
                    leftover |-> marks'.leftover, unindexed |-> marks'.unindexed]
      BY <2>1 DEF Interrupted
    <3> QED BY <2>1, <3>1, NamedStays, CountedStays DEF Shapes
  <2>3. Commanded'
    BY <2>1, CommandedIdle
  <2>4. Control'
    BY <1>1, <2>1, IdleFacts DEF Control, Attached
  <2>5. Interrupted.halfMade \subseteq Interrupted'.halfMade /\ Interrupted.orphaned \subseteq Interrupted'.orphaned
    BY <2>1 DEF Interrupted
  <2>6. Agreed'
    BY <1>1, <2>1, <2>5, SMTT(30) DEF Agreed
  <2> QED BY <2>2, <2>3, <2>4, <2>6
<1> QED BY <1>3, <1>4, <1>5

LEMMA UnindexStep ==
    ASSUME RegistryInv, DropIndex \/ UnlistIndexes \/ UnindexFails
    PROVE  RegistryInv'
<1> USE DEF RegistryInv
<1>1. /\ op.at = "unindex" /\ ~op.creating /\ op.name \in DOMAIN colls /\ op.table = colls[op.name].table
      /\ up = "up" /\ open /\ Attached
  <2>1. op.at = "unindex"
    BY DEF DropIndex, UnlistIndexes, UnindexFails
  <2> QED BY <2>1, IdleFacts DEF Control, Attached, Commanded
<1>2. /\ Collections(rows, DOMAIN tables, counted.born) /\ Collections(colls, DOMAIN tables, counted.born)
      /\ TableShapes(tables) /\ Settings(op.settings)
  BY DEF Named, Shapes, Commanded
<1>3. op.table \in DOMAIN tables
  BY <1>1, <1>2 DEF Collections, Collection
<1>4. ASSUME NEW index \in op.asked,
             tables' = [tables EXCEPT ![op.table].indexes = Without(@, index)],
             op' = [op EXCEPT !.asked = @ \ {index}, !.made = @ \cup {index}, !.settings.indexes = Without(@, index)],
             UNCHANGED <<file, rows, up, open, colls, marks, told, counted>>
      PROVE  RegistryInv'
  <2> DEFINE v == Without(tables[op.table].indexes, index)
             w == Without(op.settings.indexes, index)
             s == [op.settings EXCEPT !.indexes = w]
  <2>1. tables' = [tables EXCEPT ![op.table].indexes = v]
    BY <1>3, <1>4
  <2>2. op' = [op EXCEPT !.asked = @ \ {index}, !.made = @ \cup {index}, !.settings = s]
    BY <1>4 DEF Commanded
  <2>3. v = [x \in DOMAIN v |-> v[x]] /\ w = [x \in DOMAIN w |-> w[x]]
    BY DEF Without
  <2> HIDE DEF v, w
  <2>4. DOMAIN tables' = DOMAIN tables /\ TableShapes(tables')
    BY <1>2, <2>1, <2>3, TableEdits
  <2>5. Settings(s)
    BY <1>2, <2>3, SettingsEdits
  <2> HIDE DEF s
  <2>6. Shapes' /\ Named'
    BY <1>4, <2>4 DEF Shapes, Named
  <2>7. Commanded'
    <3>1. op' = [at |-> op'.at, goal |-> op'.goal, name |-> op'.name, table |-> op'.table, list |-> op'.list, made |-> op'.made,
                 asked |-> op'.asked, settings |-> op'.settings, creating |-> op'.creating, capped |-> op'.capped]
      BY <2>2 DEF Commanded
    <3>2. op'.settings = s /\ op'.at = op.at /\ op'.goal = op.goal /\ op'.creating = op.creating
      BY <2>2 DEF Commanded
    <3> QED BY <1>1, <2>5, <3>1, <3>2 DEF Commanded
  <2>8. op'.at = "unindex" /\ ~op'.creating /\ op'.name = op.name /\ op'.table = op.table
    BY <1>1, <2>2 DEF Commanded
  <2>9. Control'
    BY <1>1, <1>4, <2>4, <2>8 DEF Control, Attached
  <2>10. Interrupted'.halfMade = Interrupted.halfMade /\ Interrupted'.orphaned = Interrupted.orphaned
    BY <1>1, <1>4, <2>8 DEF Interrupted, When
  <2>11. Agreed'
    BY <1>1, <1>4, <2>10 DEF Agreed
  <2> QED BY <2>6, <2>7, <2>9, <2>11
<1>5. CASE UnlistIndexes
  <2> DEFINE s == op.settings
             t == op.table
  <2>1. rows' = Set(rows, t, s) /\ UNCHANGED <<file, tables, up, open, marks, counted>> /\ op' = Idle
    BY <1>5, StoredIsSet DEF UnlistIndexes
  <2>2. colls' = Set(colls, t, s)
    <3>1. colls' = [colls EXCEPT ![op.name].settings = s]
      BY <1>5 DEF UnlistIndexes
    <3> HIDE DEF s
    <3>2. [colls EXCEPT ![op.name].settings = s] = Set(colls, colls[op.name].table, s)
      BY <1>1, <1>2, SetOne
    <3> QED BY <1>1, <3>1, <3>2
  <2>3. Shapes'
    BY <2>1 DEF Shapes
  <2>4. Named'
    BY <1>2, <2>1, <2>2, CollectionsSet DEF Named
  <2>5. Commanded'
    BY <2>1, CommandedIdle
  <2>6. /\ DOMAIN rows' = DOMAIN rows /\ DOMAIN colls' = DOMAIN colls
        /\ \A n \in DOMAIN rows : rows'[n].table = rows[n].table /\ rows'[n].born = rows[n].born
        /\ \A n \in DOMAIN colls : colls'[n].table = colls[n].table /\ colls'[n].born = colls[n].born
        /\ \A n \in DOMAIN rows : rows'[n].settings = IF rows[n].table = t THEN s ELSE rows[n].settings
        /\ \A n \in DOMAIN colls : colls'[n].settings = IF colls[n].table = t THEN s ELSE colls[n].settings
    BY <1>2, <2>1, <2>2, SetFacts
  <2> HIDE DEF s, t
  <2>7. Control'
    BY <1>1, <2>1, <2>6, IdleFacts DEF Control, Attached
  <2>8. Interrupted.halfMade \subseteq Interrupted'.halfMade /\ Interrupted.orphaned \subseteq Interrupted'.orphaned
    BY <1>1, <2>1 DEF Interrupted, When
  <2>9. Agreed'
    BY <1>1, <2>6, <2>8 DEF Agreed
  <2> QED BY <2>3, <2>4, <2>5, <2>7, <2>9
<1>6. CASE UnindexFails
  <2>1. /\ Fails \/ UNCHANGED counted
        /\ marks' = Interrupted /\ op' = Idle /\ UNCHANGED <<file, rows, tables, up, open, colls>>
    BY <1>6 DEF UnindexFails
  <2>2. Shapes' /\ Named'
    <3>1. marks' = [orphaned |-> marks'.orphaned, halfMade |-> marks'.halfMade,
                    leftover |-> marks'.leftover, unindexed |-> marks'.unindexed]
      BY <2>1 DEF Interrupted
    <3> QED BY <2>1, <3>1, NamedStays, CountedStays DEF Shapes
  <2>3. Commanded'
    BY <2>1, CommandedIdle
  <2>4. Control'
    BY <1>1, <2>1, IdleFacts DEF Control, Attached
  <2>5. Interrupted.halfMade \subseteq Interrupted'.halfMade /\ Interrupted.orphaned \subseteq Interrupted'.orphaned
    BY <2>1 DEF Interrupted
  <2>6. Agreed'
    BY <1>1, <2>1, <2>5 DEF Agreed
  <2> QED BY <2>2, <2>3, <2>4, <2>6
<1> QED BY <1>4, <1>5, <1>6 DEF DropIndex

LEMMA WriteStep ==
    ASSUME RegistryInv, Write \/ WriteFails
    PROVE  RegistryInv'
<1> USE DEF RegistryInv
<1>1. /\ op.at = "write" /\ ~op.creating /\ op.name \in DOMAIN colls
      /\ op' = Idle /\ UNCHANGED <<file, rows, up, open, colls, marks>>
      /\ UNCHANGED counted \/ Fails
  BY DEF Write, WriteFails, Control, Commanded
<1>2. DOMAIN tables' = DOMAIN tables /\ TableShapes(tables')
  <2>1. TableShapes(tables)
    BY DEF Shapes
  <2>2. CASE Write
    <3>1. colls[op.name].table \in DOMAIN tables
      BY <1>1 DEF Named, Collections, Collection
    <3>2. tables' = [tables EXCEPT ![colls[op.name].table].docs = tables[colls[op.name].table].docs \cup {colls[op.name].born}]
      BY <2>2, <3>1 DEF Write
    <3> QED BY <2>1, <3>2, TableEdits
  <2>3. CASE WriteFails
    BY <2>1, <2>3 DEF WriteFails
  <2> QED BY <2>2, <2>3
<1>3. Shapes' /\ Named'
  <2>1. /\ counted' = [commands |-> counted'.commands, failures |-> counted'.failures, born |-> counted'.born]
        /\ counted'.born = counted.born /\ counted'.born \in Nat
    BY <1>1, CountedStays DEF Shapes
  <2> QED BY <1>1, <1>2, <2>1 DEF Shapes, Named
<1>4. Commanded'
  BY <1>1, CommandedIdle
<1>5. up = "up"
  BY <1>1, IdleFacts DEF Control
<1>6. Control'
  BY <1>1, <1>5, IdleFacts DEF Control, Attached
<1>7. Interrupted' = Interrupted
  BY <1>1, IdleFacts DEF Interrupted, When
<1>8. Agreed'
  BY <1>1, <1>7 DEF Agreed, Attached
<1> QED BY <1>3, <1>4, <1>6, <1>8

LEMMA RegistryStep == RegistryInv /\ [RegistryNext]_registryVars => RegistryInv'
<1> SUFFICES ASSUME RegistryInv, [RegistryNext]_registryVars PROVE RegistryInv'
  OBVIOUS
<1>1. CASE UNCHANGED registryVars
  BY <1>1 DEF registryVars, RegistryInv, Shapes, Named, Commanded, Control, Attached, Agreed, Interrupted
<1>2. CASE Command
  BY <1>2, BeginStep, RenameStep, OpenStep DEF Command
<1>3. CASE Statement
  BY <1>3, OpenStep, TableStep, IndexStep, DropStep, UnindexStep, WriteStep DEF Statement
<1> QED BY <1>1, <1>2, <1>3, ProcessStep DEF RegistryNext

(* Rows have tables of their own, and between commands memory has what is  *)
(* stored, but for collections that an interruption is known to have left  *)
(* half-way.                                                               *)
THEOREM RegistryStaysStored == RegistrySpec => []RegistryIsStored
<1>1. RegistryInv => RegistryIsStored
  <2> SUFFICES ASSUME RegistryInv PROVE RegistryIsStored
    OBVIOUS
  <2> USE DEF RegistryInv
  <2>1. /\ Collections(rows, DOMAIN tables, counted.born) /\ Collections(colls, DOMAIN tables, counted.born)
    BY DEF Named
  <2>2. ASSUME Serving, open
        PROVE  /\ DOMAIN rows \subseteq DOMAIN colls
               /\ \A n \in DOMAIN colls : \/ n \in DOMAIN rows /\ colls[n] = rows[n]
                                          \/ colls[n].table \in marks.orphaned \cup marks.halfMade
    <3>1. op.at = "idle" /\ Attached
      BY <2>2, IdleFacts DEF Serving, Attached
    <3>2. Interrupted.halfMade = marks.halfMade /\ Interrupted.orphaned = marks.orphaned
      BY <3>1 DEF Interrupted, When
    <3>3. \A n \in DOMAIN rows : n \in DOMAIN colls /\ (colls[n].settings = rows[n].settings => colls[n] = rows[n])
      BY <2>1, <3>1 DEF Collections, Collection, Agreed
    <3> QED BY <3>1, <3>2, <3>3 DEF Agreed
  <2> QED BY <2>1, <2>2 DEF RegistryIsStored, Collections, Collection
<1> QED BY <1>1, RegistryStarts, RegistryStep, RegistryAssumption, PTL DEF RegistrySpec

-----------------------------------------------------------------------------
(* What createIndexes takes off its list.                                  *)

LEMMA RemovedFacts ==
    ASSUME NEW S, NEW list \in Seq(S), NEW there, NEW g, g[0] = list,
           g = [i \in 0 .. Len(list) |->
                  IF i = 0 THEN list ELSE IF i \in there THEN RemoveAt(g[i - 1], i) ELSE g[i - 1]]
    PROVE  Removed(list, there) = g[Len(list)]
<1> DEFINE Eq(k) == k = [i \in 0 .. Len(list) |->
                  IF i = 0 THEN list ELSE IF i \in there THEN RemoveAt(k[i - 1], i) ELSE k[i - 1]]
           h == CHOOSE k : Eq(k)
           Wrong == {i \in 0 .. Len(list) : h[i] # g[i]}
<1>1. Removed(list, there) = h[Len(list)]
  BY DEF Removed
<1>2. Eq(g)
  OBVIOUS
<1>3. Eq(h)
  <2> HIDE DEF Eq
  <2> QED BY <1>2
<1>4. Len(list) \in Nat
  OBVIOUS
<1>5. /\ h[0] = list
      /\ \A i \in 1 .. Len(list) : h[i] = IF i \in there THEN RemoveAt(h[i - 1], i) ELSE h[i - 1]
      /\ \A i \in 1 .. Len(list) : g[i] = IF i \in there THEN RemoveAt(g[i - 1], i) ELSE g[i - 1]
  <2> HIDE DEF h
  <2> QED BY <1>2, <1>3, <1>4
<1> HIDE DEF h, Eq
<1>6. Wrong = {}
  <2> SUFFICES ASSUME Wrong # {} PROVE FALSE
    OBVIOUS
  <2>1. Wrong \in SUBSET Nat
    BY <1>4
  <2>2. PICK i \in Wrong : \A j \in Wrong : i <= j
    <3> HIDE DEF Wrong
    <3> QED BY <2>1, NatLeast
  <2>3. i # 0 /\ i \in 1 .. Len(list)
    BY <1>4, <1>5
  <2>4. i - 1 \notin Wrong /\ i - 1 \in 0 .. Len(list)
    <3> HIDE DEF Wrong
    <3> QED BY <1>4, <2>2, <2>3
  <2>5. h[i - 1] = g[i - 1]
    BY <2>4
  <2>6. h[i] = g[i]
    BY <1>5, <2>3, <2>5
  <2> QED BY <2>6
<1>7. Len(list) \in 0 .. Len(list)
  BY <1>4
<1> QED BY <1>1, <1>6, <1>7

LEMMA RemovedNone ==
    ASSUME NEW S, NEW list \in Seq(S)
    PROVE  Removed(list, {}) = list
<1> DEFINE g == [i \in 0 .. Len(list) |-> list]
<1>1. Len(list) \in Nat
  OBVIOUS
<1>2. g[0] = list /\ g[Len(list)] = list
  BY <1>1
<1>3. g = [i \in 0 .. Len(list) |-> IF i = 0 THEN list ELSE IF i \in {} THEN RemoveAt(g[i - 1], i) ELSE g[i - 1]]
  BY <1>1
<1> HIDE DEF g
<1> QED BY <1>2, <1>3, RemovedFacts

LEMMA RemovedOne ==
    ASSUME NEW S, NEW list \in Seq(S), NEW j \in DOMAIN list
    PROVE  Removed(list, {j}) = RemoveAt(list, j)
<1> DEFINE without == RemoveAt(list, j)
           g == [i \in 0 .. Len(list) |-> IF i < j THEN list ELSE without]
<1>1. Len(list) \in Nat /\ j \in 1 .. Len(list)
  OBVIOUS
<1> HIDE DEF without
<1>2. g[0] = list /\ g[Len(list)] = without
  BY <1>1
<1>3. g = [i \in 0 .. Len(list) |-> IF i = 0 THEN list ELSE IF i \in {j} THEN RemoveAt(g[i - 1], i) ELSE g[i - 1]]
  <2>1. \A i \in 1 .. Len(list) : g[i] = IF i \in {j} THEN RemoveAt(g[i - 1], i) ELSE g[i - 1]
    <3> TAKE i \in 1 .. Len(list)
    <3>1. i - 1 \in 0 .. Len(list) /\ i \in 0 .. Len(list)
      BY <1>1
    <3>2. CASE i < j
      BY <1>1, <3>1, <3>2
    <3>3. CASE i = j
      <4>1. g[i - 1] = list /\ g[i] = without
        BY <1>1, <3>1, <3>3
      <4> HIDE DEF g
      <4> QED BY <3>3, <4>1 DEF without
    <3>4. CASE i > j
      BY <1>1, <3>1, <3>4
    <3> QED BY <1>1, <3>2, <3>3, <3>4
  <2>2. g = [i \in 0 .. Len(list) |-> g[i]]
    OBVIOUS
  <2> HIDE DEF g
  <2>3. \A i \in 0 .. Len(list) : i = 0 \/ i \in 1 .. Len(list)
    BY <1>1
  <2>4. \A i \in 0 .. Len(list) : g[i] = IF i = 0 THEN list ELSE IF i \in {j} THEN RemoveAt(g[i - 1], i) ELSE g[i - 1]
    BY <1>2, <2>1, <2>3
  <2> QED BY <2>2, <2>4
<1> HIDE DEF g
<1>4. Removed(list, {j}) = g[Len(list)]
  BY <1>2, <1>3, RemovedFacts
<1> QED BY <1>2, <1>4 DEF without

LEMMA RemoveAtFacts ==
    ASSUME NEW S, NEW list \in Seq(S), NEW j \in DOMAIN list
    PROVE  /\ RemoveAt(list, j) \in Seq(S)
           /\ \A i \in DOMAIN list \ {j} : \E k \in DOMAIN RemoveAt(list, j) : RemoveAt(list, j)[k] = list[i]
           /\ \A k \in DOMAIN RemoveAt(list, j) : \E i \in DOMAIN list : RemoveAt(list, j)[k] = list[i]
<1> DEFINE before == SubSeq(list, 1, j - 1)
           behind == SubSeq(list, j + 1, Len(list))
<1>1. Len(list) \in Nat /\ j \in 1 .. Len(list) /\ \A i \in 1 .. Len(list) : list[i] \in S
  OBVIOUS
<1>2. /\ before \in Seq(S) /\ Len(before) = j - 1
      /\ \A i \in 1 .. j - 1 : before[i] = list[i]
  BY <1>1, SubSeqProperties
<1>3. /\ behind \in Seq(S) /\ Len(behind) = Len(list) - j
      /\ \A i \in 1 .. Len(list) - j : behind[i] = list[j + i]
  BY <1>1, SubSeqProperties
<1> HIDE DEF before, behind
<1> DEFINE r == before \o behind
<1>4. r \in Seq(S) /\ Len(r) = Len(list) - 1 /\ \A k \in 1 .. Len(list) - 1 : r[k] = IF k <= j - 1 THEN before[k] ELSE behind[k - (j - 1)]
  <2>1. /\ r \in Seq(S) /\ Len(r) = Len(before) + Len(behind)
        /\ \A k \in 1 .. Len(before) + Len(behind) : r[k] = IF k <= Len(before) THEN before[k] ELSE behind[k - Len(before)]
    BY <1>2, <1>3, ConcatProperties
  <2>2. Len(before) + Len(behind) = Len(list) - 1 /\ Len(before) = j - 1
    BY <1>1, <1>2, <1>3
  <2> HIDE DEF r
  <2> QED BY <2>1, <2>2
<1>5. RemoveAt(list, j) = r
  BY DEF RemoveAt, before, behind
<1> HIDE DEF r
<1>6. DOMAIN r = 1 .. Len(list) - 1 /\ \A k \in DOMAIN r : r[k] = IF k < j THEN list[k] ELSE list[k + 1]
  <2>1. DOMAIN r = 1 .. Len(list) - 1
    BY <1>4
  <2>2. ASSUME NEW k \in 1 .. Len(list) - 1 PROVE r[k] = IF k < j THEN list[k] ELSE list[k + 1]
    <3>1. CASE k < j
      BY <1>1, <1>2, <1>4, <3>1
    <3>2. CASE k >= j
      <4>1. k - (j - 1) \in 1 .. Len(list) - j /\ ~(k <= j - 1)
        BY <1>1, <3>2
      <4>2. behind[k - (j - 1)] = list[j + (k - (j - 1))]
        BY <1>3, <4>1
      <4>3. j + (k - (j - 1)) = k + 1
        BY <1>1
      <4> QED BY <1>1, <1>4, <3>2, <4>1, <4>2, <4>3
    <3> QED BY <1>1, <3>1, <3>2
  <2> QED BY <2>1, <2>2
<1>7. ASSUME NEW i \in DOMAIN list \ {j} PROVE \E k \in DOMAIN r : r[k] = list[i]
  <2>1. CASE i < j
    BY <1>1, <1>6, <2>1
  <2>2. CASE i > j
    <3>1. i - 1 \in DOMAIN r /\ ~(i - 1 < j)
      BY <1>1, <1>6, <2>2
    <3>2. r[i - 1] = list[i]
      BY <1>1, <1>6, <3>1
    <3> QED BY <3>1, <3>2
  <2> QED BY <1>1, <2>1, <2>2
<1>8. ASSUME NEW k \in DOMAIN r PROVE \E i \in DOMAIN list : r[k] = list[i]
  <2>1. k \in DOMAIN list /\ k + 1 \in DOMAIN list
    BY <1>1, <1>6
  <2> QED BY <1>6, <2>1
<1> QED BY <1>4, <1>5, <1>7, <1>8

-----------------------------------------------------------------------------
(* The second invariant: what clients were told.                           *)

IndexIn(f, i) == \E n \in DOMAIN f : f[n].born = i[1] /\ Same(f[n].settings.indexes, <<i[2], i[3]>>)

DocumentIn(f, T, b) == \E n \in DOMAIN f : f[n].born = b /\ b \in T[f[n].table].docs

(* The collections f list every index, and with tables T have every        *)
(* document, that w tells of and that is not doomed.                       *)
Listing(f, w) == \A i \in w.indexes : i[1] \in w.doomed \/ IndexIn(f, i)

Having(f, T, w) == \A b \in w.documents : b \in w.doomed \/ DocumentIn(f, T, b)

(* Nothing that counts was said of the collection of this number.          *)
Untold(b, w) == b \in w.doomed \/ (b \notin w.documents /\ \A i \in w.indexes : i[1] # b)

(* What was told is in the metadata table, and in memory, where            *)
(* collections without a row are doomed; nothing was told of a collection  *)
(* that is being created or dropped.                                       *)
Kept ==
    /\ told = [documents |-> told.documents, indexes |-> told.indexes, doomed |-> told.doomed]
    /\ told.documents \subseteq 0 .. counted.born
    /\ \A i \in told.indexes : i[1] \in 0 .. counted.born
    /\ Having(rows, tables, told) /\ Listing(rows, told)
    /\ Attached => Listing(colls, told)
    /\ up = "up" /\ ~Attached => \A b \in 0 .. counted.born : Untold(b, told)
    /\ Attached => \A n \in DOMAIN colls \ DOMAIN rows : colls[n].born \in told.doomed \/ (op.at = "dropTable" /\ n = op.name)
    /\ op.creating \/ op.at \in {"deleteRow", "dropTable"} => Untold(colls[op.name].born, told)

(* The indexes that a command is about to store.                           *)
Storing ==
    /\ op.at = "index" =>
         \A i \in DOMAIN colls[op.name].settings.indexes : Same(op.settings.indexes, <<i, colls[op.name].settings.indexes[i]>>)
    /\ op.at = "index" /\ op.creating =>
         DOMAIN colls[op.name].settings.indexes = {} /\ DOMAIN op.settings.indexes \subseteq {DefaultIndex}
    /\ op.at = "unindex" =>
         \A i \in told.indexes : i[1] = colls[op.name].born =>
            \/ i[1] \in told.doomed
            \/ i[2] \notin op.asked /\ Same(op.settings.indexes, <<i[2], i[3]>>)

ListedIn(f, name) == IF name \in DOMAIN f THEN f[name].settings.indexes ELSE Empty

(* What createIndexes was asked for is there or still on its list.         *)
OnList(indexes, list, spec) ==
    /\ spec[1] \notin DOMAIN indexes
    /\ list \in Seq(STRING \X STRING)
    /\ \E i \in DOMAIN list : list[i] = spec
    /\ \A i \in DOMAIN list : list[i][1] = spec[1] => list[i] = spec

ThereOrOnList(indexes, list, asked) ==
    \A spec \in asked : spec = <<spec[1], spec[2]>> /\ (Same(indexes, spec) \/ OnList(indexes, list, spec))

AskedFor ==
    op.goal = "createIndexes" =>
       IF op.at = "index" /\ ~op.creating
       THEN ThereOrOnList(op.settings.indexes, op.list, op.asked)
       ELSE ThereOrOnList(ListedIn(colls, op.name), op.list, op.asked) /\ \A spec \in op.asked : spec[1] # DefaultIndex

StaysInv == Kept /\ Storing /\ AskedFor

(* A step that leaves rows, memory and what was told alone.                *)
LEMMA QuietKept ==
    ASSUME Kept, UNCHANGED <<rows, colls, told, up>>, counted'.born = counted.born, Attached' = Attached,
           \A n \in DOMAIN rows : tables[rows[n].table].docs \subseteq tables'[rows[n].table].docs,
           op.at # "dropTable", op'.at # "dropTable",
           op'.creating \/ op'.at = "deleteRow" => Untold(colls[op'.name].born, told)
    PROVE  Kept'
<1>1. Having(rows', tables', told')
  BY DEF Kept, Having, DocumentIn
<1> QED BY <1>1 DEF Kept

LEMMA QuietStoring ==
    ASSUME op'.at \notin {"index", "unindex"}
    PROVE  Storing'
BY DEF Storing

LEMMA OtherGoal ==
    ASSUME op'.goal # "createIndexes"
    PROVE  AskedFor'
BY DEF AskedFor

LEMMA IdleStays ==
    ASSUME op' = Idle
    PROVE  Storing' /\ AskedFor' /\ op'.at = "idle" /\ op'.creating = FALSE
<1>1. op'.at = "idle" /\ op'.creating = FALSE /\ op'.goal = "none"
  BY DEF Idle
<1> QED BY <1>1, QuietStoring, OtherGoal

(* The list goes on as it is when memory's indexes do.                     *)
LEMMA SameAskedFor ==
    ASSUME AskedFor, op.at # "index" \/ op.creating, op'.at # "index" \/ op'.creating,
           op'.goal = op.goal, op'.list = op.list, op'.asked = op.asked, ListedIn(colls', op'.name) = ListedIn(colls, op.name)
    PROVE  AskedFor'
BY DEF AskedFor

LEMMA StaysStarts == RegistryAssumption /\ RegistryInit => StaysInv
<1> SUFFICES ASSUME RegistryAssumption, RegistryInit PROVE StaysInv
  OBVIOUS
<1>1. up = "down" /\ open = FALSE /\ op = Idle /\ op.at = "idle" /\ op.goal = "none" /\ op.creating = FALSE
  BY DEF RegistryInit, Idle
<1>2. Storing /\ AskedFor
  BY <1>1 DEF Storing, AskedFor
<1>3. CASE told = NothingTold
  BY <1>1, <1>2, <1>3 DEF Kept, StaysInv, NothingTold, Attached, Having, Listing
<1>4. ASSUME NEW old \in Databases, NEW number \in Injection(DOMAIN old, 1 .. Cardinality(DOMAIN old)), Old(old, number)
      PROVE  Kept
  <2>1. IsFiniteSet(DOMAIN old) /\ Cardinality(DOMAIN old) \in Nat
    BY FS_CardinalityType DEF RegistryAssumption
  <2>2. \A n \in DOMAIN old : number[n] \in 1 .. Cardinality(DOMAIN old)
    BY DEF Injection
  <2>3. /\ counted.born = Cardinality(DOMAIN old) /\ DOMAIN rows = DOMAIN old
        /\ told.documents = {number[n] : n \in DOMAIN old} /\ told.doomed = {}
        /\ told.indexes = UNION {{<<number[n], i, old[n].indexes[i]>> : i \in DOMAIN old[n].indexes} : n \in DOMAIN old}
        /\ told = [documents |-> told.documents, indexes |-> told.indexes, doomed |-> told.doomed]
    BY <1>4 DEF Old
  <2>4. \A n \in DOMAIN rows :
          rows[n] = [table |-> <<n, 0>>, born |-> number[n],
                     settings |-> [uuid |-> TRUE, indexes |-> old[n].indexes, capped |-> old[n].capped, current |-> FALSE]]
    BY <1>4 DEF Old
  <2>5. \A n \in DOMAIN rows : tables[<<n, 0>>].docs = {number[n]}
    BY <1>4, <2>3 DEF Old
  <2>6. \A i \in told.indexes : \E n \in DOMAIN old : i[1] = number[n] /\ i[2] \in DOMAIN old[n].indexes /\ i[3] = old[n].indexes[i[2]]
    BY <2>3
  <2>7. ASSUME NEW i \in told.indexes PROVE i[1] \in 0 .. counted.born /\ IndexIn(rows, i)
    <3>1. PICK n \in DOMAIN old : i[1] = number[n] /\ i[2] \in DOMAIN old[n].indexes /\ i[3] = old[n].indexes[i[2]]
      BY <2>6
    <3>2. i[1] \in 0 .. counted.born
      BY <2>1, <2>2, <2>3, <3>1
    <3>3. n \in DOMAIN rows /\ rows[n].born = i[1] /\ rows[n].settings.indexes = old[n].indexes
      BY <2>3, <2>4, <3>1
    <3> QED BY <3>1, <3>2, <3>3 DEF IndexIn, Same
  <2>8. ASSUME NEW b \in told.documents PROVE b \in 0 .. counted.born /\ DocumentIn(rows, tables, b)
    <3>1. PICK n \in DOMAIN old : b = number[n]
      BY <2>3
    <3>2. n \in DOMAIN rows /\ rows[n].born = b /\ rows[n].table = <<n, 0>>
      BY <2>3, <2>4, <3>1
    <3>3. b \in 0 .. counted.born
      BY <2>1, <2>2, <2>3, <3>1
    <3>4. b \in tables[rows[n].table].docs
      BY <2>3, <2>5, <3>1, <3>2
    <3> QED BY <3>2, <3>3, <3>4 DEF DocumentIn
  <2> QED BY <1>1, <2>3, <2>7, <2>8 DEF Kept, Attached, Having, Listing
<1> QED BY <1>2, <1>3, <1>4 DEF RegistryInit, StaysInv

LEMMA ListingSet ==
    ASSUME NEW f, NEW T, NEW N, Collections(f, T, N), NEW w, Listing(f, w), NEW t, NEW s,
           \A n \in DOMAIN f : f[n].table = t =>
              \A i \in w.indexes : i[1] = f[n].born => i[1] \in w.doomed \/ Same(s.indexes, <<i[2], i[3]>>)
    PROVE  Listing(Set(f, t, s), w)
<1> DEFINE g == Set(f, t, s)
<1>1. /\ DOMAIN g = DOMAIN f
      /\ \A n \in DOMAIN f : g[n].born = f[n].born /\ g[n].settings = IF f[n].table = t THEN s ELSE f[n].settings
  BY SetFacts
<1> HIDE DEF g
<1>2. ASSUME NEW i \in w.indexes, i[1] \notin w.doomed PROVE IndexIn(g, i)
  <2>1. PICK n \in DOMAIN f : f[n].born = i[1] /\ Same(f[n].settings.indexes, <<i[2], i[3]>>)
    BY <1>2 DEF Listing, IndexIn
  <2>2. Same(g[n].settings.indexes, <<i[2], i[3]>>)
    BY <1>1, <1>2, <2>1
  <2> QED BY <1>1, <2>1, <2>2 DEF IndexIn
<1>3. Listing(g, w)
  BY <1>2 DEF Listing
<1> QED BY <1>3 DEF g

LEMMA HavingSet ==
    ASSUME NEW f, NEW T, NEW N, Collections(f, T, N), NEW U, NEW w, Having(f, U, w), NEW t, NEW s
    PROVE  Having(Set(f, t, s), U, w)
<1> DEFINE g == Set(f, t, s)
<1>1. DOMAIN g = DOMAIN f /\ \A n \in DOMAIN f : g[n].born = f[n].born /\ g[n].table = f[n].table
  BY SetFacts
<1> HIDE DEF g
<1>2. Having(g, U, w)
  BY <1>1 DEF Having, DocumentIn
<1> QED BY <1>2 DEF g

LEMMA ProcessStays ==
    ASSUME RegistryInv, StaysInv, Start \/ (\E name \in DOMAIN colls : UpgradeIndexFormat(name)) \/ Serve \/ Crash
    PROVE  StaysInv'
<1> USE DEF StaysInv
<1>1. CASE Start
  <2>1. op = Idle /\ op' = Idle /\ op.at = "idle" /\ op.creating = FALSE /\ ~open /\ colls' = rows
    BY <1>1, IdleFacts DEF Start, RegistryInv, Control
  <2>2. Kept'
    BY <1>1, <2>1 DEF Start, Kept, Attached
  <2> QED BY <2>1, <2>2, IdleStays
<1>2. ASSUME NEW name \in DOMAIN colls, UpgradeIndexFormat(name) PROVE StaysInv'
  <2> DEFINE s == [colls[name].settings EXCEPT !.current = TRUE]
             t == colls[name].table
  <2>1. op = Idle /\ op' = Idle /\ op.at = "idle" /\ op.creating = FALSE /\ colls = rows /\ up = "starting"
        /\ UNCHANGED <<up, open, told, counted>>
    BY <1>2, IdleFacts DEF UpgradeIndexFormat, RegistryInv, Control
  <2>2. Collections(rows, DOMAIN tables, counted.born) /\ Collections(colls, DOMAIN tables, counted.born)
    BY DEF RegistryInv, Named
  <2>3. s.indexes = colls[name].settings.indexes
    BY <2>2, RecordEdits DEF Collections, Collection, Settings
  <2>4. rows' = Set(rows, t, s) /\ colls' = Set(colls, t, s)
    <3>1. rows' = Stored(t, s) /\ colls' = [colls EXCEPT ![name].settings = s]
      BY <1>2 DEF UpgradeIndexFormat
    <3> HIDE DEF s
    <3>2. [colls EXCEPT ![name].settings = s] = Set(colls, t, s)
      BY <2>2, SetOne
    <3> QED BY <3>1, <3>2, StoredIsSet
  <2> HIDE DEF s
  <2>5. rows' = colls'
    BY <2>1, <2>4
  <2>6. Listing(rows', told) /\ Having(rows', tables, told)
    <3>1. ASSUME NEW n \in DOMAIN rows, rows[n].table = t, NEW i \in told.indexes, i[1] = rows[n].born
          PROVE  i[1] \in told.doomed \/ Same(s.indexes, <<i[2], i[3]>>)
      <4>1. n = name
        BY <2>1, <2>2, <3>1 DEF Collections
      <4>2. CASE i[1] \notin told.doomed
        <5>1. PICK m \in DOMAIN rows : rows[m].born = i[1] /\ Same(rows[m].settings.indexes, <<i[2], i[3]>>)
          BY <4>2 DEF Kept, Listing, IndexIn
        <5>2. m = n
          BY <2>2, <3>1, <5>1 DEF Collections
        <5> QED BY <2>1, <2>3, <4>1, <5>1, <5>2
      <4> QED BY <4>2
    <3>2. Listing(rows, told) /\ Having(rows, tables, told)
      BY DEF Kept
    <3>3. Listing(Set(rows, t, s), told)
      BY <2>2, <3>1, <3>2, ListingSet
    <3>4. Having(Set(rows, t, s), tables, told)
      BY <2>2, <3>2, HavingSet
    <3> QED BY <2>4, <3>3, <3>4
  <2>7. \A u \in DOMAIN tables : tables'[u].docs = tables[u].docs
    <3>1. tables' = [tables EXCEPT ![t].indexes = Rebuilt(@, s)]
      BY <1>2 DEF UpgradeIndexFormat, s
    <3>2. TableShapes(tables)
      BY DEF RegistryInv, Shapes
    <3> QED BY <3>1, <3>2 DEF TableShapes
  <2>8. Having(rows', tables', told)
    <3>1. \A n \in DOMAIN rows' : rows'[n].table \in DOMAIN tables
      <4>1. DOMAIN rows' = DOMAIN rows /\ \A n \in DOMAIN rows : rows'[n].table = rows[n].table
        BY <2>2, <2>4, SetFacts
      <4> QED BY <2>2, <4>1 DEF Collections, Collection
    <3> QED BY <2>6, <2>7, <3>1 DEF Having, DocumentIn
  <2>9. Kept'
    BY <2>1, <2>5, <2>6, <2>8 DEF Kept
  <2> QED BY <2>1, <2>9, IdleStays
<1>3. CASE Serve
  <2>1. /\ op = Idle /\ op' = Idle /\ op.at = "idle" /\ op.creating = FALSE /\ up = "starting" /\ up' = "up"
        /\ UNCHANGED <<file, rows, tables, open, colls, told, counted>>
    BY <1>3, IdleFacts DEF Serve, RegistryInv, Control
  <2>2. ~Attached => DOMAIN rows = {}
    BY <2>1, NoCollections DEF RegistryInv, Control, Attached, Shapes
  <2>3. ~Attached => \A b : Untold(b, told)
    BY <2>2 DEF Kept, Having, Listing, DocumentIn, IndexIn, Untold
  <2>4. Attached' = Attached
    BY <2>1 DEF Attached
  <2>5. Kept'
    BY <2>1, <2>3, <2>4 DEF Kept
  <2> QED BY <2>1, <2>5, IdleStays
<1>4. CASE Crash
  <2>1. /\ op' = Idle /\ open' = FALSE /\ up' = "down" /\ counted'.born = counted.born
        /\ UNCHANGED <<rows, tables, told>>
    BY <1>4, CountedStays DEF Crash, RegistryInv
  <2>2. Kept'
    BY <2>1, IdleStays DEF Kept, Attached
  <2> QED BY <2>1, <2>2, IdleStays
<1> QED BY <1>1, <1>2, <1>3, <1>4

(* What createIndexes puts on its list, and what it has been asked for.    *)
LEMMA ListAsked ==
    ASSUME NEW name, NEW list \in IndexLists,
           \A i \in DOMAIN list : ~Conflict(Listed(name), list[i])
    PROVE  /\ ThereOrOnList(ListedIn(colls, name), ToCreate(name, list), ToKeep(name, list))
           /\ \A spec \in ToKeep(name, list) : spec[1] # DefaultIndex
<1> DEFINE S == STRING \X STRING
           there == There(name, list)
           listed == Listed(name)
<1>1. list \in Seq(S)
  BY RegistryAssumption DEF RegistryAssumption
<1>2. \A i \in DOMAIN list : list[i] = <<list[i][1], list[i][2]>>
  BY <1>1
<1>3. \A i \in DOMAIN list : list[i][1] # DefaultIndex /\ \A j \in DOMAIN list : list[i][1] = list[j][1] => i = j
  BY RegistryAssumption DEF RegistryAssumption, DefaultIndex
<1>4. there \subseteq DOMAIN list /\ \A i \in DOMAIN list : i \in there <=> Same(listed, list[i])
  BY DEF There
<1>5. \A i \in DOMAIN list \ there : list[i][1] \notin DOMAIN listed
  BY <1>4 DEF Conflict
<1>6. ToSet(list) = {list[i] : i \in DOMAIN list}
  BY DEF ToSet
<1>7. \A spec \in ToKeep(name, list) : \E i \in DOMAIN list : spec = list[i] /\ (Cardinality(there) < 2 \/ i \in there)
  BY <1>4, <1>6 DEF ToKeep
<1>8. listed = ListedIn(colls, name) /\ ToCreate(name, list) = Removed(list, there)
  BY DEF Listed, ListedIn, ToCreate
<1> HIDE DEF S, there, listed
<1>9. ASSUME NEW spec \in ToKeep(name, list)
      PROVE  spec = <<spec[1], spec[2]>> /\ spec[1] # DefaultIndex
             /\ (Same(listed, spec) \/ OnList(listed, Removed(list, there), spec))
  <2>1. PICK i \in DOMAIN list : spec = list[i] /\ (Cardinality(there) < 2 \/ i \in there)
    BY <1>7
  <2>2. spec = <<spec[1], spec[2]>> /\ spec[1] # DefaultIndex
    BY <1>2, <1>3, <2>1
  <2>3. CASE i \in there
    BY <1>4, <2>1, <2>2, <2>3
  <2>4. CASE i \notin there
    <3>1. IsFiniteSet(there)
      <4>1. IsFiniteSet(DOMAIN list)
        <5>1. DOMAIN list = 1 .. Len(list) /\ Len(list) \in Nat
          BY <1>1
        <5> QED BY <5>1, FS_Interval
      <4> QED BY <1>4, <4>1, FS_Subset
    <3>2. spec[1] \notin DOMAIN listed
      BY <1>5, <2>1, <2>4
    <3>3. there = {} \/ \E j \in DOMAIN list : there = {j}
      <4>1. Cardinality(there) = 0 \/ Cardinality(there) = 1
        <5>1. Cardinality(there) \in Nat /\ Cardinality(there) < 2
          BY <2>1, <2>4, <3>1, FS_CardinalityType
        <5> QED BY <5>1
      <4>2. Cardinality(there) = 0 => there = {}
        BY <3>1, FS_EmptySet
      <4>3. Cardinality(there) = 1 => \E j : there = {j}
        BY <3>1, FS_Singleton
      <4> QED BY <1>4, <4>1, <4>2, <4>3
    <3> DEFINE rest == Removed(list, there)
    <3>4. /\ rest \in Seq(S) /\ \E k \in DOMAIN rest : rest[k] = spec
          /\ \A k \in DOMAIN rest : \E j \in DOMAIN list : rest[k] = list[j]
      <4>1. CASE there = {}
        <5>1. rest = list
          BY <1>1, <4>1, RemovedNone
        <5> HIDE DEF rest
        <5> QED BY <1>1, <2>1, <5>1
      <4>2. ASSUME NEW j \in DOMAIN list, there = {j}
            PROVE  /\ rest \in Seq(S) /\ \E k \in DOMAIN rest : rest[k] = spec
                   /\ \A k \in DOMAIN rest : \E l \in DOMAIN list : rest[k] = list[l]
        <5>1. rest = RemoveAt(list, j)
          BY <1>1, <4>2, RemovedOne
        <5> HIDE DEF rest
        <5>2. i \in DOMAIN list \ {j}
          BY <2>4, <4>2
        <5>3. /\ RemoveAt(list, j) \in Seq(S)
              /\ \E k \in DOMAIN RemoveAt(list, j) : RemoveAt(list, j)[k] = list[i]
              /\ \A k \in DOMAIN RemoveAt(list, j) : \E l \in DOMAIN list : RemoveAt(list, j)[k] = list[l]
          BY <1>1, <5>2, RemoveAtFacts
        <5> QED BY <2>1, <5>1, <5>3
      <4> QED BY <3>3, <4>1, <4>2
    <3> HIDE DEF rest
    <3>5. \A k \in DOMAIN rest : rest[k][1] = spec[1] => rest[k] = spec
      BY <1>3, <2>1, <3>4
    <3>6. OnList(listed, rest, spec)
      BY <3>2, <3>4, <3>5 DEF OnList, S
    <3> QED BY <2>2, <3>6 DEF rest
  <2> QED BY <2>3, <2>4
<1> QED BY <1>8, <1>9 DEF ThereOrOnList

LEMMA BeginStays ==
    ASSUME RegistryInv, StaysInv,
           \/ \E name \in Names, capped \in BOOLEAN : Create(name, capped)
           \/ \E name \in Names, list \in IndexLists : CreateIndexes(name, list)
           \/ \E name \in Names : Insert(name) \/ Drop(name)
           \/ \E name \in DOMAIN colls : \E indexes \in SUBSET DOMAIN Listed(name) : DropIndexes(name, indexes)
    PROVE  StaysInv'
<1> USE DEF StaysInv
<1>1. up = "up" /\ op = Idle /\ Counted /\ UNCHANGED <<file, rows, tables, up, open, colls, marks>>
  BY DEF Create, CreateIndexes, Insert, Drop, DropIndexes, Ready
<1>2. op.at = "idle" /\ ~op.creating
  BY <1>1, IdleFacts
<1>3. counted'.born = counted.born /\ op'.creating = FALSE
      /\ op'.at \in {"open", "write", "deleteRow", "unindex"}
  BY <1>1, CountedStays DEF RegistryInv, Create, CreateIndexes, Insert, Drop, DropIndexes, Begin, Idle
<1>4. Attached' = Attached
  BY <1>1, <1>2, <1>3 DEF Attached
<1>5. ASSUME NEW name, NEW capped, Create(name, capped) PROVE StaysInv'
  <2>1. op'.at = "open" /\ op'.goal = "create" /\ UNCHANGED told
    BY <1>5 DEF Create, Begin, Idle
  <2>2. Kept'
    BY <1>1, <1>2, <1>3, <1>4, <2>1, QuietKept
  <2> QED BY <2>1, <2>2, QuietStoring, OtherGoal
<1>6. ASSUME NEW name, NEW list \in IndexLists, CreateIndexes(name, list) PROVE StaysInv'
  <2>1. /\ op'.at = "open" /\ op'.name = name /\ op'.list = ToCreate(name, list) /\ op'.asked = ToKeep(name, list)
        /\ UNCHANGED told
    BY <1>6 DEF CreateIndexes, Begin, Idle
  <2>2. Kept'
    BY <1>1, <1>2, <1>3, <1>4, <2>1, QuietKept
  <2>3. /\ ThereOrOnList(ListedIn(colls, name), ToCreate(name, list), ToKeep(name, list))
        /\ \A spec \in ToKeep(name, list) : spec[1] # DefaultIndex
    BY <1>6, ListAsked DEF CreateIndexes
  <2>4. AskedFor'
    BY <1>1, <2>1, <2>3 DEF AskedFor
  <2> QED BY <2>1, <2>2, <2>4, QuietStoring
<1>7. ASSUME NEW name, Insert(name) PROVE StaysInv'
  <2>1. op'.at \in {"open", "write"} /\ op'.goal = "insert" /\ UNCHANGED told
    BY <1>7 DEF Insert, Begin, Idle
  <2>2. Kept'
    BY <1>1, <1>2, <1>3, <1>4, <2>1, QuietKept
  <2> QED BY <2>1, <2>2, QuietStoring, OtherGoal
<1>8. ASSUME NEW name, Drop(name) PROVE StaysInv'
  <2>1. op'.at = "deleteRow" /\ op'.goal = "drop" /\ op'.name = name /\ name \in DOMAIN colls
        /\ told' = ToldWithout(colls[name].born)
    BY <1>8 DEF Drop, Begin, Idle
  <2>2. /\ told'.documents = told.documents \ {colls[name].born} /\ told'.doomed = told.doomed
        /\ told'.indexes = {i \in told.indexes : i[1] # colls[name].born}
        /\ told' = [documents |-> told'.documents, indexes |-> told'.indexes, doomed |-> told'.doomed]
    BY <2>1 DEF ToldWithout, Kept
  <2>3. Kept'
    BY <1>1, <1>2, <1>3, <1>4, <2>1, <2>2 DEF Kept, Having, Listing, Untold
  <2> QED BY <2>1, <2>3, QuietStoring, OtherGoal
<1>9. ASSUME NEW name \in DOMAIN colls, NEW indexes, DropIndexes(name, indexes) PROVE StaysInv'
  <2>1. /\ op'.at = "unindex" /\ op'.goal = "dropIndexes" /\ op'.name = name
        /\ op'.asked = indexes /\ op'.settings = colls[name].settings
        /\ told' = [told EXCEPT !.indexes = {i \in @ : i[1] # colls[name].born \/ i[2] \notin indexes}]
    BY <1>9 DEF DropIndexes, Begin, Idle
  <2>2. /\ told'.documents = told.documents /\ told'.doomed = told.doomed
        /\ told'.indexes = {i \in told.indexes : i[1] # colls[name].born \/ i[2] \notin indexes}
        /\ told' = [documents |-> told'.documents, indexes |-> told'.indexes, doomed |-> told'.doomed]
    BY <2>1 DEF Kept
  <2>3. Kept'
    BY <1>1, <1>2, <1>3, <1>4, <2>1, <2>2 DEF Kept, Having, Listing, Untold
  <2>4. Attached
    BY <1>1, <1>2, NoCollections DEF RegistryInv, Control
  <2>5. ASSUME NEW i \in told'.indexes, i[1] = colls[name].born, i[1] \notin told.doomed
        PROVE  i[2] \notin indexes /\ Same(colls[name].settings.indexes, <<i[2], i[3]>>)
    <3>1. PICK m \in DOMAIN colls : colls[m].born = i[1] /\ Same(colls[m].settings.indexes, <<i[2], i[3]>>)
      BY <2>2, <2>4, <2>5 DEF Kept, Listing, IndexIn
    <3>2. m = name
      BY <2>5, <3>1 DEF RegistryInv, Named, Collections
    <3> QED BY <2>2, <2>5, <3>1, <3>2
  <2>6. Storing'
    BY <1>1, <2>1, <2>2, <2>5 DEF Storing
  <2> QED BY <2>1, <2>3, <2>6, OtherGoal
<1> QED BY <1>5, <1>6, <1>7, <1>8, <1>9

LEMMA ListingRenamed ==
    ASSUME NEW f, NEW x \in DOMAIN f, NEW y, y \notin DOMAIN f, NEW w, NEW T
    PROVE  /\ Listing(f, w) => Listing(With(Without(f, x), y, f[x]), w)
           /\ Having(f, T, w) => Having(With(Without(f, x), y, f[x]), T, w)
<1> DEFINE g == With(Without(f, x), y, f[x])
<1>1. DOMAIN g = (DOMAIN f \ {x}) \cup {y} /\ g[y] = f[x] /\ \A n \in DOMAIN f \ {x} : g[n] = f[n]
  BY DEF With, Without
<1> HIDE DEF g
<1>2. \A n \in DOMAIN f : \E m \in DOMAIN g : g[m] = f[n]
  BY <1>1
<1>3. \A i : IndexIn(f, i) => IndexIn(g, i)
  BY <1>2 DEF IndexIn
<1>4. \A b : DocumentIn(f, T, b) => DocumentIn(g, T, b)
  BY <1>2 DEF DocumentIn
<1>5. (Listing(f, w) => Listing(g, w)) /\ (Having(f, T, w) => Having(g, T, w))
  BY <1>3, <1>4 DEF Listing, Having
<1> QED BY <1>5 DEF g

LEMMA ListingWith ==
    ASSUME NEW f, NEW x, x \notin DOMAIN f, NEW c, NEW w, NEW T
    PROVE  /\ Listing(f, w) => Listing(With(f, x, c), w)
           /\ Having(f, T, w) => Having(With(f, x, c), T, w)
<1> DEFINE g == With(f, x, c)
<1>1. DOMAIN f \subseteq DOMAIN g /\ \A n \in DOMAIN f : g[n] = f[n]
  BY DEF With
<1> HIDE DEF g
<1>2. (Listing(f, w) => Listing(g, w)) /\ (Having(f, T, w) => Having(g, T, w))
  BY <1>1 DEF Listing, Having, IndexIn, DocumentIn
<1> QED BY <1>2 DEF g

LEMMA ListingWithout ==
    ASSUME NEW f, NEW x \in DOMAIN f, NEW w, Untold(f[x].born, w), NEW T
    PROVE  /\ Listing(f, w) => Listing(Without(f, x), w)
           /\ Having(f, T, w) => Having(Without(f, x), T, w)
<1> DEFINE g == Without(f, x)
<1>1. DOMAIN g = DOMAIN f \ {x} /\ \A n \in DOMAIN g : g[n] = f[n]
  BY DEF Without
<1> HIDE DEF g
<1>2. (Listing(f, w) => Listing(g, w)) /\ (Having(f, T, w) => Having(g, T, w))
  BY <1>1 DEF Listing, Having, IndexIn, DocumentIn, Untold
<1> QED BY <1>2 DEF g

LEMMA RenameStays ==
    ASSUME RegistryInv, StaysInv, NEW name \in Names, NEW new \in Names, Rename(name, new)
    PROVE  StaysInv'
<1> USE DEF StaysInv
<1>1. /\ up = "up" /\ op = Idle /\ Counted /\ UNCHANGED <<file, tables, up, open, op, marks, told>>
      /\ name \in DOMAIN colls /\ new \notin DOMAIN colls
      /\ colls' = With(Without(colls, name), new, colls[name])
  BY DEF Rename, Ready
<1>2. op.at = "idle" /\ ~op.creating /\ op' = Idle /\ Attached /\ Attached' /\ counted'.born = counted.born
  <2>1. op.at = "idle" /\ ~op.creating
    BY <1>1, IdleFacts
  <2>2. Attached
    BY <1>1, NoCollections DEF RegistryInv, Control
  <2> QED BY <1>1, <2>1, <2>2, CountedStays DEF Attached, RegistryInv
<1>3. /\ Collections(rows, DOMAIN tables, counted.born) /\ Collections(colls, DOMAIN tables, counted.born)
      /\ DOMAIN rows \subseteq DOMAIN colls /\ \A n \in DOMAIN rows : colls[n].table = rows[n].table
  BY <1>2 DEF RegistryInv, Named, Agreed
<1>4. rows' = IF name \in DOMAIN rows THEN With(Without(rows, name), new, rows[name]) ELSE rows
  BY <1>1, <1>3, RowsAfterRename
<1>5. Listing(colls', told) /\ Listing(rows', told) /\ Having(rows', tables, told)
  BY <1>1, <1>2, <1>3, <1>4, ListingRenamed DEF Kept
<1>6. \A n \in DOMAIN colls' \ DOMAIN rows' : \E m \in DOMAIN colls \ DOMAIN rows : colls'[n].born = colls[m].born
  BY <1>1, <1>3, <1>4 DEF With, Without
<1>7. Kept'
  BY <1>1, <1>2, <1>5, <1>6 DEF Kept
<1> QED BY <1>2, <1>7, IdleStays

LEMMA RemoveStays ==
    ASSUME StaysInv, NEW removed \in BOOLEAN, RemoveFile(removed), op' = Idle
    PROVE  StaysInv'
<1>1. told' = NothingTold /\ open' = FALSE /\ colls' = Empty
  BY DEF RemoveFile
<1>2. told'.documents = {} /\ told'.indexes = {} /\ told' = [documents |-> told'.documents, indexes |-> told'.indexes, doomed |-> told'.doomed]
  BY <1>1 DEF NothingTold
<1>3. Kept'
  BY <1>1, <1>2, IdleStays DEF Kept, Attached, Having, Listing, Untold
<1> QED BY <1>3, IdleStays DEF StaysInv

LEMMA OpenStays ==
    ASSUME RegistryInv, StaysInv,
           OpenDatabase \/ CreateMetadata \/ MetadataFails \/ NothingDone \/ Exists \/ DropDatabase
    PROVE  StaysInv'
<1> USE DEF StaysInv
<1>1. CASE OpenDatabase
  <2>1. /\ op.at = "open" /\ ~op.creating /\ open' = TRUE
        /\ op' = [op EXCEPT !.at = IF open THEN "table" ELSE "metadata"]
        /\ UNCHANGED <<rows, tables, up, colls, marks, told, counted>>
    BY <1>1 DEF OpenDatabase, RegistryInv, Commanded
  <2>2. /\ op'.at = (IF open THEN "table" ELSE "metadata") /\ op'.creating = FALSE
        /\ op'.goal = op.goal /\ op'.list = op.list /\ op'.asked = op.asked /\ op'.name = op.name
    BY <2>1 DEF RegistryInv, Commanded
  <2>3. Attached' = Attached
    BY <2>1, <2>2 DEF Attached, RegistryInv, Shapes
  <2>4. Kept'
    BY <2>1, <2>2, <2>3, QuietKept
  <2>5. AskedFor'
    BY <2>1, <2>2, SameAskedFor
  <2> QED BY <2>2, <2>4, <2>5, QuietStoring
<1>2. CASE CreateMetadata
  <2>1. /\ op.at = "metadata" /\ ~op.creating /\ op' = [op EXCEPT !.at = "table"]
        /\ UNCHANGED <<rows, tables, up, open, colls, marks, told, counted>>
    BY <1>2 DEF CreateMetadata, RegistryInv, Commanded
  <2>2. /\ op'.at = "table" /\ op'.creating = FALSE
        /\ op'.goal = op.goal /\ op'.list = op.list /\ op'.asked = op.asked /\ op'.name = op.name
    BY <2>1 DEF RegistryInv, Commanded
  <2>3. up = "up" /\ ~Attached /\ DOMAIN colls = {}
    BY <2>1, IdleFacts, NoCollections DEF RegistryInv, Control, Attached
  <2>4. Listing(colls, told)
    BY <2>3 DEF Kept, Listing, Untold
  <2>5. Kept'
    BY <2>1, <2>2, <2>3, <2>4 DEF Kept
  <2>6. AskedFor'
    BY <2>1, <2>2, SameAskedFor
  <2> QED BY <2>2, <2>5, <2>6, QuietStoring
<1>3. CASE MetadataFails
  BY <1>3, RemoveStays DEF MetadataFails
<1>4. CASE NothingDone
  <2>1. /\ op.at \in {"open", "table"} /\ op' = Idle /\ Fails
        /\ UNCHANGED <<file, rows, tables, up, open, colls, marks, told>>
    BY <1>4 DEF NothingDone
  <2>2. counted'.born = counted.born /\ Attached' = Attached
    BY <2>1, CountedStays, IdleStays DEF RegistryInv, Attached
  <2>3. Kept'
    BY <2>1, <2>2, IdleStays, QuietKept
  <2> QED BY <2>1, <2>3, IdleStays
<1>5. CASE Exists
  <2> DEFINE c == colls[op.name]
  <2>1. /\ op.at = "table" /\ ~op.creating /\ op.name \in DOMAIN colls
        /\ op.goal \in Creations
        /\ op' = Continue([op EXCEPT !.table = c.table], c.settings)
        /\ UNCHANGED <<file, rows, tables, up, open, colls, marks, told, counted>>
    BY <1>5 DEF Exists, RegistryInv, Commanded
  <2> HIDE DEF c
  <2>2. \/ op' = Idle
        \/ op.goal = "insert" /\ op' = [op EXCEPT !.table = c.table, !.at = "write", !.creating = FALSE]
        \/ op.goal = "createIndexes" /\ op' = [op EXCEPT !.table = c.table, !.at = "index", !.creating = FALSE, !.settings = c.settings, !.made = {}]
    BY <2>1 DEF Continue, Creations, RegistryInv, Commanded
  <2>3. CASE op' = Idle
    <3>1. Attached' = Attached
      BY <2>1, <2>3, IdleStays DEF Attached
    <3>2. Kept'
      BY <2>1, <2>3, <3>1, IdleStays, QuietKept
    <3> QED BY <2>3, <3>2, IdleStays
  <2>4. CASE op.goal = "insert" /\ op' = [op EXCEPT !.table = c.table, !.at = "write", !.creating = FALSE]
    <3>1. op'.at = "write" /\ op'.creating = FALSE /\ op'.goal = "insert"
      BY <2>4 DEF RegistryInv, Commanded
    <3>2. Attached' = Attached
      BY <2>1, <3>1 DEF Attached
    <3>3. Kept'
      BY <2>1, <3>1, <3>2, QuietKept
    <3> QED BY <3>1, <3>3, QuietStoring, OtherGoal
  <2>5. CASE op.goal = "createIndexes" /\ op' = [op EXCEPT !.table = c.table, !.at = "index", !.creating = FALSE, !.settings = c.settings, !.made = {}]
    <3>1. /\ op'.at = "index" /\ op'.creating = FALSE /\ op'.name = op.name /\ op'.settings = c.settings
          /\ op'.list = op.list /\ op'.asked = op.asked
      BY <2>5 DEF RegistryInv, Commanded
    <3>2. Attached' = Attached
      BY <2>1, <3>1 DEF Attached
    <3>3. Kept'
      BY <2>1, <3>1, <3>2, QuietKept, SMTT(30)
    <3>4. Storing'
      BY <2>1, <3>1 DEF Storing, Same, c
    <3>5. ThereOrOnList(c.settings.indexes, op.list, op.asked)
      BY <2>1, <2>5 DEF AskedFor, ListedIn, c
    <3>6. AskedFor'
      BY <3>1, <3>5 DEF AskedFor
    <3> QED BY <3>3, <3>4, <3>6
  <2> QED BY <2>2, <2>3, <2>4, <2>5
<1>6. CASE DropDatabase
  <2>1. op' = Idle /\ \E removed \in BOOLEAN : RemoveFile(removed)
    BY <1>6 DEF DropDatabase, Ready
  <2> QED BY <2>1, RemoveStays
<1> QED BY <1>1, <1>2, <1>3, <1>4, <1>5, <1>6

(* Settings that have what was told of their collection are stored.        *)
LEMMA StoredKept ==
    ASSUME RegistryInv, Kept, Attached, Attached', up = "up", UNCHANGED <<up, told>>, counted'.born = counted.born,
           op.name \in DOMAIN colls, op.table = colls[op.name].table, op.at # "dropTable", op'.at # "dropTable", NEW s,
           \A i \in told.indexes : i[1] = colls[op.name].born => i[1] \in told.doomed \/ Same(s.indexes, <<i[2], i[3]>>),
           rows' = rows \/ rows' = Set(rows, op.table, s), colls' = colls \/ colls' = Set(colls, op.table, s),
           \A u \in DOMAIN tables : tables'[u].docs = tables[u].docs,
           op'.creating \/ op'.at = "deleteRow" => op'.name = op.name /\ Untold(colls[op.name].born, told)
    PROVE  Kept'
<1>1. /\ Collections(rows, DOMAIN tables, counted.born) /\ Collections(colls, DOMAIN tables, counted.born)
      /\ \A n \in DOMAIN rows : n \in DOMAIN colls /\ colls[n].table = rows[n].table /\ colls[n].born = rows[n].born
  BY DEF RegistryInv, Named, Agreed
<1>2. \A n \in DOMAIN colls : colls[n].table = op.table => n = op.name
  BY <1>1 DEF Collections
<1>3. Listing(rows, told) /\ Having(rows, tables, told) /\ Listing(colls, told)
  BY DEF Kept
<1>4. Listing(rows', told)
  <2>1. \A n \in DOMAIN rows : rows[n].table = op.table => rows[n].born = colls[op.name].born
    BY <1>1, <1>2
  <2>2. Listing(Set(rows, op.table, s), told)
    BY <1>1, <1>3, <2>1, ListingSet
  <2> QED BY <1>3, <2>2
<1>5. Listing(colls', told)
  <2>1. Listing(Set(colls, op.table, s), told)
    BY <1>1, <1>2, <1>3, ListingSet
  <2> QED BY <1>3, <2>1
<1>6. /\ DOMAIN rows' = DOMAIN rows /\ DOMAIN colls' = DOMAIN colls
      /\ \A n \in DOMAIN rows : rows'[n].table = rows[n].table /\ rows'[n].born = rows[n].born
      /\ \A n \in DOMAIN colls : colls'[n].born = colls[n].born
  BY <1>1, SetFacts
<1>7. Having(rows', tables', told)
  <2>1. \A n \in DOMAIN rows : rows[n].table \in DOMAIN tables
    BY <1>1 DEF Collections, Collection
  <2> QED BY <1>3, <1>6, <2>1 DEF Having, DocumentIn
<1> QED BY <1>4, <1>5, <1>6, <1>7 DEF Kept

LEMMA TableStays ==
    ASSUME RegistryInv, StaysInv, CreateTable \/ InsertRow \/ RowFails
    PROVE  StaysInv'
<1> USE DEF StaysInv
<1>1. Collections(rows, DOMAIN tables, counted.born) /\ Collections(colls, DOMAIN tables, counted.born)
  BY DEF RegistryInv, Named
<1>2. CASE CreateTable
  <2> DEFINE table == TableFor(op.name)
  <2>1. /\ op.at = "table" /\ ~op.creating
        /\ tables' = With(tables, table, NewTable(op.capped))
        /\ op' = [op EXCEPT !.at = "row", !.table = table]
        /\ UNCHANGED <<file, rows, up, open, colls, marks, told, counted>>
    BY <1>2 DEF CreateTable, Made, RegistryInv, Commanded
  <2> HIDE DEF table
  <2>2. /\ op'.at = "row" /\ op'.creating = FALSE
        /\ op'.goal = op.goal /\ op'.list = op.list /\ op'.asked = op.asked /\ op'.name = op.name
    BY <2>1 DEF RegistryInv, Commanded
  <2>3. \A n \in DOMAIN rows : tables'[rows[n].table] = tables[rows[n].table]
    BY <1>1, <2>1 DEF With, Collections, Collection
  <2>4. Attached' = Attached
    BY <2>1, <2>2 DEF Attached
  <2>5. Kept'
    BY <2>1, <2>2, <2>3, <2>4, QuietKept
  <2>6. AskedFor'
    BY <2>1, <2>2, SameAskedFor
  <2> QED BY <2>2, <2>5, <2>6, QuietStoring
<1>3. CASE InsertRow
  <2> DEFINE number == counted.born + 1
             row == [table |-> op.table, settings |-> Blank, born |-> number]
             new == [table |-> op.table, settings |-> NewSettings(op.capped), born |-> number]
  <2>1. /\ op.at = "row" /\ ~op.creating /\ op.name \notin DOMAIN rows
        /\ rows' = With(rows, op.name, row) /\ colls' = With(colls, op.name, new)
        /\ counted' = [counted EXCEPT !.born = @ + 1]
        /\ op' = [op EXCEPT !.at = "index", !.creating = TRUE, !.settings = NewSettings(op.capped)]
        /\ UNCHANGED <<file, tables, up, open, marks, told>>
    BY <1>3 DEF InsertRow, RegistryInv, Commanded
  <2>2. op.name \notin DOMAIN colls /\ Attached /\ up = "up"
    BY <2>1, IdleFacts DEF RegistryInv, Control, Attached
  <2>3. counted'.born = number /\ counted.born \in Nat /\ number \in Nat /\ counted.born < number
    BY <2>1 DEF RegistryInv, Shapes
  <2>4. /\ op'.at = "index" /\ op'.creating = TRUE /\ op'.settings = NewSettings(op.capped)
        /\ op'.goal = op.goal /\ op'.list = op.list /\ op'.asked = op.asked /\ op'.name = op.name
    BY <2>1 DEF RegistryInv, Commanded
  <2>5. NewSettings(op.capped).indexes = Empty /\ DOMAIN Empty = {}
    BY DEF NewSettings, Empty
  <2>6. /\ new.born = number /\ new.settings = NewSettings(op.capped)
    OBVIOUS
  <2> HIDE DEF row, new
  <2>7. Listing(rows', told) /\ Having(rows', tables, told) /\ Listing(colls', told)
    BY <2>1, <2>2, ListingWith DEF Kept
  <2>8. DOMAIN rows' = DOMAIN rows \cup {op.name} /\ DOMAIN colls' = DOMAIN colls \cup {op.name}
        /\ colls'[op.name] = new /\ \A n \in DOMAIN colls : colls'[n] = colls[n]
    BY <2>1, <2>2 DEF With
  <2>9. Untold(number, told)
    <3>1. number \notin 0 .. counted.born
      BY <2>3
    <3> QED BY <3>1 DEF Kept, Untold
  <2>10. 0 .. counted.born \subseteq 0 .. number
    BY <2>3
  <2>11. Attached'
    BY <2>1, <2>2, <2>4 DEF Attached
  <2> HIDE DEF number
  <2>12. Kept'
    BY <2>1, <2>2, <2>3, <2>4, <2>6, <2>7, <2>8, <2>9, <2>10, <2>11 DEF Kept
  <2>13. Storing'
    BY <2>4, <2>5, <2>6, <2>8 DEF Storing
  <2>14. AskedFor'
    <3>1. ListedIn(colls', op.name) = ListedIn(colls, op.name)
      BY <2>2, <2>5, <2>6, <2>8 DEF ListedIn
    <3> QED BY <2>1, <2>4, <3>1, SameAskedFor
  <2> QED BY <2>12, <2>13, <2>14
<1>4. CASE RowFails
  <2>1. /\ op.at = "row" /\ ~op.creating /\ op' = Idle
        /\ tables' = tables \/ tables' = Without(tables, op.table)
        /\ UNCHANGED counted \/ Fails
        /\ UNCHANGED <<file, rows, up, open, colls, told>>
    BY <1>4 DEF RowFails, DropsTable, RegistryInv, Commanded
  <2>2. Attached /\ Attached' /\ \A n \in DOMAIN rows : rows[n].table # op.table
    BY <2>1, IdleStays DEF RegistryInv, Control, Agreed, Attached
  <2>3. \A n \in DOMAIN rows : tables'[rows[n].table] = tables[rows[n].table]
    BY <1>1, <2>1, <2>2 DEF Without, Collections, Collection
  <2>4. counted'.born = counted.born
    BY <2>1, CountedStays DEF RegistryInv
  <2>5. Kept'
    BY <2>1, <2>2, <2>3, <2>4, IdleStays, QuietKept
  <2> QED BY <2>1, <2>5, IdleStays
<1> QED BY <1>2, <1>3, <1>4

LEMMA DropStays ==
    ASSUME RegistryInv, StaysInv, DeleteRow \/ DropTable \/ DropFails
    PROVE  StaysInv'
<1> USE DEF StaysInv
<1>1. /\ op.at \in {"deleteRow", "dropTable"} /\ op.name \in DOMAIN colls /\ op.table = colls[op.name].table
      /\ up = "up" /\ open /\ Attached /\ Untold(colls[op.name].born, told)
  <2>1. op.at \in {"deleteRow", "dropTable"}
    BY DEF DeleteRow, DropTable, DropFails
  <2> QED BY <2>1, IdleFacts DEF RegistryInv, Control, Attached, Kept
<1>2. /\ Collections(rows, DOMAIN tables, counted.born) /\ Collections(colls, DOMAIN tables, counted.born)
      /\ \A n \in DOMAIN rows : n \in DOMAIN colls /\ colls[n].table = rows[n].table /\ colls[n].born = rows[n].born
  BY <1>1 DEF RegistryInv, Named, Agreed
<1>3. CASE DeleteRow
  <2>1. /\ op.at = "deleteRow" /\ rows' = Without(rows, op.name) /\ op' = [op EXCEPT !.at = "dropTable"]
        /\ UNCHANGED <<file, tables, up, open, colls, marks, told, counted>>
    BY <1>3 DEF DeleteRow, RowsAfterDelete
  <2>2. /\ op'.at = "dropTable" /\ op'.creating = op.creating
        /\ op'.goal = op.goal /\ op'.list = op.list /\ op'.asked = op.asked /\ op'.name = op.name
    BY <2>1 DEF RegistryInv, Commanded
  <2>3. Listing(rows', told) /\ Having(rows', tables, told)
    <3>1. CASE op.name \in DOMAIN rows
      <4>1. Untold(rows[op.name].born, told)
        BY <1>1, <1>2, <3>1
      <4> QED BY <2>1, <3>1, <4>1, ListingWithout DEF Kept
    <3>2. CASE op.name \notin DOMAIN rows
      <4>1. rows' = rows
        BY <1>2, <2>1, <3>2 DEF Without, Collections
      <4> QED BY <4>1 DEF Kept
    <3> QED BY <3>1, <3>2
  <2>4. DOMAIN rows' = DOMAIN rows \ {op.name} /\ Attached'
    BY <1>1, <2>1, <2>2 DEF Without, Attached
  <2>5. Kept'
    BY <1>1, <2>1, <2>2, <2>3, <2>4 DEF Kept
  <2>6. AskedFor'
    BY <2>1, <2>2, SameAskedFor
  <2> QED BY <2>2, <2>5, <2>6, QuietStoring
<1>4. CASE DropTable
  <2>1. /\ op.at = "dropTable" /\ tables' = Without(tables, op.table)
        /\ colls' = Without(colls, op.name) /\ op' = Idle
        /\ UNCHANGED <<file, rows, up, open, told, counted>>
    BY <1>4 DEF DropTable, TablesAfterDrop
  <2>2. \A n \in DOMAIN rows : rows[n].table # op.table
    BY <1>1, <1>2, <2>1 DEF RegistryInv, Control, Collections
  <2>3. Having(rows, tables', told)
    <3>1. \A n \in DOMAIN rows : tables'[rows[n].table] = tables[rows[n].table]
      BY <1>2, <2>1, <2>2 DEF Without, Collections, Collection
    <3> QED BY <3>1 DEF Kept, Having, DocumentIn
  <2>4. Listing(colls', told)
    BY <1>1, <2>1, ListingWithout DEF Kept
  <2>5. DOMAIN colls' = DOMAIN colls \ {op.name} /\ \A n \in DOMAIN colls' : colls'[n] = colls[n]
    BY <2>1 DEF Without
  <2>6. Attached'
    BY <1>1, <2>1, IdleStays DEF Attached
  <2>7. Kept'
    BY <1>1, <2>1, <2>3, <2>4, <2>5, <2>6, IdleStays DEF Kept
  <2> QED BY <2>1, <2>7, IdleStays
<1>5. CASE DropFails
  <2>1. /\ op' = Idle /\ Fails /\ UNCHANGED <<file, rows, tables, up, open, colls>>
        /\ told' = [told EXCEPT !.doomed = @ \cup IF op.at = "dropTable" THEN {colls[op.name].born} ELSE {}]
    BY <1>5 DEF DropFails
  <2>2. /\ told'.documents = told.documents /\ told'.indexes = told.indexes
        /\ told'.doomed = told.doomed \cup IF op.at = "dropTable" THEN {colls[op.name].born} ELSE {}
        /\ told' = [documents |-> told'.documents, indexes |-> told'.indexes, doomed |-> told'.doomed]
    BY <2>1 DEF Kept
  <2>3. counted'.born = counted.born /\ Attached' /\ op'.at = "idle" /\ op'.creating = FALSE
    BY <1>1, <2>1, CountedStays, IdleStays DEF RegistryInv, Attached
  <2>4. Kept'
    BY <1>1, <2>1, <2>2, <2>3 DEF Kept, Having, Listing
  <2> QED BY <2>1, <2>4, IdleStays
<1> QED BY <1>3, <1>4, <1>5

LEMMA UnindexStays ==
    ASSUME RegistryInv, StaysInv, DropIndex \/ UnlistIndexes \/ UnindexFails
    PROVE  StaysInv'
<1> USE DEF StaysInv
<1>1. /\ op.at = "unindex" /\ ~op.creating /\ op.name \in DOMAIN colls /\ op.table = colls[op.name].table
      /\ up = "up" /\ open /\ Attached
  <2>1. op.at = "unindex"
    BY DEF DropIndex, UnlistIndexes, UnindexFails
  <2> QED BY <2>1, IdleFacts DEF RegistryInv, Control, Attached, Commanded
<1>2. /\ Collections(rows, DOMAIN tables, counted.born) /\ Collections(colls, DOMAIN tables, counted.born)
      /\ TableShapes(tables) /\ Settings(op.settings)
      /\ \A n \in DOMAIN rows : n \in DOMAIN colls /\ colls[n].table = rows[n].table /\ colls[n].born = rows[n].born
  BY <1>1 DEF RegistryInv, Named, Shapes, Commanded, Agreed
<1>3. \A n \in DOMAIN rows : rows[n].table \in DOMAIN tables
  BY <1>2 DEF Collections, Collection
<1>4. ASSUME NEW index \in op.asked,
             tables' = [tables EXCEPT ![op.table].indexes = Without(@, index)],
             op' = [op EXCEPT !.asked = @ \ {index}, !.made = @ \cup {index}, !.settings.indexes = Without(@, index)],
             UNCHANGED <<file, rows, up, open, colls, marks, told, counted>>
      PROVE  StaysInv'
  <2> DEFINE w == Without(op.settings.indexes, index)
             s == [op.settings EXCEPT !.indexes = w]
  <2>1. op' = [op EXCEPT !.asked = @ \ {index}, !.made = @ \cup {index}, !.settings = s]
    BY <1>4 DEF RegistryInv, Commanded
  <2>2. s.indexes = w
    BY <1>2, RecordEdits DEF Settings
  <2> HIDE DEF s
  <2>3. op'.at = "unindex" /\ ~op'.creating /\ op'.name = op.name /\ op'.asked = op.asked \ {index} /\ op'.settings = s /\ op'.goal = op.goal
        /\ op'.list = op.list
    BY <1>1, <2>1 DEF RegistryInv, Commanded
  <2>4. \A u \in DOMAIN tables : tables'[u].docs = tables[u].docs
    BY <1>2, <1>4 DEF TableShapes
  <2>5. Attached' = Attached
    BY <1>1, <1>4, <2>3 DEF Attached
  <2>6. Kept'
    BY <1>1, <1>3, <1>4, <2>3, <2>4, <2>5, QuietKept
  <2>7. \A i : i # index /\ i \in DOMAIN op.settings.indexes => i \in DOMAIN w /\ w[i] = op.settings.indexes[i]
    BY DEF Without
  <2> HIDE DEF w
  <2>8. ASSUME NEW i \in told.indexes, i[1] = colls[op.name].born, i[1] \notin told.doomed
        PROVE  i[2] \notin op'.asked /\ Same(w, <<i[2], i[3]>>)
    <3>1. i[2] \notin op.asked /\ Same(op.settings.indexes, <<i[2], i[3]>>)
      BY <1>1, <2>8 DEF Storing
    <3> QED BY <2>3, <2>7, <3>1 DEF Same
  <2>9. Storing'
    BY <1>4, <2>2, <2>3, <2>8 DEF Storing
  <2>10. AskedFor'
    BY <1>1, <1>4, <2>3 DEF AskedFor, ThereOrOnList
  <2> QED BY <2>6, <2>9, <2>10
<1>5. CASE UnlistIndexes
  <2>1. op' = Idle /\ UNCHANGED <<file, tables, up, open, marks, told, counted>> /\ rows' = Set(rows, op.table, op.settings)
    BY <1>5, StoredIsSet DEF UnlistIndexes
  <2>2. colls' = Set(colls, op.table, op.settings)
    <3> DEFINE s == op.settings
    <3>1. colls' = [colls EXCEPT ![op.name].settings = s]
      BY <1>5 DEF UnlistIndexes
    <3> HIDE DEF s
    <3>2. [colls EXCEPT ![op.name].settings = s] = Set(colls, colls[op.name].table, s)
      BY <1>1, <1>2, SetOne
    <3>3. colls' = Set(colls, op.table, s)
      BY <1>1, <3>1, <3>2
    <3> QED BY <3>3 DEF s
  <2>3. ASSUME NEW i \in told.indexes, i[1] = colls[op.name].born
        PROVE  i[1] \in told.doomed \/ Same(op.settings.indexes, <<i[2], i[3]>>)
    BY <1>1, <2>3 DEF Storing
  <2>4. Attached' /\ op'.at = "idle" /\ op'.creating = FALSE
    BY <1>1, <2>1, IdleStays DEF Attached
  <2>5. Kept'
    BY <1>1, <2>1, <2>2, <2>3, <2>4, StoredKept
  <2> QED BY <2>1, <2>5, IdleStays
<1>6. CASE UnindexFails
  <2>1. op' = Idle /\ (Fails \/ UNCHANGED counted) /\ UNCHANGED <<file, rows, tables, up, open, colls, told>>
    BY <1>6 DEF UnindexFails
  <2>2. counted'.born = counted.born /\ Attached' = Attached
    BY <1>1, <2>1, CountedStays, IdleStays DEF RegistryInv, Attached
  <2>3. Kept'
    BY <1>1, <2>1, <2>2, IdleStays, QuietKept
  <2> QED BY <2>1, <2>3, IdleStays
<1> QED BY <1>4, <1>5, <1>6 DEF DropIndex

LEMMA WriteStays ==
    ASSUME RegistryInv, StaysInv, Write \/ WriteFails
    PROVE  StaysInv'
<1> USE DEF StaysInv
<1>1. /\ op.at = "write" /\ op.name \in DOMAIN colls /\ Attached /\ up = "up"
      /\ op' = Idle /\ UNCHANGED <<file, rows, up, open, colls, marks>>
      /\ UNCHANGED counted \/ Fails
  <2>1. op.at = "write"
    BY DEF Write, WriteFails
  <2> QED BY <2>1, IdleFacts DEF Write, WriteFails, RegistryInv, Control, Attached
<1>2. counted'.born = counted.born /\ Attached' /\ op'.at = "idle" /\ op'.creating = FALSE
  BY <1>1, CountedStays, IdleStays DEF RegistryInv, Attached
<1>3. CASE Write
  <2> DEFINE c == colls[op.name]
  <2>1. /\ tables' = [tables EXCEPT ![c.table].docs = @ \cup {c.born}]
        /\ told' = [told EXCEPT !.documents = @ \cup {c.born}]
    BY <1>3 DEF Write
  <2>2. /\ Collections(rows, DOMAIN tables, counted.born) /\ Collections(colls, DOMAIN tables, counted.born)
        /\ TableShapes(tables)
        /\ \A n \in DOMAIN rows : n \in DOMAIN colls /\ colls[n].table = rows[n].table /\ colls[n].born = rows[n].born
    BY <1>1 DEF RegistryInv, Named, Shapes, Agreed
  <2>3. c.table \in DOMAIN tables /\ c.born \in 0 .. counted.born
    BY <1>1, <2>2 DEF Collections, Collection
  <2>4. /\ \A u \in DOMAIN tables : tables[u].docs \subseteq tables'[u].docs
        /\ c.born \in tables'[c.table].docs
    <3> DEFINE d == tables[c.table].docs \cup {c.born}
    <3>1. tables' = [tables EXCEPT ![c.table].docs = d]
      BY <2>1, <2>3
    <3>2. \A u \in DOMAIN tables : tables'[u].docs = IF u = c.table THEN d ELSE tables[u].docs
      BY <2>2, <2>3, <3>1 DEF TableShapes
    <3> QED BY <2>3, <3>2
  <2>5. /\ told'.documents = told.documents \cup {c.born} /\ told'.indexes = told.indexes /\ told'.doomed = told.doomed
        /\ told' = [documents |-> told'.documents, indexes |-> told'.indexes, doomed |-> told'.doomed]
    BY <2>1 DEF Kept
  <2>6. ASSUME NEW b \in told'.documents, b \notin told.doomed PROVE DocumentIn(rows, tables', b)
    <3>1. CASE b = c.born
      <4>1. op.name \in DOMAIN rows
        BY <1>1, <2>6, <3>1 DEF Kept
      <4> QED BY <2>2, <2>4, <3>1, <4>1 DEF DocumentIn
    <3>2. CASE b \in told.documents
      <4>1. PICK n \in DOMAIN rows : rows[n].born = b /\ b \in tables[rows[n].table].docs
        BY <2>6, <3>2 DEF Kept, Having, DocumentIn
      <4>2. rows[n].table \in DOMAIN tables
        BY <2>2 DEF Collections, Collection
      <4> QED BY <2>4, <4>1, <4>2 DEF DocumentIn
    <3> QED BY <2>5, <2>6, <3>1, <3>2
  <2> HIDE DEF c
  <2>7. Having(rows', tables', told')
    BY <1>1, <2>5, <2>6 DEF Having
  <2>8. Kept'
    BY <1>1, <1>2, <2>3, <2>5, <2>7 DEF Kept, Listing
  <2> QED BY <1>1, <2>8, IdleStays
<1>4. CASE WriteFails
  <2>1. UNCHANGED <<tables, told>>
    BY <1>4 DEF WriteFails
  <2>2. Kept'
    BY <1>1, <1>2, <2>1, QuietKept
  <2> QED BY <1>1, <2>2, IdleStays
<1> QED BY <1>3, <1>4

(* One index of the list: it is there already, or it is created.           *)
LEMMA ListGoesOn ==
    ASSUME NEW indexes, NEW list, NEW asked, ThereOrOnList(indexes, list, asked), list # <<>>
    PROVE  /\ list[1][1] \in DOMAIN indexes => ThereOrOnList(indexes, Tail(list), asked)
           /\ list[1][1] \notin DOMAIN indexes =>
                ThereOrOnList(With(indexes, list[1][1], list[1][2]), Tail(list), asked)
<1> DEFINE S == STRING \X STRING
           grown == With(indexes, list[1][1], list[1][2])
<1>1. /\ DOMAIN indexes \subseteq DOMAIN grown /\ \A i \in DOMAIN indexes : grown[i] = indexes[i]
      /\ DOMAIN grown = DOMAIN indexes \cup {list[1][1]}
      /\ list[1][1] \notin DOMAIN indexes => grown[list[1][1]] = list[1][2]
  BY DEF With
<1> HIDE DEF grown
<1>2. \A spec : Same(indexes, spec) => Same(grown, spec)
  BY <1>1 DEF Same
<1>3. ASSUME NEW spec \in asked, OnList(indexes, list, spec)
      PROVE  /\ list[1][1] \in DOMAIN indexes => OnList(indexes, Tail(list), spec)
             /\ list[1][1] \notin DOMAIN indexes => Same(grown, spec) \/ OnList(grown, Tail(list), spec)
  <2> HIDE DEF S
  <2>1. list \in Seq(S)
    BY <1>3 DEF OnList, S
  <2>2. /\ Tail(list) \in Seq(S) /\ Len(list) \in Nat /\ Len(Tail(list)) = Len(list) - 1
        /\ \A k \in 1 .. Len(list) - 1 : Tail(list)[k] = list[k + 1]
    BY <2>1
  <2>3. PICK i \in DOMAIN list : list[i] = spec
    BY <1>3 DEF OnList
  <2>4. \A k \in DOMAIN Tail(list) : Tail(list)[k][1] = spec[1] => Tail(list)[k] = spec
    BY <1>3, <2>1, <2>2 DEF OnList
  <2>5. i # 1 => \E k \in DOMAIN Tail(list) : Tail(list)[k] = spec
    <3> SUFFICES ASSUME i # 1 PROVE \E k \in DOMAIN Tail(list) : Tail(list)[k] = spec
      OBVIOUS
    <3>1. i - 1 \in 1 .. Len(list) - 1
      BY <2>1, <2>2
    <3>2. i - 1 \in DOMAIN Tail(list) /\ Tail(list)[i - 1] = list[(i - 1) + 1] /\ (i - 1) + 1 = i
      BY <2>1, <2>2, <3>1
    <3> QED BY <2>3, <3>2
  <2>6. CASE list[1][1] \in DOMAIN indexes
    <3>1. i # 1
      BY <1>3, <2>3, <2>6 DEF OnList
    <3> QED BY <1>3, <2>2, <2>4, <2>5, <2>6, <3>1 DEF OnList, S
  <2>7. CASE list[1][1] \notin DOMAIN indexes /\ i = 1
    BY <1>1, <2>3, <2>7 DEF Same
  <2>8. CASE list[1][1] \notin DOMAIN indexes /\ i # 1
    <3>1. CASE list[1][1] = spec[1]
      <4>1. 1 \in DOMAIN list
        BY <2>1, <2>2
      <4>2. list[1] = spec
        BY <1>3, <3>1, <4>1 DEF OnList
      <4> QED BY <1>1, <2>8, <4>2 DEF Same
    <3>2. CASE list[1][1] # spec[1]
      <4>1. spec[1] \notin DOMAIN grown
        BY <1>1, <1>3, <3>2 DEF OnList
      <4> QED BY <2>2, <2>4, <2>5, <2>8, <4>1 DEF OnList, S
    <3> QED BY <3>1, <3>2
  <2> QED BY <2>6, <2>7, <2>8
<1>4. list[1][1] \in DOMAIN indexes => ThereOrOnList(indexes, Tail(list), asked)
  BY <1>3 DEF ThereOrOnList
<1>5. list[1][1] \notin DOMAIN indexes => ThereOrOnList(grown, Tail(list), asked)
  BY <1>2, <1>3 DEF ThereOrOnList
<1> QED BY <1>4, <1>5 DEF grown

LEMMA IndexStays ==
    ASSUME RegistryInv, StaysInv, CreateIndex \/ WriteSettings \/ IndexFails
    PROVE  StaysInv'
<1> USE DEF StaysInv
<1>1. /\ op.at = "index" /\ op.name \in DOMAIN colls /\ op.table = colls[op.name].table
      /\ op.creating => Untold(colls[op.name].born, told)
      /\ up = "up" /\ open /\ Attached
      /\ ~op.creating => op.goal = "createIndexes"
  <2>1. op.at = "index"
    BY DEF CreateIndex, WriteSettings, IndexFails
  <2> QED BY <2>1, IdleFacts DEF RegistryInv, Control, Attached, Commanded, Kept
<1>2. /\ Collections(rows, DOMAIN tables, counted.born) /\ Collections(colls, DOMAIN tables, counted.born)
      /\ TableShapes(tables) /\ Settings(op.settings)
  BY DEF RegistryInv, Named, Shapes, Commanded
<1>3. op.table \in DOMAIN tables /\ \A n \in DOMAIN rows : rows[n].table \in DOMAIN tables
  BY <1>1, <1>2 DEF Collections, Collection
(* Memory has, of this collection, every index that was told of.           *)
<1>4. \A i \in told.indexes : i[1] = colls[op.name].born
         => i[1] \in told.doomed \/ Same(colls[op.name].settings.indexes, <<i[2], i[3]>>)
  BY <1>1, <1>2 DEF Kept, Listing, IndexIn, Collections
<1>5. CASE CreateIndex
  <2> DEFINE i == NextIndex[1]
             k == NextIndex[2]
             w == With(op.settings.indexes, i, k)
             s == [op.settings EXCEPT !.indexes = w]
  <2>1. /\ UNCHANGED <<file, rows, up, open, colls, marks, told, counted>> /\ IndexesLeft # <<>>
        /\ \/ i \in DOMAIN op.settings.indexes /\ op' = [op EXCEPT !.list = After] /\ UNCHANGED tables
           \/ /\ i \notin DOMAIN op.settings.indexes
              /\ \E v : tables' = [tables EXCEPT ![op.table].indexes = v]
              /\ op' = [op EXCEPT !.list = After, !.made = op.made \cup {i}, !.settings = s]
    <3>1. CASE i \in DOMAIN op.settings.indexes
      BY <1>5, <3>1 DEF CreateIndex
    <3>2. CASE i \notin DOMAIN op.settings.indexes
      <4>1. \E v : tables' = [tables EXCEPT ![op.table].indexes = v]
        <5>1. tables' = [tables EXCEPT ![op.table].indexes = With(@, i, Built(i, k))]
          BY <1>5, <3>2 DEF CreateIndex
        <5>2. tables' = [tables EXCEPT ![op.table].indexes = With(tables[op.table].indexes, i, Built(i, k))]
          BY <1>3, <5>1
        <5> QED BY <5>2
      <4>2. op' = [op EXCEPT !.list = After, !.made = op.made \cup {i}, !.settings = s]
        BY <1>5, <3>2 DEF CreateIndex, RegistryInv, Commanded
      <4> QED BY <1>5, <3>2, <4>1, <4>2 DEF CreateIndex
    <3> QED BY <3>1, <3>2
  <2>2. s.indexes = w
    BY <1>2, RecordEdits DEF Settings
  <2> HIDE DEF s
  <2>3. /\ op'.at = "index" /\ op'.creating = op.creating /\ op'.name = op.name /\ op'.goal = op.goal
        /\ op'.list = After /\ op'.asked = op.asked
        /\ IF i \in DOMAIN op.settings.indexes THEN op'.settings = op.settings ELSE op'.settings = s
    BY <1>1, <2>1 DEF RegistryInv, Commanded
  <2>4. \A u \in DOMAIN tables : tables'[u].docs = tables[u].docs
    <3>1. UNCHANGED tables \/ \E v : tables' = [tables EXCEPT ![op.table].indexes = v]
      BY <2>1
    <3>2. ASSUME NEW v, tables' = [tables EXCEPT ![op.table].indexes = v] PROVE \A u \in DOMAIN tables : tables'[u].docs = tables[u].docs
      BY <1>2, <3>2 DEF TableShapes
    <3> QED BY <3>1, <3>2
  <2>5. Attached' = Attached
    BY <1>1, <2>1, <2>3 DEF Attached
  <2>6. Kept'
    BY <1>1, <1>3, <2>1, <2>3, <2>4, <2>5, QuietKept
  <2>7. /\ \A x \in DOMAIN op.settings.indexes : x \in DOMAIN w /\ w[x] = op.settings.indexes[x]
        /\ DOMAIN w = DOMAIN op.settings.indexes \cup {i}
    BY DEF With
  <2>8. op.creating => i = DefaultIndex
    BY <2>1 DEF NextIndex, IndexesLeft
  <2>9. AskedFor'
    <3>1. CASE op.creating
      <4>1. op'.list = op.list
        BY <2>3, <3>1 DEF After
      <4> QED BY <2>1, <2>3, <3>1, <4>1, SameAskedFor
    <3>2. CASE ~op.creating
      <4>1. op'.list = Tail(op.list) /\ op.list # <<>> /\ i = op.list[1][1] /\ k = op.list[1][2]
        BY <2>1, <2>3, <3>2 DEF After, NextIndex, IndexesLeft
      <4>2. ThereOrOnList(op.settings.indexes, op.list, op.asked)
        BY <1>1, <3>2 DEF AskedFor
      <4> HIDE DEF i, k
      <4>3. ThereOrOnList(op'.settings.indexes, Tail(op.list), op.asked)
        BY <2>2, <2>3, <4>1, <4>2, ListGoesOn
      <4> QED BY <1>1, <2>3, <3>2, <4>1, <4>3 DEF AskedFor
    <3> QED BY <3>1, <3>2
  <2> HIDE DEF w, i, k
  <2>10. Storing'
    BY <1>1, <2>1, <2>2, <2>3, <2>7, <2>8 DEF Storing, Same
  <2> QED BY <2>6, <2>9, <2>10
<1>6. CASE WriteSettings
  <2> DEFINE s == op.settings
             t == op.table
             made == IF op.creating THEN told ELSE [told EXCEPT !.indexes = @ \cup IndexesAsked(op)]
  <2>1. rows' = Set(rows, t, s) /\ UNCHANGED <<file, tables, up, open, marks, counted>> /\ IndexesLeft = <<>>
        /\ op' = (IF op.creating THEN Continue(op, s) ELSE Idle) /\ told' = made
    BY <1>6, StoredIsSet DEF WriteSettings
  <2>2. colls' = Set(colls, t, s)
    <3>1. colls' = [colls EXCEPT ![op.name].settings = s]
      BY <1>6 DEF WriteSettings
    <3> HIDE DEF s
    <3>2. [colls EXCEPT ![op.name].settings = s] = Set(colls, colls[op.name].table, s)
      BY <1>1, <1>2, SetOne
    <3> QED BY <1>1, <3>1, <3>2
  <2>3. /\ DOMAIN rows' = DOMAIN rows /\ DOMAIN colls' = DOMAIN colls
        /\ \A n \in DOMAIN rows : rows'[n].table = rows[n].table /\ rows'[n].born = rows[n].born
        /\ \A n \in DOMAIN colls : colls'[n].table = colls[n].table /\ colls'[n].born = colls[n].born
        /\ \A n \in DOMAIN rows : rows'[n].settings = IF rows[n].table = t THEN s ELSE rows[n].settings
        /\ \A n \in DOMAIN colls : colls'[n].settings = IF colls[n].table = t THEN s ELSE colls[n].settings
    BY <1>2, <2>1, <2>2, SetFacts
  <2>4. \A i \in told.indexes : i[1] = colls[op.name].born => i[1] \in told.doomed \/ Same(s.indexes, <<i[2], i[3]>>)
    BY <1>1, <1>4 DEF Storing, Same
  <2>5. CASE op.creating
    <3>1. /\ op'.at \in {"idle", "write", "index"} /\ op'.creating = FALSE
          /\ \/ op' = Idle
             \/ op'.at = "write" /\ op'.goal = "insert"
             \/ op'.at = "index" /\ op'.goal = "createIndexes" /\ op'.name = op.name /\ op'.settings = s
                /\ op'.list = op.list /\ op'.asked = op.asked /\ op.goal = "createIndexes"
      <4>1. op.goal \in Creations /\ op' = Continue(op, s)
        BY <2>1, <2>5 DEF RegistryInv, Commanded
      <4> HIDE DEF s
      <4> QED BY <4>1, IdleStays DEF Continue, Creations, RegistryInv, Commanded
    <3>2. Attached' /\ told' = told /\ counted'.born = counted.born
      BY <1>1, <2>1, <2>5, <3>1 DEF Attached
    <3>3. Kept'
      <4> HIDE DEF s, made
      <4> QED BY <1>1, <2>1, <2>2, <2>4, <3>1, <3>2, StoredKept
    <3>4. CASE op'.at # "index"
      BY <3>1, <3>3, <3>4, IdleStays, QuietStoring, OtherGoal
    <3>5. CASE op'.at = "index"
      <4>1. /\ op'.goal = "createIndexes" /\ op'.name = op.name /\ op'.settings = s /\ op'.list = op.list /\ op'.asked = op.asked
            /\ op.goal = "createIndexes"
        BY <3>1, <3>5, IdleStays
      <4>2. colls'[op.name].settings = s
        BY <1>1, <2>3
      <4>3. Storing'
        BY <3>1, <3>5, <4>1, <4>2 DEF Storing, Same
      <4>4. DOMAIN ListedIn(colls, op.name) = {} /\ DOMAIN s.indexes \subseteq {DefaultIndex}
        BY <1>1, <2>5 DEF Storing, ListedIn
      <4>5. /\ ThereOrOnList(ListedIn(colls, op.name), op.list, op.asked)
            /\ \A spec \in op.asked : spec[1] # DefaultIndex
        BY <1>1, <2>5, <4>1 DEF AskedFor
      <4>6. ThereOrOnList(s.indexes, op.list, op.asked)
        BY <4>4, <4>5 DEF ThereOrOnList, OnList, Same
      <4>7. AskedFor'
        BY <3>1, <3>5, <4>1, <4>6 DEF AskedFor
      <4> QED BY <3>3, <4>3, <4>7
    <3> QED BY <3>4, <3>5
  <2>6. CASE ~op.creating
    <3>1. op' = Idle /\ told' = [told EXCEPT !.indexes = told.indexes \cup IndexesAsked(op)]
      BY <2>1, <2>6 DEF Kept
    <3>2. /\ told'.documents = told.documents /\ told'.doomed = told.doomed
          /\ told'.indexes = told.indexes \cup IndexesAsked(op)
          /\ told' = [documents |-> told'.documents, indexes |-> told'.indexes, doomed |-> told'.doomed]
      BY <3>1 DEF Kept
    <3>3. \A spec \in op.asked : Same(s.indexes, <<spec[1], spec[2]>>)
      <4>1. op.list = <<>>
        BY <2>1, <2>6 DEF IndexesLeft
      <4>2. ThereOrOnList(s.indexes, op.list, op.asked)
        BY <1>1, <2>6 DEF AskedFor
      <4>3. \A spec : ~OnList(s.indexes, op.list, spec)
        BY <4>1 DEF OnList
      <4> QED BY <4>2, <4>3 DEF ThereOrOnList
    <3>4. \A i \in IndexesAsked(op) : i[1] = colls[op.name].born /\ Same(s.indexes, <<i[2], i[3]>>)
      BY <3>3 DEF IndexesAsked
    <3>5. \A i \in told'.indexes : i[1] = colls[op.name].born => i[1] \in told'.doomed \/ Same(s.indexes, <<i[2], i[3]>>)
      BY <2>4, <3>2, <3>4
    <3>6. Attached' /\ counted'.born = counted.born /\ op'.at = "idle" /\ op'.creating = FALSE
      BY <1>1, <2>1, <3>1, IdleStays DEF Attached
    <3>7. /\ \A n \in DOMAIN rows : n \in DOMAIN colls /\ colls[n].table = rows[n].table /\ colls[n].born = rows[n].born
          /\ op.name \in DOMAIN rows \/ colls[op.name].born \in told.doomed
      BY <1>1 DEF RegistryInv, Agreed, Kept
    <3>8. Listing(colls', told')
      <4>1. ASSUME NEW i \in told'.indexes, i[1] \notin told'.doomed PROVE IndexIn(colls', i)
        <5>1. CASE i[1] = colls[op.name].born
          BY <1>1, <2>3, <3>5, <4>1, <5>1 DEF IndexIn
        <5>2. CASE i[1] # colls[op.name].born
          <6>1. PICK n \in DOMAIN colls : colls[n].born = i[1] /\ Same(colls[n].settings.indexes, <<i[2], i[3]>>)
            BY <1>1, <3>2, <3>4, <4>1, <5>2 DEF Kept, Listing, IndexIn
          <6>2. n # op.name /\ colls[n].table # t
            BY <1>1, <1>2, <5>2, <6>1 DEF Collections
          <6> QED BY <2>3, <6>1, <6>2 DEF IndexIn
        <5> QED BY <5>1, <5>2
      <4> QED BY <4>1 DEF Listing
    <3>9. Listing(rows', told')
      <4>1. ASSUME NEW i \in told'.indexes, i[1] \notin told'.doomed PROVE IndexIn(rows', i)
        <5>1. CASE i[1] = colls[op.name].born
          <6>1. op.name \in DOMAIN rows /\ rows[op.name].table = t /\ rows[op.name].born = i[1]
            BY <1>1, <3>2, <3>7, <4>1, <5>1
          <6> QED BY <2>3, <3>5, <4>1, <5>1, <6>1 DEF IndexIn
        <5>2. CASE i[1] # colls[op.name].born
          <6>1. PICK n \in DOMAIN rows : rows[n].born = i[1] /\ Same(rows[n].settings.indexes, <<i[2], i[3]>>)
            BY <1>1, <3>2, <3>4, <4>1, <5>2 DEF Kept, Listing, IndexIn
          <6>2. rows[n].table # t
            <7>1. n # op.name /\ n \in DOMAIN colls /\ colls[n].table = rows[n].table
              BY <3>7, <5>2, <6>1
            <7> QED BY <1>1, <1>2, <7>1 DEF Collections
          <6> QED BY <2>3, <6>1, <6>2 DEF IndexIn
        <5> QED BY <5>1, <5>2
      <4> QED BY <4>1 DEF Listing
    <3>10. Having(rows', tables', told')
      BY <2>1, <2>3, <3>2 DEF Kept, Having, DocumentIn
    <3>11. colls[op.name].born \in 0 .. counted.born
      BY <1>1, <1>2 DEF Collections, Collection
    <3>12. Kept'
      BY <1>1, <2>1, <2>3, <3>2, <3>4, <3>6, <3>8, <3>9, <3>10, <3>11 DEF Kept
    <3> QED BY <3>1, <3>12, IdleStays
  <2> QED BY <2>5, <2>6
<1>7. CASE IndexFails
  <2> DEFINE v == [i \in DOMAIN tables[op.table].indexes \ TakenBack |-> tables[op.table].indexes[i]]
             s == colls[op.name].settings
  <2>1. /\ Fails /\ UNCHANGED <<file, up, open, colls, told>>
        /\ tables' = [tables EXCEPT ![op.table].indexes = v]
        /\ rows' \in {rows, Stored(op.table, s)}
        /\ op' = IF op.creating THEN [op EXCEPT !.at = "deleteRow"] ELSE Idle
    BY <1>3, <1>7 DEF IndexFails
  <2> HIDE DEF v, s
  <2>2. rows' = rows \/ rows' = Set(rows, op.table, s)
    BY <2>1, StoredIsSet
  <2>3. \A u \in DOMAIN tables : tables'[u].docs = tables[u].docs
    BY <1>2, <2>1 DEF TableShapes
  <2>4. /\ op'.at \in {"idle", "deleteRow"}
        /\ op.creating => op'.name = op.name /\ op'.goal = op.goal /\ op'.list = op.list /\ op'.asked = op.asked
        /\ ~op.creating => op' = Idle
        /\ op'.creating \/ op'.at = "deleteRow" => op.creating
    BY <2>1, IdleStays DEF RegistryInv, Commanded
  <2>5. counted'.born = counted.born /\ Attached'
    BY <1>1, <2>1, <2>4, CountedStays DEF RegistryInv, Attached
  <2>6. Kept'
    BY <1>1, <1>4, <2>1, <2>2, <2>3, <2>4, <2>5, StoredKept DEF s
  <2>7. AskedFor'
    <3>1. CASE op.creating
      BY <1>1, <2>1, <2>4, <3>1, SameAskedFor
    <3> QED BY <2>4, <3>1, IdleStays
  <2> QED BY <2>4, <2>6, <2>7, QuietStoring
<1> QED BY <1>5, <1>6, <1>7

LEMMA StaysStep == RegistryInv /\ StaysInv /\ [RegistryNext]_registryVars => StaysInv'
<1> SUFFICES ASSUME RegistryInv, StaysInv, [RegistryNext]_registryVars PROVE StaysInv'
  OBVIOUS
<1>1. CASE UNCHANGED registryVars
  BY <1>1 DEF registryVars, StaysInv, Kept, Attached, Storing, AskedFor
<1>2. CASE Command
  BY <1>2, BeginStays, RenameStays, OpenStays DEF Command
<1>3. CASE Statement
  BY <1>3, OpenStays, TableStays, IndexStays, DropStays, UnindexStays, WriteStays DEF Statement
<1> QED BY <1>1, <1>2, <1>3, ProcessStays DEF RegistryNext

(* What a client was told is stored is there until it is dropped: through  *)
(* restarts, renames, failures of other commands and the upgrade at the    *)
(* start, for any number of collections, indexes, commands and failures.   *)
THEOREM AcknowledgedIsKept == RegistrySpec => []AcknowledgedStays
<1>1. RegistryInv /\ StaysInv => AcknowledgedStays
  <2> SUFFICES ASSUME RegistryInv, StaysInv, Serving PROVE AcknowledgedStays
    BY DEF AcknowledgedStays
  <2> USE DEF StaysInv
  <2>1. ASSUME NEW b \in told.documents \ told.doomed
        PROVE  \E n \in DOMAIN colls : colls[n].born = b /\ colls[n].table \in DOMAIN tables /\ b \in tables[colls[n].table].docs
    <3>1. Attached
      BY <2>1 DEF Kept, Untold, Serving
    <3>2. PICK n \in DOMAIN rows : rows[n].born = b /\ b \in tables[rows[n].table].docs
      BY <2>1 DEF Kept, Having, DocumentIn
    <3>3. n \in DOMAIN colls /\ colls[n].table = rows[n].table /\ colls[n].born = rows[n].born
      BY <3>1 DEF RegistryInv, Agreed
    <3>4. colls[n].table \in DOMAIN tables
      BY <3>3 DEF RegistryInv, Named, Collections, Collection
    <3> QED BY <3>2, <3>3, <3>4
  <2>2. ASSUME NEW i \in told.indexes, i[1] \notin told.doomed
        PROVE  \E n \in DOMAIN colls : colls[n].born = i[1] /\ Same(Listed(n), <<i[2], i[3]>>)
    <3>1. Attached
      BY <2>2 DEF Kept, Untold, Serving
    <3>2. PICK n \in DOMAIN colls : colls[n].born = i[1] /\ Same(colls[n].settings.indexes, <<i[2], i[3]>>)
      BY <2>2, <3>1 DEF Kept, Listing, IndexIn
    <3> QED BY <3>2 DEF Listed
  <2> QED BY <2>1, <2>2 DEF AcknowledgedStays
<1> QED BY <1>1, RegistryStarts, RegistryStep, StaysStarts, StaysStep, RegistryAssumption, PTL DEF RegistrySpec

-----------------------------------------------------------------------------
(* The third invariant: collections are whole.                             *)

(* What is marked when a crash comes now.                                  *)
Left(m, o) ==
    [orphaned  |-> m.orphaned  \cup When(o.at \in {"row", "dropTable"}, o.table),
     halfMade  |-> m.halfMade  \cup When(o.at \in {"index", "deleteRow"} /\ o.creating, o.table),
     leftover  |-> m.leftover  \cup When(o.at = "index" /\ o.made # {}, o.table),
     unindexed |-> m.unindexed \cup When(o.at = "unindex" /\ o.made # {}, o.table)]

(* The indexes of table t among T and those the settings s list, but for   *)
(* what M marks; the one on _id is there when it is listed.                *)
Indexed(s, t, T, M) ==
    /\ DefaultIndex \in DOMAIN s.indexes => DefaultIndex \in DOMAIN T[t].indexes
    /\ t \in M.unindexed \/ DOMAIN s.indexes \subseteq DOMAIN T[t].indexes
    /\ t \in M.orphaned \cup M.leftover \/
         \A i \in DOMAIN T[t].indexes :
            /\ i \in DOMAIN s.indexes
            /\ i = DefaultIndex \/ s.current => T[t].indexes[i] = Built(i, s.indexes[i])

Defined(s, t, T, M) ==
    \/ t \in M.halfMade
    \/ /\ s.uuid
       /\ DefaultIndex \in DOMAIN s.indexes
       /\ s.capped = T[t].recordIds \/ t \in M.orphaned

(* The collection with settings s, table t and number b.                   *)
Whole(s, t, b, T, M) ==
    /\ Defined(s, t, T, M)
    /\ Indexed(s, t, T, M)
    /\ T[t].docs \subseteq {b} \/ t \in M.orphaned

Wholes(f, T, M) == \A n \in DOMAIN f : Whole(f[n].settings, f[n].table, f[n].born, T, M)

(* Only an orphaned table has no row.                                      *)
Owned(T, f, M) == \A t \in DOMAIN T : t \in M.orphaned \/ \E n \in DOMAIN f : f[n].table = t

(* The settings a command works on go with its table and with what memory  *)
(* has of the collection.                                                  *)
Working ==
    /\ op.at \in {"open", "metadata", "table", "row"} => op.made = {}
    /\ op.at = "row" => op.table \in marks.orphaned \/ tables[op.table] = NewTable(op.capped)
    /\ op.at \in {"index", "unindex"} =>
         /\ op.settings.uuid = colls[op.name].settings.uuid /\ op.settings.capped = colls[op.name].settings.capped
         /\ op.settings.current
         /\ Indexed(op.settings, op.table, tables, marks)
    /\ op.at = "index" => op.made \cap DOMAIN colls[op.name].settings.indexes = {}
    /\ op.at = "index" /\ op.creating =>
         /\ op.settings.uuid
         /\ op.settings.capped = tables[op.table].recordIds \/ op.table \in marks.orphaned
         /\ op.made # {} => DefaultIndex \in DOMAIN op.settings.indexes
    /\ op.at = "unindex" =>
         /\ DefaultIndex \notin op.asked
         /\ DefaultIndex \in DOMAIN colls[op.name].settings.indexes => DefaultIndex \in DOMAIN op.settings.indexes

Current(f) == \A n \in DOMAIN f : f[n].settings.current

WholeInv ==
    /\ Wholes(rows, tables, Left(marks, op)) /\ Wholes(colls, tables, Left(marks, op))
    /\ Owned(tables, rows, Left(marks, op))
    /\ Working
    /\ up = "up" => Current(colls)

Under(M, L) ==
    /\ M.orphaned \subseteq L.orphaned /\ M.halfMade \subseteq L.halfMade
    /\ M.leftover \subseteq L.leftover /\ M.unindexed \subseteq L.unindexed

(* All but t that M marks is marked in L.                                  *)
UnderBut(M, L, t) ==
    /\ M.orphaned \ {t} \subseteq L.orphaned /\ M.halfMade \ {t} \subseteq L.halfMade
    /\ M.leftover \ {t} \subseteq L.leftover /\ M.unindexed \ {t} \subseteq L.unindexed

LEMMA InterruptedIsLeft == Interrupted = Left(marks, op)
BY DEF Interrupted, Left

LEMMA LeftFacts ==
    ASSUME NEW m, NEW o
    PROVE  /\ Under(m, Left(m, o)) /\ UnderBut(Left(m, o), m, o.table)
           /\ Left(m, o).orphaned = IF o.at \in {"row", "dropTable"} THEN m.orphaned \cup {o.table} ELSE m.orphaned
           /\ Left(m, o).halfMade =
                IF o.at \in {"index", "deleteRow"} /\ o.creating THEN m.halfMade \cup {o.table} ELSE m.halfMade
           /\ Left(m, o).leftover = IF o.at = "index" /\ o.made # {} THEN m.leftover \cup {o.table} ELSE m.leftover
           /\ Left(m, o).unindexed = IF o.at = "unindex" /\ o.made # {} THEN m.unindexed \cup {o.table} ELSE m.unindexed
BY DEF Left, When, Under, UnderBut

(* Where nothing is interrupted that has to be marked.                     *)
LEMMA LeftAlone ==
    ASSUME NEW m, NEW o, o.at \in {"idle", "open", "metadata", "table", "write"}
    PROVE  /\ Left(m, o).orphaned = m.orphaned /\ Left(m, o).halfMade = m.halfMade
           /\ Left(m, o).leftover = m.leftover /\ Left(m, o).unindexed = m.unindexed
BY LeftFacts

LEMMA WholeGrows ==
    ASSUME NEW s, NEW t, NEW b, NEW T, NEW U, NEW M, NEW L, Whole(s, t, b, T, M), U[t] = T[t],
           t \in M.orphaned => t \in L.orphaned, t \in M.halfMade => t \in L.halfMade,
           t \in M.leftover => t \in L.leftover, t \in M.unindexed => t \in L.unindexed
    PROVE  Whole(s, t, b, U, L)
BY DEF Whole, Defined, Indexed

(* Nothing but table t changes.                                            *)
LEMMA WholesBut ==
    ASSUME NEW f, NEW T, NEW U, NEW M, NEW L, Wholes(f, T, M), NEW t, UnderBut(M, L, t),
           \A n \in DOMAIN f : f[n].table # t => U[f[n].table] = T[f[n].table],
           \A n \in DOMAIN f : f[n].table = t => Whole(f[n].settings, t, f[n].born, U, L)
    PROVE  Wholes(f, U, L)
<1>1. ASSUME NEW n \in DOMAIN f, f[n].table # t PROVE Whole(f[n].settings, f[n].table, f[n].born, U, L)
  <2>1. Whole(f[n].settings, f[n].table, f[n].born, T, M)
    BY DEF Wholes
  <2> QED BY <1>1, <2>1, WholeGrows DEF UnderBut
<1> QED BY <1>1 DEF Wholes

LEMMA WholesGrow ==
    ASSUME NEW f, NEW T, NEW U, NEW M, NEW L, Wholes(f, T, M), Under(M, L),
           \A n \in DOMAIN f : U[f[n].table] = T[f[n].table]
    PROVE  Wholes(f, U, L)
<1>1. ASSUME NEW n \in DOMAIN f PROVE Whole(f[n].settings, f[n].table, f[n].born, U, L)
  <2>1. Whole(f[n].settings, f[n].table, f[n].born, T, M)
    BY DEF Wholes
  <2> QED BY <2>1, WholeGrows DEF Under
<1> QED BY <1>1 DEF Wholes

(* The same when the settings with table t are new.                        *)
LEMMA WholesSet ==
    ASSUME NEW f, NEW A, NEW N, Collections(f, A, N), NEW t, NEW s,
           NEW T, NEW U, NEW M, NEW L, Wholes(f, T, M), UnderBut(M, L, t),
           \A n \in DOMAIN f : f[n].table # t => U[f[n].table] = T[f[n].table],
           \A n \in DOMAIN f : f[n].table = t => Whole(s, t, f[n].born, U, L)
    PROVE  Wholes(Set(f, t, s), U, L)
<1> DEFINE g == Set(f, t, s)
<1>1. /\ DOMAIN g = DOMAIN f
      /\ \A n \in DOMAIN f : /\ g[n].table = f[n].table /\ g[n].born = f[n].born
                             /\ g[n].settings = IF f[n].table = t THEN s ELSE f[n].settings
  BY SetFacts
<1> HIDE DEF g
<1>2. ASSUME NEW n \in DOMAIN f, f[n].table # t PROVE Whole(f[n].settings, f[n].table, f[n].born, U, L)
  <2>1. Whole(f[n].settings, f[n].table, f[n].born, T, M)
    BY DEF Wholes
  <2> QED BY <1>2, <2>1, WholeGrows DEF UnderBut
<1>3. Wholes(g, U, L)
  BY <1>1, <1>2 DEF Wholes
<1> QED BY <1>3 DEF g

LEMMA OwnedGrows ==
    ASSUME NEW T, NEW f, NEW g, NEW M, NEW L, Owned(T, f, M), M.orphaned \subseteq L.orphaned, NEW U, DOMAIN U = DOMAIN T,
           \A n \in DOMAIN f : \E m \in DOMAIN g : g[m].table = f[n].table
    PROVE  Owned(U, g, L)
BY DEF Owned

(* A step between statements that leaves the database, memory and the      *)
(* marks as they are.                                                      *)
LEMMA QuietWhole ==
    ASSUME WholeInv, UNCHANGED <<rows, tables, colls, up>>, Under(Left(marks, op), Left(marks', op')), Working'
    PROVE  WholeInv'
<1>1. Wholes(rows', tables', Left(marks', op')) /\ Wholes(colls', tables', Left(marks', op'))
  BY WholesGrow DEF WholeInv
<1>2. Owned(tables', rows', Left(marks', op'))
  BY OwnedGrows DEF WholeInv, Under
<1> QED BY <1>1, <1>2 DEF WholeInv

LEMMA QuietWorking ==
    ASSUME op'.at \notin {"row", "index", "unindex"}, op'.at \in {"open", "metadata", "table"} => op'.made = {}
    PROVE  Working'
BY DEF Working

LEMMA IndexesEdited ==
    ASSUME NEW T, TableShapes(T), NEW t \in DOMAIN T, NEW r, NEW U, U = [T EXCEPT ![t].indexes = r]
    PROVE  /\ DOMAIN U = DOMAIN T /\ \A u \in DOMAIN T : u # t => U[u] = T[u]
           /\ U[t].docs = T[t].docs /\ U[t].recordIds = T[t].recordIds /\ U[t].indexes = r
<1>1. DOMAIN U = DOMAIN T /\ (\A u \in DOMAIN T : u # t => U[u] = T[u]) /\ U[t] = [T[t] EXCEPT !.indexes = r]
  OBVIOUS
<1>2. [T[t] EXCEPT !.indexes = r] = [docs |-> T[t].docs, indexes |-> r, recordIds |-> T[t].recordIds]
  BY RecordEdits, Zenon DEF TableShapes
<1>3. U[t] = [docs |-> T[t].docs, indexes |-> r, recordIds |-> T[t].recordIds]
  BY <1>1, <1>2
<1> QED BY <1>1, <1>3

LEMMA WholeStarts == RegistryAssumption /\ RegistryInit => WholeInv
<1> SUFFICES ASSUME RegistryAssumption, RegistryInit PROVE WholeInv
  OBVIOUS
<1>1. up = "down" /\ op = Idle /\ op.at = "idle" /\ DOMAIN colls = {}
  BY NoCollections DEF RegistryInit, Idle
<1>2. Working /\ Wholes(colls, tables, Left(marks, op)) /\ (up = "up" => Current(colls))
  BY <1>1 DEF Working, Wholes
<1>3. CASE rows = Empty /\ tables = Empty
  BY <1>2, <1>3, NoCollections DEF WholeInv, Wholes, Owned
<1>4. ASSUME NEW old \in Databases, NEW number \in Injection(DOMAIN old, 1 .. Cardinality(DOMAIN old)), Old(old, number)
      PROVE  WholeInv
  <2>1. /\ DOMAIN rows = DOMAIN old /\ DOMAIN tables = {<<n, 0>> : n \in DOMAIN old}
        /\ \A n \in DOMAIN old : "_id_" \in DOMAIN old[n].indexes /\ old[n].indexes["_id_"] = "_id"
    BY <1>4 DEF Old, RegistryAssumption
  <2>2. \A n \in DOMAIN rows :
          rows[n] = [table |-> <<n, 0>>, born |-> number[n],
                     settings |-> [uuid |-> TRUE, indexes |-> old[n].indexes, capped |-> old[n].capped, current |-> FALSE]]
    BY <1>4, <2>1 DEF Old
  <2>3. \A n \in DOMAIN rows :
          tables[<<n, 0>>] = [docs |-> {number[n]}, recordIds |-> old[n].capped,
                              indexes |-> [i \in DOMAIN old[n].indexes |-> [key |-> old[n].indexes[i], covering |-> FALSE]]]
    BY <1>4, <2>1 DEF Old
  <2>4. ASSUME NEW n \in DOMAIN rows, NEW M PROVE Whole(rows[n].settings, rows[n].table, rows[n].born, tables, M)
    <3> DEFINE s == [uuid |-> TRUE, indexes |-> old[n].indexes, capped |-> old[n].capped, current |-> FALSE]
               r == tables[<<n, 0>>]
    <3>1. rows[n] = [table |-> <<n, 0>>, born |-> number[n], settings |-> s]
      BY <2>2
    <3>2. r.docs = {number[n]} /\ r.recordIds = old[n].capped
          /\ r.indexes = [i \in DOMAIN old[n].indexes |-> [key |-> old[n].indexes[i], covering |-> FALSE]]
      <4>1. r = [docs |-> {number[n]}, recordIds |-> old[n].capped,
                 indexes |-> [i \in DOMAIN old[n].indexes |-> [key |-> old[n].indexes[i], covering |-> FALSE]]]
        BY <2>3
      <4> HIDE DEF r
      <4> QED BY <4>1
    <3>3. s.uuid = TRUE /\ s.indexes = old[n].indexes /\ s.capped = old[n].capped /\ s.current = FALSE
      OBVIOUS
    <3> HIDE DEF s, r
    <3>4. /\ DOMAIN r.indexes = DOMAIN s.indexes /\ DefaultIndex \in DOMAIN s.indexes
          /\ r.indexes[DefaultIndex] = Built(DefaultIndex, s.indexes[DefaultIndex])
      <4>1. "_id_" \in DOMAIN old[n].indexes /\ DOMAIN r.indexes = DOMAIN old[n].indexes
        BY <2>1, <3>2
      <4>2. r.indexes["_id_"] = [key |-> old[n].indexes["_id_"], covering |-> FALSE]
        BY <3>2, <4>1
      <4> QED BY <3>3, <4>1, <4>2 DEF DefaultIndex, Built
    <3>5. Indexed(s, <<n, 0>>, tables, M)
      BY <3>3, <3>4 DEF Indexed, r
    <3>6. Whole(s, <<n, 0>>, number[n], tables, M)
      BY <3>2, <3>3, <3>4, <3>5 DEF Whole, Defined, r
    <3>7. rows[n].settings = s /\ rows[n].table = <<n, 0>> /\ rows[n].born = number[n]
      BY <3>1
    <3> QED BY <3>6, <3>7
  <2>5. Owned(tables, rows, Left(marks, op))
    BY <2>1, <2>2 DEF Owned
  <2> QED BY <1>2, <2>4, <2>5 DEF WholeInv, Wholes
<1> QED BY <1>3, <1>4 DEF RegistryInit

LEMMA ProcessWhole ==
    ASSUME RegistryInv, WholeInv, Start \/ (\E name \in DOMAIN colls : UpgradeIndexFormat(name)) \/ Serve \/ Crash
    PROVE  WholeInv'
<1>1. CASE Start
  <2>1. op = Idle /\ UNCHANGED <<rows, tables, op, marks>> /\ colls' = rows /\ up' = "starting" /\ op'.at = "idle"
    BY <1>1, IdleFacts DEF Start, RegistryInv, Control
  <2>2. Working'
    BY <2>1, QuietWorking
  <2> QED BY <2>1, <2>2 DEF WholeInv
<1>2. ASSUME NEW name \in DOMAIN colls, UpgradeIndexFormat(name) PROVE WholeInv'
  <2> DEFINE s == [colls[name].settings EXCEPT !.current = TRUE]
             t == colls[name].table
             M == Left(marks, op)
             L == Left(marks', op')
  <2>1. op = Idle /\ op' = Idle /\ op.at = "idle" /\ colls = rows /\ up = "starting" /\ up' = "starting"
    BY <1>2, IdleFacts DEF UpgradeIndexFormat, RegistryInv, Control
  <2>2. Collections(rows, DOMAIN tables, counted.born) /\ Collections(colls, DOMAIN tables, counted.born) /\ TableShapes(tables)
    BY DEF RegistryInv, Named, Shapes
  <2>3. s.indexes = colls[name].settings.indexes /\ s.uuid = colls[name].settings.uuid
        /\ s.capped = colls[name].settings.capped /\ s.current = TRUE
    BY <2>2, RecordEdits DEF Collections, Collection, Settings
  <2>4. rows' = Set(rows, t, s) /\ colls' = Set(colls, t, s)
        /\ tables' = [tables EXCEPT ![t].indexes = Rebuilt(@, s)]
        /\ marks' = [marks EXCEPT !.unindexed = @ \ {t}]
    <3>1. rows' = Stored(t, s) /\ colls' = [colls EXCEPT ![name].settings = s]
          /\ tables' = [tables EXCEPT ![t].indexes = Rebuilt(@, s)]
          /\ marks' = [marks EXCEPT !.unindexed = @ \ {t}]
      BY <1>2 DEF UpgradeIndexFormat
    <3> HIDE DEF s
    <3>2. [colls EXCEPT ![name].settings = s] = Set(colls, t, s)
      BY <2>2, SetOne
    <3> QED BY <3>1, <3>2, StoredIsSet
  <2> HIDE DEF s
  <2>5. t \in DOMAIN tables
    BY <2>2 DEF Collections, Collection
  <2>6. /\ \A u \in DOMAIN tables : u # t => tables'[u] = tables[u]
        /\ tables'[t].docs = tables[t].docs /\ tables'[t].recordIds = tables[t].recordIds
        /\ tables'[t].indexes = Rebuilt(tables[t].indexes, s) /\ DOMAIN tables' = DOMAIN tables
    <3> DEFINE r == Rebuilt(tables[t].indexes, s)
    <3>1. tables' = [tables EXCEPT ![t].indexes = r]
      BY <2>4, <2>5
    <3> HIDE DEF r, t
    <3>2. tables' = [tables EXCEPT ![t].indexes = r] /\ TableShapes(tables) /\ t \in DOMAIN tables
      BY <2>2, <2>5, <3>1
    <3>3. /\ \A u \in DOMAIN tables : u # t => tables'[u] = tables[u]
          /\ tables'[t].docs = tables[t].docs /\ tables'[t].recordIds = tables[t].recordIds
          /\ tables'[t].indexes = r /\ DOMAIN tables' = DOMAIN tables
      BY <3>2, IndexesEdited
    <3> QED BY <3>3 DEF r
  <2>7. L.orphaned = M.orphaned /\ L.halfMade = M.halfMade /\ L.leftover = M.leftover /\ L.unindexed = M.unindexed \ {t}
    <3>1. /\ marks'.orphaned = marks.orphaned /\ marks'.halfMade = marks.halfMade /\ marks'.leftover = marks.leftover
          /\ marks'.unindexed = marks.unindexed \ {t}
      BY <2>4 DEF RegistryInv, Shapes
    <3>2. op'.at = "idle"
      BY <2>1
    <3> QED BY <2>1, <3>1, <3>2, LeftAlone
  <2> HIDE DEF M, L
  <2>8. Whole(s, t, colls[name].born, tables', L)
    <3>1. Whole(colls[name].settings, t, colls[name].born, tables, M)
      BY DEF WholeInv, Wholes, M
    <3>2. Defined(s, t, tables', L) /\ (tables'[t].docs \subseteq {colls[name].born} \/ t \in L.orphaned)
      BY <2>3, <2>6, <2>7, <3>1 DEF Whole, Defined
    <3>3. Indexed(s, t, tables', L)
      <4> DEFINE old == tables[t].indexes
                 new == Rebuilt(old, s)
      <4>1. /\ DOMAIN new = (DOMAIN s.indexes \ {DefaultIndex}) \cup DOMAIN old
            /\ \A i \in DOMAIN new :
                 new[i] = IF i \in DOMAIN s.indexes \ {DefaultIndex} THEN Built(i, s.indexes[i]) ELSE old[i]
        BY DEF Rebuilt
      <4> HIDE DEF new
      <4>2. /\ DefaultIndex \in DOMAIN s.indexes => DefaultIndex \in DOMAIN old
            /\ t \in M.orphaned \cup M.leftover \/
                \A i \in DOMAIN old : i \in DOMAIN s.indexes /\ (i = DefaultIndex => old[i] = Built(i, s.indexes[i]))
        BY <2>3, <3>1 DEF Whole, Indexed
      <4> HIDE DEF old
      <4>3. /\ DefaultIndex \in DOMAIN s.indexes => DefaultIndex \in DOMAIN new
            /\ DOMAIN s.indexes \subseteq DOMAIN new
            /\ t \in L.orphaned \cup L.leftover \/
                \A i \in DOMAIN new : i \in DOMAIN s.indexes /\ new[i] = Built(i, s.indexes[i])
        BY <2>7, <4>1, <4>2
      <4> QED BY <2>6, <4>3 DEF Indexed, new, old
    <3> QED BY <3>2, <3>3 DEF Whole
  <2>9. \A n \in DOMAIN rows : rows[n].table = t => rows[n].born = colls[name].born
    BY <2>1, <2>2 DEF Collections
  <2>10. \A n \in DOMAIN rows : rows[n].table \in DOMAIN tables
    BY <2>2 DEF Collections, Collection
  <2>11. Wholes(rows', tables', L)
    <3>1. UnderBut(M, L, t)
      BY <2>7 DEF UnderBut
    <3>2. Wholes(rows, tables, M)
      BY DEF WholeInv, M
    <3>3. /\ \A n \in DOMAIN rows : rows[n].table # t => tables'[rows[n].table] = tables[rows[n].table]
          /\ \A n \in DOMAIN rows : rows[n].table = t => Whole(s, t, rows[n].born, tables', L)
      BY <2>6, <2>8, <2>9, <2>10
    <3>4. Wholes(Set(rows, t, s), tables', L)
      BY <2>2, <3>1, <3>2, <3>3, WholesSet
    <3> QED BY <2>4, <3>4
  <2>12. Owned(tables', rows', L)
    <3>1. DOMAIN rows' = DOMAIN rows /\ \A n \in DOMAIN rows : rows'[n].table = rows[n].table
      BY <2>2, <2>4, SetFacts
    <3> QED BY <2>6, <2>7, <3>1 DEF WholeInv, Owned, M
  <2>13. colls' = rows' /\ Working'
    BY <2>1, <2>4, QuietWorking
  <2> QED BY <2>1, <2>11, <2>12, <2>13 DEF WholeInv, L
<1>3. CASE Serve
  <2>1. op = Idle /\ UNCHANGED <<rows, tables, op, marks, colls>> /\ op'.at = "idle" /\ Current(colls)
    BY <1>3, IdleFacts DEF Serve, RegistryInv, Control, Current
  <2> QED BY <2>1, QuietWorking DEF WholeInv
<1>4. CASE Crash
  <2>1. op' = Idle /\ op'.at = "idle" /\ UNCHANGED <<rows, tables>> /\ colls' = Empty /\ up' = "down" /\ marks' = Left(marks, op)
    BY <1>4, IdleFacts, InterruptedIsLeft DEF Crash
  <2>2. Under(Left(marks, op), Left(marks', op'))
    BY <2>1, LeftFacts DEF Under
  <2>3. Wholes(rows', tables', Left(marks', op')) /\ Owned(tables', rows', Left(marks', op'))
    BY <2>1, <2>2, WholesGrow DEF WholeInv, Owned, Under
  <2>4. Wholes(colls', tables', Left(marks', op'))
    BY <2>1, NoCollections DEF Wholes
  <2> QED BY <2>1, <2>3, <2>4, QuietWorking DEF WholeInv
<1> QED BY <1>1, <1>2, <1>3, <1>4

LEMMA BeginWhole ==
    ASSUME RegistryInv, WholeInv,
           \/ \E name \in Names, capped \in BOOLEAN : Create(name, capped)
           \/ \E name \in Names, list \in IndexLists : CreateIndexes(name, list)
           \/ \E name \in Names : Insert(name) \/ Drop(name)
           \/ \E name \in DOMAIN colls : \E indexes \in SUBSET DOMAIN Listed(name) : DropIndexes(name, indexes)
    PROVE  WholeInv'
<1>1. up = "up" /\ op = Idle /\ UNCHANGED <<file, rows, tables, up, open, colls, marks>>
  BY DEF Create, CreateIndexes, Insert, Drop, DropIndexes, Ready
<1>2. op.at = "idle" /\ Under(Left(marks, op), marks) /\ Under(marks, Left(marks, op'))
  <2>1. op.at = "idle"
    BY <1>1, IdleFacts
  <2> QED BY <2>1, LeftAlone, LeftFacts DEF Under
<1>3. Under(Left(marks, op), Left(marks', op'))
  BY <1>1, <1>2 DEF Under
<1>4. CASE op'.at \in {"open", "write", "deleteRow"} /\ op'.made = {}
  BY <1>1, <1>3, <1>4, QuietWorking, QuietWhole
<1>5. ASSUME NEW name \in DOMAIN colls, NEW indexes, DropIndexes(name, indexes) PROVE WholeInv'
  <2>1. /\ op'.at = "unindex" /\ op'.name = name /\ op'.table = colls[name].table /\ op'.creating = FALSE
        /\ op'.asked = indexes /\ op'.settings = colls[name].settings /\ DefaultIndex \notin indexes
    BY <1>5 DEF DropIndexes, Begin, Idle
  <2>2. Indexed(colls[name].settings, colls[name].table, tables, marks) /\ colls[name].settings.current
    <3>1. Whole(colls[name].settings, colls[name].table, colls[name].born, tables, Left(marks, op))
      BY DEF WholeInv, Wholes
    <3>2. Indexed(colls[name].settings, colls[name].table, tables, Left(marks, op))
      BY <3>1 DEF Whole
    <3>3. Indexed(colls[name].settings, colls[name].table, tables, marks)
      BY <1>2, <3>2, LeftAlone DEF Indexed
    <3> QED BY <1>1, <3>3 DEF WholeInv, Current
  <2>3. Working'
    BY <1>1, <2>1, <2>2 DEF Working
  <2> QED BY <1>1, <1>3, <2>3, QuietWhole
<1>6. ASSUME NEW name, NEW capped, Create(name, capped) PROVE op'.at = "open" /\ op'.made = {}
  BY <1>6 DEF Create, Begin, Idle
<1>7. ASSUME NEW name, NEW list, CreateIndexes(name, list) PROVE op'.at = "open" /\ op'.made = {}
  BY <1>7 DEF CreateIndexes, Begin, Idle
<1>8. ASSUME NEW name, Insert(name) \/ Drop(name) PROVE op'.at \in {"open", "write", "deleteRow"} /\ op'.made = {}
  BY <1>8 DEF Insert, Drop, Begin, Idle
<1> QED BY <1>4, <1>5, <1>6, <1>7, <1>8

LEMMA RenameWhole ==
    ASSUME RegistryInv, WholeInv, NEW name \in Names, NEW new \in Names, Rename(name, new)
    PROVE  WholeInv'
<1>1. /\ up = "up" /\ op = Idle /\ UNCHANGED <<file, tables, up, open, op, marks, told>>
      /\ name \in DOMAIN colls /\ new \notin DOMAIN colls
      /\ colls' = With(Without(colls, name), new, colls[name])
  BY DEF Rename, Ready
<1>2. op.at = "idle" /\ Attached
  BY <1>1, IdleFacts, NoCollections DEF RegistryInv, Control
<1>3. /\ Collections(rows, DOMAIN tables, counted.born) /\ Collections(colls, DOMAIN tables, counted.born)
      /\ DOMAIN rows \subseteq DOMAIN colls /\ \A n \in DOMAIN rows : colls[n].table = rows[n].table
  BY <1>2 DEF RegistryInv, Named, Agreed
<1>4. rows' = IF name \in DOMAIN rows THEN With(Without(rows, name), new, rows[name]) ELSE rows
  BY <1>1, <1>3, RowsAfterRename
<1>5. /\ \A n \in DOMAIN rows' : \E m \in DOMAIN rows : rows'[n] = rows[m]
      /\ \A m \in DOMAIN rows : \E n \in DOMAIN rows' : rows'[n] = rows[m]
      /\ \A n \in DOMAIN colls' : \E m \in DOMAIN colls : colls'[n] = colls[m]
  <2>1. /\ DOMAIN colls' = (DOMAIN colls \ {name}) \cup {new} /\ colls'[new] = colls[name]
        /\ \A n \in DOMAIN colls \ {name} : colls'[n] = colls[n]
    BY <1>1 DEF With, Without
  <2>2. /\ name \in DOMAIN rows => /\ DOMAIN rows' = (DOMAIN rows \ {name}) \cup {new} /\ rows'[new] = rows[name]
                                   /\ \A n \in DOMAIN rows \ {name} : rows'[n] = rows[n]
        /\ name \notin DOMAIN rows => rows' = rows
    BY <1>1, <1>3, <1>4 DEF With, Without
  <2>3. \A m \in DOMAIN rows : \E n \in DOMAIN rows' : rows'[n] = rows[m]
    <3>1. new \notin DOMAIN rows
      BY <1>1, <1>3
    <3> QED BY <2>2, <3>1
  <2>4. (\A n \in DOMAIN rows' : \E m \in DOMAIN rows : rows'[n] = rows[m])
    BY <2>2
  <2> QED BY <1>1, <2>1, <2>3, <2>4
<1>6. Wholes(rows', tables', Left(marks', op')) /\ Wholes(colls', tables', Left(marks', op'))
  BY <1>1, <1>5 DEF WholeInv, Wholes
<1>7. Owned(tables', rows', Left(marks', op')) /\ Current(colls')
  BY <1>1, <1>5 DEF WholeInv, Owned, Current
<1> QED BY <1>1, <1>2, <1>6, <1>7, QuietWorking DEF WholeInv

LEMMA RemoveWhole ==
    ASSUME WholeInv, NEW removed \in BOOLEAN, RemoveFile(removed), op.at \in {"idle", "metadata"}, op' = Idle
    PROVE  WholeInv'
<1>1. op'.at = "idle" /\ DOMAIN colls' = {}
  BY IdleFacts, NoCollections DEF RemoveFile
<1>2. Wholes(colls', tables', Left(marks', op')) /\ Current(colls') /\ Working'
  BY <1>1, QuietWorking DEF Wholes, Current
<1>3. CASE removed
  <2>1. DOMAIN rows' = {} /\ DOMAIN tables' = {}
    BY <1>3, NoCollections DEF RemoveFile
  <2> QED BY <1>2, <2>1 DEF WholeInv, Wholes, Owned
<1>4. CASE ~removed
  <2>1. UNCHANGED <<rows, tables, marks>>
    BY <1>4 DEF RemoveFile
  <2>2. Under(Left(marks, op), marks) /\ Under(marks, Left(marks', op'))
    BY <2>1, LeftAlone, LeftFacts DEF Under
  <2>3. Under(Left(marks, op), Left(marks', op'))
    BY <2>2 DEF Under
  <2>4. Wholes(rows', tables', Left(marks', op')) /\ Owned(tables', rows', Left(marks', op'))
    BY <2>1, <2>3, WholesGrow DEF WholeInv, Owned, Under
  <2> QED BY <1>2, <2>4 DEF WholeInv
<1> QED BY <1>3, <1>4

LEMMA OpenWhole ==
    ASSUME RegistryInv, WholeInv,
           OpenDatabase \/ CreateMetadata \/ MetadataFails \/ NothingDone \/ Exists \/ DropDatabase
    PROVE  WholeInv'
<1>1. CASE MetadataFails
  BY <1>1, RemoveWhole DEF MetadataFails
<1>2. CASE DropDatabase
  <2>1. op = Idle /\ op' = Idle /\ \E removed \in BOOLEAN : RemoveFile(removed)
    BY <1>2 DEF DropDatabase, Ready
  <2> QED BY <2>1, IdleFacts, RemoveWhole
<1>3. CASE OpenDatabase \/ CreateMetadata \/ NothingDone \/ Exists
  <2>1. op.at \in {"open", "metadata", "table"} /\ UNCHANGED <<rows, tables, up, colls, marks>>
    BY <1>3 DEF OpenDatabase, CreateMetadata, NothingDone, Exists
  <2>2. Under(Left(marks, op), marks) /\ Under(marks, Left(marks', op'))
    BY <2>1, LeftAlone, LeftFacts DEF Under
  <2>3. Under(Left(marks, op), Left(marks', op'))
    BY <2>2 DEF Under
  <2>4. CASE op'.at \notin {"row", "index", "unindex"}
    <3>1. op'.at \in {"open", "metadata", "table"} => op'.made = {}
      <4>1. op.made = {}
        BY <2>1 DEF WholeInv, Working
      <4>2. CASE OpenDatabase \/ CreateMetadata
        BY <4>1, <4>2 DEF OpenDatabase, CreateMetadata, RegistryInv, Commanded
      <4>3. CASE NothingDone
        BY <4>3, IdleFacts DEF NothingDone
      <4>4. CASE Exists
        <5> DEFINE command == [op EXCEPT !.table = colls[op.name].table]
        <5>1. command.goal \in Creations /\ op' = Continue(command, colls[op.name].settings)
          BY <4>4 DEF Exists, RegistryInv, Commanded
        <5> HIDE DEF command
        <5> QED BY <5>1, IdleFacts DEF Continue, Creations
      <4> QED BY <1>3, <4>2, <4>3, <4>4
    <3> QED BY <2>1, <2>3, <2>4, <3>1, QuietWorking, QuietWhole
  <2>5. CASE op'.at \in {"row", "index", "unindex"}
    <3>1. Exists
      <4>1. CASE OpenDatabase
        BY <2>5, <4>1 DEF OpenDatabase, RegistryInv, Commanded
      <4>2. CASE CreateMetadata
        BY <2>5, <4>2 DEF CreateMetadata, RegistryInv, Commanded
      <4>3. CASE NothingDone
        BY <2>5, <4>3, IdleFacts DEF NothingDone
      <4> QED BY <1>3, <4>1, <4>2, <4>3
    <3> DEFINE c == colls[op.name]
    <3>2. /\ op.at = "table" /\ op.name \in DOMAIN colls /\ op.goal \in Creations
          /\ op' = Continue([op EXCEPT !.table = c.table], c.settings)
      BY <3>1 DEF Exists, RegistryInv, Commanded
    <3> HIDE DEF c
    <3>3. /\ op'.at = "index" /\ op'.creating = FALSE /\ op'.name = op.name /\ op'.table = c.table
          /\ op'.settings = c.settings /\ op'.made = {}
      BY <2>5, <3>2, IdleFacts DEF Continue, Creations, RegistryInv, Commanded
    <3>4. up = "up"
      BY <3>2, IdleFacts DEF RegistryInv, Control
    <3>5. Indexed(c.settings, c.table, tables, marks) /\ c.settings.current
      <4>1. Whole(c.settings, c.table, c.born, tables, Left(marks, op))
        BY <3>2 DEF WholeInv, Wholes, c
      <4>2. Indexed(c.settings, c.table, tables, Left(marks, op))
        BY <4>1 DEF Whole
      <4>3. Indexed(c.settings, c.table, tables, marks)
        BY <2>1, <4>2, LeftAlone DEF Indexed
      <4> QED BY <3>2, <3>4, <4>3 DEF WholeInv, Current, c
    <3>6. Working'
      BY <2>1, <3>3, <3>5 DEF Working, c
    <3> QED BY <2>1, <2>3, <3>6, QuietWhole
  <2> QED BY <2>4, <2>5
<1> QED BY <1>1, <1>2, <1>3

LEMMA TableWhole ==
    ASSUME RegistryInv, WholeInv, CreateTable \/ InsertRow \/ RowFails
    PROVE  WholeInv'
<1>1. /\ Collections(rows, DOMAIN tables, counted.born) /\ Collections(colls, DOMAIN tables, counted.born)
      /\ TableShapes(tables)
  BY DEF RegistryInv, Named, Shapes
<1>2. op.at \in {"table", "row"} /\ ~op.creating /\ up = "up" /\ Attached
  BY IdleFacts DEF CreateTable, InsertRow, RowFails, RegistryInv, Commanded, Control, Attached
<1>3. \A n \in DOMAIN rows : n \in DOMAIN colls /\ colls[n].table = rows[n].table
  BY <1>2 DEF RegistryInv, Agreed
<1>4. /\ \A n \in DOMAIN rows : rows[n].table \in DOMAIN tables
      /\ \A n \in DOMAIN colls : colls[n].table \in DOMAIN tables
  BY <1>1 DEF Collections, Collection
<1>5. Wholes(rows, tables, Left(marks, op)) /\ Wholes(colls, tables, Left(marks, op)) /\ Owned(tables, rows, Left(marks, op))
  BY DEF WholeInv
<1>6. CASE CreateTable
  <2> DEFINE table == TableFor(op.name)
  <2>1. /\ op.at = "table"
        /\ tables' = With(tables, table, NewTable(op.capped))
        /\ op' = [op EXCEPT !.at = "row", !.table = table]
        /\ UNCHANGED <<file, rows, up, open, colls, marks>>
    BY <1>6 DEF CreateTable, Made
  <2>2. \A n \in DOMAIN colls : colls[n].table # table
    BY <1>1, TableIsFree
  <2> HIDE DEF table
  <2>3. op'.at = "row" /\ op'.creating = FALSE /\ op'.table = table /\ op'.capped = op.capped /\ op'.made = {}
    BY <1>2, <2>1 DEF RegistryInv, Commanded, WholeInv, Working
  <2>4. /\ DOMAIN tables' = DOMAIN tables \cup {table} /\ \A u \in DOMAIN tables : tables'[u] = tables[u]
        /\ table \notin DOMAIN tables => tables'[table] = NewTable(op.capped)
    BY <2>1 DEF With
  <2>5. Under(Left(marks, op), marks) /\ Under(marks, Left(marks', op')) /\ table \in Left(marks', op').orphaned
    <3>1. Under(Left(marks, op), marks)
      BY <2>1, LeftAlone DEF Under
    <3>2. Under(marks, Left(marks', op'))
      BY <2>1, LeftFacts
    <3>3. table \in Left(marks', op').orphaned
      BY <2>3 DEF Left, When
    <3> QED BY <3>1, <3>2, <3>3
  <2>6. Under(Left(marks, op), Left(marks', op'))
    BY <2>5 DEF Under
  <2>7. Wholes(rows', tables', Left(marks', op')) /\ Wholes(colls', tables', Left(marks', op'))
    BY <1>4, <1>5, <2>1, <2>4, <2>6, WholesGrow
  <2>8. Owned(tables', rows', Left(marks', op'))
    BY <1>5, <2>1, <2>4, <2>5, <2>6 DEF Owned, Under
  <2>9. table \in DOMAIN tables => table \in marks.orphaned
    BY <1>3, <1>5, <2>2, <2>5 DEF Owned, Under
  <2>10. Working'
    BY <2>1, <2>3, <2>4, <2>9 DEF Working
  <2> QED BY <2>1, <2>7, <2>8, <2>10 DEF WholeInv
<1>7. CASE InsertRow
  <2> DEFINE number == counted.born + 1
             row == [table |-> op.table, settings |-> Blank, born |-> number]
             new == [table |-> op.table, settings |-> NewSettings(op.capped), born |-> number]
             L == Left(marks', op')
  <2>1. /\ op.at = "row" /\ op.name \notin DOMAIN rows
        /\ rows' = With(rows, op.name, row) /\ colls' = With(colls, op.name, new)
        /\ op' = [op EXCEPT !.at = "index", !.creating = TRUE, !.settings = NewSettings(op.capped)]
        /\ UNCHANGED <<file, tables, up, open, marks>>
    BY <1>7 DEF InsertRow
  <2>2. /\ op.name \notin DOMAIN colls /\ \A n \in DOMAIN colls : colls[n].table # op.table
    BY <2>1 DEF RegistryInv, Control
  <2>3. /\ op'.at = "index" /\ op'.creating = TRUE /\ op'.settings = NewSettings(op.capped) /\ op'.name = op.name
        /\ op'.table = op.table /\ op'.made = op.made
    BY <2>1 DEF RegistryInv, Commanded
  <2>4. UnderBut(Left(marks, op), marks, op.table) /\ Under(marks, L) /\ op.table \in L.halfMade
    <3>1. UnderBut(Left(marks, op), marks, op.table) /\ Under(marks, L)
      <4>1. UnderBut(Left(marks, op), marks, op.table) /\ Under(marks', Left(marks', op'))
        BY LeftFacts
      <4> QED BY <2>1, <4>1
    <3>2. op.table \in L.halfMade
      BY <2>3 DEF Left, When
    <3> QED BY <3>1, <3>2
  <2>5. UnderBut(Left(marks, op), L, op.table)
    BY <2>4 DEF UnderBut, Under
  <2>6. /\ \A n \in DOMAIN rows : rows[n].table # op.table
    BY <1>3, <2>2
  <2> HIDE DEF L
  <2>7. /\ \A b : Whole(Blank, op.table, b, tables, L)
        /\ \A b : Whole(NewSettings(op.capped), op.table, b, tables, L)
        /\ Indexed(NewSettings(op.capped), op.table, tables, marks)
        /\ NewSettings(op.capped).uuid /\ NewSettings(op.capped).current /\ NewSettings(op.capped).capped = op.capped
        /\ DOMAIN NewSettings(op.capped).indexes = {}
        /\ tables[op.table].recordIds = op.capped \/ op.table \in marks.orphaned
    <3>1. op.table \in marks.orphaned \/ (tables[op.table].docs = {} /\ DOMAIN tables[op.table].indexes = {} /\ tables[op.table].recordIds = op.capped)
      BY <2>1 DEF WholeInv, Working, NewTable, Empty
    <3>2. /\ DOMAIN Blank.indexes = {} /\ DOMAIN NewSettings(op.capped).indexes = {}
          /\ NewSettings(op.capped).uuid /\ NewSettings(op.capped).current /\ NewSettings(op.capped).capped = op.capped
      BY DEF Blank, NewSettings, Empty
    <3>3. op.table \in marks.orphaned => op.table \in L.orphaned
      BY <2>4 DEF Under
    <3> QED BY <2>4, <3>1, <3>2, <3>3 DEF Whole, Defined, Indexed
  <2>8. /\ row.settings = Blank /\ row.table = op.table /\ row.born = number
        /\ new.settings = NewSettings(op.capped) /\ new.table = op.table /\ new.born = number
    OBVIOUS
  <2> HIDE DEF row, new, number
  <2>9. /\ DOMAIN rows' = DOMAIN rows \cup {op.name} /\ DOMAIN colls' = DOMAIN colls \cup {op.name}
        /\ (\A n \in DOMAIN rows : rows'[n] = rows[n]) /\ (\A n \in DOMAIN colls : colls'[n] = colls[n])
        /\ rows'[op.name] = row /\ colls'[op.name] = new
    BY <2>1, <2>2 DEF With
  <2>10. Wholes(rows, tables', L) /\ Wholes(colls, tables', L)
    BY <1>5, <2>1, <2>2, <2>5, <2>6, WholesBut
  <2>11. Wholes(rows', tables', L) /\ Wholes(colls', tables', L)
    BY <2>1, <2>7, <2>8, <2>9, <2>10 DEF Wholes
  <2>12. Owned(tables', rows', L)
    <3>1. rows'[op.name].table = op.table
      BY <2>8, <2>9
    <3>2. \A t \in DOMAIN tables : t # op.table => t \in L.orphaned \/ \E n \in DOMAIN rows : rows[n].table = t
      BY <1>5, <2>5 DEF Owned, UnderBut
    <3> QED BY <2>1, <2>9, <3>1, <3>2 DEF Owned
  <2>13. Working'
    <3>1. colls'[op.name].settings = NewSettings(op.capped)
      BY <2>8, <2>9
    <3>2. op'.settings.uuid = colls'[op'.name].settings.uuid /\ op'.settings.capped = colls'[op'.name].settings.capped
      BY <2>3, <3>1
    <3>3. op'.made \cap DOMAIN colls'[op'.name].settings.indexes = {}
      BY <2>3, <2>7, <3>1
    <3>4. op'.made = {}
      BY <2>1, <2>3 DEF WholeInv, Working
    <3> QED BY <2>1, <2>3, <2>7, <3>2, <3>3, <3>4 DEF Working
  <2>14. Current(colls')
    BY <1>2, <2>7, <2>8, <2>9 DEF WholeInv, Current
  <2> QED BY <2>11, <2>12, <2>13, <2>14 DEF WholeInv, L
<1>8. CASE RowFails
  <2> DEFINE L == Left(marks', op')
  <2>1. /\ op.at = "row" /\ op' = Idle /\ op'.at = "idle"
        /\ \/ tables' = Without(tables, op.table) /\ marks' = Forget(op.table)
           \/ marks' = Left(marks, op) /\ UNCHANGED tables
        /\ UNCHANGED <<file, rows, up, open, colls>>
    BY <1>8, InterruptedIsLeft, IdleFacts DEF RowFails, DropsTable
  <2>2. /\ \A n \in DOMAIN colls : colls[n].table # op.table
        /\ \A n \in DOMAIN rows : rows[n].table # op.table
    BY <1>3, <2>1 DEF RegistryInv, Control
  <2>3. UnderBut(Left(marks, op), L, op.table)
    <3>1. UnderBut(Left(marks, op), marks', op.table)
      <4>1. CASE marks' = Forget(op.table)
        <5>1. /\ marks'.orphaned = marks.orphaned \ {op.table} /\ marks'.halfMade = marks.halfMade \ {op.table}
              /\ marks'.leftover = marks.leftover \ {op.table} /\ marks'.unindexed = marks.unindexed \ {op.table}
          BY <4>1 DEF Forget, RegistryInv, Shapes
        <5>2. UnderBut(Left(marks, op), marks, op.table)
          BY LeftFacts
        <5> QED BY <5>1, <5>2 DEF UnderBut
      <4>2. CASE marks' = Left(marks, op)
        BY <4>2 DEF UnderBut
      <4> QED BY <2>1, <4>1, <4>2
    <3>2. Under(marks', L)
      BY LeftFacts
    <3> QED BY <3>1, <3>2 DEF UnderBut, Under
  <2>4. /\ DOMAIN tables' = DOMAIN tables \ {op.table} \/ tables' = tables
        /\ \A u \in DOMAIN tables : u # op.table => tables'[u] = tables[u]
    BY <2>1 DEF Without
  <2>5. Owned(tables', rows', L)
    <3>1. CASE DOMAIN tables' = DOMAIN tables \ {op.table}
      BY <1>5, <2>1, <2>3, <3>1 DEF Owned, UnderBut
    <3>2. CASE tables' = tables /\ marks' = Left(marks, op)
      <4>1. Under(marks', L)
        BY LeftFacts
      <4> QED BY <1>5, <2>1, <3>2, <4>1 DEF Owned, Under
    <3> QED BY <2>1, <3>1, <3>2 DEF Without
  <2> HIDE DEF L
  <2>6. Wholes(rows', tables', L) /\ Wholes(colls', tables', L)
    BY <1>4, <1>5, <2>1, <2>2, <2>3, <2>4, WholesBut
  <2> QED BY <2>1, <2>5, <2>6, QuietWorking DEF WholeInv, L
<1> QED BY <1>6, <1>7, <1>8

(* Giving a table the indexes it has changes nothing.                      *)
LEMMA IndexesSame ==
    ASSUME NEW T, TableShapes(T), NEW t \in DOMAIN T, NEW v, v = T[t].indexes
    PROVE  [T EXCEPT ![t].indexes = v] = T
<1> DEFINE U == [T EXCEPT ![t].indexes = v]
<1>1. DOMAIN U = DOMAIN T /\ (\A u \in DOMAIN T : u # t => U[u] = T[u]) /\ U[t] = [T[t] EXCEPT !.indexes = v]
      /\ U = [u \in DOMAIN U |-> U[u]]
  OBVIOUS
<1>2. [T[t] EXCEPT !.indexes = v] = [docs |-> T[t].docs, indexes |-> v, recordIds |-> T[t].recordIds]
  BY RecordEdits, Zenon DEF TableShapes
<1>3. T = [u \in DOMAIN T |-> T[u]] /\ T[t] = [docs |-> T[t].docs, indexes |-> T[t].indexes, recordIds |-> T[t].recordIds]
  BY DEF TableShapes
<1> HIDE DEF U
<1>4. U[t] = T[t]
  BY <1>1, <1>2, <1>3
<1>5. \A u \in DOMAIN T : U[u] = T[u]
  BY <1>1, <1>4
<1>6. U = T
  BY <1>1, <1>3, <1>5
<1> QED BY <1>6 DEF U

(* The collection of the command is the only one with its table.           *)
LEMMA WorkingTable ==
    ASSUME RegistryInv, op.at \in {"index", "deleteRow", "dropTable", "unindex"}
    PROVE  /\ op.name \in DOMAIN colls /\ op.table = colls[op.name].table /\ op.table \in DOMAIN tables
           /\ up = "up" /\ open /\ Attached
           /\ \A n \in DOMAIN colls : colls[n].table = op.table => n = op.name
           /\ \A n \in DOMAIN rows : rows[n].table = op.table => n = op.name /\ rows[n].born = colls[op.name].born
           /\ \A n \in DOMAIN rows : rows[n].table \in DOMAIN tables
           /\ \A n \in DOMAIN colls : colls[n].table \in DOMAIN tables
<1>1. op.name \in DOMAIN colls /\ op.table = colls[op.name].table /\ up = "up" /\ open /\ Attached
  BY IdleFacts DEF RegistryInv, Control, Attached
<1>2. Collections(rows, DOMAIN tables, counted.born) /\ Collections(colls, DOMAIN tables, counted.born)
  BY DEF RegistryInv, Named
<1>3. \A n \in DOMAIN rows : n \in DOMAIN colls /\ colls[n].table = rows[n].table /\ colls[n].born = rows[n].born
  BY <1>1 DEF RegistryInv, Agreed
<1>4. \A n \in DOMAIN colls : colls[n].table = op.table => n = op.name
  BY <1>1, <1>2 DEF Collections
<1>5. \A n \in DOMAIN rows : rows[n].table = op.table => n = op.name /\ rows[n].born = colls[op.name].born
  BY <1>3, <1>4
<1>6. /\ \A n \in DOMAIN rows : rows[n].table \in DOMAIN tables
      /\ \A n \in DOMAIN colls : colls[n].table \in DOMAIN tables
  BY <1>2 DEF Collections, Collection
<1> QED BY <1>1, <1>4, <1>5, <1>6

LEMMA IndexWhole ==
    ASSUME RegistryInv, StaysInv, WholeInv, CreateIndex \/ WriteSettings \/ IndexFails
    PROVE  WholeInv'
<1> DEFINE t == op.table
           c == colls[op.name]
           M == Left(marks, op)
           L == Left(marks', op')
<1>1. op.at = "index"
  BY DEF CreateIndex, WriteSettings, IndexFails
<1>2. /\ op.name \in DOMAIN colls /\ t = c.table /\ t \in DOMAIN tables /\ up = "up" /\ open /\ Attached
      /\ \A n \in DOMAIN colls : colls[n].table = t => n = op.name
      /\ \A n \in DOMAIN rows : rows[n].table = t => n = op.name /\ rows[n].born = c.born
      /\ \A n \in DOMAIN rows : rows[n].table \in DOMAIN tables
      /\ \A n \in DOMAIN colls : colls[n].table \in DOMAIN tables
  BY <1>1, WorkingTable
<1>3. /\ Collections(rows, DOMAIN tables, counted.born) /\ Collections(colls, DOMAIN tables, counted.born)
      /\ TableShapes(tables) /\ Settings(op.settings)
  BY DEF RegistryInv, Named, Shapes, Commanded
<1>4. /\ op.settings.uuid = c.settings.uuid /\ op.settings.capped = c.settings.capped /\ op.settings.current
      /\ Indexed(op.settings, t, tables, marks) /\ op.made \cap DOMAIN c.settings.indexes = {}
      /\ DOMAIN c.settings.indexes \subseteq DOMAIN op.settings.indexes
  BY <1>1 DEF WholeInv, Working, StaysInv, Storing, Same
<1>5. op.creating => /\ op.settings.uuid
                     /\ op.settings.capped = tables[t].recordIds \/ t \in marks.orphaned
                     /\ op.made # {} => DefaultIndex \in DOMAIN op.settings.indexes
  BY <1>1 DEF WholeInv, Working
<1>6. /\ Wholes(rows, tables, M) /\ Wholes(colls, tables, M) /\ Owned(tables, rows, M) /\ Current(colls)
      /\ Whole(c.settings, t, c.born, tables, M)
  BY <1>2 DEF WholeInv, Wholes
<1>7. /\ M.orphaned = marks.orphaned /\ M.unindexed = marks.unindexed
      /\ M.halfMade = IF op.creating THEN marks.halfMade \cup {t} ELSE marks.halfMade
  BY <1>1, LeftFacts
<1>8. UnderBut(M, marks, t) /\ Under(marks', L)
  BY LeftFacts
<1>9. CASE CreateIndex
  <2> DEFINE i == NextIndex[1]
             k == NextIndex[2]
             w == With(op.settings.indexes, i, k)
             s == [op.settings EXCEPT !.indexes = w]
             v == With(tables[t].indexes, i, Built(i, k))
  <2>1. UNCHANGED <<file, rows, up, open, colls, marks>> /\ IndexesLeft # <<>>
    BY <1>9 DEF CreateIndex
  <2>2. CASE i \in DOMAIN op.settings.indexes
    <3>1. op' = [op EXCEPT !.list = After] /\ UNCHANGED tables
      BY <1>9, <2>2 DEF CreateIndex
    <3>2. /\ op'.at = "index" /\ op'.creating = op.creating /\ op'.name = op.name /\ op'.table = t
          /\ op'.made = op.made /\ op'.settings = op.settings
      BY <1>1, <3>1 DEF RegistryInv, Commanded
    <3>3. Left(marks', op') = Left(marks, op)
      BY <1>1, <2>1, <3>2 DEF Left
    <3>4. Under(Left(marks, op), Left(marks', op'))
      BY <3>3 DEF Under
    <3>5. Working'
      BY <1>1, <2>1, <3>1, <3>2 DEF WholeInv, Working
    <3> QED BY <2>1, <3>1, <3>4, <3>5, QuietWhole
  <2>3. CASE i \notin DOMAIN op.settings.indexes
    <3>1. /\ tables' = [tables EXCEPT ![t].indexes = v]
          /\ op' = [op EXCEPT !.list = After, !.made = op.made \cup {i}, !.settings = s]
      <4>1. tables' = [tables EXCEPT ![t].indexes = With(@, i, Built(i, k))]
        BY <1>9, <2>3 DEF CreateIndex
      <4>2. op' = [op EXCEPT !.list = After, !.made = op.made \cup {i}, !.settings = s]
        BY <1>9, <2>3 DEF CreateIndex, RegistryInv, Commanded
      <4>3. tables' = [tables EXCEPT ![t].indexes = v]
        BY <1>2, <4>1
      <4> QED BY <4>2, <4>3
    <3>2. s.indexes = w /\ s.uuid = op.settings.uuid /\ s.capped = op.settings.capped /\ s.current = op.settings.current
      BY <1>3, RecordEdits DEF Settings
    <3>3. /\ DOMAIN w = DOMAIN op.settings.indexes \cup {i} /\ w[i] = k
          /\ \A x \in DOMAIN op.settings.indexes : w[x] = op.settings.indexes[x]
      BY <2>3 DEF With
    <3>4. /\ DOMAIN v = DOMAIN tables[t].indexes \cup {i}
          /\ \A x \in DOMAIN tables[t].indexes : v[x] = tables[t].indexes[x]
          /\ i \notin DOMAIN tables[t].indexes => v[i] = Built(i, k)
      BY DEF With
    <3>5. op.creating => i = DefaultIndex
      BY <2>1 DEF NextIndex, IndexesLeft
    <3> HIDE DEF s, w, v, i, k
    <3>6. /\ op'.at = "index" /\ op'.creating = op.creating /\ op'.name = op.name /\ op'.table = t
          /\ op'.made = op.made \cup {i} /\ op'.settings = s
      BY <1>1, <3>1 DEF RegistryInv, Commanded
    <3>7. /\ DOMAIN tables' = DOMAIN tables /\ \A u \in DOMAIN tables : u # t => tables'[u] = tables[u]
          /\ tables'[t].docs = tables[t].docs /\ tables'[t].recordIds = tables[t].recordIds /\ tables'[t].indexes = v
      <4> HIDE DEF t
      <4>1. tables' = [tables EXCEPT ![t].indexes = v] /\ TableShapes(tables) /\ t \in DOMAIN tables
        BY <1>2, <1>3, <3>1
      <4>2. \A r, U : U = [tables EXCEPT ![t].indexes = r] =>
              /\ DOMAIN U = DOMAIN tables /\ \A u \in DOMAIN tables : u # t => U[u] = tables[u]
              /\ U[t].docs = tables[t].docs /\ U[t].recordIds = tables[t].recordIds /\ U[t].indexes = r
        BY <4>1, IndexesEdited
      <4> QED BY <4>1, <4>2
    <3>8. /\ L.orphaned = M.orphaned /\ L.halfMade = M.halfMade /\ L.unindexed = M.unindexed /\ t \in L.leftover
          /\ UnderBut(M, L, t)
      <4>1. /\ L.orphaned = M.orphaned /\ L.halfMade = M.halfMade /\ L.unindexed = M.unindexed
        BY <1>1, <1>7, <2>1, <3>6 DEF Left, When
      <4>2. L.leftover = marks.leftover \cup {t}
        BY <2>1, <3>6 DEF Left, When
      <4> QED BY <1>8, <4>1, <4>2 DEF UnderBut
    <3> HIDE DEF M, L
    <3>9. ASSUME NEW s0, NEW b, Whole(s0, t, b, tables, M) PROVE Whole(s0, t, b, tables', L)
      BY <3>4, <3>7, <3>8, <3>9 DEF Whole, Defined, Indexed
    <3>10. Wholes(rows', tables', L) /\ Wholes(colls', tables', L)
      <4>1. ASSUME NEW f, Wholes(f, tables, M), \A n \in DOMAIN f : f[n].table \in DOMAIN tables PROVE Wholes(f, tables', L)
        <5>1. \A n \in DOMAIN f : f[n].table # t => tables'[f[n].table] = tables[f[n].table]
          BY <3>7, <4>1
        <5>2. \A n \in DOMAIN f : f[n].table = t => Whole(f[n].settings, t, f[n].born, tables', L)
          BY <3>9, <4>1 DEF Wholes
        <5> HIDE DEF t
        <5> QED BY <3>8, <4>1, <5>1, <5>2, WholesBut
      <4> QED BY <1>2, <1>6, <2>1, <4>1
    <3>11. Owned(tables', rows', L)
      BY <1>6, <2>1, <3>7, <3>8 DEF Owned
    <3>12. Indexed(s, t, tables', marks)
      <4> HIDE DEF t
      <4> QED BY <1>4, <2>3, <3>2, <3>3, <3>4, <3>7 DEF Indexed
    <3>13. Working'
      <4>1. op'.made \cap DOMAIN c.settings.indexes = {}
        BY <1>4, <2>3, <3>6
      <4>2. DefaultIndex \in DOMAIN s.indexes \/ ~op.creating
        BY <3>2, <3>3, <3>5
      <4> QED BY <1>4, <1>5, <2>1, <3>2, <3>6, <3>7, <3>12, <4>1, <4>2 DEF Working
    <3> QED BY <1>6, <2>1, <3>10, <3>11, <3>13 DEF WholeInv, L
  <2> QED BY <2>2, <2>3
<1>10. CASE WriteSettings
  <2> DEFINE s == op.settings
  <2>1. rows' = Set(rows, t, s) /\ UNCHANGED <<file, tables, up, open, marks>> /\ IndexesLeft = <<>>
        /\ op' = IF op.creating THEN Continue(op, s) ELSE Idle
    BY <1>10, StoredIsSet DEF WriteSettings
  <2>2. colls' = Set(colls, t, s)
    <3>1. colls' = [colls EXCEPT ![op.name].settings = s]
      BY <1>10 DEF WriteSettings
    <3> HIDE DEF s
    <3>2. [colls EXCEPT ![op.name].settings = s] = Set(colls, colls[op.name].table, s)
      BY <1>2, <1>3, SetOne
    <3> QED BY <1>2, <3>1, <3>2
  <2>3. /\ op'.at \in {"idle", "write", "index"}
        /\ op'.at = "index" => op'.creating = FALSE /\ op'.name = op.name /\ op'.table = t /\ op'.settings = s /\ op'.made = {}
    <3>1. op.creating => op.goal \in Creations
      BY DEF RegistryInv, Commanded
    <3> HIDE DEF s
    <3> QED BY <2>1, <3>1, IdleFacts DEF Continue, Creations, RegistryInv, Commanded
  <2>4. L.orphaned = marks.orphaned /\ L.halfMade = marks.halfMade /\ L.leftover = marks.leftover /\ L.unindexed = marks.unindexed
    <3>1. CASE op'.at = "index"
      BY <2>1, <2>3, <3>1 DEF Left, When
    <3>2. CASE op'.at \in {"idle", "write"}
      BY <2>1, <3>2, LeftAlone
    <3> QED BY <2>3, <3>1, <3>2
  <2>5. UnderBut(M, L, t)
    BY <1>8, <2>4 DEF UnderBut
  <2>6. op.creating => DefaultIndex \in DOMAIN s.indexes
    BY <1>5, <2>1 DEF IndexesLeft
  <2>7. /\ DOMAIN rows' = DOMAIN rows /\ DOMAIN colls' = DOMAIN colls
        /\ \A n \in DOMAIN rows : rows'[n].table = rows[n].table
        /\ \A n \in DOMAIN colls : colls'[n].settings = IF colls[n].table = t THEN s ELSE colls[n].settings
    BY <1>3, <2>1, <2>2, SetFacts
  <2> HIDE DEF M, L, s
  <2>8. Whole(s, t, c.born, tables, L)
    <3>1. Indexed(s, t, tables, L)
      BY <1>4, <2>4 DEF Indexed, s
    <3>2. Defined(s, t, tables, L)
      BY <1>4, <1>5, <1>6, <1>7, <2>4, <2>6 DEF Whole, Defined, s
    <3> QED BY <1>6, <1>7, <2>4, <3>1, <3>2 DEF Whole
  <2>9. Wholes(Set(rows, t, s), tables, L) /\ Wholes(Set(colls, t, s), tables, L)
    <3>1. \A n \in DOMAIN rows : rows[n].table = t => Whole(s, t, rows[n].born, tables, L)
      BY <1>2, <2>8
    <3>2. \A n \in DOMAIN colls : colls[n].table = t => Whole(s, t, colls[n].born, tables, L)
      BY <1>2, <2>8
    <3> HIDE DEF t, c
    <3> QED BY <1>3, <1>6, <2>5, <3>1, <3>2, WholesSet
  <2>10. Owned(tables', rows', L)
    BY <1>6, <1>7, <2>1, <2>4, <2>7 DEF Owned
  <2>11. Current(colls')
    BY <1>4, <1>6, <2>7 DEF Current, s
  <2>12. Working'
    <3>1. op'.at = "index" => colls'[op'.name].settings = s
      BY <1>2, <2>3, <2>7
    <3> QED BY <1>4, <2>1, <2>3, <3>1 DEF Working, s
  <2> QED BY <2>1, <2>2, <2>9, <2>10, <2>11, <2>12 DEF WholeInv, L
<1>11. CASE IndexFails
  <2> DEFINE v == [i \in DOMAIN tables[t].indexes \ TakenBack |-> tables[t].indexes[i]]
             s == c.settings
  <2>1. /\ marks' = M /\ UNCHANGED <<file, up, open, colls>>
        /\ tables' = [tables EXCEPT ![t].indexes = v]
        /\ rows' \in {rows, Set(rows, t, s)}
        /\ op'.at \in {"idle", "deleteRow"}
    BY <1>2, <1>11, IdleFacts, InterruptedIsLeft, StoredIsSet DEF IndexFails, RegistryInv, Commanded
  <2>2. TakenBack = {}
    BY <1>2, <1>4 DEF TakenBack, Listed
  <2>3. v = tables[t].indexes
    BY <1>2, <1>3, <2>2 DEF TableShapes
  <2> HIDE DEF v, t, c, s
  <2>4. tables' = tables
    BY <1>2, <1>3, <2>1, <2>3, IndexesSame
  <2>5. Under(M, L)
    BY <1>8, <2>1
  <2> HIDE DEF M, L
  <2>6. Wholes(colls', tables', L)
    BY <1>6, <2>1, <2>4, <2>5, WholesGrow
  <2>7. Wholes(rows', tables', L)
    <3>1. Wholes(rows, tables, L)
      BY <1>6, <2>5, WholesGrow
    <3>2. Whole(s, t, c.born, tables, L)
      BY <1>6, <2>5, WholeGrows DEF Under, s
    <3>3. UnderBut(M, L, t)
      BY <2>5 DEF Under, UnderBut
    <3>4. \A n \in DOMAIN rows : rows[n].table = t => Whole(s, t, rows[n].born, tables, L)
      BY <1>2, <3>2
    <3>5. Wholes(Set(rows, t, s), tables, L)
      BY <1>3, <1>6, <3>3, <3>4, WholesSet
    <3> QED BY <2>1, <2>4, <3>1, <3>5
  <2>8. Owned(tables', rows', L)
    <3>1. \A n \in DOMAIN rows : \E m \in DOMAIN rows' : rows'[m].table = rows[n].table
      BY <1>3, <2>1, SetFacts
    <3> QED BY <1>6, <2>4, <2>5, <3>1 DEF Owned, Under
  <2> QED BY <1>6, <2>1, <2>6, <2>7, <2>8, QuietWorking DEF WholeInv, L
<1> QED BY <1>9, <1>10, <1>11

LEMMA DropWhole ==
    ASSUME RegistryInv, WholeInv, DeleteRow \/ DropTable \/ DropFails
    PROVE  WholeInv'
<1> DEFINE t == op.table
           M == Left(marks, op)
           L == Left(marks', op')
<1>1. op.at \in {"deleteRow", "dropTable"}
  BY DEF DeleteRow, DropTable, DropFails
<1>2. /\ op.name \in DOMAIN colls /\ t = colls[op.name].table /\ up = "up" /\ Attached
      /\ \A n \in DOMAIN colls : colls[n].table = t => n = op.name
      /\ \A n \in DOMAIN rows : rows[n].table = t => n = op.name
      /\ \A n \in DOMAIN rows : rows[n].table \in DOMAIN tables
      /\ \A n \in DOMAIN colls : colls[n].table \in DOMAIN tables
  BY <1>1, WorkingTable
<1>3. Wholes(rows, tables, M) /\ Wholes(colls, tables, M) /\ Owned(tables, rows, M) /\ Current(colls)
  BY <1>2 DEF WholeInv
<1>4. UnderBut(M, marks, t) /\ Under(marks', L)
  BY LeftFacts
<1>5. CASE DeleteRow
  <2>1. /\ op.at = "deleteRow" /\ op' = [op EXCEPT !.at = "dropTable"] /\ UNCHANGED <<tables, up, colls, marks>>
        /\ DOMAIN rows' = DOMAIN rows \ {op.name} /\ \A n \in DOMAIN rows' : rows'[n] = rows[n]
    BY <1>5 DEF DeleteRow, RowsAfterDelete, Without
  <2>2. op'.at = "dropTable" /\ op'.table = t
    BY <2>1 DEF RegistryInv, Commanded
  <2>3. /\ M.orphaned = marks.orphaned /\ M.halfMade = marks.halfMade
        /\ M.leftover = marks.leftover /\ M.unindexed = marks.unindexed
    <3>1. op.creating => t \in marks.halfMade
      BY <2>1 DEF RegistryInv, Control
    <3> QED BY <2>1, <3>1 DEF Left, When
  <2>4. L.orphaned = marks.orphaned \cup {t}
    BY <2>1, <2>2 DEF Left, When
  <2>5. Under(M, L) /\ t \in L.orphaned
    BY <1>4, <2>1, <2>3, <2>4 DEF Under
  <2> HIDE DEF M, L
  <2>6. Wholes(rows, tables', L) /\ Wholes(colls', tables', L)
    BY <1>3, <2>1, <2>5, WholesGrow
  <2>7. Wholes(rows', tables', L)
    BY <2>1, <2>6 DEF Wholes
  <2>8. Owned(tables', rows', L)
    <3>1. \A u \in DOMAIN tables : u # t => u \in M.orphaned \/ \E n \in DOMAIN rows' : rows'[n].table = u
      <4>1. op.name \in DOMAIN rows => rows[op.name].table = t
        BY <1>2 DEF RegistryInv, Agreed
      <4> QED BY <1>3, <2>1, <4>1 DEF Owned
    <3> QED BY <2>1, <2>5, <3>1 DEF Owned, Under
  <2> QED BY <1>3, <2>1, <2>2, <2>6, <2>7, <2>8, QuietWorking DEF WholeInv, L
<1>6. CASE DropTable
  <2>1. /\ op.at = "dropTable" /\ op' = Idle /\ op'.at = "idle" /\ UNCHANGED <<rows, up>>
        /\ DOMAIN tables' = DOMAIN tables \ {t} /\ \A u \in DOMAIN tables' : tables'[u] = tables[u]
        /\ marks' = Forget(t)
        /\ DOMAIN colls' = DOMAIN colls \ {op.name} /\ \A n \in DOMAIN colls' : colls'[n] = colls[n]
    BY <1>6, IdleFacts DEF DropTable, TablesAfterDrop, Without
  <2>2. UnderBut(M, L, t)
    <3>1. /\ marks'.orphaned = marks.orphaned \ {t} /\ marks'.halfMade = marks.halfMade \ {t}
          /\ marks'.leftover = marks.leftover \ {t} /\ marks'.unindexed = marks.unindexed \ {t}
      BY <2>1 DEF Forget, RegistryInv, Shapes
    <3> QED BY <1>4, <3>1 DEF UnderBut, Under
  <2>3. (\A n \in DOMAIN rows : rows[n].table # t) /\ (\A n \in DOMAIN colls' : colls[n].table # t)
    <3>1. op.name \notin DOMAIN rows
      BY <2>1 DEF RegistryInv, Control
    <3> QED BY <1>2, <2>1, <3>1
  <2> HIDE DEF M, L
  <2>4. Wholes(colls', tables, M)
    BY <1>3, <2>1 DEF Wholes
  <2>5. ASSUME NEW f, Wholes(f, tables, M), \A n \in DOMAIN f : f[n].table # t /\ f[n].table \in DOMAIN tables
        PROVE  Wholes(f, tables', L)
    <3>1. \A n \in DOMAIN f : f[n].table # t => tables'[f[n].table] = tables[f[n].table]
      BY <2>1, <2>5
    <3>2. \A n \in DOMAIN f : f[n].table # t
      BY <2>5
    <3> HIDE DEF t
    <3> QED BY <2>2, <2>5, <3>1, <3>2, WholesBut
  <2>6. Wholes(rows', tables', L)
    BY <1>2, <1>3, <2>1, <2>3, <2>5
  <2>7. Wholes(colls', tables', L)
    BY <1>2, <2>1, <2>3, <2>4, <2>5
  <2>8. Owned(tables', rows', L)
    BY <1>3, <2>1, <2>2 DEF Owned, UnderBut
  <2>9. Current(colls')
    BY <1>3, <2>1 DEF Current
  <2> QED BY <2>1, <2>6, <2>7, <2>8, <2>9, QuietWorking DEF WholeInv, L
<1>7. CASE DropFails
  <2>1. marks' = Left(marks, op) /\ op'.at = "idle" /\ UNCHANGED <<rows, tables, up, colls>>
    BY <1>7, InterruptedIsLeft, IdleFacts DEF DropFails
  <2>2. Under(Left(marks, op), Left(marks', op'))
    BY <1>4, <2>1, SMTT(30)
  <2> QED BY <2>1, <2>2, QuietWorking, QuietWhole
<1> QED BY <1>5, <1>6, <1>7

LEMMA UnindexWhole ==
    ASSUME RegistryInv, WholeInv, DropIndex \/ UnlistIndexes \/ UnindexFails
    PROVE  WholeInv'
<1> DEFINE t == op.table
           c == colls[op.name]
           M == Left(marks, op)
           L == Left(marks', op')
<1>1. op.at = "unindex"
  BY DEF DropIndex, UnlistIndexes, UnindexFails
<1>2. /\ op.name \in DOMAIN colls /\ t = c.table /\ t \in DOMAIN tables /\ up = "up"
      /\ \A n \in DOMAIN colls : colls[n].table = t => n = op.name
      /\ \A n \in DOMAIN rows : rows[n].table = t => n = op.name /\ rows[n].born = c.born
      /\ \A n \in DOMAIN rows : rows[n].table \in DOMAIN tables
      /\ \A n \in DOMAIN colls : colls[n].table \in DOMAIN tables
  BY <1>1, WorkingTable
<1>3. /\ Collections(rows, DOMAIN tables, counted.born) /\ Collections(colls, DOMAIN tables, counted.born)
      /\ TableShapes(tables) /\ Settings(op.settings) /\ op.creating = FALSE
  BY <1>1 DEF RegistryInv, Named, Shapes, Commanded
<1>4. /\ op.settings.uuid = c.settings.uuid /\ op.settings.capped = c.settings.capped /\ op.settings.current
      /\ Indexed(op.settings, t, tables, marks) /\ DefaultIndex \notin op.asked
      /\ DefaultIndex \in DOMAIN c.settings.indexes => DefaultIndex \in DOMAIN op.settings.indexes
  BY <1>1 DEF WholeInv, Working
<1>5. /\ Wholes(rows, tables, M) /\ Wholes(colls, tables, M) /\ Owned(tables, rows, M) /\ Current(colls)
      /\ Whole(c.settings, t, c.born, tables, M)
  BY <1>2 DEF WholeInv, Wholes
<1>6. M.orphaned = marks.orphaned /\ M.halfMade = marks.halfMade /\ M.leftover = marks.leftover
  BY <1>1 DEF Left, When
<1>7. UnderBut(M, marks, t) /\ Under(marks', L)
  BY LeftFacts
<1>8. ASSUME NEW i \in op.asked, i \in DOMAIN tables[t].indexes,
             tables' = [tables EXCEPT ![t].indexes = Without(@, i)],
             op' = [op EXCEPT !.asked = @ \ {i}, !.made = @ \cup {i}, !.settings.indexes = Without(@, i)],
             UNCHANGED <<file, rows, up, open, colls, marks>>
      PROVE  WholeInv'
  <2> DEFINE w == Without(op.settings.indexes, i)
             s == [op.settings EXCEPT !.indexes = w]
             v == Without(tables[t].indexes, i)
  <2>1. /\ tables' = [tables EXCEPT ![t].indexes = v]
        /\ op' = [op EXCEPT !.asked = op.asked \ {i}, !.made = op.made \cup {i}, !.settings = s]
    <3>1. op' = [op EXCEPT !.asked = op.asked \ {i}, !.made = op.made \cup {i}, !.settings = s]
      BY <1>8 DEF RegistryInv, Commanded
    <3>2. tables' = [tables EXCEPT ![t].indexes = v]
      BY <1>2, <1>8
    <3> QED BY <3>1, <3>2
  <2>2. s.indexes = w /\ s.uuid = op.settings.uuid /\ s.capped = op.settings.capped /\ s.current = op.settings.current
    BY <1>3, RecordEdits DEF Settings
  <2>3. /\ DOMAIN w = DOMAIN op.settings.indexes \ {i}
        /\ \A x \in DOMAIN w : w[x] = op.settings.indexes[x]
        /\ DOMAIN v = DOMAIN tables[t].indexes \ {i}
        /\ \A x \in DOMAIN v : v[x] = tables[t].indexes[x]
    BY DEF Without
  <2> HIDE DEF s, w, v
  <2>4. /\ op'.at = "unindex" /\ op'.creating = FALSE /\ op'.name = op.name /\ op'.table = t
        /\ op'.made = op.made \cup {i} /\ op'.settings = s /\ op'.asked = op.asked \ {i}
    BY <1>1, <1>3, <2>1 DEF RegistryInv, Commanded
  <2>5. /\ DOMAIN tables' = DOMAIN tables /\ \A u \in DOMAIN tables : u # t => tables'[u] = tables[u]
        /\ tables'[t].docs = tables[t].docs /\ tables'[t].recordIds = tables[t].recordIds /\ tables'[t].indexes = v
    <3> HIDE DEF t
    <3>1. tables' = [tables EXCEPT ![t].indexes = v] /\ TableShapes(tables) /\ t \in DOMAIN tables
      BY <1>2, <1>3, <2>1
    <3>2. \A r, U : U = [tables EXCEPT ![t].indexes = r] =>
            /\ DOMAIN U = DOMAIN tables /\ \A u \in DOMAIN tables : u # t => U[u] = tables[u]
            /\ U[t].docs = tables[t].docs /\ U[t].recordIds = tables[t].recordIds /\ U[t].indexes = r
      BY <3>1, IndexesEdited
    <3> QED BY <3>1, <3>2
  <2>6. /\ L.orphaned = M.orphaned /\ L.halfMade = M.halfMade /\ L.leftover = M.leftover /\ t \in L.unindexed
        /\ UnderBut(M, L, t)
    <3>1. L.orphaned = marks.orphaned /\ L.halfMade = marks.halfMade /\ L.leftover = marks.leftover
          /\ L.unindexed = marks.unindexed \cup {t}
      BY <1>8, <2>4 DEF Left, When
    <3> QED BY <1>6, <1>7, <3>1 DEF UnderBut
  <2> HIDE DEF M, L
  <2>7. ASSUME NEW s0, NEW b, Whole(s0, t, b, tables, M) PROVE Whole(s0, t, b, tables', L)
    <3> HIDE DEF t
    <3> QED BY <1>4, <2>3, <2>5, <2>6, <2>7 DEF Whole, Defined, Indexed
  <2>8. ASSUME NEW f, Wholes(f, tables, M), \A n \in DOMAIN f : f[n].table \in DOMAIN tables PROVE Wholes(f, tables', L)
    <3>1. \A n \in DOMAIN f : f[n].table # t => tables'[f[n].table] = tables[f[n].table]
      BY <2>5, <2>8
    <3>2. \A n \in DOMAIN f : f[n].table = t => Whole(f[n].settings, t, f[n].born, tables', L)
      BY <2>7, <2>8 DEF Wholes
    <3> HIDE DEF t
    <3> QED BY <2>6, <2>8, <3>1, <3>2, WholesBut
  <2>9. Wholes(rows', tables', L) /\ Wholes(colls', tables', L)
    BY <1>2, <1>5, <1>8, <2>8
  <2>10. Owned(tables', rows', L)
    BY <1>5, <1>8, <2>5, <2>6 DEF Owned
  <2>11. Indexed(s, t, tables', marks)
    <3> HIDE DEF t
    <3> QED BY <1>4, <2>2, <2>3, <2>5 DEF Indexed
  <2>12. Working'
    BY <1>4, <1>8, <2>2, <2>3, <2>4, <2>11 DEF Working
  <2> QED BY <1>5, <1>8, <2>9, <2>10, <2>12 DEF WholeInv, L
<1>9. CASE UnlistIndexes
  <2> DEFINE s == op.settings
  <2>1. rows' = Set(rows, t, s) /\ UNCHANGED <<file, tables, up, open, marks>> /\ op' = Idle /\ op'.at = "idle"
    BY <1>9, StoredIsSet, IdleFacts DEF UnlistIndexes
  <2>2. colls' = Set(colls, t, s)
    <3>1. colls' = [colls EXCEPT ![op.name].settings = s]
      BY <1>9 DEF UnlistIndexes
    <3> HIDE DEF s
    <3>2. [colls EXCEPT ![op.name].settings = s] = Set(colls, colls[op.name].table, s)
      BY <1>2, <1>3, SetOne
    <3> QED BY <1>2, <3>1, <3>2
  <2>3. L.orphaned = marks.orphaned /\ L.halfMade = marks.halfMade /\ L.leftover = marks.leftover /\ L.unindexed = marks.unindexed
    BY <2>1, LeftAlone
  <2>4. UnderBut(M, L, t)
    BY <1>7, <2>3 DEF UnderBut
  <2>5. /\ DOMAIN rows' = DOMAIN rows /\ DOMAIN colls' = DOMAIN colls
        /\ \A n \in DOMAIN rows : rows'[n].table = rows[n].table
        /\ \A n \in DOMAIN colls : colls'[n].settings = IF colls[n].table = t THEN s ELSE colls[n].settings
    BY <1>3, <2>1, <2>2, SetFacts
  <2> HIDE DEF M, L, s
  <2>6. Whole(s, t, c.born, tables, L)
    <3>1. Indexed(s, t, tables, L)
      BY <1>4, <2>3 DEF Indexed, s
    <3>2. Defined(s, t, tables, L)
      BY <1>4, <1>5, <1>6, <2>3 DEF Whole, Defined, s
    <3> QED BY <1>5, <1>6, <2>3, <3>1, <3>2 DEF Whole
  <2>7. Wholes(Set(rows, t, s), tables, L) /\ Wholes(Set(colls, t, s), tables, L)
    <3>1. \A n \in DOMAIN rows : rows[n].table = t => Whole(s, t, rows[n].born, tables, L)
      BY <1>2, <2>6
    <3>2. \A n \in DOMAIN colls : colls[n].table = t => Whole(s, t, colls[n].born, tables, L)
      BY <1>2, <2>6
    <3> HIDE DEF t, c
    <3> QED BY <1>3, <1>5, <2>4, <3>1, <3>2, WholesSet
  <2>8. Owned(tables', rows', L)
    BY <1>5, <1>6, <2>1, <2>3, <2>5 DEF Owned
  <2>9. Current(colls')
    BY <1>4, <1>5, <2>5 DEF Current, s
  <2> QED BY <2>1, <2>2, <2>7, <2>8, <2>9, QuietWorking DEF WholeInv, L
<1>10. CASE UnindexFails
  <2>1. marks' = Left(marks, op) /\ op'.at = "idle" /\ UNCHANGED <<rows, tables, up, colls>>
    BY <1>10, InterruptedIsLeft, IdleFacts DEF UnindexFails
  <2>2. Under(Left(marks, op), Left(marks', op'))
    BY <1>7, <2>1
  <2> QED BY <2>1, <2>2, QuietWorking, QuietWhole
<1> QED BY <1>8, <1>9, <1>10 DEF DropIndex

LEMMA WriteWhole ==
    ASSUME RegistryInv, WholeInv, Write \/ WriteFails
    PROVE  WholeInv'
<1> DEFINE c == colls[op.name]
           t == c.table
           M == Left(marks, op)
           L == Left(marks', op')
<1>1. op.at = "write" /\ op' = Idle /\ op'.at = "idle" /\ UNCHANGED <<rows, up, colls, marks>>
  BY IdleFacts DEF Write, WriteFails
<1>2. /\ Under(M, L) /\ M.orphaned = L.orphaned
  BY <1>1, LeftAlone DEF Under
<1>3. CASE WriteFails
  BY <1>1, <1>2, <1>3, QuietWorking, QuietWhole DEF WriteFails
<1>4. CASE Write
  <2>1. /\ op.name \in DOMAIN colls /\ Attached
        /\ Collections(rows, DOMAIN tables, counted.born) /\ Collections(colls, DOMAIN tables, counted.born)
        /\ TableShapes(tables)
    BY <1>1, IdleFacts DEF RegistryInv, Control, Named, Shapes, Attached
  <2>2. t \in DOMAIN tables
    BY <2>1 DEF Collections, Collection
  <2>3. /\ DOMAIN tables' = DOMAIN tables /\ \A u \in DOMAIN tables : u # t => tables'[u] = tables[u]
        /\ tables'[t].docs = tables[t].docs \cup {c.born}
        /\ tables'[t].recordIds = tables[t].recordIds /\ tables'[t].indexes = tables[t].indexes
    <3> DEFINE v == tables[t].docs \cup {c.born}
    <3>1. tables' = [tables EXCEPT ![t].docs = v]
      BY <1>4, <2>2 DEF Write
    <3> HIDE DEF v, t
    <3>2. /\ DOMAIN tables' = DOMAIN tables /\ (\A u \in DOMAIN tables : u # t => tables'[u] = tables[u])
          /\ tables'[t] = [tables[t] EXCEPT !.docs = v]
      BY <2>2, <3>1
    <3>3. tables[t] = [docs |-> tables[t].docs, indexes |-> tables[t].indexes, recordIds |-> tables[t].recordIds]
      BY <2>1, <2>2 DEF TableShapes
    <3>4. tables'[t].docs = v /\ tables'[t].recordIds = tables[t].recordIds /\ tables'[t].indexes = tables[t].indexes
      BY <3>2, <3>3
    <3> QED BY <3>2, <3>4 DEF v
  <2>4. /\ \A n \in DOMAIN colls : colls[n].table = t => colls[n].born = c.born
        /\ \A n \in DOMAIN rows : rows[n].table = t => rows[n].born = c.born
    <3>1. \A n \in DOMAIN rows : n \in DOMAIN colls /\ colls[n].table = rows[n].table /\ colls[n].born = rows[n].born
      BY <2>1 DEF RegistryInv, Agreed
    <3>2. \A n \in DOMAIN colls : colls[n].table = t => colls[n].born = c.born
      BY <2>1 DEF Collections
    <3> QED BY <3>1, <3>2
  <2> HIDE DEF M, L
  <2>5. ASSUME NEW s, Whole(s, t, c.born, tables, M) PROVE Whole(s, t, c.born, tables', L)
    <3> HIDE DEF t
    <3> QED BY <1>2, <2>3, <2>5 DEF Whole, Defined, Indexed, Under
  <2>6. ASSUME NEW f, Wholes(f, tables, M), \A n \in DOMAIN f : f[n].table \in DOMAIN tables,
               \A n \in DOMAIN f : f[n].table = t => f[n].born = c.born
        PROVE  Wholes(f, tables', L)
    <3>1. \A n \in DOMAIN f : f[n].table # t => tables'[f[n].table] = tables[f[n].table]
      BY <2>3, <2>6
    <3>2. \A n \in DOMAIN f : f[n].table = t => Whole(f[n].settings, t, f[n].born, tables', L)
      BY <2>5, <2>6 DEF Wholes
    <3>3. UnderBut(M, L, t)
      BY <1>2 DEF Under, UnderBut
    <3> HIDE DEF t
    <3> QED BY <2>6, <3>1, <3>2, <3>3, WholesBut
  <2>7. /\ \A n \in DOMAIN rows : rows[n].table \in DOMAIN tables
        /\ \A n \in DOMAIN colls : colls[n].table \in DOMAIN tables
    BY <2>1 DEF Collections, Collection
  <2>8. Wholes(rows', tables', L) /\ Wholes(colls', tables', L)
    BY <1>1, <2>4, <2>6, <2>7 DEF WholeInv, M
  <2>9. Owned(tables', rows', L)
    BY <1>1, <1>2, <2>3 DEF WholeInv, Owned, M
  <2> QED BY <1>1, <2>8, <2>9, QuietWorking DEF WholeInv, L
<1> QED BY <1>3, <1>4

LEMMA WholeStep == RegistryInv /\ StaysInv /\ WholeInv /\ [RegistryNext]_registryVars => WholeInv'
<1> SUFFICES ASSUME RegistryInv, StaysInv, WholeInv, [RegistryNext]_registryVars PROVE WholeInv'
  OBVIOUS
<1>1. CASE UNCHANGED registryVars
  BY <1>1 DEF registryVars, WholeInv, Working
<1>2. CASE Command
  BY <1>2, BeginWhole, RenameWhole, OpenWhole DEF Command
<1>3. CASE Statement
  BY <1>3, OpenWhole, TableWhole, IndexWhole, DropWhole, UnindexWhole, WriteWhole DEF Statement
<1> QED BY <1>1, <1>2, <1>3, ProcessWhole DEF RegistryNext

(* What a client finds under a name is that collection, and all of it:     *)
(* its identity, its record ids, its indexes and no documents of another,  *)
(* but for what an interrupted command has marked.                         *)
THEOREM CollectionsStayWhole == RegistrySpec => []CollectionsAreWhole
<1>1. RegistryInv /\ WholeInv => CollectionsAreWhole
  <2> SUFFICES ASSUME RegistryInv, WholeInv PROVE CollectionsAreWhole
    OBVIOUS
  <2>1. ASSUME Serving, NEW n \in DOMAIN colls
        PROVE  Whole(colls[n].settings, colls[n].table, colls[n].born, tables, marks) /\ colls[n].settings.current
    <3>1. Whole(colls[n].settings, colls[n].table, colls[n].born, tables, Left(marks, op))
      BY <2>1 DEF WholeInv, Wholes
    <3>2. op.at = "idle"
      BY <2>1, IdleFacts DEF Serving
    <3>3. Whole(colls[n].settings, colls[n].table, colls[n].born, tables, marks)
      BY <3>1, <3>2, LeftAlone, WholeGrows
    <3> QED BY <2>1, <3>3 DEF WholeInv, Current, Serving
  <2>2. DefinitionsAreWhole
    <3> SUFFICES ASSUME Serving, NEW n \in DOMAIN colls
                 PROVE  LET c == colls[n]
                            t == tables[c.table]
                        IN /\ \/ c.table \in marks.halfMade
                              \/ /\ c.settings.uuid
                                 /\ DefaultIndex \in DOMAIN c.settings.indexes
                                 /\ c.settings.capped = t.recordIds \/ c.table \in marks.orphaned
                           /\ \/ c.table \in marks.unindexed
                              \/ DOMAIN c.settings.indexes \subseteq DOMAIN t.indexes
                           /\ \/ c.table \in marks.orphaned \cup marks.leftover \cup marks.unindexed
                              \/ t.indexes = [i \in DOMAIN c.settings.indexes |-> Built(i, c.settings.indexes[i])]
      BY DEF DefinitionsAreWhole
    <3> DEFINE c == colls[n]
               t == tables[c.table]
    <3>1. Defined(c.settings, c.table, tables, marks) /\ Indexed(c.settings, c.table, tables, marks) /\ c.settings.current
      BY <2>1 DEF Whole
    <3>2. t.indexes = [i \in DOMAIN t.indexes |-> t.indexes[i]]
      <4>1. c.table \in DOMAIN tables
        BY DEF RegistryInv, Named, Collections, Collection
      <4> QED BY <4>1 DEF RegistryInv, Shapes, TableShapes
    <3> HIDE DEF c
    <3>3. CASE c.table \notin marks.orphaned \cup marks.leftover \cup marks.unindexed
      <4>1. DOMAIN t.indexes = DOMAIN c.settings.indexes
        BY <3>1, <3>3 DEF Indexed
      <4>2. \A i \in DOMAIN t.indexes : t.indexes[i] = Built(i, c.settings.indexes[i])
        BY <3>1, <3>3 DEF Indexed
      <4> HIDE DEF t
      <4>3. t.indexes = [i \in DOMAIN c.settings.indexes |-> Built(i, c.settings.indexes[i])]
        BY <3>2, <4>1, <4>2
      <4> QED BY <3>1, <4>3 DEF Defined, Indexed, t, c
    <3>4. CASE c.table \in marks.orphaned \cup marks.leftover \cup marks.unindexed
      BY <3>1, <3>4 DEF Defined, Indexed, c
    <3> QED BY <3>3, <3>4
  <2>3. NoForeignDocuments
    BY <2>1 DEF NoForeignDocuments, Whole
  <2> QED BY <2>2, <2>3 DEF CollectionsAreWhole
<1> QED BY <1>1, RegistryStarts, RegistryStep, StaysStarts, StaysStep, WholeStarts, WholeStep, RegistryAssumption, PTL DEF RegistrySpec
=============================================================================
