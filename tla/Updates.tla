------------------------------ MODULE Updates ------------------------------
(***************************************************************************)
(* The update operators: what each makes of the fields of a document, and  *)
(* whether it reports that the document has changed, on which it depends   *)
(* that the document is written.                                           *)
(*                                                                         *)
(* An update is the sequence of its operators, each on a key of its own,   *)
(* sorted by the keys.  $currentDate, $bit and the $sort of $push are left *)
(* out, and the keys of the operators are not dotted.                      *)
(***************************************************************************)
EXTENDS Documents

Number(n) == Scalar("number", n)
EmptyArray == Array(<<>>)

Put(fields, key, value) == [k \in DOMAIN fields \union {key} |-> IF k = key THEN value ELSE fields[k]]
Drop(fields, key) == [k \in DOMAIN fields \ {key} |-> fields[k]]

Changed(fields) == [fields |-> fields, changed |-> TRUE, error |-> FALSE]
Kept(fields) == [fields |-> fields, changed |-> FALSE, error |-> FALSE]
Refused(fields) == [fields |-> fields, changed |-> FALSE, error |-> TRUE]

\* SetByPath, which makes the documents that are missing on the way.
FieldsAt(fields, key) == IF key \in DOMAIN fields THEN fields[key].fields ELSE <<>>

SetByPath(fields, path, value) ==
  LET inner[n \in 1 .. Len(path)] == IF n = 1 THEN fields ELSE FieldsAt(inner[n - 1], path[n - 1])
      set[n \in 1 .. Len(path)] ==
        Put(inner[n], path[n], IF n = Len(path) THEN value ELSE Document(set[n + 1]))
  IN set[1]

---------------------------------------------------------------------------
\* Operators on one value.

ProcessSet(fields, key, value) ==
  IF key \in DOMAIN fields /\ fields[key] = value THEN Kept(fields) ELSE Changed(Put(fields, key, value))

ProcessSetOnInsert(fields, key, value, upsert) ==
  IF upsert /\ value \notin {Null, EmptyArray} THEN ProcessSet(fields, key, value) ELSE Kept(fields)

ProcessUnset(fields, key) == IF key \in DOMAIN fields THEN Changed(Drop(fields, key)) ELSE Kept(fields)

\* An increment of whole numbers counts as a change, also by zero.
ProcessInc(fields, key, amount) ==
  IF key \notin DOMAIN fields THEN Changed(Put(fields, key, Number(amount)))
  ELSE IF fields[key].type = "number" THEN Changed(Put(fields, key, Number(fields[key].value + amount)))
  ELSE Refused(fields)

ProcessMul(fields, key, factor) ==
  IF key \notin DOMAIN fields THEN Changed(Put(fields, key, Number(0)))
  ELSE IF fields[key].type = "number" THEN ProcessSet(fields, key, Number(fields[key].value * factor))
  ELSE Refused(fields)

ProcessMax(fields, key, value) ==
  IF key \in DOMAIN fields /\ ~Below(fields[key], value) THEN Kept(fields) ELSE Changed(Put(fields, key, value))

ProcessMin(fields, key, value) ==
  IF key \in DOMAIN fields /\ (fields[key] = value \/ Below(fields[key], value))
  THEN Kept(fields) ELSE Changed(Put(fields, key, value))

ProcessRename(fields, key, target) ==
  IF key \in DOMAIN fields THEN Changed(Put(Drop(fields, key), target, fields[key])) ELSE Kept(fields)

---------------------------------------------------------------------------
\* Operators on arrays.  $push and $addToSet first put an empty array where
\* there is no field, and report only what they add to it.

OnArray(fields, key, Missing(_), Process(_)) ==
  IF key \notin DOMAIN fields THEN Missing(fields)
  ELSE IF IsArray(fields[key]) THEN Process(fields[key].elems) ELSE Refused(fields)

Made(fields, key, elems, changed) ==
  [fields |-> Put(fields, key, Array(elems)), changed |-> changed, error |-> FALSE]

ProcessPop(fields, key, end) ==
  LET Process(elems) == IF elems = <<>> THEN Kept(fields)
                        ELSE Made(fields, key, IF end = -1 THEN Tail(elems) ELSE Front(elems), TRUE)
  IN OnArray(fields, key, Kept, Process)

\* A negative position counts from the end.
PushPosition(position, length) ==
  IF position < 0 THEN (IF length + position < 0 THEN 0 ELSE length + position)
                  ELSE (IF position > length THEN length ELSE position)

Slice(elems, slice) ==
  LET n == Len(elems)
  IN IF slice >= 0 THEN SubSeq(elems, 1, IF slice > n THEN n ELSE slice)
                   ELSE SubSeq(elems, (IF n + slice < 0 THEN 0 ELSE n + slice) + 1, n)

\* The result counts as changed when an element compares unequal to the one
\* that was in its place.
PushedOn(elems, push) ==
  LET at == IF "position" \in DOMAIN push THEN PushPosition(push.position, Len(elems)) ELSE Len(elems)
      combined == SubSeq(elems, 1, at) \o push.each \o SubSeq(elems, at + 1, Len(elems))
  IN IF "slice" \in DOMAIN push THEN Slice(combined, push.slice) ELSE combined

ProcessPush(fields, key, push) ==
  LET Process(elems) ==
        LET result == PushedOn(elems, push)
        IN Made(fields, key, result, \/ Len(result) # Len(elems)
                                     \/ \E i \in DOMAIN elems : ~Equals(elems[i], result[i]))
      Missing(f) == Process(<<>>)
  IN OnArray(fields, key, Missing, Process)

AddOnce(elems, value) == IF ArrayContains(Array(elems), value) THEN elems ELSE Append(elems, value)
AddEach(elems, each) ==
  LET added[n \in 0 .. Len(each)] == IF n = 0 THEN elems ELSE AddOnce(added[n - 1], each[n])
  IN added[Len(each)]

ProcessAddToSet(fields, key, each) ==
  LET Process(elems) == LET result == AddEach(elems, each) IN Made(fields, key, result, Len(result) # Len(elems))
      Missing(f) == Process(<<>>)
  IN OnArray(fields, key, Missing, Process)

\* Keeps the elements that Matches does not take.
Pulled(fields, key, Matches(_)) ==
  LET Process(elems) == LET result == SelectSeq(elems, LAMBDA e : ~Matches(e))
                        IN Made(fields, key, result, result # elems)
  IN OnArray(fields, key, Kept, Process)

ProcessPullAll(fields, key, values) == Pulled(fields, key, LAMBDA e : \E v \in Range(values) : Equals(e, v))

\* A document pulls the documents that match it as a filter.
ProcessPull(fields, key, filter) == Pulled(fields, key, LAMBDA e : IsDocument(e) /\ FilterDocument(e, filter))

---------------------------------------------------------------------------
Process(fields, step, upsert) ==
  CASE step.op = "set" -> ProcessSet(fields, step.key, step.arg)
    [] step.op = "setOnInsert" -> ProcessSetOnInsert(fields, step.key, step.arg, upsert)
    [] step.op = "unset" -> ProcessUnset(fields, step.key)
    [] step.op = "inc" -> ProcessInc(fields, step.key, step.arg)
    [] step.op = "mul" -> ProcessMul(fields, step.key, step.arg)
    [] step.op = "max" -> ProcessMax(fields, step.key, step.arg)
    [] step.op = "min" -> ProcessMin(fields, step.key, step.arg)
    [] step.op = "rename" -> ProcessRename(fields, step.key, step.arg)
    [] step.op = "pop" -> ProcessPop(fields, step.key, step.arg)
    [] step.op = "push" -> ProcessPush(fields, step.key, step.arg)
    [] step.op = "addToSet" -> ProcessAddToSet(fields, step.key, step.arg)
    [] step.op = "pullAll" -> ProcessPullAll(fields, step.key, step.arg)
    [] step.op = "pull" -> ProcessPull(fields, step.key, step.arg)

\* A plausible mistake: the last operator decides whether the document changed.
ProcessUpdate_LastDecides(fields, update, upsert) ==
  LET done[n \in 0 .. Len(update)] ==
        IF n = 0 THEN Kept(fields)
        ELSE LET prior == done[n - 1] IN IF prior.error THEN prior ELSE Process(prior.fields, update[n], upsert)
  IN done[Len(update)]

\* processUpdateOperator: an operator that fails ends the update.
ProcessNext(prior, step, upsert) ==
  IF prior.error THEN prior
  ELSE [Process(prior.fields, step, upsert) EXCEPT !.changed = prior.changed \/ @]

ProcessUpdate(fields, update, upsert) ==
  LET done[n \in 0 .. Len(update)] == IF n = 0 THEN Kept(fields) ELSE ProcessNext(done[n - 1], update[n], upsert)
  IN done[Len(update)]

\* processFilterEqualityCondition: what an upsert takes from its filter.  Two
\* operators on one field are taken for a value, which no document may hold.
Equalities(filter) == {c \in filter : ~IsLogical(c) /\ DOMAIN c.ops \in {{"is"}, {"eq"}}}
ManyOperators(filter) == \E c \in filter : ~IsLogical(c) /\ DOMAIN c.ops \notin {{o} : o \in DOMAIN c.ops}
EqualTo(condition) == IF "is" \in DOMAIN condition.ops THEN condition.ops.is ELSE condition.ops.eq

\* A plausible mistake: only {field: value} is taken, not {field: {$eq: value}}.
FromFilter_ValuesOnly(filter) ==
  LET conditions == SetToSeq({c \in Equalities(filter) : "is" \in DOMAIN c.ops})
      made[n \in 0 .. Len(conditions)] ==
        IF n = 0 THEN <<>> ELSE SetByPath(made[n - 1], conditions[n].path, EqualTo(conditions[n]))
  IN made[Len(conditions)]

FromFilter(filter) ==
  LET conditions == SetToSeq(Equalities(filter))
      made[n \in 0 .. Len(conditions)] ==
        IF n = 0 THEN <<>> ELSE SetByPath(made[n - 1], conditions[n].path, EqualTo(conditions[n]))
  IN made[Len(conditions)]
============================================================================
