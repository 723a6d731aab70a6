------------------------------ MODULE Pushdown ------------------------------
(***************************************************************************)
(* The part of a filter that the SQLite backend puts into the WHERE clause *)
(* of its query, and what SQLite makes of it.  The clause has to select a  *)
(* superset of the documents that match, for Go filters what it returns.   *)
(*                                                                         *)
(* A WHERE clause is a set of SQL conditions, all of which have to hold;   *)
(* the empty set is a query without one.  Strings are those Go and SQLite  *)
(* render alike.                                                           *)
(***************************************************************************)
EXTENDS Documents, FiniteSets

CONSTANT WhereWithin(_) \* WhereClause of a branch

\* The types whose JSON is the same text in Go and in SQLite.
Exact == {"string", "objectid", "bool"}
Ranges == {"gt", "gte", "lt", "lte"}
IdPath == <<"_id">>

\* A plausible mistake: without that arm.
EqualityCondition_NoArrays(path, value, arrays) ==
  {[sql |-> "equals", path |-> path, value |-> value, arrays |-> FALSE]}

\* equalityCondition: with the arm for arrays, which may contain the value.
EqualityCondition(path, value, arrays) ==
  {[sql |-> "equals", path |-> path, value |-> value, arrays |-> arrays]}

\* inCondition: nothing is pushed when an alternative has no arm.
InCondition(path, alternatives, arrays) ==
  IF \A x \in alternatives : x.type \in Exact \union {"null"}
  THEN {[sql |-> "in", path |-> path, values |-> alternatives \ {Null}, null |-> Null \in alternatives,
         arrays |-> arrays /\ alternatives # {}]}
  ELSE {}

\* The equality or $in of a dotted path, and of a field inside $elemMatch.
IndexableCondition(path, ops, arrays) ==
  IF "is" \in DOMAIN ops
  THEN IF ops.is.type \in Exact THEN EqualityCondition(path, ops.is, arrays) ELSE {}
  ELSE IF "in" \in DOMAIN ops THEN InCondition(path, ops.in, arrays) ELSE {}

IsPlain(condition) == ~IsLogical(condition) /\ Len(condition.path) = 1

\* elemMatchCondition: every field of the element has to be pushed.
ElemMatchCondition(path, filter) ==
  IF filter # {} /\ \A c \in filter : IsPlain(c) /\ IndexableCondition(c.path, c.ops, TRUE) # {}
  THEN {[sql |-> "element", path |-> path,
         where |-> UNION {IndexableCondition(c.path, c.ops, TRUE) : c \in filter}]}
  ELSE {}

NumericBounds(ops) == {r \in Ranges \intersect DOMAIN ops : ops[r].type = "number"}

RangeConditions(path, ops) ==
  {[sql |-> "range", path |-> path, op |-> r, bound |-> ops[r].value] : r \in NumericBounds(ops)}

\* operatorCondition: one operator of the expression is enough, and the first
\* that can be pushed is taken.
OperatorCondition(path, ops) ==
  LET element == IF "elemMatch" \in DOMAIN ops THEN ElemMatchCondition(path, ops.elemMatch) ELSE {}
      among   == IF "in" \in DOMAIN ops THEN InCondition(path, ops.in, path # IdPath) ELSE {}
  IN IF "exists" \in DOMAIN ops THEN {[sql |-> "present", path |-> path, present |-> ops.exists]}
     ELSE IF element # {} THEN element
     ELSE IF among # {} THEN among
     ELSE RangeConditions(path, ops)

FieldCondition(path, ops) ==
  IF "is" \in DOMAIN ops THEN IndexableCondition(path, ops, path # IdPath)
                          ELSE OperatorCondition(path, ops)

\* A plausible mistake: the branches that cannot be pushed are left out.
OrCondition_SomeBranches(branches) ==
  {[sql |-> "any", branches |-> {UNION {FieldCondition(c.path, c.ops) : c \in {x \in b : IsPlain(x)}} :
      b \in {d \in branches : \A c \in d : IsPlain(c) /\ FieldCondition(c.path, c.ops) # {}}}]}

\* pushdownOrCondition: all the branches or none.
OrCondition(branches) ==
  IF /\ branches # {}
     /\ \A b \in branches : b # {} /\ \A c \in b : IsPlain(c) /\ FieldCondition(c.path, c.ops) # {}
  THEN {[sql |-> "any", branches |-> {UNION {FieldCondition(c.path, c.ops) : c \in b} : b \in branches}]}
  ELSE {}

\* numericTypeNorRangeCondition: {f: {$type: "number"}, $nor: [{f: range}]}.
OutsideRange(filter) ==
  LET numbers == {t \in filter : IsPlain(t) /\ "type" \in DOMAIN t.ops /\ t.ops.type = "number"}
      nors    == {c \in filter : IsLogical(c) /\ c.logic = "nor" /\ Cardinality(c.branches) = 1}
      ranges  == {r \in UNION {b \in UNION {c.branches : c \in nors} : Cardinality(b) = 1} :
                    /\ IsPlain(r) /\ \E t \in numbers : t.path = r.path
                    /\ DOMAIN r.ops # {} /\ DOMAIN r.ops = NumericBounds(r.ops)}
  IN {[sql |-> "outside", path |-> r.path, within |-> RangeConditions(r.path, r.ops)] : r \in ranges}

Pushed(condition) ==
  IF IsLogical(condition)
  THEN CASE condition.logic = "and" -> UNION {WhereWithin(b) : b \in condition.branches}
         [] condition.logic = "or"  -> OrCondition(condition.branches)
         [] OTHER -> {}
  ELSE IF IsPlain(condition) THEN FieldCondition(condition.path, condition.ops)
                             ELSE IndexableCondition(condition.path, condition.ops, TRUE)

WhereClause(filter) == OutsideRange(filter) \union UNION {Pushed(c) : c \in filter}

\* find and aggregate push no dotted path of the filter's top level; the
\* commands that write, count and distinct push the whole filter.
TopLevel(filter) == {c \in filter : IsPlain(c) \/ IsLogical(c)}

---------------------------------------------------------------------------
\* What SQLite makes of the conditions.

\* column->"a"->"b" goes through documents only.
Inside(value, key) ==
  LET inner == FieldOf(value, key) IN IF inner = {} THEN Absent ELSE CHOOSE x \in inner : TRUE

Json(document, path) ==
  LET reached[n \in 0 .. Len(path)] == IF n = 0 THEN document ELSE Inside(reached[n - 1], path[n])
  IN reached[Len(path)]

IsMissing(value) == value = Absent

\* column->>"a" compared with a number: null and missing are NULL, a string, an
\* array and a document are text, which is greater than every number.
NumberCompares(value, op, bound) ==
  IF value.type \in {"number", "bool"}
  THEN CASE op = "gt" -> value.value > bound [] op = "gte" -> value.value >= bound
         [] op = "lt" -> value.value < bound [] op = "lte" -> value.value <= bound
  ELSE value.type \notin {"null", "absent"} /\ op \in {"gt", "gte"}

\* A condition on one path.
SelectsField(document, s) ==
  LET v == Json(document, s.path)
  IN CASE s.sql = "equals"  -> v = s.value \/ (s.arrays /\ IsArray(v))
       [] s.sql = "in"      -> \/ v \in s.values
                               \/ s.null /\ IsMissing(v)
                               \/ s.arrays /\ IsArray(v)
       [] s.sql = "present" -> IsMissing(v) # s.present
       [] s.sql = "range"   -> NumberCompares(v, s.op, s.bound)

\* The conditions of "element", "outside" and "any" are on paths.
SelectsPart(document, s) ==
  IF s.sql = "element"
  THEN \E e \in Elements(Json(document, s.path)) : IsDocument(e) /\ \A t \in s.where : SelectsField(e, t)
  ELSE SelectsField(document, s)

Selects(document, s) ==
  CASE s.sql = "outside" -> /\ Json(document, s.path).type \notin {"null", "absent"}
                            /\ \E t \in s.within : ~SelectsField(document, t)
    [] s.sql = "any"     -> \E b \in s.branches : \A t \in b : SelectsPart(document, t)
    [] OTHER -> SelectsPart(document, s)

Candidate(document, filter) == \A s \in WhereClause(filter) : Selects(document, s)
============================================================================
