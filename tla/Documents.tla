----------------------------- MODULE Documents -----------------------------
(***************************************************************************)
(* BSON values as the embedded FerretDB compares them, and the filter that *)
(* decides in Go whether a document matches a selector.                    *)
(*                                                                         *)
(* A value is a record tagged with its type; the order of the keys of a    *)
(* document is abstracted.  A filter is a set of conditions, all of which  *)
(* have to hold: a condition is on a path, with the operators it names, or *)
(* it is a logical operator over a set of filters.  $regex, the $bits      *)
(* operators, $text, $where and $expr are left out; the operand of a       *)
(* comparison is a scalar, and the divisor and the value of $mod are not   *)
(* negative.                                                               *)
(*                                                                         *)
(* Values contain values and filters contain filters.  An operator that    *)
(* calls itself for a part calls the constant that is named for it, which  *)
(* a configuration ties to the operator.                                   *)
(***************************************************************************)
EXTENDS Integers, Sequences, SequencesExt

CONSTANTS EqualsWithin(_, _), PrecedesWithin(_, _), \* Equals and Precedes of two parts
          MatchesWithin(_, _), HoldsWithin(_, _)    \* FilterDocument and FieldMatches, further in

Scalar(type, value) == [type |-> type, value |-> value]
Null == Scalar("null", 0)
Array(elems) == [type |-> "array", elems |-> elems]
Document(fields) == [type |-> "document", fields |-> fields]

\* What a path leads to when it leads nowhere; it is no value.
Absent == [type |-> "absent"]

IsArray(value) == value.type = "array"
IsDocument(value) == value.type = "document"
Elements(value) == IF IsArray(value) THEN Range(value.elems) ELSE {}
SameType(a, b) == a.type = b.type

\* The outcome Equal of Compare: an array on the left equals a value that is
\* not an array when one of its elements of that type does.
Equals(a, b) ==
  \/ /\ IsArray(a) /\ ~IsArray(b)
     /\ \E e \in Elements(a) : SameType(e, b) /\ EqualsWithin(e, b)
  \/ /\ IsArray(a) /\ IsArray(b)
     /\ Len(a.elems) = Len(b.elems)
     /\ \A i \in DOMAIN a.elems : SameType(a.elems[i], b.elems[i]) /\ EqualsWithin(a.elems[i], b.elems[i])
  \/ /\ IsDocument(a) /\ IsDocument(b)
     /\ DOMAIN a.fields = DOMAIN b.fields
     /\ \A k \in DOMAIN a.fields : SameType(a.fields[k], b.fields[k]) /\ EqualsWithin(a.fields[k], b.fields[k])
  \/ a = b

TypeOrder == <<"null", "number", "string", "document", "array", "objectid", "bool", "date">>
Rank(value) == CHOOSE i \in DOMAIN TypeOrder : TypeOrder[i] = value.type

\* The outcome Less of Compare; of CompareOrder, which looks at the types first,
\* it is Below.  Leads is either of its outcomes but Equal.  An array compares
\* with a value that is not one as its last element does, and is less when it
\* has none of that type.  Documents are of one field, of the same name.
BelowWithin(a, b) == Rank(a) < Rank(b) \/ (SameType(a, b) /\ PrecedesWithin(a, b))

Precedes(a, b) ==
  IF IsArray(a) /\ IsArray(b)
  THEN \E i \in DOMAIN b.elems :
         /\ \A j \in 1 .. i - 1 : /\ j \in DOMAIN a.elems /\ SameType(a.elems[j], b.elems[j])
                                /\ Equals(a.elems[j], b.elems[j])
         /\ i \in DOMAIN a.elems => BelowWithin(a.elems[i], b.elems[i])
  ELSE IF IsArray(a)
  THEN /\ ~Equals(a, b)
       /\ (\E e \in Elements(a) : SameType(e, b)) => BelowWithin(Last(a.elems), b)
  ELSE IF IsDocument(a) /\ IsDocument(b)
  THEN IF DOMAIN a.fields = {} THEN DOMAIN b.fields # {}
       ELSE \E k \in DOMAIN a.fields \intersect DOMAIN b.fields : BelowWithin(a.fields[k], b.fields[k])
  ELSE Rank(a) < Rank(b) \/ (SameType(a, b) /\ a.value < b.value)

Below(a, b) == Rank(a) < Rank(b) \/ (SameType(a, b) /\ Precedes(a, b))
Leads(a, b, ascending) ==
  IF SameType(a, b) THEN Precedes(a, b) = ascending /\ (ascending \/ ~Equals(a, b))
                    ELSE (Rank(a) < Rank(b)) = ascending

\* The values that a range operator compares with its scalar operand: the code
\* takes the least or the greatest of them, whichever can satisfy it.
Comparable(value, operand) ==
  {e \in (IF IsArray(value) THEN Elements(value) ELSE {value}) : SameType(e, operand)}

ArrayContains(array, value) ==
  IF IsArray(value) \/ IsDocument(value)
  THEN Equals(array, value) \/ \E e \in Elements(array) : Equals(e, value)
  ELSE value \in Elements(array)

---------------------------------------------------------------------------
\* Paths.

\* The path elements that are numbers, with the position each stands for.
ArrayIndex == [k \in {"0"} |-> 1]

FieldOf(value, key) ==
  IF IsDocument(value) /\ key \in DOMAIN value.fields THEN {value.fields[key]} ELSE {}

\* One element of a path: the field of a document, the element of an array at
\* an index, or the fields of the documents in an array.
Follow(value, key) ==
  IF IsArray(value) /\ key \in DOMAIN ArrayIndex /\ ArrayIndex[key] <= Len(value.elems)
  THEN {value.elems[ArrayIndex[key]]}
  ELSE FieldOf(value, key) \union UNION {FieldOf(e, key) : e \in Elements(value)}

FollowAll(values, key) == UNION {Follow(v, key) : v \in values}

FindValues(document, path) ==
  LET reached[n \in 0 .. Len(path)] == IF n = 0 THEN {document} ELSE FollowAll(reached[n - 1], path[n])
  IN reached[Len(path)]

---------------------------------------------------------------------------
\* Filters.

IsLogical(condition) == "logic" \in DOMAIN condition

EqualsOperand(value, operand) == (IsDocument(operand) => IsDocument(value)) /\ Equals(value, operand)

In(value, alternatives) == \E x \in alternatives : EqualsOperand(value, x)

\* $gt, $gte, $lt and $lte.
InRange(operator, value, operand) ==
  \E e \in Comparable(value, operand) :
    CASE operator = "gt" -> e.value > operand.value [] operator = "gte" -> e.value >= operand.value
      [] operator = "lt" -> e.value < operand.value [] operator = "lte" -> e.value <= operand.value

HasSize(value, size) == IsArray(value) /\ Len(value.elems) = size

\* $all never matches a document, and a scalar as if it were the array of it.
HasAll(value, operands) ==
  /\ operands # {} /\ ~IsDocument(value)
  /\ \A x \in operands : IF IsArray(value) THEN ArrayContains(value, x) ELSE Equals(value, x)

Exists(found, exists) == (found # Absent) = exists

\* filterFieldValueByTypeCode: the elements of an array are looked at too.
HasType(value, type) ==
  \/ value.type = type
  \/ type # "array" /\ \E e \in Elements(value) : e.type = type

\* A field that is not there has no type, not even null.
IsOfType(found, type) == found # Absent /\ HasType(found, type)

\* $mod of a whole number.
Leaves(value, divisor, remainder) == value.type = "number" /\ value.value % divisor = remainder

\* One element that is a document satisfies the whole filter; with operators
\* instead of fields, the array as a whole is taken for the field.
ElemMatch(found, filter) == \E e \in Elements(found) : IsDocument(e) /\ MatchesWithin(e, filter)
ElemMatchOperators(found, operators) == IsArray(found) /\ HoldsWithin(found, operators)

\* One operator of a field expression on the value found, or on Absent: most
\* of them take a field that is not there as null.
OperatorHolds(operator, found, operand) ==
  LET value == IF found = Absent THEN Null ELSE found
  IN CASE operator \in {"eq", "ne"}  -> EqualsOperand(value, operand) = (operator = "eq")
       [] operator \in {"gt", "gte", "lt", "lte"} -> InRange(operator, value, operand)
       [] operator \in {"in", "nin"} -> In(value, operand) = (operator = "in")
       [] operator = "not" -> ~HoldsWithin(found, operand)
       [] operator = "elemMatch" -> ElemMatch(found, operand)
       [] operator = "elemMatchOperators" -> ElemMatchOperators(found, operand)
       [] operator = "size" -> HasSize(value, operand)
       [] operator = "all" -> HasAll(value, operand)
       [] operator = "exists" -> Exists(found, operand)
       [] operator = "type" -> IsOfType(found, operand)
       [] operator = "mod" -> Leaves(value, operand[1], operand[2])

FieldMatches(found, operators) == \A o \in DOMAIN operators : OperatorHolds(o, found, operators[o])

\* {field: value}: a document only equals a document, null also stands for a
\* field that is not there.
IsValue(values, operand) == \/ \E v \in values : EqualsOperand(v, operand)
                            \/ values = {} /\ operand = Null

ConditionHolds(document, condition) ==
  LET values == FindValues(document, condition.path)
  IN IF "is" \in DOMAIN condition.ops
     THEN IsValue(values, condition.ops.is)
     ELSE \E v \in (IF values = {} THEN {Absent} ELSE values) : FieldMatches(v, condition.ops)

LogicalHolds(document, condition) ==
  CASE condition.logic = "and" -> \A f \in condition.branches : MatchesWithin(document, f)
    [] condition.logic = "or"  -> \E f \in condition.branches : MatchesWithin(document, f)
    [] condition.logic = "nor" -> \A f \in condition.branches : ~MatchesWithin(document, f)

FilterDocument(document, filter) ==
  \A c \in filter : IF IsLogical(c) THEN LogicalHolds(document, c) ELSE ConditionHolds(document, c)
============================================================================
