---------------------------- MODULE Expressions ----------------------------
(***************************************************************************)
(* The expressions of an aggregation and how the code evaluates them,      *)
(* which is by putting the values of variables in their place.             *)
(*                                                                         *)
(* An expression is a value: an operator is a document with one key that   *)
(* begins with a dollar sign, and strings are names, paths of fields or    *)
(* variables.  The operators on roots, logarithms and angles, regular      *)
(* expressions, functions and the sizes of values are left out; numbers    *)
(* are whole, and divisions exact.                                         *)
(***************************************************************************)
EXTENDS Pipelines, Conversions

\* Operators, the numbers of arguments they take, and the keys that those with
\* a specification require.

Binary == {"$eq", "$ne", "$gt", "$gte", "$lt", "$lte", "$cmp", "$subtract", "$divide", "$mod",
           "$arrayElemAt", "$in", "$setDifference", "$setIsSubset", "$strcasecmp", "$split", "$pow"}
Unary == {"$not", "$type", "$size", "$isArray", "$reverseArray", "$arrayToObject", "$objectToArray",
          "$allElementsTrue", "$anyElementTrue", "$getField", "$toUpper", "$toLower", "$strLenCP", "$strLenBytes",
          "$isNumber", "$abs", "$ceil", "$floor"} \union DOMAIN Target \union Extractions
Variadic == {"$literal", "$and", "$or", "$add", "$multiply", "$sum", "$min", "$max", "$concatArrays",
             "$setUnion", "$setIntersection", "$concat"}

Required ==
  [op \in {"$let"} |-> {"vars", "in"}] @@ [op \in {"$map"} |-> {"input", "in"}]
  @@ [op \in {"$filter"} |-> {"input", "cond"}] @@ [op \in {"$reduce"} |-> {"input", "initialValue", "in"}]
  @@ [op \in {"$sortArray"} |-> {"input", "sortBy"}] @@ [op \in {"$zip"} |-> {"inputs"}]
  @@ [op \in {"$switch"} |-> {"branches"}] @@ [op \in {"$setField"} |-> {"field", "input", "value"}]
  @@ [op \in {"$unsetField"} |-> {"field", "input"}] @@ [op \in {"$convert"} |-> {"input", "to"}] @@ TextKeys @@ DateKeys

TakesArguments(op, n) ==
  CASE op \in Binary -> n = 2
    [] op \in Unary \union DOMAIN Required -> n = 1
    [] op \in {"$slice", "$range"} -> n \in {2, 3}
    [] op \in {"$indexOfArray", "$indexOfCP", "$indexOfBytes"} -> n \in 2 .. 4
    [] op \in {"$substr", "$substrBytes", "$substrCP"} -> n = 3
    [] op \in {"$round", "$trunc"} -> n \in {1, 2}
    [] op = "$cond" -> n \in {1, 3}
    [] op \in {"$ifNull", "$setEquals"} -> n >= 2
    [] op \in Variadic -> TRUE
    [] OTHER -> FALSE

HasKeys(spec, keys) == IsDocument(spec) /\ keys \subseteq DOMAIN spec.fields

IsBranch(b) == HasKeys(b, {"case", "then"})
IsVariableName(spec) == "as" \in DOMAIN spec.fields => IsName(spec.fields["as"])

\* What the constructor of an operator accepts.
WellFormed(op, args) ==
  /\ TakesArguments(op, Len(args))
  /\ op \in DOMAIN Required => HasKeys(args[1], Required[op])
  /\ op = "$cond" /\ Len(args) = 1 => HasKeys(args[1], {"if", "then", "else"})
  /\ op = "$let" => IsDocument(args[1].fields["vars"])
  /\ op \in {"$map", "$filter"} => IsVariableName(args[1])
  /\ op = "$switch" =>
       LET branches == args[1].fields["branches"]
       IN IsArray(branches) /\ branches # EmptyArray /\ \A b \in Elements(branches) : IsBranch(b)

\* The keys that begin with a dollar sign.
DollarNames == Binary \union Unary \union Variadic \union DOMAIN Required \union TextOperators \union MathOperators
                 \union {"$slice", "$range", "$indexOfArray", "$cond", "$ifNull", "$setEquals", "$unknown"}

IsOperator(e) == IsDocument(e) /\ DOMAIN e.fields \intersect DollarNames # {}
OperatorOf(e) == CHOOSE op \in DOMAIN e.fields : TRUE
OperandOf(e) == e.fields[OperatorOf(e)]

\* An operand that is an array is the list of the arguments.
Arguments(e) == IF IsArray(OperandOf(e)) THEN OperandOf(e).elems ELSE <<OperandOf(e)>>

\* NewOperator.
IsWellFormed(e) == Cardinality(DOMAIN e.fields) = 1 /\ WellFormed(OperatorOf(e), Arguments(e))

---------------------------------------------------------------------------
\* Paths and variables.

InField(value, key) == IF IsDocument(value) /\ key \in DOMAIN value.fields THEN <<value.fields[key]>> ELSE <<>>

\* One element of a path, in the order of the values; it is never an index.
Step(values, key) ==
  FlattenSeq([n \in DOMAIN values |->
    IF IsArray(values[n]) THEN FlattenSeq([m \in DOMAIN values[n].elems |-> InField(values[n].elems[m], key)])
    ELSE InField(values[n], key)])

\* Expression.Evaluate: a path into an array finds an array.
PathValue(document, path) ==
  LET found == FoldLeft(Step, <<document>>, path)
      intoArray == Len(path) > 1 /\ \E v \in Range(InField(document, Head(path))) : IsArray(v)
  IN IF intoArray \/ Len(found) > 1 THEN Array(found) ELSE IF found = <<>> THEN Absent ELSE Head(found)

Reach(value, path) ==
  IF path = <<>> THEN value ELSE IF IsDocument(value) THEN OrNull(PathValue(value, path)) ELSE Null

\* bindVars: the value is put wherever the variable is named.
RECURSIVE Bind(_, _, _)
\* A plausible mistake: the lists of arguments are not searched.
Bind_FieldsOnly(e, name, value) ==
  CASE IsDocument(e) -> Document([k \in DOMAIN e.fields |-> Bind(e.fields[k], name, value)])
    [] IsVariable(e) /\ e.variable = name -> Reach(value, e.path)
    [] OTHER -> e

Bind(e, name, value) ==
  CASE IsDocument(e) -> Document([k \in DOMAIN e.fields |-> Bind(e.fields[k], name, value)])
    [] IsArray(e) -> Array([n \in DOMAIN e.elems |-> Bind(e.elems[n], name, value)])
    [] IsVariable(e) /\ e.variable = name -> Reach(value, e.path)
    [] OTHER -> e

---------------------------------------------------------------------------
\* Operators on values.

Product(values) == IF values = <<>> THEN 0 ELSE FoldLeft(LAMBDA p, v : p * v.value, 1, values)
Remainder(a, b) == Sign(a) * (Magnitude(a) % Magnitude(b))

Arithmetic(op, values) ==
  CASE op = "$add" -> InOrder(values, "number", Number(SumNumbers(values)))
    [] op = "$multiply" -> InOrder(values, "number", Number(Product(values)))
    [] op = "$subtract" -> AtOnce(values, {"number"}, Number(values[1].value - values[2].value))
    [] OTHER -> AtOnce(values, {"number"},
         LET a == values[1].value
             b == values[2].value
         IN IF b = 0 THEN Error ELSE IF op = "$mod" THEN Number(Remainder(a, b)) ELSE Number(a \div b))

Outcome(a, b) == IF Equals(a, b) THEN 0 ELSE IF Precedes(a, b) THEN -1 ELSE 1
Outcomes(op) == CASE op = "$eq" -> {0} [] op = "$ne" -> {-1, 1} [] op = "$gt" -> {1} [] op = "$gte" -> {0, 1}
                  [] op = "$lt" -> {-1} [] op = "$lte" -> {-1, 0}
Comparison(op, values) ==
  Evaluated(values, LET outcome == Outcome(values[1], values[2])
                    IN IF op = "$cmp" THEN Number(outcome) ELSE Bool(outcome \in Outcomes(op)))

\* $and ends at the first value that is not true, $or at the first that is.
Logical(op, values) ==
  LET ends == {n \in DOMAIN values : Failed(values[n]) \/ Truthy(values[n]) = (op = "$or")}
  IN IF ends = {} THEN Bool(op = "$and") ELSE IF Failed(values[Min(ends)]) THEN Error ELSE Bool(op = "$or")

IfNull(values) == values[Min({Len(values)} \union {n \in DOMAIN values : ~IsNull(values[n])})]

\* $min and $max, of the elements of a single array.
Extremes(op, values) ==
  LET list == IF Len(values) = 1 /\ IsArray(values[1]) THEN values[1].elems ELSE values
      some == SelectSeq(list, LAMBDA v : ~IsNull(v))
  IN Evaluated(values, IF some = <<>> THEN Null ELSE Extreme(some, op = "$min"))

---------------------------------------------------------------------------
\* Arrays and sets.

HasEqual(set, value) == \E e \in Range(set) : Equals(e, value)
SortedArray(values, ascending) ==
  Array(InsertionSort(values, LAMBDA x, y : CompareOrderForSort(x, y, ascending)))
SameSet(a, b) == Len(a) = Len(b) /\ \A v \in Range(a) : HasEqual(b, v)

SetOperation(op, sets) ==
  LET first == Distinct(sets[1])
      Sifted(Keep(_)) == SortedArray(SelectSeq(first, LAMBDA v : Keep(v)), TRUE)
  IN CASE op = "$setUnion" -> SortedArray(Distinct(FlattenSeq(sets)), TRUE)
       [] op = "$setIntersection" ->
            IF sets = <<>> THEN EmptyArray ELSE Sifted(LAMBDA v : \A n \in 2 .. Len(sets) : HasEqual(sets[n], v))
       [] op = "$setDifference" -> Sifted(LAMBDA v : ~HasEqual(sets[2], v))
       [] op = "$setEquals" -> Bool(\A n \in 2 .. Len(sets) : SameSet(first, Distinct(sets[n])))
       [] op = "$setIsSubset" -> Bool(\A v \in Range(sets[1]) : HasEqual(sets[2], v))

ElemAt(array, index) ==
  LET n == (IF index < 0 THEN index + Len(array.elems) ELSE index) + 1
  IN IF n \in DOMAIN array.elems THEN array.elems[n] ELSE Null

\* A plausible mistake: the number of elements is taken for the end.
SliceArray_CountIsEnd(array, at) ==
  LET start == IF Len(at) = 2 THEN (IF at[1] >= 0 THEN at[1] ELSE Max({0, Len(array.elems) + at[1]})) ELSE 0
  IN Array(SubSeq(array.elems, start + 1, Min({Len(array.elems), IF Len(at) = 2 THEN at[2] ELSE at[1]})))

\* [array, n] or [array, position, n].
SliceArray(array, at) ==
  LET l == Len(array.elems)
      start == IF at[1] < 0 THEN Max({0, l + at[1]}) ELSE IF Len(at) = 2 THEN at[1] ELSE 0
      count == IF Len(at) = 2 THEN at[2] ELSE Magnitude(at[1])
  IN IF count < 0 THEN Error ELSE Array(SubSeq(array.elems, start + 1, Min({l, start + count})))

NumbersFrom(start, end, step) ==
  LET count == IF step > 0 THEN (end - start + step - 1) \div step ELSE (start - end - step - 1) \div (-step)
  IN IF step = 0 THEN Error ELSE Array([n \in 1 .. Max({0, count}) |-> Number(start + (n - 1) * step)])

IndexOf(array, search, at) ==
  LET start == IF at = <<>> THEN 0 ELSE Max({0, at[1]})
      end   == IF Len(at) = 2 THEN Min({at[2], Len(array.elems)}) ELSE Len(array.elems)
      found == {n \in start + 1 .. end : Equals(array.elems[n], search)}
  IN Number(IF found = {} THEN -1 ELSE Min(found) - 1)

\* One pair of $arrayToObject, {k, v} or [k, v].
IsPair(e) == \/ IsDocument(e) /\ DOMAIN e.fields = {"k", "v"} /\ IsName(e.fields["k"])
             \/ IsArray(e) /\ Len(e.elems) = 2 /\ IsName(e.elems[1])
PairOf(e) == IF IsArray(e) THEN e.elems ELSE <<e.fields["k"], e.fields["v"]>>

ArrayToObject(array) ==
  IF \E e \in Elements(array) : ~IsPair(e) THEN Error
  ELSE Document(FoldLeft(LAMBDA fields, e : Put(fields, PairOf(e)[1].name, PairOf(e)[2]), <<>>, array.elems))

ObjectToArray(document) ==
  LET keys == SetToSeq(DOMAIN document.fields)
  IN Array([n \in DOMAIN keys |-> Document([k |-> Name(keys[n]), v |-> document.fields[keys[n]]])])

AllTrue(op, array) ==
  Bool(IF op = "$anyElementTrue" THEN \E e \in Elements(array) : Truthy(e) ELSE \A e \in Elements(array) : Truthy(e))

\* The operators that take one array or document; null stays null, but for the
\* last two.
OfOne(op, value) ==
  CASE op = "$size" -> InOrder(<<value>>, "array", Number(Len(value.elems)))
    [] op = "$reverseArray" -> InOrder(<<value>>, "array", Array(Reverse(value.elems)))
    [] op = "$arrayToObject" -> InOrder(<<value>>, "array", ArrayToObject(value))
    [] op = "$objectToArray" -> InOrder(<<value>>, "document", ObjectToArray(value))
    [] OTHER -> IF IsNull(value) THEN Bool(op = "$allElementsTrue")
                ELSE InOrder(<<value>>, "array", AllTrue(op, value))

Rest(values, from) == SubSeq(values, from, Len(values))
AsNumbers(values) == [n \in DOMAIN values |-> values[n].value]
Numeric(values, result) == IF \A n \in DOMAIN values : IsNumber(values[n]) THEN result ELSE Error

\* The operators that take an array and what to look for in it.
OfArray(op, values) ==
  CASE op = "$arrayElemAt" ->
         AtOnce(values, {"array", "number"},
                IF IsArray(values[1]) /\ IsNumber(values[2]) THEN ElemAt(values[1], values[2].value) ELSE Error)
    [] op = "$in" -> IF Failed(values[1]) \/ Failed(values[2]) THEN Error
                     ELSE IF IsNull(values[2]) THEN Bool(FALSE)
                     ELSE InOrder(<<values[2]>>, "array", Bool(\E e \in Elements(values[2]) : Equals(values[1], e)))
    [] op = "$slice" -> InOrder(<<values[1]>>, "array",
         Numeric(Rest(values, 2), SliceArray(values[1], AsNumbers(Rest(values, 2)))))
    [] op = "$indexOfArray" -> InOrder(<<values[1]>>, "array",
         IF Failed(values[2]) THEN Error
         ELSE Numeric(Rest(values, 3), IndexOf(values[1], values[2], AsNumbers(Rest(values, 3)))))

RangeOf(values) ==
  Numeric(values, NumbersFrom(values[1].value, values[2].value, IF Len(values) = 3 THEN values[3].value ELSE 1))

\* Rows of the elements at the same place, as many as the shortest has, or as
\* the longest with defaults for the others; these are taken as they are.
ZipArrays(spec, inputs) ==
  LET arrays   == inputs.elems
      lengths  == {Len(a.elems) : a \in Range(arrays)}
      longest  == IF "useLongestLength" \in DOMAIN spec THEN spec["useLongestLength"] ELSE Bool(FALSE)
      defaults == IF "defaults" \in DOMAIN spec /\ ~IsNull(spec["defaults"]) THEN spec["defaults"] ELSE EmptyArray
      Row(n)   == Array([m \in DOMAIN arrays |->
                    IF n \in DOMAIN arrays[m].elems THEN arrays[m].elems[n]
                    ELSE IF defaults = EmptyArray THEN Null ELSE defaults.elems[m]])
      isGiven  == defaults # EmptyArray
  IN IF \/ arrays = <<>> \/ longest.type # "bool" \/ ~IsArray(defaults)
        \/ isGiven /\ (~Truthy(longest) \/ Len(defaults.elems) # Len(arrays))
     THEN Error
     ELSE Array([n \in 1 .. (IF Truthy(longest) THEN Max(lengths) ELSE Min(lengths)) |-> Row(n)])

\* $sortArray: by the values, or by one field of them (the code takes several).
IsDirection(v) == IsNumber(v) /\ v.value \in {-1, 1}
SortArray(array, sortBy) ==
  LET key == OperatorOf(sortBy)
      Of(e) == IF IsDocument(e) /\ key \in DOMAIN e.fields THEN e.fields[key] ELSE Null
  IN IF IsDirection(sortBy) THEN SortedArray(array.elems, sortBy.value = 1)
     ELSE IF IsDocument(sortBy) /\ IsDirection(sortBy.fields[key])
     THEN Array(InsertionSort(array.elems,
                  LAMBDA x, y : CompareOrderForSort(Of(x), Of(y), sortBy.fields[key].value = 1)))
     ELSE Error

\* $sum passes over all that is no number; an array counts as its elements only
\* when it is alone.
SumOf(terms) == Evaluated(terms, Number(SumNumbers(terms)))
Summands(args, arg, value) ==
  IF IsVariable(arg) \/ IsPath(arg) \/ IsOperator(arg)
  THEN IF IsArray(value) /\ Len(args) = 1 /\ ~IsOperator(arg) THEN value.elems ELSE <<value>>
  ELSE IF IsNumber(arg) THEN <<arg>> ELSE <<>>

---------------------------------------------------------------------------
(***************************************************************************)
(* Evaluation, in a context: the document, and how variables are bound.    *)
(* The code puts the value of a variable in its place, where it is         *)
(* evaluated again.  What an expression means, which no code computes, has *)
(* variables in scope instead, and values are not evaluated.               *)
(***************************************************************************)

Context(document) == [document |-> document, scoped |-> FALSE, vars |-> <<>>]
Scope(document)   == [document |-> document, scoped |-> TRUE, vars |-> <<>>]

RECURSIVE Eval(_, _), TypeParam(_, _)

\* The value of an expression with variables bound, one after the other.
EvalIn(e, bindings, c) ==
  IF c.scoped THEN Eval(e, [c EXCEPT !.vars = FoldLeft(LAMBDA m, b : Put(m, b[1], b[2]), @, bindings)])
  ELSE Eval(FoldLeft(LAMBDA x, b : Bind(x, b[1], b[2]), e, bindings), c)

VariableOf(spec) == Option(spec, "as", Name("this")).name
AllOf(values) == Evaluated(values, Array(values))

Map(spec, input, c) ==
  AllOf([n \in DOMAIN input.elems |-> EvalIn(spec["in"], <<<<VariableOf(spec), input.elems[n]>>>>, c)])

\* The elements are tried until there are as many as the limit.
WithElement(kept, e, keep) ==
  IF Failed(keep) THEN Error ELSE IF Truthy(keep) THEN Array(Append(kept.elems, e)) ELSE kept
FilterElements(spec, input, limit, c) ==
  FoldLeft(LAMBDA kept, e : IF Failed(kept) \/ (IsNumber(limit) /\ Len(kept.elems) = limit.value) THEN kept
                            ELSE WithElement(kept, e, EvalIn(spec["cond"], <<<<VariableOf(spec), e>>>>, c)),
           EmptyArray, input.elems)

Filter(spec, input, limit, c) ==
  IF IsNull(limit) \/ (IsNumber(limit) /\ limit.value > 0) THEN FilterElements(spec, input, limit, c) ELSE Error

Reduce(spec, input, c) ==
  FoldLeft(LAMBDA value, e : IF Failed(value) THEN value
                             ELSE EvalIn(spec["in"], <<<<"value", value>>, <<"this", e>>>>, c),
           Eval(spec["initialValue"], c), input.elems)

Let(spec, c) ==
  LET vars   == spec["vars"].fields
      names  == SetToSeq(DOMAIN vars)
      values == [n \in DOMAIN names |-> Eval(vars[names[n]], c)]
  IN Evaluated(values, EvalIn(spec["in"], [n \in DOMAIN names |-> <<names[n], values[n]>>], c))

\* Without a branch that matches, only the trial of a projection goes on.
ValidationDocument == Document([key |-> Name("value")])

Switch(spec, c) ==
  LET branches == spec["branches"].elems
      cases == [n \in DOMAIN branches |-> Eval(branches[n].fields["case"], c)]
      ends  == {n \in DOMAIN branches : Failed(cases[n]) \/ Truthy(cases[n])}
  IN IF ends # {} THEN (IF Failed(cases[Min(ends)]) THEN Error ELSE Eval(branches[Min(ends)].fields["then"], c))
     ELSE IF "default" \in DOMAIN spec THEN Eval(spec["default"], c)
     ELSE IF c.document = ValidationDocument THEN Null ELSE Error

Cond(if, then, else) == IF Failed(if) THEN Error ELSE IF Truthy(if) THEN then ELSE else

\* [if, then, else], or a document of them.
CondOf(args, c) ==
  IF Len(args) = 3 THEN Cond(Eval(args[1], c), Eval(args[2], c), Eval(args[3], c))
  ELSE LET spec == args[1].fields IN Cond(Eval(spec["if"], c), Eval(spec["then"], c), Eval(spec["else"], c))

\* A string is the name of a field, whatever it looks like.
FieldName(e, c) == IF e.type = "string" THEN e ELSE Eval(e, c)

FieldValue(field, input) ==
  IF Failed(field) \/ field.type # "string" THEN Error
  ELSE InOrder(<<input>>, "document",
               IF IsName(field) /\ field.name \in DOMAIN input.fields THEN input.fields[field.name] ELSE Null)

GetField(arg, c) ==
  IF HasKeys(arg, {"field"})
  THEN FieldValue(FieldName(arg.fields["field"], c),
                  IF "input" \in DOMAIN arg.fields THEN Eval(arg.fields["input"], c) ELSE c.document)
  ELSE IF IsDocument(arg) /\ ~IsOperator(arg) THEN Error
  ELSE FieldValue(FieldName(arg, c), c.document)

SetField(op, spec, c) ==
  LET field == FieldName(spec["field"], c)
      input == Eval(spec["input"], c)
      value == Eval(spec["value"], c)
  IN IF Failed(field) \/ field.type # "string" THEN Error
     ELSE InOrder(<<input>>, "document",
            IF op = "$unsetField" THEN Document(Drop(input.fields, field.name))
            ELSE IF Failed(value) THEN Error ELSE Document(Put(input.fields, field.name, value)))

ZipOf(spec, inputs) == InOrder(<<inputs>>, "array", InOrder(inputs.elems, "array", ZipArrays(spec, inputs)))

\* The operators with an input that has to be an array.
OverInput(op, spec, input, c) ==
  InOrder(<<input>>, "array",
    CASE op = "$map" -> Map(spec, input, c)
      [] op = "$filter" -> Filter(spec, input, Eval(Option(spec, "limit", Null), c), c)
      [] op = "$reduce" -> Reduce(spec, input, c)
      [] op = "$sortArray" -> SortArray(input, spec["sortBy"]))

EvaluatedKeys(spec, c) == [k \in DOMAIN spec |-> Eval(spec[k], c)]

\* A date, or a document of a date and a zone.
ExtractFrom(op, arg, c) ==
  DateExtract(op, IF HasKeys(arg, {"date"}) /\ ~IsOperator(arg) THEN EvaluatedKeys(arg.fields, c) ELSE [date |-> Eval(arg, c)])

OfSpecification(op, spec, c) ==
  CASE op = "$let" -> Let(spec, c)
    [] op = "$switch" -> Switch(spec, c)
    [] op \in {"$setField", "$unsetField"} -> SetField(op, spec, c)
    [] op = "$zip" -> ZipOf(spec, Eval(spec["inputs"], c))
    [] op = "$convert" -> Convert(EvaluatedKeys(spec, c))
    [] op \in {"$trim", "$ltrim", "$rtrim"} -> Trim(op, EvaluatedKeys(spec, c))
    [] op \in {"$replaceOne", "$replaceAll"} -> Replace(op, EvaluatedKeys(spec, c))
    [] op \in DOMAIN DateKeys -> DateOperation(op, EvaluatedKeys(spec, c))
    [] OTHER -> OverInput(op, spec, Eval(spec["input"], c), c)

\* The operators that only need the values of their arguments.
OfValues(op, args, values) ==
  CASE op \in {"$add", "$multiply", "$subtract", "$divide", "$mod"} -> Arithmetic(op, values)
    [] op \in {"$eq", "$ne", "$gt", "$gte", "$lt", "$lte", "$cmp"} -> Comparison(op, values)
    [] op \in {"$and", "$or"} -> Logical(op, values)
    [] op = "$not" -> Evaluated(values, Bool(~Truthy(values[1])))
    [] op = "$ifNull" -> IfNull(values)
    [] op \in {"$min", "$max"} -> Extremes(op, values)
    [] op = "$sum" -> SumOf(FlattenSeq([n \in DOMAIN args |-> Summands(args, args[n], values[n])]))
    [] op \in {"$setUnion", "$setIntersection", "$setDifference", "$setEquals", "$setIsSubset"} ->
         InOrder(values, "array", SetOperation(op, [n \in DOMAIN values |-> values[n].elems]))
    [] op = "$concatArrays" -> InOrder(values, "array", Array(FlattenSeq([n \in DOMAIN values |-> values[n].elems])))
    [] op = "$isArray" -> Evaluated(values, Bool(IsArray(values[1])))
    [] op \in {"$arrayElemAt", "$in", "$slice", "$indexOfArray"} -> OfArray(op, values)
    [] op = "$range" -> RangeOf(values)
    [] op = "$isNumber" -> Evaluated(values, Bool(IsNumber(values[1])))
    [] op \in DOMAIN Target -> ToOp(op, values[1])
    [] op \in TextOperators -> TextOperation(op, values)
    [] op \in MathOperators -> MathOperation(op, values)
    [] OTHER -> OfOne(op, values[1])

\* A literal is not evaluated, but its only element is taken for the whole.
Literal(e, c) == IF Len(Arguments(e)) = 1 /\ ~c.scoped THEN Arguments(e)[1] ELSE OperandOf(e)

\* Operator.Process.
Operate(e, op, args, c) ==
  CASE op = "$literal" -> Literal(e, c)
    [] op = "$type" -> TypeParam(args[1], c)
    [] op = "$cond" -> CondOf(args, c)
    [] op = "$getField" -> GetField(args[1], c)
    [] op \in Extractions -> ExtractFrom(op, args[1], c)
    [] op \in DOMAIN Required -> OfSpecification(op, args[1].fields, c)
    [] OTHER -> OfValues(op, args, [n \in DOMAIN args |-> Eval(args[n], c)])

\* A document or an array of expressions.
WholeDocument(fields) == IF \E k \in DOMAIN fields : Failed(fields[k]) THEN Error ELSE Document(fields)
Mapped(e, c) ==
  IF IsArray(e) THEN AllOf([n \in DOMAIN e.elems |-> Eval(e.elems[n], c)])
  ELSE WholeDocument([k \in DOMAIN e.fields |-> Eval(e.fields[k], c)])

\* evaluateExpression; there are no variables left but those that are unknown.
VariableValue(e, c) == IF e.variable \in DOMAIN c.vars THEN Reach(c.vars[e.variable], e.path) ELSE Error

Eval(e, c) ==
  CASE IsOperator(e) -> IF IsWellFormed(e) THEN Operate(e, OperatorOf(e), Arguments(e), c) ELSE Error
    [] IsArray(e) \/ (IsDocument(e) /\ ~IsOperator(e)) -> Mapped(e, c)
    [] IsVariable(e) -> VariableValue(e, c)
    [] IsPath(e) -> OrNull(PathValue(c.document, e.path))
    [] OTHER -> e

\* $type evaluates what an operator has returned, until that is no expression.
TypeName(value) == IF Failed(value) THEN Error ELSE Name(IF value = Absent THEN "missing" ELSE value.type)
TypeOfResult(value, c) == IF Failed(value) THEN Error ELSE IF c.scoped THEN TypeName(value) ELSE TypeParam(value, c)

TypeParam(e, c) ==
  CASE IsOperator(e) -> TypeOfResult(Eval(e, c), c)
    [] IsVariable(e) -> TypeName(VariableValue(e, c))
    [] IsPath(e) -> TypeName(PathValue(c.document, e.path))
    [] OTHER -> Name(e.type)

Computed(e, document) == Eval(e, Context(document))
============================================================================
