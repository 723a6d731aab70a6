--------------------------- MODULE ExpressionLaws ---------------------------
(***************************************************************************)
(* What expressions and projections promise: laws, each of two expressions *)
(* that compute the same value of a document, what an expression means and *)
(* where the code differs from that, and what a projection selects.        *)
(*                                                                         *)
(* The laws are about a document with two arrays a and b, two numbers n    *)
(* and m, and a document d.                                                *)
(***************************************************************************)
EXTENDS Projections

A == FieldPath(<<"a">>)
B == FieldPath(<<"b">>)
N == FieldPath(<<"n">>)
M == FieldPath(<<"m">>)
D == FieldPath(<<"d">>)
This == Variable("this", <<>>)
Value == Variable("value", <<>>)
Zero == Number(0)

Of(op, args) == Operation(op, Array(args))
With(op, fields) == Operation(op, Document(fields))
Size(x) == Of("$size", <<x>>)
Not(x) == Of("$not", <<x>>)
Union(x, y) == Of("$setUnion", <<x, y>>)
Common(x, y) == Of("$setIntersection", <<x, y>>)
Without(x, y) == Of("$setDifference", <<x, y>>)
SetOf(x) == Of("$setUnion", <<x>>)
At(x, n) == Of("$arrayElemAt", <<x, n>>)
Least(x, y) == Of("$min", <<x, y>>)
Greatest(x, y) == Of("$max", <<x, y>>)
If(x, y, z) == Of("$cond", <<x, y, z>>)
Mapping(x, in) == With("$map", [input |-> x, in |-> in])
Filtering(x, cond) == With("$filter", [input |-> x, cond |-> cond])
SortedBy(x, direction) == With("$sortArray", [input |-> x, sortBy |-> Number(direction)])
Reduction(x, initial, in) == With("$reduce", [input |-> x, initialValue |-> initial, in |-> in])
Pairs == Of("$objectToArray", <<D>>)

\* The parts of an array make the array, whichever way it is taken apart.
PartLaws == {
  <<Of("$concatArrays", <<Of("$slice", <<A, Greatest(N, Zero)>>), Of("$slice", <<A, Greatest(N, Zero), Number(9)>>)>>), A>>,
  <<Of("$concatArrays", <<Of("$slice", <<A, Zero, Greatest(Zero, Of("$subtract", <<Size(A), Number(2)>>))>>),
                          Of("$slice", <<A, Number(-2)>>)>>), A>>,
  <<Of("$reverseArray", <<Of("$reverseArray", <<A>>)>>), A>>,
  <<At(A, N), At(Of("$reverseArray", <<A>>), Of("$subtract", <<Number(-1), N>>))>>,
  <<Mapping(Of("$range", <<Zero, Size(A)>>), At(A, This)), A>>,
  <<Reduction(A, EmptyArray, Of("$concatArrays", <<Value, Array(<<This>>)>>)), A>>,
  <<Mapping(With("$zip", [inputs |-> Array(<<A, B>>)]), At(This, Number(1))),
    Of("$slice", <<B, Least(Size(A), Size(B))>>)>>,
  <<Size(With("$zip", [inputs |-> Array(<<A, B>>), useLongestLength |-> Bool(TRUE), defaults |-> Array(<<Zero, Zero>>)])),
    Greatest(Size(A), Size(B))>>,
  <<With("$filter", [input |-> A, cond |-> Of("$ne", <<This, Zero>>), limit |-> Number(1)]),
    Of("$slice", <<Filtering(A, Of("$ne", <<This, Zero>>)), Number(1)>>)>>,
  <<Of("$allElementsTrue", <<A>>), Not(Of("$anyElementTrue", <<Mapping(A, Not(This))>>))>>,
  <<Operation("$sum", A), Reduction(A, Zero, Of("$sum", <<Value, This>>))>>,
  <<Size(Of("$range", <<N, M, Number(2)>>)),
    Greatest(Zero, Of("$subtract", <<M, Of("$add", <<N, Of("$divide", <<
      Of("$subtract", <<Of("$subtract", <<M, N>>), Of("$mod", <<Of("$subtract", <<M, N>>), Number(2)>>)>>), Number(2)>>)>>)>>))>>,
  <<Of("$reverseArray", <<Of("$range", <<N, M>>)>>),
    Of("$range", <<Of("$subtract", <<M, Number(1)>>), Of("$subtract", <<N, Number(1)>>), Number(-1)>>)>>,
  <<Of("$arrayToObject", <<Pairs>>), D>>,
  <<Size(Filtering(Pairs, Of("$ne", <<Variable("this", <<"k">>), Name("b")>>))),
    Size(Of("$objectToArray", <<With("$unsetField", [field |-> Name("b"), input |-> D])>>))>>,
  <<With("$getField", [field |-> Name("b"), input |-> With("$setField", [field |-> Name("b"), input |-> D, value |-> A])]), A>>}

\* Sets and searches agree about what is in an array: where no array is in it,
\* since an array equals what it contains when it is on the left.
Found(x) == Of("$indexOfArray", <<A, x>>)
SetLaws == {
  <<Union(Without(A, B), Common(A, B)), SetOf(A)>>,
  <<Union(A, B), Union(B, A)>>,
  <<Common(A, B), Common(B, A)>>,
  <<Of("$add", <<Size(Union(A, B)), Size(Common(A, B))>>), Of("$add", <<Size(SetOf(A)), Size(SetOf(B))>>)>>,
  <<Of("$setIsSubset", <<A, B>>), Of("$eq", <<Without(A, B), EmptyArray>>)>>,
  <<Of("$setEquals", <<A, B>>), Of("$and", <<Of("$setIsSubset", <<A, B>>), Of("$setIsSubset", <<B, A>>)>>)>>,
  <<Of("$gte", <<Found(N), Zero>>), Of("$in", <<N, A>>)>>,
  <<If(Of("$in", <<N, A>>), At(A, Found(N)), N), N>>,
  <<Found(N), If(Of("$in", <<N, A>>), Of("$indexOfArray", <<A, N, Found(N), Of("$add", <<Found(N), Number(1)>>)>>), Number(-1))>>,
  <<SortedBy(A, -1), Of("$reverseArray", <<SortedBy(A, 1)>>)>>,
  <<SetOf(A), SetOf(SortedBy(A, -1))>>,
  <<Size(SortedBy(A, 1)), Size(A)>>,
  <<Operation("$min", A), At(Filtering(SortedBy(A, 1), Of("$ne", <<This, Null>>)), Zero)>>,
  <<Operation("$max", A), Of("$ifNull", <<At(SortedBy(A, 1), Number(-1)), Null>>)>>}

\* Conditions and arithmetic.
Remaining == Of("$mod", <<N, M>>)
ValueLaws == {
  <<Not(Of("$and", <<N, M, A>>)), Of("$or", <<Not(N), Not(M), Not(A)>>)>>,
  <<Of("$lt", <<N, M>>), Not(Of("$gte", <<N, M>>))>>,
  <<Of("$cmp", <<N, M>>), Of("$subtract", <<Zero, Of("$cmp", <<M, N>>)>>)>>,
  <<Of("$ne", <<A, B>>), Not(Of("$eq", <<A, B>>))>>,
  <<If(Of("$lt", <<N, M>>), A, B),
    With("$switch", [branches |-> Array(<<Document([case |-> Of("$gt", <<M, N>>), then |-> A])>>), default |-> B])>>,
  <<With("$cond", [if |-> N, then |-> A, else |-> B]), If(Not(N), B, A)>>,
  <<Of("$ifNull", <<FieldPath(<<"missing">>), At(A, N), M>>),
    With("$let", [vars |-> Document([e |-> At(A, N)]),
                  in |-> If(Of("$eq", <<Variable("e", <<>>), Null>>), M, Variable("e", <<>>))])>>,
  <<If(Of("$eq", <<M, Zero>>), N,
       Of("$add", <<Of("$multiply", <<Of("$divide", <<Of("$subtract", <<N, Remaining>>), M>>), M>>), Remaining>>)), N>>,
  <<If(Of("$eq", <<M, Zero>>), Zero, Of("$multiply", <<N, Remaining>>)),
    If(Of("$eq", <<M, Zero>>), Zero, Greatest(Zero, Of("$multiply", <<N, Remaining>>)))>>}

---------------------------------------------------------------------------
(***************************************************************************)
(* Dates: laws about a document with two dates t and u, a number n and a   *)
(* zone z, for one unit or one format.                                     *)
(***************************************************************************)

T == FieldPath(<<"t">>)
U == FieldPath(<<"u">>)
InZone(op, fields) == With(op, fields @@ [timezone |-> FieldPath(<<"z">>)])
Extracted(op, x) == InZone(op, [date |-> x])
Bin(x, unit, size) == InZone("$dateTrunc", [date |-> x, unit |-> Name(unit), binSize |-> Number(size)])
Start(x, unit) == InZone("$dateTrunc", [date |-> x, unit |-> Name(unit)])
Diff(x, y, unit) == InZone("$dateDiff", [startDate |-> x, endDate |-> y, unit |-> Name(unit)])
Plus(x, unit, n) == InZone("$dateAdd", [startDate |-> x, unit |-> Name(unit), amount |-> n])
Minus(x, unit, n) == InZone("$dateSubtract", [startDate |-> x, unit |-> Name(unit), amount |-> n])
PartsOf(x, iso) == InZone("$dateToParts", [date |-> x, iso8601 |-> Bool(iso)])
FromParts(x, iso, keys) ==
  With("$let", [vars |-> Document([p |-> PartsOf(x, iso)]),
                in |-> InZone("$dateFromParts", [k \in keys |-> Variable("p", <<k>>)])])
Writes(x, format) == InZone("$dateToString", [date |-> x, format |-> Format(format)])
ReadBack(x, format) == InZone("$dateFromString", [dateString |-> Writes(x, format), format |-> Format(format)])
Monday == InZone("$dateTrunc", [date |-> T, unit |-> Name("week"), startOfWeek |-> Name("mon")])

\* The bins of a unit are the same for $dateTrunc and $dateDiff.
BinLaws(unit) == {
  <<Diff(T, U, unit), Of("$subtract", <<Zero, Diff(U, T, unit)>>)>>,
  <<Of("$eq", <<Start(T, unit), Start(U, unit)>>), Of("$eq", <<Diff(T, U, unit), Zero>>)>>}

\* A bin begins at a date that is in it and not after any other.
StartLaws(unit) == {
  <<Start(Start(T, unit), unit), Start(T, unit)>>,
  <<Bin(Bin(T, unit, 5), unit, 5), Bin(T, unit, 5)>>,
  <<Diff(Start(T, unit), T, unit), Zero>>,
  <<Of("$lte", <<Bin(T, unit, 3), T>>), Bool(TRUE)>>,
  <<Of("$lt", <<T, Plus(Bin(T, unit, 3), unit, Number(3))>>), Bool(TRUE)>>}

\* What is added is the difference, and can be taken away.
ShiftLaws(unit) == {
  <<Diff(T, Plus(T, unit, N), unit), N>>,
  <<Minus(Plus(T, unit, N), unit, N), T>>,
  <<Plus(T, unit, Of("$subtract", <<Zero, N>>)), Minus(T, unit, N)>>}

\* A date is made of its parts, and read as it is written.
FormatLaws == {
  <<FromParts(T, FALSE, DOMAIN CalendarParts), T>>,
  <<FromParts(T, TRUE, DOMAIN IsoParts), T>>,
  <<ReadBack(T, <<"d", ".", "m", ".", "Y", " ", "H", ":", "M">>), T>>}

CalendarLaws == {
  <<ReadBack(T, <<"Y", "-", "m", "-", "d", " ", "H", "M", " ", "z">>), T>>,
  <<Extracted("$dayOfYear", T), Of("$add", <<Diff(Start(T, "year"), T, "day"), Number(1)>>)>>,
  <<Extracted("$week", T), Of("$add", <<Diff(Start(T, "year"), T, "week"),
      If(Of("$eq", <<Extracted("$dayOfWeek", Start(T, "year")), Number(1)>>), Number(1), Zero)>>)>>,
  <<FromParts(T, TRUE, {"isoWeekYear", "isoWeek"}), Monday>>,
  <<Extracted("$isoDayOfWeek", T), Of("$add", <<Diff(Monday, T, "day"), Number(1)>>)>>,
  <<With("$dateFromString", [dateString |-> With("$dateToString", [date |-> T])]), T>>}

\* A time that the clock of a zone shows twice is read as the first of them, and
\* a midnight that it does not show as the last hour of the day before.
TimeOf(document) == document.fields["t"].value
ZoneAt(document) == document.fields["z"].zone
ShownTwice(document) == Instant(Local(TimeOf(document), ZoneAt(document)), ZoneAt(document)) # TimeOf(document)
WithoutMidnight(document) ==
  LET day == LocalDay(TimeOf(document), ZoneAt(document)) IN LocalDay(Midnight(day, ZoneAt(document)), ZoneAt(document)) # day

\* The end of a month goes over to the next one when that is shorter.
EndsMonth(document) == MonthDay(LocalDay(TimeOf(document), ZoneAt(document))) > 28

---------------------------------------------------------------------------
(***************************************************************************)
(* Strings: laws about a document with two strings s and r, where r is not *)
(* empty, and a number n.                                                  *)
(***************************************************************************)

S == FieldPath(<<"s">>)
R == FieldPath(<<"r">>)
Concatenation(args) == Of("$concat", args)
Bytes(x) == Of("$strLenBytes", <<x>>)
Characters(x) == Of("$strLenCP", <<x>>)
Upper(x) == Of("$toUpper", <<x>>)
Lower(x) == Of("$toLower", <<x>>)
Count == Greatest(N, Zero)
All == Number(-1)
Pieces == Of("$split", <<S, R>>)
Lead == Chars(<<45, 195, 169>>)
Join(with) == Reduction(Pieces, Empty, Concatenation(<<Value, with, This>>))
Replacing(op) == With(op, [input |-> S, find |-> R, replacement |-> Lead])
Trimming(op, x) == With(op, [input |-> x, chars |-> R])
Place == Of("$indexOfBytes", <<S, R>>)

\* Those that count bytes.
ByteLaws == {
  <<Concatenation(<<Of("$substrBytes", <<S, Zero, Count>>), Of("$substr", <<S, Count, All>>)>>), S>>,
  <<Bytes(Of("$substrBytes", <<S, Count, Number(2)>>)),
    Greatest(Zero, Least(Number(2), Of("$subtract", <<Bytes(S), Count>>)))>>,
  <<Bytes(Concatenation(<<S, R>>)), Of("$add", <<Bytes(S), Bytes(R)>>)>>,
  <<Join(R), Concatenation(<<R, S>>)>>,
  <<Join(Lead), Concatenation(<<Lead, Replacing("$replaceAll")>>)>>,
  <<Replacing("$replaceOne"),
    If(Of("$lt", <<Place, Zero>>), S,
       Concatenation(<<Of("$substrBytes", <<S, Zero, Place>>), Lead,
                       Of("$substrBytes", <<S, Of("$add", <<Place, Bytes(R)>>), All>>)>>))>>,
  <<Of("$lt", <<Place, Zero>>), Of("$eq", <<Size(Pieces), Number(1)>>)>>,
  <<Of("$indexOfBytes", <<S, R, Count>>),
    If(Of("$lt", <<Of("$indexOfBytes", <<Of("$substrBytes", <<S, Count, All>>), R>>), Zero>>), Number(-1),
       Of("$add", <<Count, Of("$indexOfBytes", <<Of("$substrBytes", <<S, Count, All>>), R>>)>>))>>,
  <<Trimming("$trim", S), Trimming("$ltrim", Trimming("$rtrim", S))>>,
  <<Trimming("$trim", Concatenation(<<R, S, R>>)), Trimming("$trim", S)>>,
  <<Of("$strcasecmp", <<S, R>>), Of("$subtract", <<Zero, Of("$strcasecmp", <<R, S>>)>>)>>,
  <<Of("$eq", <<Of("$strcasecmp", <<S, R>>), Zero>>), Of("$eq", <<Upper(S), Upper(R)>>)>>,
  <<Upper(Lower(S)), Upper(S)>>}

\* Those that count characters agree with them.
CharacterLaws == {
  <<Concatenation(<<Of("$substrCP", <<S, Zero, Count>>), Of("$substrCP", <<S, Count, All>>)>>), S>>,
  <<Characters(Of("$substrCP", <<S, Zero, Count>>)), Least(Count, Characters(S))>>,
  <<Characters(Concatenation(<<S, R>>)), Of("$add", <<Characters(S), Characters(R)>>)>>,
  <<Of("$indexOfCP", <<S, R>>),
    If(Of("$lt", <<Place, Zero>>), Number(-1), Characters(Of("$substrBytes", <<S, Zero, Place>>)))>>,
  <<Bytes(Upper(S)), Bytes(S)>>,
  <<Size(Of("$split", <<With("$replaceAll", [input |-> S, find |-> Empty, replacement |-> Chars(<<0>>)]), Chars(<<0>>)>>)),
    Of("$add", <<Characters(S), Number(2)>>)>>}

\* A part by bytes that ends inside a character: what is stored is no UTF-8.
IsText(v) == \A rune \in Range(Runes(v.chars)) : ~IsInvalid(rune)

---------------------------------------------------------------------------
(***************************************************************************)
(* Conversions and rounding: laws about a document with a date t, a number *)
(* n, an ObjectID i and a string s.                                        *)
(***************************************************************************)

I == FieldPath(<<"i">>)
To(op, x) == Of(op, <<x>>)
Converting(x, to) == With("$convert", [input |-> x, to |-> to, onError |-> N, onNull |-> Name("null")])
Negative(x) == Of("$subtract", <<Zero, x>>)
Tens(op, x) == Of(op, <<x, Number(-1)>>)
Absolute(x) == Of("$abs", <<x>>)

ConversionLaws == {
  <<To("$toInt", To("$toString", N)), N>>,
  <<To("$toDate", To("$toLong", T)), T>>,
  <<To("$toDate", To("$toString", T)), T>>,
  <<To("$toString", T), With("$dateToString", [date |-> T])>>,
  <<To("$toObjectId", To("$toString", I)), I>>,
  <<To("$toBool", N), Not(Of("$eq", <<N, Zero>>))>>,
  <<Of("$ifNull", <<To("$toBool", S), Bool(FALSE)>>), Of("$ne", <<S, Null>>)>>,
  <<Converting(S, Name("int")), With("$convert", [input |-> S, to |-> Number(18), onError |-> N, onNull |-> Name("null")])>>,
  <<Converting(T, Name("int")), N>>,
  <<Of("$isNumber", <<Converting(FieldPath(<<"missing">>), Name("date"))>>), Bool(FALSE)>>}

RoundingLaws == {
  <<Tens("$trunc", N), Of("$subtract", <<N, Of("$mod", <<N, Number(10)>>)>>)>>,
  <<Tens("$round", Negative(N)), Negative(Tens("$round", N))>>,
  <<Tens("$trunc", Absolute(N)), Absolute(Tens("$trunc", N))>>,
  <<Of("$lte", <<Absolute(Of("$subtract", <<N, Tens("$round", N)>>)), Number(5)>>), Bool(TRUE)>>,
  <<Tens("$round", Tens("$round", N)), Tens("$round", N)>>,
  <<Of("$round", <<N>>), Of("$floor", <<Of("$ceil", <<N>>)>>)>>,
  <<Of("$pow", <<N, Number(3)>>), Of("$multiply", <<N, N, N>>)>>}

\* An array in an array: Compare is not symmetric.
IsFlat(document) == \A k \in DOMAIN document.fields : \A e \in Elements(document.fields[k]) : ~IsArray(e)

---------------------------------------------------------------------------
\* What an expression means: a variable has the value of the innermost
\* expression that binds it, and values are not evaluated.
Meaning(e, document) == Eval(e, Scope(document))

---------------------------------------------------------------------------
(***************************************************************************)
(* Where putting values in the place of variables is not binding them.     *)
(***************************************************************************)

RECURSIVE Parts(_)
Parts(e) == {e} \union IF IsDocument(e) THEN UNION {Parts(e.fields[k]) : k \in DOMAIN e.fields}
                       ELSE UNION {Parts(x) : x \in Elements(e)}
Uses(e, op) == {o \in Parts(e) : IsOperator(o) /\ OperatorOf(o) = op}

\* What is evaluated when it stands in the place of a variable.
IsEvaluated(v) == \E p \in Parts(v) : IsPath(p) \/ IsVariable(p) \/ IsOperator(p)

Binders(e) == UNION {Uses(e, op) : op \in {"$let", "$map", "$filter", "$reduce"}}
Bound(o) == LET spec == OperandOf(o).fields
            IN CASE OperatorOf(o) = "$let" -> DOMAIN spec["vars"].fields
                 [] OperatorOf(o) = "$reduce" -> {"this", "value"}
                 [] OTHER -> {VariableOf(spec)}
Body(o) == OperandOf(o).fields[IF OperatorOf(o) = "$filter" THEN "cond" ELSE "in"]

\* A string that begins with a dollar sign, or an operator, in the document or
\* in a literal: it is evaluated when a variable has it for a value, and by
\* $type.
ReadsExpression(e, document) ==
  /\ Binders(e) \union Uses(e, "$type") # {}
  /\ IsEvaluated(document) \/ \E l \in Uses(e, "$literal") : IsEvaluated(OperandOf(l))

\* A name that is bound again inside: the outer value takes the inner place.
Captures(e) == \E o \in Binders(e) : \E i \in Binders(Body(o)) : Bound(o) \intersect Bound(i) # {}

\* A variable that is the whole operand: when it is an array, that is taken for
\* the list of the arguments.  $sum adds the elements of an array that a path or
\* a variable leads to, and a value in its place is neither.
SpreadsValue(e) ==
  \E o \in Parts(e) : /\ IsOperator(o)
                      /\ IsVariable(OperandOf(o)) \/ (OperatorOf(o) = "$sum" /\ Len(Arguments(o)) = 1 /\ IsVariable(Arguments(o)[1]))

\* A literal array of one element is that element.
UnwrapsLiteral(e) == \E l \in Uses(e, "$literal") : IsArray(OperandOf(l)) /\ Len(OperandOf(l).elems) = 1

BindingGap(e, document) == ReadsExpression(e, document) \/ Captures(e) \/ SpreadsValue(e) \/ UnwrapsLiteral(e)

---------------------------------------------------------------------------
(***************************************************************************)
(* What a projection selects, by all of its paths at once.                 *)
(***************************************************************************)

Tails(paths, key) == {Tail(p) : p \in {q \in paths : Head(q) = key}}

\* The fields on the paths; on the way to them an array keeps its documents and
\* nothing else.
RECURSIVE Selected(_, _), Removed(_, _)
Selected(value, paths) ==
  IF IsArray(value) THEN LET docs == DocumentsOf(value) IN Array([n \in DOMAIN docs |-> Selected(docs[n], paths)])
  ELSE LET keys == {k \in DOMAIN value.fields : \/ <<>> \in Tails(paths, k)
                                               \/ /\ Tails(paths, k) # {}
                                                  /\ value.fields[k].type \in {"document", "array"}}
       IN Document([k \in keys |-> IF <<>> \in Tails(paths, k) THEN value.fields[k]
                                   ELSE Selected(value.fields[k], Tails(paths, k))])

\* All but the fields on the paths.
Removed(value, paths) ==
  CASE IsDocument(value) ->
         Document([k \in {k \in DOMAIN value.fields : <<>> \notin Tails(paths, k)} |->
                     IF Tails(paths, k) = {} THEN value.fields[k] ELSE Removed(value.fields[k], Tails(paths, k))])
    [] IsArray(value) ->
         Array([n \in DOMAIN value.elems |-> IF IsDocument(value.elems[n]) THEN Removed(value.elems[n], paths)
                                             ELSE value.elems[n]])
    [] OTHER -> value

\* A path that leads through another: their order decides.  An expression that
\* needs its fields is refused, because it is tried on a document without them.
\* A document without _id ends the connection.
Overlaps(projection) ==
  \E m, n \in DOMAIN projection : m # n /\ IsPrefix(projection[m].path, projection[n].path)
NeedsFields(projection) == \E f \in Range(projection) : "expr" \in DOMAIN f /\ ~FieldIsValid(f)

SelectionGap(document, projection) ==
  Overlaps(projection) \/ NeedsFields(projection) \/ "_id" \notin DOMAIN document.fields

Modes(projection) ==
  {Includes(f) : f \in {g \in Range(projection) : ~IsNeutral(g) /\ (IsId(g) => Len(projection) = 1)}}
IsRefused(projection) ==
  \/ Modes(projection) = BOOLEAN
  \/ \E f \in Range(projection) : "slice" \in DOMAIN f /\ ~SliceIsValid(f.slice)

Keeps(projection) == {f \in Range(projection) : "keep" \in DOMAIN f /\ ~IsId(f)}
Makes(projection) == {f \in Range(projection) : "keep" \notin DOMAIN f /\ ~IsId(f)}

\* What is made of a field: the part of an array, its first element that matches,
\* or a value.
MadeOf(field, document) ==
  LET value == GetByPath(document, field.path)
  IN CASE "literal" \in DOMAIN field -> field.literal
       [] "expr" \in DOMAIN field -> Meaning(field.expr, document)
       [] "slice" \in DOMAIN field -> IF IsArray(value) THEN SliceArray(value, field.slice) ELSE value
       [] OTHER -> LET n == {n \in DOMAIN DocumentsOf(value) : FilterDocument(DocumentsOf(value)[n], field.elemMatch)}
                   IN IF ~IsArray(value) \/ n = {} THEN Absent ELSE Array(<<DocumentsOf(value)[Min(n)]>>)

Selects(document, projection, result) ==
  LET made    == {Head(f.path) : f \in Makes(projection)}
      paths   == {f.path : f \in Keeps(projection)}
      source  == Document(Drop(document.fields, "_id"))
      rest    == IF Modes(projection) = {TRUE} THEN Selected(source, paths) ELSE Removed(source, paths)
      Others(d) == [k \in DOMAIN d.fields \ (made \union {"_id"}) |-> d.fields[k]]
  IN /\ Others(result) = Others(rest)
     /\ \A f \in Makes(projection) : GetByPath(result, f.path) = MadeOf(f, document)
     /\ ("_id" \in DOMAIN result.fields) = ~\E f \in Range(projection) : IsId(f) /\ ~Includes(f)
============================================================================
