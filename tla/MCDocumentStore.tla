-------------------------- MODULE MCDocumentStore --------------------------
EXTENDS StoreLaws

\* The operators that the others use within a part.  They begin with LET, since
\* TLC's statistics follow every other operator that a constant stands for, and
\* these would lead them round.
MCEquals(a, b) == LET outcome == Equals(a, b) IN outcome
MCPrecedes(a, b) == LET outcome == Precedes(a, b) IN outcome
MCMatches(document, filter) == LET outcome == FilterDocument(document, filter) IN outcome
MCHolds(found, operators) == LET outcome == FieldMatches(found, operators) IN outcome
MCWhere(filter) == LET clause == WhereClause(filter) IN clause
MCBranches(filter) == LET filters == Nested(filter) IN filters
MCStages(list, stages, from) == LET result == ProcessStages(list, stages, from) IN result

X == Scalar("string", 1)
Y == Scalar("string", 2)
True == Scalar("bool", 1)
Two == Number(2)

On(key, ops) == [path |-> <<key>>, ops |-> ops]
At(key, inner, ops) == [path |-> <<key, inner>>, ops |-> ops]
Branches(logic, filters) == [logic |-> logic, branches |-> filters]

MCFields ==
  {<<>>} \union {[a |-> v] : v \in {X, Null, True, Number(1), Document([b |-> X]), EmptyArray, Array(<<X>>),
     Array(<<Null, Number(1)>>), Array(<<Number(1)>>), Array(<<Array(<<X>>)>>),
     Array(<<Document([b |-> X])>>), Array(<<Document([b |-> Null])>>)}}
  \union {[a |-> Two, b |-> X]}

Request(list, ordered) == [docs |-> list, ordered |-> ordered]

\* Any document, and several at once: a second one, duplicates and one that is
\* not valid.
MCInserts ==
  {Request(<<<<1, f>>>>, TRUE) : f \in MCFields} \union
  {Request(d, o) : o \in BOOLEAN, d \in {
     <<<<1, [a |-> Null]>>, <<1, [a |-> X]>>, <<2, [a |-> X]>>>>,
     <<<<1, [a |-> X]>>, <<2, <<>> >>, <<2, [a |-> X]>>>>,
     <<<<1, [a |-> Null]>>, <<2, ("$gte" :> X)>>, <<2, [a |-> X]>>, <<1, [a |-> X]>>>>}}

\* A value, or null, is what a selector of the migrations looks for.
MCFilters == {
  {},
  {On("_id", [is |-> Scalar("objectid", 1)])},
  {On("a", [is |-> X])},
  {On("a", [is |-> True])},
  {On("a", [is |-> Null])},
  {On("a", [is |-> Document([b |-> X])])},
  {On("a", [eq |-> Array(<<X>>)])},
  {On("a", [in |-> {X, Y}])},
  {On("a", [in |-> {X, Null}])},
  {On("a", [in |-> {}])},
  {On("a", [in |-> {X, Number(1)}])},
  {On("a", [nin |-> {X, Null}, exists |-> TRUE])},
  {On("a", [exists |-> FALSE])},
  {On("a", [not |-> [gt |-> Number(0)]])},
  {On("a", [gt |-> Number(1)])},
  {On("a", [lt |-> Two])},
  {On("a", [gte |-> Number(1), lte |-> Two])},
  {On("a", [size |-> 1])},
  {On("a", [mod |-> <<2, 0>>])},
  {On("a", [all |-> {X}])},
  {On("a", [ne |-> X]), On("b", [exists |-> FALSE])},
  {On("a", [elemMatch |-> {On("b", [is |-> X])}])},
  {On("a", [elemMatch |-> {On("b", [in |-> {X, Null}])}])},
  {On("a", [elemMatchOperators |-> [gt |-> Number(0), lte |-> Two]])},
  {On("a", [type |-> "number"]), Branches("nor", {{On("a", [gte |-> Two])}})},
  {On("a", [type |-> "number"]), Branches("nor", {{On("a", [gte |-> Number(0), lte |-> Number(1)])}})},
  {At("a", "b", [is |-> X])},
  {At("a", "0", [is |-> X])},
  {At("a", "b", [in |-> {X, Null}])},
  {Branches("or", {{On("a", [is |-> X])}, {On("b", [is |-> X])}})},
  {Branches("or", {{On("a", [is |-> Two]), On("b", [is |-> X])}, {On("a", [is |-> X])}})},
  {Branches("or", {{At("a", "b", [is |-> X])}, {On("a", [is |-> True])}})},
  {Branches("and", {{At("a", "b", [is |-> X])}, {On("b", [exists |-> FALSE])}})},
  {Branches("nor", {{On("a", [is |-> X])}, {On("b", [is |-> X])}})}}

\* The filters inside a filter.
InsideOf(f) == UNION {IF IsLogical(c) THEN c.branches ELSE IF "elemMatch" \in DOMAIN c.ops THEN {c.ops.elemMatch} ELSE {} : c \in f}
RECURSIVE LevelOf(_)
LevelOf(f) == IF InsideOf(f) = {} THEN 0 ELSE 1 + Max({LevelOf(b) : b \in InsideOf(f)})

Op(op, key, arg) == [op |-> op, key |-> key, arg |-> arg]

MCChanges == {
  <<Op("set", "a", X), Op("unset", "b", 0)>>,
  <<Op("inc", "a", 1), Op("setOnInsert", "b", X)>>,
  <<Op("mul", "a", 0)>>,
  <<Op("set", "b", X)>>,
  <<Op("max", "a", Number(1)), Op("rename", "b", "c")>>,
  <<Op("min", "a", Two)>>,
  <<Op("push", "a", [each |-> <<>>])>>,
  <<Op("push", "a", [each |-> <<X>>, position |-> 0, slice |-> -1])>>,
  <<Op("addToSet", "a", <<X>>)>>,
  <<Op("pop", "a", 1), Op("set", "b", X)>>,
  <<Op("pullAll", "a", <<X, Null>>)>>,
  <<Op("pull", "a", {On("b", [is |-> X])})>>}

\* The filters that updates use: equalities, which an upsert copies, and others.
MCSelectors == {
  {},
  {On("_id", [is |-> Scalar("objectid", 1)])},
  {On("a", [eq |-> X])},
  {On("a", [is |-> X])},
  {On("a", [is |-> Document([b |-> X])])},
  {On("a", [in |-> {X, Null}])},
  {On("a", [gte |-> Number(1), lte |-> Two])},
  {At("a", "b", [is |-> X]), On("c", [exists |-> FALSE])},
  {At("a", "b", [is |-> X])},
  {At("a", "b", [is |-> X]), On("b", [eq |-> X])},
  {Branches("or", {{On("a", [is |-> X])}, {On("b", [is |-> X])}})}}

MCRequests ==
  {[filter |-> f, change |-> c, multi |-> m, upsert |-> m] : f \in MCSelectors, c \in MCChanges, m \in BOOLEAN}

\* What the inserts and updates can store of a document, and the parts of that.
MCElements == {X, Null, Number(1), Document([b |-> X]), Document([b |-> Null]), Array(<<X>>)}
MCParts == MCElements \union {Y, True} \union {Number(n) : n \in 0 .. 2} \union {Scalar("objectid", i) : i \in Ids}
             \union {Array(s) : s \in {<<>>} \union {<<e>> : e \in MCElements} \union MCElements \X MCElements}
MCContents ==
  LET Maybe(key, values) == {<<>>} \union {key :> v : v \in values}
  IN {("_id" :> Scalar("objectid", i)) @@ a @@ b @@ c :
        i \in Ids, a \in Maybe("a", MCParts), b \in Maybe("b", {X}), c \in Maybe("c", {X})}
MCStorable == [type : {"document"}, fields : MCContents]
MCBson == MCParts \union MCStorable

RECURSIVE DepthOf(_)
DepthOf(v) == IF IsArray(v) THEN 1 + Max({0} \union {DepthOf(e) : e \in Elements(v)})
              ELSE IF IsDocument(v) THEN 1 + Max({0} \union {DepthOf(v.fields[k]) : k \in DOMAIN v.fields})
              ELSE 0
MCDepths == [v \in MCBson |-> DepthOf(v)]

By(key, ascending) == <<[key |-> key, ascending |-> ascending]>>
MCWindows == {
  [sort |-> <<>>, skip |-> 0, limit |-> 0],
  [sort |-> <<>>, skip |-> 0, limit |-> 1],
  [sort |-> By("a", TRUE), skip |-> 0, limit |-> 1],
  [sort |-> By("a", FALSE), skip |-> 1, limit |-> 1],
  [sort |-> By("b", TRUE) \o By("a", FALSE), skip |-> 0, limit |-> 0]}

Match(filter) == [stage |-> "match", filter |-> filter]
Sort(sort) == [stage |-> "sort", sort |-> sort]
LimitTo(n) == [stage |-> "limit", n |-> n]
SkipOver(n) == [stage |-> "skip", n |-> n]
Unwinding(key) == [stage |-> "unwind", key |-> key]
Union(stages) == [stage |-> "unionWith", pipeline |-> stages]
Grouped(by, output) == [stage |-> "group", by |-> by, output |-> output]
Sorting(by) == [stage |-> "sortByCount", by |-> by]
Bucketed(default) == [stage |-> "bucket", by |-> Field("a"), boundaries |-> <<Null, Number(1), Two, X, Array(<<X>>)>>,
                      default |-> default, output |-> Counting]
Buckets(n) == [stage |-> "bucketAuto", by |-> Field("a"), buckets |-> n, output |-> Counting]
Ranked(partition, output) == [stage |-> "setWindowFields", partitionBy |-> partition, sort |-> By("a", TRUE), output |-> output]
Out(field, op, of) == [field |-> field, op |-> op, of |-> of]
Running(field, op, of) == [field |-> field, op |-> op, of |-> of, to |-> 0]
Over(field, op, of, from, to) == [field |-> field, op |-> op, of |-> of, from |-> from, to |-> to]
Joining(as) == [stage |-> "lookup", localField |-> "a", foreignField |-> "a", as |-> as]

MCAggregations == {
  \* what can be pushed, and what looks like it
  <<Match({On("a", [in |-> {X, Null}])}), Sort(By("a", TRUE)), LimitTo(1)>>,
  <<Sort(By("a", FALSE)), Match({On("a", [is |-> X])}), [stage |-> "count", key |-> "count"]>>,
  <<LimitTo(1), Match({On("a", [is |-> X])})>>,
  <<Unwinding("a"), Match({On("a", [is |-> X])}), Sorting(Field("a"))>>,
  <<[stage |-> "replaceRoot", newRoot |-> Field("a")], Match({On("b", [is |-> X])})>>,
  <<[stage |-> "unset", key |-> "_id"], Unwinding("a"), SkipOver(1)>>,
  <<Union(<<Match({On("a", [is |-> X])})>>), Sorting(Field("a"))>>,
  <<Match({At("a", "b", [is |-> X])}), Joining("c"), Unwinding("c"), Grouped(Field("c"), Counting)>>,
  \* groups and buckets, over the collection twice or three times
  <<Union(<<>>), Grouped(Field("a"), Counting \o <<Out("all", "push", Field("_id"))>>)>>,
  <<Unwinding("a"), Grouped(Constant(Null), <<Out("a", "max", Field("a")), Out("b", "first", Field("b"))>>)>>,
  <<Grouped(Field("b"), <<Out("a", "min", Field("a"))>>)>>,
  <<Grouped(Field("b"), <<Out("a", "addToSet", Field("a"))>>)>>,
  <<Union(<<>>), Bucketed(Scalar("string", 9))>>,
  <<Match({On("a", [gte |-> Number(0)])}), Bucketed(Absent)>>,
  <<Union(<<>>), Union(<<Unwinding("a")>>), Buckets(2)>>,
  <<Unwinding("a"), Union(<<>>), Buckets(3)>>,
  <<[stage |-> "facet", pipelines |-> [x |-> <<Buckets(1)>>, y |-> <<Unwinding("a"), Joining("c")>>]],
    [stage |-> "unset", key |-> "x"]>>,
  \* windows
  <<Union(<<>>), Ranked(Field("b"), <<[field |-> "r", op |-> "rank"], [field |-> "n", op |-> "documentNumber"]>>)>>,
  <<Union(<<>>), Ranked(Constant(Null), <<[field |-> "r", op |-> "rank"], [field |-> "d", op |-> "denseRank"]>>)>>,
  <<Union(<<Unwinding("a")>>), Ranked(Constant(Null), <<Running("t", "sum", Field("a")),
     Over("m", "min", Field("a"), -1, 1), [field |-> "s", op |-> "shift", of |-> Field("_id"), by |-> -1]>>)>>,
  <<Union(<<>>), Ranked(Constant(Null), <<Running("a", "sum", Field("a"))>>)>>}

\* All filters, with those that are pushed for a pipeline and those inside.
MCAllFilters ==
  LET filters == MCFilters \union MCSelectors \union {PushdownMatch(stages) : stages \in MCAggregations}
  IN filters \union UNION {InsideOf(f) : f \in filters}
MCLevels == [f \in MCAllFilters |-> LevelOf(f)]

\* The documents of the laws: arrays with equal elements, null and an array, and
\* numbers that are beyond the ends.
MCArrays == {EmptyArray, Array(<<Two>>), Array(<<Number(0), Two, Number(0)>>), Array(<<Two, Number(1)>>),
             Array(<<Null, X, Two>>), Array(<<Document([b |-> X]), Number(1), True>>), Array(<<Array(<<Two>>), Two>>)}
MCPairs == {<<0, 3>>, <<2, 2>>, <<-2, 1>>, <<1, 0>>, <<-3, -2>>, <<7, -3>>}
MCInners == {Document(<<>>), Document([b |-> X, c |-> EmptyArray])}

MCDocuments ==
  {Document([a |-> a, b |-> b, n |-> Number(p[1]), m |-> Number(p[2]), d |-> d]) :
     a \in MCArrays, b \in MCArrays, p \in MCPairs, d \in MCInners}
\* $set stores what is no operator as it is, so the sides of a law are in one.
Computing(e) == E!If(True, e, Null)
Sides(law) == <<<<"left", Computing(law[1])>>, <<"right", Computing(law[2])>>>>

\* Variables, in expressions that bind them one inside the other.
Named(name) == E!Variable(name, <<>>)
As(op, name, input, body) ==
  E!With(op, [input |-> input, as |-> E!Name(name)] @@ (IF op = "$filter" THEN [cond |-> body] ELSE [in |-> body]))
Letting(names, in) == E!With("$let", [vars |-> Document(names), in |-> in])

MCScopes == {
  E!Mapping(E!A, E!This),
  E!Mapping(E!A, E!Variable("this", <<"b">>)),
  E!Mapping(E!A, E!Of("$size", <<E!This>>)),
  E!Mapping(E!A, E!Of("$isArray", <<E!This>>)),
  E!Mapping(E!A, E!Operation("$isArray", E!This)),
  E!Mapping(E!A, E!Of("$type", <<E!This>>)),
  E!Mapping(E!A, E!Of("$sum", <<E!This>>)),
  E!Mapping(E!A, E!Of("$ifNull", <<E!Variable("this", <<"b">>), E!This>>)),
  E!Mapping(E!A, Document([p |-> E!This, q |-> E!N])),
  As("$map", "x", E!A, E!Filtering(E!B, E!Of("$eq", <<E!This, Named("x")>>))),
  As("$map", "x", E!A, As("$map", "y", E!B, Array(<<Named("x"), Named("y"), E!Variable("y", <<"b">>)>>))),
  As("$map", "x", E!A, As("$map", "x", E!B, Named("x"))),
  E!Mapping(E!A, E!Mapping(E!B, E!This)),
  As("$filter", "x", E!A, E!Of("$in", <<Named("x"), E!B>>)),
  E!Reduction(E!A, EmptyArray, E!Of("$concatArrays", <<Array(<<E!This>>), E!Value>>)),
  E!Reduction(E!A, E!N, E!Of("$max", <<E!Value, E!This>>)),
  As("$map", "x", E!A, E!Reduction(E!B, Named("x"), E!Of("$ifNull", <<E!This, E!Value>>))),
  Letting([x |-> E!At(E!A, Number(0)), y |-> E!N], Array(<<Named("y"), Named("x"), Named("z")>>)),
  Letting([x |-> E!D, y |-> E!A],
    Array(<<Named("x"), E!Variable("x", <<"c">>), E!Variable("y", <<"b">>), Named("y")>>)),
  Letting([x |-> E!D], Letting([y |-> E!Variable("x", <<"b">>)], Array(<<Named("x"), Named("y")>>))),
  Letting([x |-> E!N], Letting([x |-> E!A], Named("x"))),
  Letting([x |-> E!Operation("$literal", E!N)], Array(<<Named("x")>>)),
  Letting([x |-> E!N], E!Operation("$literal", Named("x"))),
  E!Operation("$literal", Named("x")),
  E!Operation("$literal", Array(<<E!N, Named("x")>>)),
  E!Operation("$literal", Array(<<E!N>>)),
  E!Of("$type", <<E!At(E!A, Number(0))>>)}

\* Stored values that look like expressions.
MCStored == {Document([a |-> Array(<<v, Null>>), b |-> b, n |-> Number(1), m |-> Two, d |-> Document([b |-> v])]) :
               b \in MCArrays, v \in {E!N, E!A, E!Operation("$size", E!B), Array(<<Document([b |-> Two]), Document(<<>>)>>)}}
\* Dates: the ends of months and years, a leap day, weeks of two years, and the
\* changes of time of three zones, one of them at midnight.
At0(y, m, d, hour, minute) == E!DayNumber(y, m, d) * 1440 + hour * 60 + minute
MCFixedZones == {E!UTC, E!Zone(330, 0, 330), E!Zone(-480, 0, -480)}
MCChangingZones == {E!Zone(60, At0(2021, 3, 28, 1, 0), 120), E!Zone(120, At0(2021, 10, 31, 1, 0), 60),
                    E!Zone(-180, At0(2018, 11, 4, 3, 0), -120)}
MCDates == {At0(1969, 12, 31, 23, 59), At0(2000, 1, 1, 0, 0), At0(2016, 1, 3, 7, 30), At0(2020, 2, 29, 12, 0),
            At0(2021, 1, 1, 0, 15), At0(1999, 11, 30, 23, 0)}
MCShifts == {At0(2021, 3, 27, 22, 30), At0(2021, 3, 28, 1, 30), At0(2021, 10, 31, 0, 30), At0(2021, 10, 31, 1, 30), At0(2018, 11, 4, 4, 30),
              At0(2018, 11, 3, 3, 30)}
Moments(dates, others, zones, ns) ==
  {Document([t |-> E!Date(t), u |-> E!Date(u), n |-> Number(n), z |-> z]) : t \in dates, u \in others, z \in zones, n \in ns}
MCUnits == {"year", "quarter", "month", "week", "day", "hour", "minute"}
MCFixed == Moments(MCDates, {0}, MCFixedZones, {1, -3})
MCShifted == Moments(MCShifts, {0}, MCChangingZones, {1})
MCPairsOfDates == Moments(MCDates, MCDates, MCFixedZones, {0}) \union Moments(MCShifts, MCShifts, MCChangingZones, {0})

\* Strings: letters of both cases and widths, blanks, one string in the other,
\* and one that ends inside a character.
MCStrings == {<<>>, <<97, 98, 97, 98, 97>>, <<195, 169, 97, 195, 137>>, <<32, 66, 32, 98, 32>>, <<97, 195>>, <<65, 98, 195, 169, 98>>}
MCSearched == {<<97>>, <<97, 98, 97>>, <<195, 169>>, <<98, 32>>, <<65, 66, 65, 66, 65>>}
MCTexts == {Document([s |-> E!Chars(s), r |-> E!Chars(r), n |-> Number(n)]) : s \in MCStrings, r \in MCSearched, n \in {-1, 0, 1, 2, 7}}
MCValues == {Document([t |-> E!Date(t), n |-> Number(n), i |-> Scalar("objectid", i), s |-> s, z |-> E!Zone(60, 0, 60)]) :
               t \in {0, -1, 1500}, n \in {0, 4, 5, -15, 995, -1234}, i \in {0, At0(2020, 12, 31, 23, 30)},
               s \in {E!Chars(<<49, 50>>), E!Chars(<<45, 48>>), E!Chars(<<43, 55>>), E!Chars(<<>>), E!Chars(<<49, 97>>), Number(3), E!Bool(TRUE), Null}}

MCComputations == {
  [documents |-> MCDocuments, stages |-> {Sides(law) : law \in E!PartLaws \union E!ValueLaws}],
  [documents |-> {d \in MCDocuments : E!IsFlat(d)}, stages |-> {Sides(law) : law \in E!SetLaws}],
  [documents |-> MCPairsOfDates, stages |-> {Sides(law) : law \in UNION {E!BinLaws(u) : u \in MCUnits}}],
  [documents |-> MCFixed, stages |-> {Sides(law) : law \in E!FormatLaws \union UNION {E!StartLaws(u) : u \in MCUnits}}],
  [documents |-> {d \in MCFixed : ~E!EndsMonth(d)}, stages |-> {Sides(law) : law \in UNION {E!ShiftLaws(u) : u \in MCUnits}}],
  [documents |-> MCFixed \union MCShifted, stages |-> {Sides(law) : law \in E!CalendarLaws}],
  [documents |-> {d \in MCShifted : ~E!ShownTwice(d) /\ ~E!WithoutMidnight(d)}, stages |-> {Sides(law) : law \in E!FormatLaws}],
  [documents |-> {d \in MCShifted : ~E!ShownTwice(d) /\ ~E!WithoutMidnight(d)},
   stages |-> {Sides(law) : law \in UNION {E!StartLaws(u) : u \in MCUnits \ {"hour"}}}],
  [documents |-> MCTexts, stages |-> {Sides(law) : law \in E!ByteLaws}],
  [documents |-> {d \in MCTexts : E!IsText(d.fields["s"])}, stages |-> {Sides(law) : law \in E!CharacterLaws}],
  [documents |-> MCValues, stages |-> {Sides(law) : law \in E!ConversionLaws \union E!RoundingLaws}],
  [documents |-> MCStored \union {d \in MCDocuments : d.fields["n"] = Two}, stages |-> {<<<<"v", e>>>> : e \in MCScopes}]}

\* Projections.
Keep(keep, path) == [path |-> path, keep |-> keep]
Making(key, kind, what) == [path |-> <<key>>] @@ (kind :> what)

MCNested == {X, Document([b |-> X, c |-> Two]), Document([c |-> Document([d |-> X])]), Array(<<X>>),
             Array(<<Document([b |-> X, c |-> Two]), Document([c |-> Two])>>),
             Array(<<X, Document([b |-> Document([d |-> X, e |-> Two]), c |-> EmptyArray]), Array(<<Two>>)>>),
             Array(<<Document([b |-> Array(<<Document([d |-> X])>>)]), Document([b |-> X, c |-> X]), Two>>)}
MCWholes == {Document([i |-> X] @@ [a |-> a]) : a \in MCNested} \union {Document(("_id" :> Two) @@ [a |-> a, b |-> X, n |-> Two]) : a \in MCNested}

MCPaths == {<<"_id">>, <<"a">>, <<"b">>, <<"a", "b">>, <<"a", "c">>, <<"a", "b", "d">>, <<"a", "c", "d">>, <<"x", "y">>}
MCMade == {Making("a", "slice", <<1>>), Making("a", "slice", <<-1>>), Making("a", "slice", <<1, 1>>),
           Making("a", "slice", <<-9, 2>>), Making("a", "slice", <<0, 0>>), Making("b", "slice", <<2>>),
           Making("a", "elemMatch", {On("c", [is |-> Two])}), Making("b", "elemMatch", {}),
           Making("b", "literal", Null), Making("_id", "literal", X),
           Making("n", "expr", E!Operation("$isArray", E!A)), Making("c", "expr", E!Of("$range", <<E!Zero, E!N>>)),
           Making("c", "expr", E!Of("$add", <<E!N, E!N>>))}

MCSelections == {
  [documents |-> MCWholes,
   stages |-> LET fields == {Keep(k, p) : k \in BOOLEAN, p \in MCPaths} \union MCMade
              IN {<<>>} \union {<<f>> : f \in fields}
                   \union {s \in fields \X fields : s[1].path # s[2].path}
                   \union {<<Keep(k, <<"a", "b">>), f, Keep(k, <<"a", "c">>)>> : k \in BOOLEAN, f \in fields}]}
==============================================================================
