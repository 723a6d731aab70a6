----------------------------- MODULE Pipelines -----------------------------
(***************************************************************************)
(* The stages of an aggregation pipeline, each a function from the         *)
(* documents of the stage before it to those of the next, and the sorting  *)
(* that find shares with them.                                             *)
(*                                                                         *)
(* A stage is a record that is named by "stage".  An expression is the     *)
(* name of a field, without dots, or a constant.  The stages that project  *)
(* ($project, $addFields and $set) are in Projections.  Left out are       *)
(* $sample, $collStats, averages and standard deviations, and the numbers  *)
(* of 2^32 and above that $skip and $limit take modulo 2^32.               *)
(***************************************************************************)
EXTENDS Updates, FiniteSets

CONSTANT StagesWithin(_, _, _) \* ProcessStages of a nested pipeline

Field(key) == [field |-> key]
Constant(value) == [constant |-> value]

Evaluate(expression, document) ==
  IF "constant" \in DOMAIN expression THEN expression.constant
  ELSE IF expression.field \in DOMAIN document.fields THEN document.fields[expression.field]
  ELSE Absent

OrNull(value) == IF value = Absent THEN Null ELSE value
Values(expression, docs) ==
  SelectSeq([n \in DOMAIN docs |-> Evaluate(expression, docs[n])], LAMBDA v : v # Absent)

\* What a stage returns.  A stage fails with an error, or with a panic that
\* ends the connection.
Result(docs) == [docs |-> docs, failed |-> FALSE]
Failure == [docs |-> <<>>, failed |-> TRUE]

---------------------------------------------------------------------------
\* Accumulators.

SumNumbers(values) == FoldLeft(LAMBDA n, v : IF v.type = "number" THEN n + v.value ELSE n, 0, values)
\* The least value, or the greatest.
Extreme(values, least) == FoldLeft(LAMBDA m, v : IF Leads(v, m, least) THEN v ELSE m, Head(values), values)
Distinct(values) ==
  FoldLeft(LAMBDA s, v : IF \E e \in Range(s) : Equals(e, v) THEN s ELSE Append(s, v), <<>>, values)

Sum(expression, docs) == Number(SumNumbers(Values(expression, docs)))
FirstLast(expression, docs, last) ==
  IF docs = <<>> THEN Null ELSE OrNull(Evaluate(expression, IF last THEN Last(docs) ELSE Head(docs)))
MinMax(expression, docs, min) ==
  LET values == Values(expression, docs) IN IF values = <<>> THEN Null ELSE Extreme(values, min)
Push(expression, docs, set) ==
  LET values == Values(expression, docs) IN Array(IF set THEN Distinct(values) ELSE values)

Accumulate(operator, expression, docs) ==
  CASE operator = "count" -> Number(Len(docs))
    [] operator = "sum"   -> Sum(expression, docs)
    [] operator \in {"first", "last"} -> FirstLast(expression, docs, operator = "last")
    [] operator \in {"min", "max"} -> MinMax(expression, docs, operator = "min")
    [] operator \in {"push", "addToSet"} -> Push(expression, docs, operator = "addToSet")

---------------------------------------------------------------------------
\* Sorting.  Up to twelve elements are sorted by insertion, from the right.

Inserted(sorted, x, Less(_, _)) ==
  InsertAt(sorted, 1 + Max({0} \union {j \in DOMAIN sorted : ~Less(x, sorted[j])}), x)

InsertionSort(seq, Less(_, _)) ==
  LET upTo[n \in 0 .. Len(seq)] == IF n = 0 THEN <<>> ELSE Inserted(upTo[n - 1], seq[n], Less)
  IN upTo[Len(seq)]

\* An array sorts by its least element, or its greatest in descending order.
SortValue(value, ascending) ==
  IF Elements(value) = {} THEN value ELSE Extreme(value.elems, ascending)

CompareOrderForSort(a, b, ascending) ==
  LET value == [v \in {a, b} |-> SortValue(v, ascending)]
  IN IF EmptyArray \in {a, b} THEN a # b /\ ((a = EmptyArray) = ascending)
     ELSE Leads(value[a], value[b], ascending)

\* A sort is a sequence of keys: [key, ascending].
SortKey(document, key) == OrNull(Evaluate(Field(key.key), document))
KeyBefore(p, q, key) == CompareOrderForSort(SortKey(p, key), SortKey(q, key), key.ascending)
DocumentBefore(p, q, sort) ==
  \E n \in DOMAIN sort :
    KeyBefore(p, q, sort[n]) /\ \A m \in 1 .. n - 1 : ~KeyBefore(p, q, sort[m]) /\ ~KeyBefore(q, p, sort[m])

SortDocuments(docs, sort) == InsertionSort(docs, LAMBDA p, q : DocumentBefore(p, q, sort))

Sorted(docs, sort) == \A m, n \in DOMAIN docs : m < n => ~DocumentBefore(docs[n], docs[m], sort)

\* SortLimitIterator keeps the first documents of a sort in a heap, of which one
\* of the greatest makes room for a lesser one; these are all its results.  A
\* heap has the positions of its documents.
GreatestOf(docs, heap, sort) == {x \in heap : \A y \in heap : ~DocumentBefore(docs[x], docs[y], sort)}
KeepBest(docs, heap, n, sort, keep) ==
  IF Cardinality(heap) < keep THEN {heap \union {n}}
  ELSE {IF DocumentBefore(docs[n], docs[m], sort) THEN (heap \ {m}) \union {n} ELSE heap :
          m \in GreatestOf(docs, heap, sort)}

SortLimit(docs, sort, keep) ==
  LET heaps[n \in 0 .. Len(docs)] ==
        IF n = 0 THEN {{}} ELSE UNION {KeepBest(docs, h, n, sort, keep) : h \in heaps[n - 1]}
  IN {s \in {[k \in DOMAIN order |-> docs[order[k]]] : order \in UNION {SetToSeqs(h) : h \in heaps[Len(docs)]}} :
        Sorted(s, sort)}

Skip(docs, n) == SubSeq(docs, n + 1, Len(docs))
Limit(docs, n) == IF n = 0 THEN docs ELSE SubSeq(docs, 1, Min({n, Len(docs)}))

---------------------------------------------------------------------------
\* $group, $bucket, $bucketAuto and $sortByCount.  An output is a sequence of
\* [field, op, of].

\* CompareForAggregation: an array is not taken for its elements.
SameKey(a, b) == SameType(a, b) /\ Equals(a, b)

AddOrAppend(groups, key, document) ==
  LET same == {g \in DOMAIN groups : SameKey(key, groups[g].key)}
  IN IF same = {} THEN Append(groups, [key |-> key, docs |-> <<document>>])
     ELSE [groups EXCEPT ![Min(same)].docs = Append(@, document)]

\* The documents by the keys they have.
GroupDocuments(docs, keys) ==
  LET upTo[n \in 0 .. Len(docs)] == IF n = 0 THEN <<>> ELSE AddOrAppend(upTo[n - 1], keys[n], docs[n])
  IN upTo[Len(docs)]

\* All the accumulators of $group read from one iterator, which the first has
\* exhausted: the others see no document.
GroupFields(group, output) ==
  LET upTo[n \in 0 .. Len(output)] ==
        IF n = 0 THEN [key \in {"_id"} |-> group.key]
        ELSE Put(upTo[n - 1], output[n].field,
                 Accumulate(output[n].op, output[n].of, IF n = 1 THEN group.docs ELSE <<>>))
  IN upTo[Len(output)]

Group(docs, by, output) ==
  LET groups == GroupDocuments(docs, [n \in DOMAIN docs |-> OrNull(Evaluate(by, docs[n]))])
  IN [n \in DOMAIN groups |-> Document(GroupFields(groups[n], output))]

BucketOutput(id, docs, output) ==
  Document(FoldLeft(LAMBDA fields, o : Put(fields, o.field, Accumulate(o.op, o.of, docs)), "_id" :> id, output))

\* The half-open range a value is in, or the number of boundaries.
FindBucket(value, boundaries) ==
  LET last  == Len(boundaries)
      above == {i \in 1 .. last : Precedes(value, boundaries[i])}
  IN IF 1 \in above \/ last \notin above THEN last
     ELSE Min({last} \union {i \in 1 .. last - 1 : i \notin above /\ i + 1 \in above})

Bucket(docs, s) ==
  LET last    == Len(s.boundaries)
      members == [i \in 1 .. last |-> SelectSeq(docs, LAMBDA d : FindBucket(OrNull(Evaluate(s.by, d)), s.boundaries) = i)]
      Of(i)   == BucketOutput(IF i = last THEN s.default ELSE s.boundaries[i], members[i], s.output)
  IN IF members[last] # <<>> /\ s.default = Absent THEN Failure
     ELSE Result(FlattenSeq([i \in 1 .. last |-> IF members[i] = <<>> THEN <<>> ELSE <<Of(i)>>]))

\* A plausible mistake: values that are equal are split.
BucketEnd_EvenSplit(values, from, buckets) == from - 1 + (Len(values) - from + buckets) \div buckets

\* The last document of a bucket: an even split of what is left, extended over
\* the values that equal the last.
BucketEnd(values, from, buckets) ==
  Min({e \in from - 1 + (Len(values) - from + buckets) \div buckets .. Len(values) :
         e = Len(values) \/ ~Equals(values[e + 1], values[e])})

EvenBuckets(sorted, s) ==
  LET values == [n \in DOMAIN sorted |-> OrNull(Evaluate(s.by, sorted[n]))]
      Step(state, n) ==
        LET end == BucketEnd(values, state.from, s.buckets - n + 1)
            id  == Document([min |-> values[state.from], max |-> values[Min({end + 1, Len(values)})]])
        IN IF state.from > Len(values) THEN state
           ELSE [from |-> end + 1,
                 out  |-> Append(state.out, BucketOutput(id, SubSeq(sorted, state.from, end), s.output))]
  IN FoldLeftDomain(Step, [from |-> 1, out |-> <<>>], [n \in 1 .. s.buckets |-> n]).out

BucketAuto(docs, s) ==
  EvenBuckets(InsertionSort(docs, LAMBDA p, q : Precedes(OrNull(Evaluate(s.by, p)), OrNull(Evaluate(s.by, q)))), s)

CountFirst == <<[key |-> "count", ascending |-> FALSE], [key |-> "_id", ascending |-> TRUE]>>
Counting == <<[field |-> "count", op |-> "sum", of |-> Constant(Number(1))]>>
SortByCount(docs, by) == SortDocuments(Group(docs, by, Counting), CountFirst)

---------------------------------------------------------------------------
\* $setWindowFields.  An output is [field, op, of] for an accumulator, over a
\* window with the bounds "from" and "to" or without one of them, [field, op]
\* for a rank and [field, op, of, by] for $shift.

Window(i, length, o) ==
  <<IF "from" \in DOMAIN o THEN Max({1, i + o.from}) ELSE 1,
    IF "to" \in DOMAIN o THEN Min({length, i + o.to}) ELSE length>>

\* $min and $max of a window pass over null, which those of a group do not.
WindowValue(operator, expression, docs) ==
  Accumulate(operator, expression,
             SelectSeq(docs, LAMBDA d : operator \in {"min", "max"} => Evaluate(expression, d) # Null))

SameSortKey(p, q, sort) ==
  \A n \in DOMAIN sort : SameKey(OrNull(Evaluate(Field(sort[n].key), p)), OrNull(Evaluate(Field(sort[n].key), q)))

\* The value of an output for the document at a position.  It is read from the
\* partition as it is, with the outputs that were computed before.
RankAt(part, i, o, sort) ==
  LET tie == i > 1 /\ SameSortKey(part[i - 1], part[i], sort)
      previous == part[i - 1].fields[o.field]
  IN IF o.op = "documentNumber" \/ i = 1 THEN Number(i)
     ELSE IF tie THEN previous ELSE Number(IF o.op = "rank" THEN i ELSE previous.value + 1)

ShiftAt(part, at, o) == IF at \in DOMAIN part THEN OrNull(Evaluate(o.of, part[at])) ELSE Null

OutputAt(part, i, o, sort) ==
  LET window == Window(i, Len(part), o)
  IN IF o.op \in {"documentNumber", "rank", "denseRank"} THEN RankAt(part, i, o, sort)
     ELSE IF o.op = "shift" THEN ShiftAt(part, i + o.by, o)
     ELSE WindowValue(o.op, o.of, SubSeq(part, window[1], window[2]))

ComputePartition(part, output, sort) ==
  FoldLeft(LAMBDA p, o :
             FoldLeftDomain(LAMBDA q, i :
               [q EXCEPT ![i].fields = Put(@, o.field, OutputAt(q, i, o, sort))], p, p),
           part, output)

\* A partition key that is missing cannot be compared with another key.
SetWindowFields(docs, s) ==
  LET Key(d) == Evaluate(s.partitionBy, d)
      parts  == GroupDocuments(docs, [n \in DOMAIN docs |-> Key(docs[n])])
  IN IF Len(docs) > 1 /\ \E d \in Range(docs) : Key(d) = Absent THEN Failure
     ELSE Result(FlattenSeq([n \in DOMAIN parts |->
                   ComputePartition(SortDocuments(parts[n].docs, s.sort), s.output, s.sort)]))

---------------------------------------------------------------------------
\* The other stages.

FilterIterator(docs, filter) ==
  LET kept[n \in 0 .. Len(docs)] ==
        IF n = 0 THEN <<>>
        ELSE IF FilterDocument(docs[n], filter) THEN Append(kept[n - 1], docs[n]) ELSE kept[n - 1]
  IN kept[Len(docs)]

CountStage(docs, key) == IF docs = <<>> THEN <<>> ELSE <<Document(key :> Number(Len(docs)))>>

\* A document whose field is an array leaves only its _id and the elements.
Unwind(docs, key) ==
  LET Of(d) == LET value == Evaluate(Field(key), d)
               IN CASE IsArray(value) -> [n \in DOMAIN value.elems |->
                         Document(Put("_id" :> d.fields["_id"], key, value.elems[n]))]
                    [] value \in {Absent, Null} -> <<>>
                    [] OTHER -> <<d>>
  IN IF \E d \in Range(docs) : IsArray(Evaluate(Field(key), d)) /\ "_id" \notin DOMAIN d.fields THEN Failure
     ELSE Result(FlattenSeq([n \in DOMAIN docs |-> Of(docs[n])]))

ReplaceRoot(docs, expression) ==
  IF \A d \in Range(docs) : IsDocument(Evaluate(expression, d))
  THEN Result([n \in DOMAIN docs |-> Evaluate(expression, docs[n])])
  ELSE Failure

Joined(value) == IF IsArray(value) THEN Elements(value) ELSE {value}
ValuesMatch(local, foreign) == \E x \in Joined(local), y \in Joined(foreign) : Equals(x, y)

\* A field that is missing joins with nothing.
Lookup(docs, s, from) ==
  LET Matched(d) == SelectSeq(from, LAMBDA f :
        LET local == Evaluate(Field(s.localField), d)
            foreign == Evaluate(Field(s.foreignField), f)
        IN Absent \notin {local, foreign} /\ ValuesMatch(local, foreign))
  IN [n \in DOMAIN docs |-> Document(Put(docs[n].fields, s.as, Array(Matched(docs[n]))))]

\* "from" has all the documents of the collection, read before the first stage;
\* the stages of a nested pipeline do not get them.
InOneDocument(results) ==
  IF \E name \in DOMAIN results : results[name].failed THEN Failure
  ELSE Result(<<Document([name \in DOMAIN results |-> Array(results[name].docs)])>>)
Facet(docs, pipelines) == InOneDocument([name \in DOMAIN pipelines |-> StagesWithin(docs, pipelines[name], <<>>)])

Joint(docs, result) == IF result.failed THEN Failure ELSE Result(docs \o result.docs)
UnionWith(docs, stages, from) == Joint(docs, StagesWithin(from, stages, <<>>))

ProcessStage(docs, s, from) ==
  CASE s.stage = "match"  -> Result(FilterIterator(docs, s.filter))
    [] s.stage = "sort"   -> Result(SortDocuments(docs, s.sort))
    [] s.stage = "skip"   -> Result(Skip(docs, s.n))
    [] s.stage = "limit"  -> Result(Limit(docs, s.n))
    [] s.stage = "count"  -> Result(CountStage(docs, s.key))
    [] s.stage = "unset"  -> Result([n \in DOMAIN docs |-> Document(Drop(docs[n].fields, s.key))])
    [] s.stage = "unwind" -> Unwind(docs, s.key)
    [] s.stage = "replaceRoot" -> ReplaceRoot(docs, s.newRoot)
    [] s.stage = "group"  -> Result(Group(docs, s.by, s.output))
    [] s.stage = "sortByCount" -> Result(SortByCount(docs, s.by))
    [] s.stage = "bucket" -> Bucket(docs, s)
    [] s.stage = "bucketAuto"  -> Result(BucketAuto(docs, s))
    [] s.stage = "setWindowFields" -> SetWindowFields(docs, s)
    [] s.stage = "lookup" -> Result(Lookup(docs, s, from))
    [] s.stage = "facet"  -> Facet(docs, s.pipelines)
    [] s.stage = "unionWith" -> UnionWith(docs, s.pipeline, from)

\* The result, and as "input" what the last stage has got.
StageNext(prior, s, from) ==
  LET result == ProcessStage(prior.docs, s, from)
  IN IF prior.failed THEN prior ELSE [docs |-> result.docs, failed |-> result.failed, input |-> prior.docs]

ProcessStages(docs, stages, from) ==
  LET upTo[n \in 0 .. Len(stages)] == IF n = 0 THEN Result(docs) ELSE StageNext(upTo[n - 1], stages[n], from)
  IN upTo[Len(stages)]

\* GetPushdownQuery: the first $match of the first two stages, behind nothing
\* but $sort.
PushdownMatch(stages) ==
  LET matches == {n \in DOMAIN stages : stages[n].stage = "match" /\ n <= 2
                                          /\ \A m \in 1 .. n - 1 : stages[m].stage = "sort"}
  IN IF matches = {} THEN {} ELSE stages[Min(matches)].filter
============================================================================
