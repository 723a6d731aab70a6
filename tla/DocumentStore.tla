--------------------------- MODULE DocumentStore ---------------------------
(***************************************************************************)
(* One collection of the embedded database, and the commands find, count,  *)
(* insert, update and delete on it.  Every command asks SQLite for the     *)
(* candidates its WHERE clause selects and filters them in Go.             *)
(*                                                                         *)
(* A command is one step: the mutation gate keeps the commands that write  *)
(* apart (module MutationGate).  "answer" holds the last command until its *)
(* client has the reply, with the documents it found stored.               *)
(***************************************************************************)
EXTENDS Pushdown, Pipelines

CONSTANTS Ids,      \* the values of _id
          Inserts,  \* the insert commands: [docs, ordered], a document is <<_id, fields>>
          Filters,  \* the filters of the other commands
          Windows,  \* what a find asks of its matches: [sort, skip, limit]
          Aggregations, \* the pipelines
          Computations, \* the $set stages of other aggregations: [documents, stages]
          Selections,   \* and the projections of other finds and aggregations
          Requests, \* the update commands: [filter, change, multi, upsert]
          BatchSize, \* the documents of an insert that are stored together
          Storable, \* the documents that may be stored: the bound on updates
          Bson,     \* the values there are: those documents, and all parts of them
          Depths,   \* of each of them, how many values are inside each other
          Selectors, \* the filters, with their branches and the filters in $elemMatch
          Levels,   \* of each of them, how many filters are inside each other
          AddedFields(_, _), ProjectedFields(_, _), \* what $set and a projection make of a document
          NestedWithin(_) \* Nested of a branch

VARIABLES docs,  \* the stored documents, by _id
          answer \* the command that is being answered, or Idle

vars == <<docs, answer>>

Idle == [command |-> "none"]

Stored(id, fields) == Document(Put(fields, "_id", Scalar("objectid", id)))

Bounded(contents) == \A i \in DOMAIN contents : contents[i] \in Storable

\* What a command pushes to SQLite, and the documents it has left after Go.
PushedPart(command, filter) == IF command \in {"find", "aggregate"} THEN TopLevel(filter) ELSE filter
Query(command, filter) ==
  {i \in DOMAIN docs : Candidate(docs[i], PushedPart(command, filter)) /\ FilterDocument(docs[i], filter)}

Answer(command, filter, ids, more) ==
  answer' = [command |-> command, filter |-> filter, ids |-> ids, before |-> docs, more |-> more]

Init == docs = <<>> /\ answer = Idle

\* MsgInsert takes a request by batches.  A batch that cannot be stored as a
\* whole is stored one by one; when that ends at a duplicate, the next batch is
\* taken all the same, and an ordered request ends after a batch that succeeds.
\* ValidateData refuses the names of operators for fields.
Operators == {"$gte"}
Valid(fields) == DOMAIN fields \intersect Operators = {}

\* A plausible mistake: a duplicate does not end the batch.
Store_AnyOrder(state, n, request) ==
  LET new == request.docs[n]
  IN IF new[1] \in DOMAIN state.docs
     THEN [state EXCEPT !.refused = @ \union {n}]
     ELSE [state EXCEPT !.docs = Put(@, new[1], Stored(new[1], new[2])), !.inserted = @ \union {n}]

Store(state, n, request) ==
  LET new == request.docs[n]
  IN IF state.ended THEN state
     ELSE IF new[1] \in DOMAIN state.docs
     THEN [state EXCEPT !.refused = @ \union {n}, !.ended = request.ordered]
     ELSE [state EXCEPT !.docs = Put(@, new[1], Stored(new[1], new[2])), !.inserted = @ \union {n}]

Invalid(request, members) == {m \in members : ~Valid(request.docs[m][2])}

\* An ordered request leaves the batch at a document that is not valid.
BatchEnd(request, n) ==
  LET end == Min({Len(request.docs), n + BatchSize - 1})
      invalid == Invalid(request, n .. end)
  IN IF request.ordered /\ invalid # {} THEN Min(invalid) ELSE end

\* The batch that begins at a document, one document after the other.
Begin(state, n) == [state EXCEPT !.ended = FALSE, !.batches = @ \union {n}]
Take(state, m, request) ==
  IF Valid(request.docs[m][2]) THEN Store(state, m, request) ELSE [state EXCEPT !.refused = @ \union {m}]

Batch(state, n, request) ==
  LET taken[m \in n - 1 .. BatchEnd(request, n)] ==
        IF m = n - 1 THEN Begin(state, n) ELSE Take(taken[m - 1], m, request)
  IN taken[BatchEnd(request, n)]

\* Whether the batch can be stored as a whole.
IsWhole(state, n, request) ==
  LET members == n .. BatchEnd(request, n)
      tried   == members \ Invalid(request, members)
  IN \A m \in tried : /\ request.docs[m][1] \notin DOMAIN state.docs
                      /\ \A k \in tried : request.docs[k][1] = request.docs[m][1] => k = m

\* The request up to a document; "next" is where the next batch begins.
AfterBatch(state, n, request) ==
  LET result == Batch(state, n, request)
  IN [result EXCEPT !.next = IF IsWhole(state, n, request) /\ request.ordered /\ result.refused # {}
                             THEN Len(request.docs) + 1 ELSE BatchEnd(request, n) + 1]

InsertFrom(state, request) ==
  LET upTo[n \in 0 .. Len(request.docs)] ==
        IF n = 0 THEN state
        ELSE IF n = upTo[n - 1].next THEN AfterBatch(upTo[n - 1], n, request) ELSE upTo[n - 1]
  IN upTo[Len(request.docs)]

Untouched == [docs |-> docs, inserted |-> {}, refused |-> {}, batches |-> {}, ended |-> FALSE, next |-> 1]

Insert(request) ==
  LET state == InsertFrom(Untouched, request)
  IN /\ docs' = state.docs
     /\ answer' = [command |-> "insert", request |-> request, inserted |-> state.inserted,
                   refused |-> state.refused, batches |-> state.batches]

Count(filter) ==
  /\ Answer("count", filter, Query("count", filter), <<>>)
  /\ UNCHANGED docs

\* makeFindQueryParams and makeFindIter.  SQLite returns the documents in any
\* order, and applies the limit of a find that has nothing else.
FindIter(found, window) ==
  {Limit(Skip(s, window.skip), window.limit) :
     s \in IF window.sort # <<>> /\ window.limit > 0
           THEN SortLimit(found, window.sort, window.skip + window.limit)
           ELSE {SortDocuments(found, window.sort)}}

InOrder(ids) == [n \in DOMAIN ids |-> docs[ids[n]]]

Find(filter, window) ==
  LET pushed == IF filter = {} /\ window.sort = <<>> /\ window.skip = 0 THEN window.limit ELSE 0
      selected == {i \in DOMAIN docs : Candidate(docs[i], PushedPart("find", filter))}
  IN /\ \E order \in SetToSeqs(selected) :
          \E result \in FindIter(FilterIterator(InOrder(Limit(order, pushed)), filter), window) :
            Answer("find", filter, {}, [window |-> window, result |-> result])
     /\ UNCHANGED docs

\* MsgAggregate.  The documents for $lookup and $unionWith are read before the
\* others.
Aggregate(stages) ==
  /\ LET match    == PushdownMatch(stages)
         selected == {i \in DOMAIN docs : Candidate(docs[i], PushedPart("aggregate", match))}
     IN \E from \in SetToSeqs(DOMAIN docs), order \in SetToSeqs(selected) :
          Answer("aggregate", match, {},
                 [stages |-> stages, result |-> ProcessStages(InOrder(order), stages, InOrder(from))])
  /\ UNCHANGED docs

\* An aggregation over another collection, with one document, by a $set stage.
Compute(document, fields) ==
  /\ answer' = [command |-> "compute", document |-> document, fields |-> fields, result |-> AddedFields(document, fields)]
  /\ UNCHANGED docs

\* A find, or an aggregation by a $project stage, of such a document.
Project(document, projection) ==
  /\ answer' = [command |-> "project", document |-> document, projection |-> projection,
                result |-> ProjectedFields(document, projection)]
  /\ UNCHANGED docs

\* execDelete: all the documents, or the first.
Deletions(found, limited) == IF limited /\ found # {} THEN {{i} : i \in found} ELSE {found}

Delete(filter, limited) ==
  /\ \E ids \in Deletions(Query("delete", filter), limited) :
       /\ docs' = [i \in DOMAIN docs \ ids |-> docs[i]]
       /\ Answer("delete", filter, ids, <<>>)

\* UpdateDocument: the documents one after the other, in the order of the
\* query, until one fails.  A document is written when it reports a change.
WriteChanged(state, id, result) ==
  IF state.failed \/ result.error THEN [state EXCEPT !.failed = TRUE]
  ELSE [state EXCEPT !.done = @ \union {id},
                     !.docs = IF result.changed THEN [@ EXCEPT ![id] = Document(result.fields)] ELSE @]

WriteAll(chosen, change) ==
  LET written[n \in 0 .. Len(chosen)] ==
        IF n = 0 THEN [docs |-> docs, done |-> {}, failed |-> FALSE]
        ELSE WriteChanged(written[n - 1], chosen[n], ProcessUpdate(docs[chosen[n]].fields, change, FALSE))
  IN written[Len(chosen)]

UpdateMatched(found, filter, change, multi) ==
  \E order \in SetToSeqs(found) :
    \E state \in {WriteAll(IF multi \/ order = <<>> THEN order ELSE <<Head(order)>>, change)} :
       /\ docs' = state.docs
       /\ Answer("update", filter, state.done, [change |-> change, failed |-> state.failed])

\* An upsert makes its document from the filter and the update.
FilterId(filter) == {EqualTo(c).value : c \in {e \in Equalities(filter) : e.path = IdPath}}

UpsertNew(filter, change) ==
  \E result \in {ProcessUpdate(FromFilter({c \in filter : IsLogical(c) \/ c.path # IdPath}), change, TRUE)} :
     \E id \in (IF FilterId(filter) = {} THEN Ids \ DOMAIN docs ELSE FilterId(filter)) :
       IF result.error \/ ManyOperators(filter) \/ id \in DOMAIN docs
       THEN UNCHANGED docs /\ Answer("update", filter, {}, [change |-> change, failed |-> TRUE])
       ELSE /\ docs' = Put(docs, id, Stored(id, result.fields))
            /\ Answer("upsert", filter, {id}, [change |-> change])

UpdateFound(found, filter, change, multi, upsert) ==
  IF found = {} /\ upsert THEN UpsertNew(filter, change) ELSE UpdateMatched(found, filter, change, multi)

Update(filter, change, multi, upsert) ==
  /\ UpdateFound(Query("update", filter), filter, change, multi, upsert)
  /\ Bounded(docs')

Reply == answer # Idle /\ answer' = Idle /\ UNCHANGED docs

\* A client sends its next command when it has the reply to the last.
Next ==
  \/ answer = Idle /\ \E request \in Inserts : Insert(request)
  \/ answer = Idle /\ \E filter \in Filters : Count(filter)
  \/ answer = Idle /\ \E filter \in Filters, window \in Windows : Find(filter, window)
  \/ answer = Idle /\ \E stages \in Aggregations : Aggregate(stages)
  \/ answer = Idle /\ docs = <<>> /\
       \E c \in Computations : \E document \in c.documents, fields \in c.stages : Compute(document, fields)
  \/ answer = Idle /\ docs = <<>> /\
       \E c \in Selections : \E document \in c.documents, fields \in c.stages : Project(document, fields)
  \/ answer = Idle /\ \E filter \in Filters, limited \in BOOLEAN : Delete(filter, limited)
  \/ answer = Idle /\ \E r \in Requests : Update(r.filter, r.change, r.multi, r.upsert)
  \/ Reply

Spec == Init /\ [][Next]_vars

---------------------------------------------------------------------------
(***************************************************************************)
(* Where the WHERE clause loses documents that match.  Each gap is a       *)
(* condition of the filter on which SQLite and Go disagree.                *)
(***************************************************************************)

\* The filter, and the branches that can be pushed with it.
Nested(filter) ==
  {filter} \union
    UNION {UNION {NestedWithin(b) : b \in c.branches} : c \in {x \in filter : IsLogical(x) /\ x.logic # "nor"}}

NullAmong(ops) == "in" \in DOMAIN ops /\ Null \in ops.in

\* null among the alternatives: SQLite only looks for a field that is missing,
\* and an explicit null is not.
ExplicitNull(document, condition) ==
  \/ NullAmong(condition.ops) /\ Json(document, condition.path) = Null
  \/ /\ "elemMatch" \in DOMAIN condition.ops
     /\ \E e \in Elements(Json(document, condition.path)), c \in condition.ops.elemMatch :
          IsDocument(e) /\ NullAmong(c.ops) /\ Json(e, c.path) = Null

\* An array is text for SQLite, and text is above every upper bound and never
\* outside a range that has only a lower one.
TextIsAbove(document, condition, filter) ==
  /\ IsArray(Json(document, condition.path))
  /\ \/ NumericBounds(condition.ops) \intersect {"lt", "lte"} # {}
     \/ \E s \in OutsideRange(filter) : s.path = condition.path /\ \A t \in s.within : t.op \in {"gt", "gte"}

\* A dotted path that leads through an array: SQLite finds nothing there.
ThroughArray(document, condition) ==
  Len(condition.path) > 1 /\ IsMissing(Json(document, condition.path)) /\ FindValues(document, condition.path) # {}

KnownGap(document, filter) ==
  \E f \in Nested(filter) : \E c \in f :
    ~IsLogical(c) /\ (ExplicitNull(document, c) \/ TextIsAbove(document, c, f) \/ ThroughArray(document, c))

\* The documents that match the filter of the last command.
Matching == {i \in DOMAIN answer.before : FilterDocument(answer.before[i], answer.filter)}
Lost(i) == KnownGap(answer.before[i], PushedPart(answer.command, answer.filter))

\* The documents a command may have been answered from: all but some of those
\* that are lost.
Seen == {DOMAIN answer.before \ lost : lost \in SUBSET {i \in Matching : Lost(i)}}
Orders(ids) == {[n \in DOMAIN s |-> answer.before[s[n]]] : s \in SetToSeqs(ids)}

\* A count counts the documents that match, a find returns the window that was
\* asked for of a sorted order of them, and a pipeline returns what it makes of
\* the whole collection, in some order: what is pushed to SQLite makes no
\* difference, but for the known gaps.
CountsMissNothing == answer.command = "count" => \A i \in Matching : i \in answer.ids \/ Lost(i)

FindsMissNothing ==
  answer.command = "find" =>
    LET w == answer.more.window
    IN \E ids \in Seen : \E s \in Orders(ids \intersect Matching) :
         Sorted(s, w.sort) /\ answer.more.result = Limit(Skip(s, w.skip), w.limit)

PipelinesMissNothing ==
  answer.command = "aggregate" =>
    \E ids \in Seen : \E s \in Orders(ids), from \in Orders(DOMAIN answer.before) :
      \E r \in {ProcessStages(s, answer.more.stages, from)} :
         r.failed = answer.more.result.failed /\ r.docs = answer.more.result.docs

QueriesMissNothing == CountsMissNothing /\ FindsMissNothing /\ PipelinesMissNothing

\* What the stages that arrange documents have to keep, by the documents they
\* get and those they return.

Outputs(s) == IF s.stage = "sortByCount" THEN Counting ELSE s.output
Counted(out) == FoldLeft(LAMBDA n, d : n + d.fields["count"].value, 0, out)
KeyOf(expression, document) == OrNull(Evaluate(expression, document))

\* The documents with a key, in their order.
Having(in, by, key) ==
  LET upTo[n \in 0 .. Len(in)] ==
        IF n = 0 THEN <<>> ELSE IF KeyOf(by, in[n]) = key THEN Append(upTo[n - 1], in[n]) ELSE upTo[n - 1]
  IN upTo[Len(in)]

\* Every key has one group, with all the documents that have the key; only the
\* first output sees them.
GroupsAreWhole(s, in, out) ==
  /\ {KeyOf(s.by, d) : d \in Range(in)} = {d.fields["_id"] : d \in Range(out)}
  /\ Cardinality({d.fields["_id"] : d \in Range(out)}) = Len(out)
  /\ \A d \in Range(out) :
       LET first == Outputs(s)[1]
       IN d.fields[first.field] =
            Accumulate(first.op, first.of, Having(in, s.by, d.fields["_id"]))
  /\ s.stage = "sortByCount" =>
       \A m, n \in DOMAIN out : m < n => out[m].fields["count"].value >= out[n].fields["count"].value

\* Every document is in one bucket.  The automatic ones are adjacent, at most as
\* many as asked for, and hold the values from their minimum to below their
\* maximum, which the last includes; Compare is no order for arrays.
BucketsAreWhole(s, in, out) ==
  LET Bound(n, b) == out[n].fields["_id"].fields[b]
      Within(value, n) == /\ ~Precedes(value, Bound(n, "min"))
                          /\ ~Precedes(Bound(n, "max"), value)
                          /\ n < Len(out) => ~Equals(value, Bound(n, "max"))
  IN /\ Counted(out) = Len(in)
     /\ s.stage = "bucketAuto" /\ (\A d \in Range(in) : ~IsArray(KeyOf(s.by, d))) =>
          /\ Len(out) <= s.buckets
          /\ \A n \in 1 .. Len(out) - 1 : Bound(n, "max") = Bound(n + 1, "min")
          /\ \A n \in DOMAIN out : out[n].fields["count"].value =
               Cardinality({m \in DOMAIN in : Within(KeyOf(s.by, in[m]), n)})

\* An output that is written over a field that another reads, or the same for
\* the next document, and a sort key that is an array, which sorts by its least
\* element but only ties with its equal.
ReadsOutputs(s) ==
  \E o, p \in Range(s.output) : \/ "of" \in DOMAIN p /\ p.of = Field(o.field)
                                \/ \E k \in Range(s.sort) : k.key = o.field
SortsArrays(s, in) == \E d \in Range(in), k \in Range(s.sort) : IsArray(KeyOf(Field(k.key), d))

\* Every document comes back once, partition by partition, in the order of the
\* sort, with its rank among its partition and the value over its window.
WindowsAreExact(s, in, out) ==
  LET Part(n) == {m \in DOMAIN out : SameKey(KeyOf(s.partitionBy, out[m]), KeyOf(s.partitionBy, out[n]))}
      Place(n) == Cardinality({m \in Part(n) : m <= n})
      Earlier(n) == {m \in Part(n) : DocumentBefore(out[m], out[n], s.sort)}
      SortKeys(m) == [k \in DOMAIN s.sort |-> KeyOf(Field(s.sort[k].key), out[m])]
      Without(d) == [k \in DOMAIN d.fields \ {o.field : o \in Range(s.output)} |-> d.fields[k]]
      Expected(n, o) ==
        LET ordered == SetToSortSeq(Part(n), <)
            Docs(positions) == [i \in DOMAIN positions |-> out[positions[i]]]
        IN CASE o.op = "documentNumber" -> Number(Place(n))
             [] o.op = "rank" -> Number(1 + Cardinality(Earlier(n)))
             [] o.op = "denseRank" -> Number(1 + Cardinality({SortKeys(m) : m \in Earlier(n)}))
             [] o.op = "shift" -> IF Place(n) + o.by \in DOMAIN ordered
                                  THEN KeyOf(o.of, out[ordered[Place(n) + o.by]]) ELSE Null
             [] OTHER -> WindowValue(o.op, o.of, Docs(SelectSeq(ordered, LAMBDA m :
                           /\ "from" \in DOMAIN o => Place(m) >= Place(n) + o.from
                           /\ "to" \in DOMAIN o => Place(m) <= Place(n) + o.to)))
  IN /\ \A d \in Range(in) \union Range(out) :
          Cardinality({n \in DOMAIN in : Without(in[n]) = Without(d)})
            = Cardinality({n \in DOMAIN out : Without(out[n]) = Without(d)})
     /\ ReadsOutputs(s) \/ SortsArrays(s, in) \/
          \A n \in DOMAIN out :
            /\ \A m \in Part(n) : m < n => ~DocumentBefore(out[n], out[m], s.sort)
            /\ \A o \in Range(s.output) : out[n].fields[o.field] = Expected(n, o)

\* A stage that arranges documents in groups, buckets or windows loses and
\* doubles none, and computes each output from the documents it is about.
StagesLoseNothing ==
  answer.command = "aggregate" /\ ~answer.more.result.failed =>
    LET s == Last(answer.more.stages)
        in == answer.more.result.input
        out == answer.more.result.docs
    IN /\ s.stage \in {"group", "sortByCount"} => GroupsAreWhole(s, in, out)
       /\ s.stage \in {"bucket", "bucketAuto"} => BucketsAreWhole(s, in, out)
       /\ s.stage = "setWindowFields" => WindowsAreExact(s, in, out)

\* An upsert makes a new document only when none matches its filter: a match
\* that SQLite does not select would be doubled instead of updated.
MakesNoDouble == \A i \in Matching : Lost(i)

\* The document an upsert has made is found by its own filter, so a repeated
\* upsert updates it: when the filter only has equalities, no two of them meet
\* on their paths, and the update leaves their fields alone.
Apart(filter) ==
  \A c, d \in filter : c = d \/ \E n \in DOMAIN c.path \intersect DOMAIN d.path : c.path[n] # d.path[n]
Touched(change) == {change[n].key : n \in DOMAIN change}
                     \union {change[n].arg : n \in {m \in DOMAIN change : change[m].op = "rename"}}
IsFoundAgain ==
  /\ answer.filter = Equalities(answer.filter)
  /\ Apart(answer.filter)
  /\ {Head(c.path) : c \in answer.filter} \intersect Touched(answer.more.change) = {}
  => \A i \in answer.ids : Candidate(docs[i], answer.filter) /\ FilterDocument(docs[i], answer.filter)

\* An upsert neither doubles what its filter matches nor makes what its filter
\* will not find (msg_update.go, updateDocument).
UpsertsAgreeWithFilter == answer.command = "upsert" => MakesNoDouble /\ IsFoundAgain

\* Changes that are not reported: an empty array where there was no field, and
\* an element replaced by one that it contains.
Unreported(fields, change) ==
  \E n \in DOMAIN change :
    \/ change[n].op \in {"push", "addToSet"} /\ change[n].key \notin DOMAIN fields
    \/ change[n].op = "push" /\ \E e \in Elements(fields[change[n].key]) : IsArray(e)

\* What an update makes of a document is stored, up to the one that fails: the
\* operators report every change, but for those above.
UpdatesAreStored ==
  answer.command = "update" =>
    \A i \in DOMAIN answer.before : \E result \in {ProcessUpdate(answer.before[i].fields, answer.more.change, FALSE)} :
      LET before == answer.before[i].fields
      IN IF i \notin answer.ids \/ (~result.changed /\ Unreported(before, answer.more.change))
         THEN docs[i].fields = before
         ELSE docs[i].fields = result.fields

\* An insert keeps its order: what it reports is what it has stored, without an
\* order every document is stored or refused, and with one nothing is stored
\* after a document that is refused, unless a batch began in between.
InsertsAsOrdered ==
  answer.command = "insert" =>
    LET request == answer.request
    IN /\ \A n \in answer.inserted : docs[request.docs[n][1]] = Stored(request.docs[n][1], request.docs[n][2])
       /\ ~request.ordered => answer.inserted \union answer.refused = DOMAIN request.docs
       /\ request.ordered => \A m \in answer.refused, n \in answer.inserted : 
            m < n => \E b \in answer.batches : m < b /\ b <= n

---------------------------------------------------------------------------
(***************************************************************************)
(* What the constants have to satisfy.                                     *)
(***************************************************************************)

\* A value is a scalar, or an array or a document of values.  A document that
\* is stored has an _id, which is an ObjectId.
ASSUME ValuesAssumption ==
  /\ \A v \in Bson :
       \/ v = Null
       \/ v.type \in {"number", "string", "objectid", "bool", "date"} /\ v = Scalar(v.type, v.value)
       \/ IsArray(v) /\ v = Array(v.elems) /\ v.elems \in Seq(Bson)
       \/ IsDocument(v) /\ v = Document(v.fields) /\ v.fields \in [DOMAIN v.fields -> Bson]
  /\ \A d \in Storable :
       d \in Bson /\ IsDocument(d) /\ "_id" \in DOMAIN d.fields /\ d.fields["_id"].type = "objectid"

\* What is in an array or a document is not as deep.
ASSUME DepthsAssumption ==
  /\ Depths \in [Bson -> Nat]
  /\ \A v \in Bson : /\ IsArray(v) => \A i \in DOMAIN v.elems : Depths[v.elems[i]] < Depths[v]
                     /\ IsDocument(v) => \A k \in DOMAIN v.fields : Depths[v.fields[k]] < Depths[v]

\* The filters in a filter are filters too, of a lower level.
ASSUME FiltersAssumption ==
  /\ Levels \in [Selectors -> Nat]
  /\ \A f \in Selectors : IsFiniteSet(f)
  /\ \A f \in Selectors : \A c \in f :
       IF IsLogical(c) THEN c.logic \in {"and", "or", "nor"} /\ \A b \in c.branches : b \in Selectors /\ Levels[b] < Levels[f]
       ELSE /\ c.path \in Seq(Range(c.path)) /\ c.path # <<>>
            /\ "is" \in DOMAIN c.ops => DOMAIN c.ops = {"is"}
            /\ "elemMatch" \in DOMAIN c.ops => c.ops.elemMatch \in Selectors

\* An operator that is named for its use on a part is that operator.
ASSUME KnotsAssumption ==
  /\ \A a, b \in Bson : EqualsWithin(a, b) = Equals(a, b)
  /\ \A d \in Bson, f \in Selectors : IsDocument(d) => MatchesWithin(d, f) = FilterDocument(d, f)
  /\ \A f \in Selectors : WhereWithin(f) = WhereClause(f) /\ NestedWithin(f) = Nested(f)

ASSUME InsertsAssumption ==
  \A r \in Inserts :
    /\ r.ordered \in BOOLEAN
    /\ r.docs \in Seq(Range(r.docs))
    /\ \A n \in DOMAIN r.docs : Valid(r.docs[n][2]) => Stored(r.docs[n][1], r.docs[n][2]) \in Storable

ASSUME BatchAssumption == BatchSize \in Nat \ {0}

\* An upsert that names an _id names an ObjectId, for no other is stored.
ASSUME CommandsAssumption ==
  /\ Filters \subseteq Selectors
  /\ \A stages \in Aggregations : stages \in Seq(Range(stages)) /\ PushdownMatch(stages) \in Selectors
  /\ \A r \in Requests :
       /\ r.filter \in Selectors
       /\ \A c \in Equalities(r.filter) :
            Head(c.path) = "_id" => c.path = IdPath /\ EqualTo(c) = Scalar("objectid", EqualTo(c).value)

\* The values a find sorts by are in an order: of two that differ one is before
\* the other, and so it is before or behind every third.  (Arrays in arrays are
\* not; CompareOrderForSort does not order them.)
ASSUME WindowsAssumption ==
  \A w \in Windows :
    /\ w.skip \in Nat /\ w.limit \in Nat /\ w.sort \in Seq(Range(w.sort))
    /\ \A key \in Range(w.sort) :
         LET values == {SortKey(d, key) : d \in Storable}
             before == {pair \in values \X values : CompareOrderForSort(pair[1], pair[2], key.ascending)}
         IN \A a, b \in values : <<a, b>> \in before =>
              <<b, a>> \notin before /\ \A c \in values : <<a, c>> \in before \/ <<c, b>> \in before

ASSUME ChangesAssumption ==
  \A r \in Requests :
    /\ r.change \in Seq(Range(r.change))
    /\ \A s \in Range(r.change) :
         /\ s.op \in {"set", "setOnInsert", "unset", "inc", "mul", "max", "min", "rename",
                      "pop", "push", "addToSet", "pullAll", "pull"}
         /\ s.op = "addToSet" => s.arg \in Seq(Bson)
         /\ s.op = "push" => /\ s.arg.each \in Seq(Bson)
                             /\ "position" \in DOMAIN s.arg => s.arg.position \in Int
                             /\ "slice" \in DOMAIN s.arg => s.arg.slice \in Int
============================================================================
