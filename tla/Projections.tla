---------------------------- MODULE Projections ----------------------------
(***************************************************************************)
(* What a find or the stages $project, $unset and $set make of one         *)
(* document.                                                               *)
(*                                                                         *)
(* A projection is the sequence of its fields, in the order of the         *)
(* request: each has a path, and one of "keep", "literal", "expr" (in a    *)
(* $project), "slice" and "elemMatch" (in a find).  Left out are the       *)
(* positional operator and $meta, dotted paths to literals and             *)
(* expressions, and the order of the keys of the result.                   *)
(***************************************************************************)
EXTENDS Expressions

Refusal == [type |-> "refused"]

IsId(field) == field.path = <<"_id">>
IsNeutral(field) == "slice" \in DOMAIN field
Includes(field) == "keep" \in DOMAIN field => field.keep

\* ValidateProjection: every field decides the same, but for _id, and $slice
\* decides nothing; _id decides alone.  None excludes nothing.
\* A plausible mistake: $slice decides too.
Deciding_AllFields(projection) == SelectSeq(projection, LAMBDA f : IsId(f) => Len(projection) = 1)

Deciding(projection) ==
  SelectSeq(projection, LAMBDA f : ~IsNeutral(f) /\ (IsId(f) => Len(projection) = 1))
IsInclusion(projection) == Deciding(projection) # <<>> /\ Includes(Head(Deciding(projection)))

\* The argument of $slice: n, or a position and a positive n.
SliceIsValid(slice) == Len(slice) = 2 => slice[2] > 0

\* An expression is tried on a document that has none of the fields.
FieldIsValid(field) ==
  /\ "expr" \in DOMAIN field => ~Failed(Computed(field.expr, ValidationDocument))
  /\ "slice" \in DOMAIN field => SliceIsValid(field.slice)

IsValid(projection) ==
  LET deciding == Deciding(projection)
  IN /\ \A n \in DOMAIN deciding : Includes(deciding[n]) = IsInclusion(projection)
     /\ \A n \in DOMAIN projection : FieldIsValid(projection[n])

---------------------------------------------------------------------------
\* One path.  What there is of the field in the projected document was put
\* there by another path, so an array has its documents already, one for each
\* document of the source.

DocumentsOf(array) == SelectSeq(array.elems, IsDocument)
Panics(value) == value = Refusal

RECURSIVE Include(_, _, _)
\* A plausible mistake: the documents that another path has put there are lost.
IncludeArray_Afresh(path, source, projected) ==
  LET from == DocumentsOf(source)
  IN Array([n \in DOMAIN from |-> Include(path, from[n], Document(<<>>))])

IncludeArray(path, source, projected) ==
  LET from == DocumentsOf(source)
      into == IF IsArray(projected) THEN projected.elems ELSE [n \in DOMAIN from |-> Document(<<>>)]
      merged == [n \in DOMAIN into |-> IF n \in DOMAIN from THEN Include(path, from[n], into[n]) ELSE into[n]]
  IN IF \E n \in DOMAIN from : n \notin DOMAIN into \/ ~IsDocument(into[n]) \/ Panics(merged[n])
     THEN Refusal ELSE Array(merged)

Include(path, source, projected) ==
  LET key   == Head(path)
      value == source.fields[key]
      there == IF key \in DOMAIN projected.fields THEN projected.fields[key] ELSE Absent
      part  == CASE IsDocument(value) -> Include(Tail(path), value, IF IsDocument(there) THEN there ELSE Document(<<>>))
                 [] IsArray(value) -> IncludeArray(Tail(path), value, there)
                 [] OTHER -> there
  IN IF key \notin DOMAIN source.fields THEN projected
     ELSE IF Len(path) = 1 THEN Document(Put(projected.fields, key, value))
     ELSE IF Panics(part) THEN Refusal
     ELSE IF part = Absent THEN projected ELSE Document(Put(projected.fields, key, part))

RECURSIVE Exclude(_, _)
Exclude(path, value) ==
  CASE IsArray(value) ->
         Array([n \in DOMAIN value.elems |-> IF IsDocument(value.elems[n]) THEN Exclude(path, value.elems[n])
                                             ELSE value.elems[n]])
    [] IsDocument(value) /\ Head(path) \in DOMAIN value.fields ->
         IF Len(path) = 1 THEN Document(Drop(value.fields, Head(path)))
         ELSE Document(Put(value.fields, Head(path), Exclude(Tail(path), value.fields[Head(path)])))
    [] OTHER -> value

\* Paths through documents.
GetByPath(document, path) ==
  FoldLeft(LAMBDA v, key : IF IsDocument(v) /\ key \in DOMAIN v.fields THEN v.fields[key] ELSE Absent, document, path)
RemoveByPath(document, path) == IF GetByPath(document, path) = Absent THEN document ELSE Exclude(path, document)

---------------------------------------------------------------------------
\* The operators of a find.

SliceProjection(array, slice) ==
  LET l     == Len(array.elems)
      limit == IF Len(slice) = 2 THEN slice[2] ELSE Magnitude(slice[1])
      start == IF slice[1] < 0 THEN Max({0, l + slice[1]}) ELSE IF Len(slice) = 2 THEN slice[1] ELSE 0
  IN Array(SubSeq(array.elems, start + 1, Min({l, start + limit})))

ElemMatching(array, filter) == SelectSeq(DocumentsOf(array), LAMBDA e : FilterDocument(e, filter))

ApplyOperator(field, source, projected, inclusion) ==
  LET value == GetByPath(source, field.path)
      Set(v) == Document(SetByPath(projected.fields, field.path, v))
  IN IF value = Absent THEN projected
     ELSE IF "slice" \in DOMAIN field
     THEN IF IsArray(value) THEN Set(SliceProjection(value, field.slice)) ELSE IF inclusion THEN Set(value) ELSE projected
     ELSE LET matching == IF IsArray(value) THEN ElemMatching(value, field.elemMatch) ELSE <<>>
          IN IF matching = <<>> THEN RemoveByPath(projected, field.path) ELSE Set(Array(<<Head(matching)>>))

WithField(document, key, value) == IF Failed(value) THEN Refusal ELSE Document(Put(document.fields, key, value))

\* One field of a projection.  An expression is evaluated on the whole document,
\* and literals are taken as they are.
ProjectField(field, document, source, projected, inclusion) ==
  CASE "keep" \in DOMAIN field ->
         IF inclusion THEN Include(field.path, source, projected) ELSE Exclude(field.path, projected)
    [] "literal" \in DOMAIN field -> Document(Put(projected.fields, Head(field.path), field.literal))
    [] "expr" \in DOMAIN field -> WithField(projected, Head(field.path), Computed(field.expr, document))
    [] OTHER -> ApplyOperator(field, source, projected, inclusion)

\* _id is kept unless it is excluded.
ProjectId(field, document) ==
  LET id == Document([k \in {"_id"} |-> document.fields[k]])
  IN IF "keep" \in DOMAIN field THEN (IF field.keep THEN id ELSE Document(<<>>))
     ELSE ProjectField(field, document, document, id, TRUE)

WithId(id, projected) ==
  IF Panics(id) \/ Panics(projected) THEN Refusal ELSE Document(projected.fields @@ id.fields)

\* ProjectDocument, which needs the _id of the document.
ProjectDocument(document, projection) ==
  LET inclusion == IsInclusion(projection)
      source    == Document(Drop(document.fields, "_id"))
      ids       == SelectSeq(projection, IsId)
  IN IF "_id" \notin DOMAIN document.fields THEN Refusal
     ELSE WithId(ProjectId(IF ids = <<>> THEN [path |-> <<"_id">>, keep |-> TRUE] ELSE Head(ids), document),
                 FoldLeft(LAMBDA p, f : IF Panics(p) THEN p ELSE ProjectField(f, document, source, p, inclusion),
                          IF inclusion THEN Document(<<>>) ELSE source,
                          SelectSeq(projection, LAMBDA f : ~IsId(f))))

Project(document, projection) == IF IsValid(projection) THEN ProjectDocument(document, projection) ELSE Refusal

\* $set and $addFields: an operator is evaluated on the document with the fields
\* that the stage has set before; what is no operator is stored as it is.
AddFields(document, fields) ==
  FoldLeft(LAMBDA d, f : IF Panics(d) THEN d
                         ELSE WithField(d, f[1], IF IsOperator(f[2]) THEN Computed(f[2], d) ELSE f[2]),
           document, fields)
============================================================================
