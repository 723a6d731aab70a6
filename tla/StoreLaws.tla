----------------------------- MODULE StoreLaws -----------------------------
(***************************************************************************)
(* What the commands of DocumentStore compute: expressions and projections *)
(* as Expressions and Projections evaluate them, against the laws that     *)
(* ExpressionLaws states.                                                  *)
(***************************************************************************)
EXTENDS DocumentStore

E == INSTANCE ExpressionLaws

Adding(document, fields) == E!AddFields(document, fields)
Projecting(document, projection) == E!Project(document, projection)

\* A variable has the value that the innermost expression around it has bound,
\* and that value is not evaluated again, though the code puts it in the place
\* of the variable before it evaluates: but for the gaps that are named
\* (mapoperator.go, bindVars).
BindingIsScoped ==
  answer.command = "compute" /\ Len(answer.fields) = 1 =>
    LET key   == answer.fields[1][1]
        e     == answer.fields[1][2]
    IN ~E!BindingGap(e, answer.document) => \E meant \in {E!Meaning(e, answer.document)} :
         answer.result = IF E!Failed(meant) THEN E!Refusal ELSE Document(Put(answer.document.fields, key, meant))

\* The operators on arrays, sets and numbers agree with each other: the two
\* sides of a law are computed, and to the same value (array.go, setops.go).
LawsHold ==
  answer.command = "compute" /\ Len(answer.fields) = 2 =>
    /\ IsDocument(answer.result)
    /\ answer.result.fields["left"] = answer.result.fields["right"]

\* A projection is refused when it mixes inclusion with exclusion, and else
\* returns what all of its paths select together, whatever their order, through
\* documents and arrays, but for the gaps that are named (projection.go).
ProjectionsSelect ==
  answer.command = "project" /\ ~E!SelectionGap(answer.document, answer.projection) =>
    IF E!IsRefused(answer.projection) THEN answer.result = E!Refusal
    ELSE IsDocument(answer.result) /\ E!Selects(answer.document, answer.projection, answer.result)
============================================================================
