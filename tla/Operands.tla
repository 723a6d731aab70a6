----------------------------- MODULE Operands -----------------------------
(***************************************************************************)
(* The values that the operators of expressions take and return, and how   *)
(* an operator looks at its operands: null makes a result null and what    *)
(* has the wrong type makes it an error, in one of three orders.           *)
(***************************************************************************)
EXTENDS Updates, FiniteSetsExt

\* Strings by what they are to the code; they have no order among themselves.
Text(as) == as @@ Scalar("string", 0)
Name(name) == Text([name |-> name])
FieldPath(path) == Text([path |-> path])
Variable(name, path) == Text([variable |-> name, path |-> path])
Operation(op, operand) == Document(op :> operand)
Bool(b) == Scalar("bool", IF b THEN 1 ELSE 0)

IsVariable(e) == "variable" \in DOMAIN e
IsPath(e) == "path" \in DOMAIN e /\ ~IsVariable(e)
IsNumber(v) == v.type = "number"
IsNull(v) == v.type = "null"
IsName(v) == "name" \in DOMAIN v

\* What an expression evaluates to that cannot be evaluated.
Error == [type |-> "error"]
Failed(v) == v.type = "error"

Truthy(v) == ~IsNull(v) /\ (v.type \in {"bool", "number"} => v.value # 0)

---------------------------------------------------------------------------
\* In order: the first operand that is null makes the result null, the first
\* that is not what it has to be makes it an error.
Needed(value, fits) == [value |-> value, fits |-> fits]
InTurn(needs, result) ==
  LET bad == {n \in DOMAIN needs : IsNull(needs[n].value) \/ ~needs[n].fits}
  IN IF bad = {} THEN result ELSE IF IsNull(needs[Min(bad)].value) THEN Null ELSE Error

InOrder(values, type, result) == InTurn([n \in DOMAIN values |-> Needed(values[n], values[n].type = type)], result)

\* At once: all of them are evaluated before the first is looked at.
AtOnce(values, types, result) ==
  IF \E n \in DOMAIN values : Failed(values[n]) THEN Error
  ELSE IF \E n \in DOMAIN values : IsNull(values[n]) THEN Null
  ELSE IF \A n \in DOMAIN values : values[n].type \in types THEN result ELSE Error

Evaluated(values, result) == IF \E n \in DOMAIN values : Failed(values[n]) THEN Error ELSE result

\* The value of a key, or what stands for it when it is missing.
Option(spec, key, default) == IF key \in DOMAIN spec THEN spec[key] ELSE default
OrOnError(spec, value) == IF Failed(value) THEN Option(spec, "onError", Error) ELSE value
============================================================================
