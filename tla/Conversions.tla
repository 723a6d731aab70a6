---------------------------- MODULE Conversions ----------------------------
(***************************************************************************)
(* The operators that convert values from one type to another, and those   *)
(* that round numbers, by the values of their arguments.                   *)
(*                                                                         *)
(* Numbers are whole: the widths of integers and the digits of floating    *)
(* point numbers are left out, and no exponent is negative.  An ObjectID   *)
(* is the minute it is made at.                                            *)
(***************************************************************************)
EXTENDS Dates, Texts

\* Numbers in decimal digits.
RECURSIVE Digits(_)
Digits(n) == IF n < 10 THEN <<48 + n>> ELSE Append(Digits(n \div 10), 48 + (n % 10))
Decimal(n) == IF n < 0 THEN <<45>> \o Digits(-n) ELSE Digits(n)

IsDigits(bytes) == bytes # <<>> /\ \A b \in Range(bytes) : b \in 48 .. 57
Amount(bytes) == FoldLeft(LAMBDA n, b : 10 * n + b - 48, 0, bytes)

\* ParseInt takes a sign, of either kind.
ParseInt(bytes) ==
  IF IsDigits(bytes) THEN Number(Amount(bytes))
  ELSE IF bytes # <<>> /\ bytes[1] \in {43, 45} /\ IsDigits(Tail(bytes))
  THEN Number((IF bytes[1] = 45 THEN -1 ELSE 1) * Amount(Tail(bytes)))
  ELSE Error

---------------------------------------------------------------------------
\* To each of the types.

Hex(id) == Text([hex |-> id])
MillisPerMinute == 60000

ToText(v) ==
  CASE v.type = "string" -> v
    [] v.type = "number" -> Chars(Decimal(v.value))
    [] v.type = "bool" -> Chars(IF Truthy(v) THEN <<116, 114, 117, 101>> ELSE <<102, 97, 108, 115, 101>>)
    [] v.type = "date" -> FormatDate(v.value, DefaultFormat, UTC.zone)
    [] v.type = "objectid" -> Hex(v.value)
    [] OTHER -> Error

\* A 32-bit integer is not made of a date, the other numbers are.
ToNumber(v, to) ==
  CASE v.type = "number" -> v
    [] v.type = "bool" -> Number(v.value)
    [] v.type = "date" -> IF to = "int" THEN Error ELSE Number(v.value * MillisPerMinute)
    [] v.type = "string" -> IF IsChars(v) THEN ParseInt(v.chars) ELSE Error
    [] OTHER -> Error

ToObjectID(v) ==
  CASE v.type = "objectid" -> v
    [] v.type = "string" -> IF "hex" \in DOMAIN v THEN Scalar("objectid", v.hex) ELSE Error
    [] OTHER -> Error

ToDate(v) ==
  CASE v.type = "date" -> v
    [] v.type = "number" -> Date(v.value \div MillisPerMinute)
    [] v.type = "objectid" -> Date(v.value)
    [] v.type = "string" -> IF "written" \in DOMAIN v THEN ParseAny(v.written, UTC.zone) ELSE Error
    [] OTHER -> Error

ConvertValue(v, to) ==
  CASE to = "string" -> ToText(v)
    [] to \in {"int", "long", "double"} -> ToNumber(v, to)
    [] to = "bool" -> Bool(Truthy(v))
    [] to = "objectId" -> ToObjectID(v)
    [] to = "date" -> ToDate(v)

Target == [op \in {"$toString", "$toInt", "$toLong", "$toDouble", "$toBool", "$toObjectId", "$toDate"} |->
             CASE op = "$toString" -> "string" [] op = "$toInt" -> "int" [] op = "$toLong" -> "long"
               [] op = "$toDouble" -> "double" [] op = "$toBool" -> "bool" [] op = "$toObjectId" -> "objectId"
               [] OTHER -> "date"]

ToOp(op, value) == IF Failed(value) THEN Error ELSE IF IsNull(value) THEN Null ELSE ConvertValue(value, Target[op])

\* A type by its name or its number.
TypeCodes == [n \in {1, 2, 7, 8, 9, 16, 18} |->
                CASE n = 1 -> "double" [] n = 2 -> "string" [] n = 7 -> "objectId" [] n = 8 -> "bool"
                  [] n = 9 -> "date" [] n = 16 -> "int" [] OTHER -> "long"]
ParseConvertTo(v) ==
  IF IsNumber(v) THEN (IF v.value \in DOMAIN TypeCodes THEN TypeCodes[v.value] ELSE "none")
  ELSE IF IsName(v) /\ v.name \in Range(TypeCodes) THEN v.name ELSE "none"

\* What stands for an error does not for one of the input.
Convert(spec) ==
  LET to == ParseConvertTo(spec["to"])
  IN IF IsNull(spec["to"]) THEN Null
     ELSE IF to = "none" \/ Failed(spec["input"]) THEN Error
     ELSE IF IsNull(spec["input"]) THEN Option(spec, "onNull", Null)
     ELSE OrOnError(spec, ConvertValue(spec["input"], to))

---------------------------------------------------------------------------
\* Numbers.

Magnitude(n) == IF n < 0 THEN -n ELSE n
Sign(n) == IF n < 0 THEN -1 ELSE 1
Power(n, exponent) == FoldLeft(LAMBDA p, m : p * n, 1, [m \in 1 .. exponent |-> m])

\* Halves are rounded away from zero, and to places before the decimal point
\* when the place is negative.
\* A plausible mistake: halves are rounded up.
Round_HalfUp(op, n, place) ==
  LET unit == Power(10, -place)
  IN IF place >= 0 THEN n ELSE IF op = "$round" THEN ((n + (unit \div 2)) \div unit) * unit
     ELSE Sign(n) * ((Magnitude(n) \div unit) * unit)

Round(op, n, place) ==
  LET unit == Power(10, -place)
      half == IF op = "$round" THEN unit \div 2 ELSE 0
  IN IF place >= 0 THEN n ELSE Sign(n) * (((Magnitude(n) + half) \div unit) * unit)

Rounding(op, values) ==
  LET place == IF Len(values) = 2 THEN values[2] ELSE Number(0)
  IN InOrder(<<values[1], place>>, "number", Number(Round(op, values[1].value, place.value)))

MathOp(op, value) == InOrder(<<value>>, "number", IF op = "$abs" THEN Number(Magnitude(value.value)) ELSE value)
Pow(values) == AtOnce(values, {"number"}, Number(Power(values[1].value, values[2].value)))

MathOperators == {"$abs", "$ceil", "$floor", "$round", "$trunc", "$pow"}
MathOperation(op, values) ==
  CASE op \in {"$abs", "$ceil", "$floor"} -> MathOp(op, values[1])
    [] op \in {"$round", "$trunc"} -> Rounding(op, values)
    [] op = "$pow" -> Pow(values)
============================================================================
