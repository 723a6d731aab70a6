------------------------------- MODULE Texts -------------------------------
(***************************************************************************)
(* The operators on strings, by the values of their arguments.             *)
(*                                                                         *)
(* A string of characters is a sequence of bytes, in UTF-8: some operators *)
(* count bytes and some characters, and a part by bytes may end inside a   *)
(* character.  The letters are those of ASCII and e with an accent.        *)
(***************************************************************************)
EXTENDS Operands

Chars(bytes) == Text([chars |-> bytes])
IsChars(v) == "chars" \in DOMAIN v
Empty == Chars(<<>>)

---------------------------------------------------------------------------
\* UTF-8, as Go decodes it: a byte that begins no character is one of its own.

\* What stands for such a byte when it is encoded again.
Replacement == <<239, 191, 189>>

IsContinuation(b) == b \in 128 .. 191
Length(b) == CASE b \in 194 .. 223 -> 2 [] b \in 224 .. 239 -> 3 [] OTHER -> 1

First(bytes) ==
  LET l == Length(bytes[1])
  IN IF l <= Len(bytes) /\ \A n \in 2 .. l : IsContinuation(bytes[n]) THEN SubSeq(bytes, 1, l) ELSE SubSeq(bytes, 1, 1)

\* The characters of a string, each by its bytes.
RECURSIVE Runes(_)
Runes(bytes) ==
  IF bytes = <<>> THEN <<>>
  ELSE LET first == First(bytes) IN <<first>> \o Runes(SubSeq(bytes, Len(first) + 1, Len(bytes)))

IsInvalid(rune) == Len(rune) = 1 /\ rune[1] >= 128
Points(bytes) == LET runes == Runes(bytes) IN [n \in DOMAIN runes |-> IF IsInvalid(runes[n]) THEN Replacement ELSE runes[n]]

\* The upper and lower case of a character.
AccentLower == <<195, 169>>
AccentUpper == <<195, 137>>
ToUpper(rune) == IF rune = AccentLower THEN AccentUpper
                 ELSE IF Len(rune) = 1 /\ rune[1] \in 97 .. 122 THEN <<rune[1] - 32>> ELSE rune
ToLower(rune) == IF rune = AccentUpper THEN AccentLower
                 ELSE IF Len(rune) = 1 /\ rune[1] \in 65 .. 90 THEN <<rune[1] + 32>> ELSE rune
MapRunes(bytes, upper) ==
  LET points == Points(bytes)
  IN FlattenSeq([n \in DOMAIN points |-> IF upper THEN ToUpper(points[n]) ELSE ToLower(points[n])])

---------------------------------------------------------------------------
\* Null is an empty string to some operators and makes the result null in
\* others.

\* $concat: null makes the result null, wherever it is, if nothing is wrong.
Concat(values) ==
  IF \E v \in Range(values) : ~IsNull(v) /\ ~IsChars(v) THEN Error
  ELSE IF \E v \in Range(values) : IsNull(v) THEN Null
  ELSE Chars(FlattenSeq([n \in DOMAIN values |-> values[n].chars]))

OrEmpty(v) == IF IsNull(v) THEN Empty ELSE v
OfString(value, result) == IF IsChars(value) THEN result ELSE Error

CaseConv(op, value) ==
  LET s == OrEmpty(value) IN OfString(s, Chars(MapRunes(s.chars, op = "$toUpper")))

StrLen(op, value) ==
  LET s == OrEmpty(value) IN OfString(s, Number(IF op = "$strLenBytes" THEN Len(s.chars) ELSE Len(Runes(s.chars))))

\* The bytes are compared.
Order(a, b) ==
  LET differ == {n \in DOMAIN a \intersect DOMAIN b : a[n] # b[n]}
  IN IF differ # {} THEN (IF a[Min(differ)] < b[Min(differ)] THEN -1 ELSE 1)
     ELSE IF Len(a) = Len(b) THEN 0 ELSE IF Len(a) < Len(b) THEN -1 ELSE 1

Strcasecmp(values) ==
  LET a == OrEmpty(values[1])
      b == OrEmpty(values[2])
  IN OfString(a, OfString(b, Number(Order(MapRunes(a.chars, TRUE), MapRunes(b.chars, TRUE)))))

---------------------------------------------------------------------------
\* Parts of a string.

\* A length that is negative is the rest.
Piece(list, start, length) ==
  IF start >= Len(list) THEN <<>>
  ELSE SubSeq(list, start + 1, IF length >= 0 /\ length < Len(list) - start THEN start + length ELSE Len(list))

Whole(v) == IF IsNull(v) THEN 0 ELSE v.value
Wholes(values, result) == IF \A v \in Range(values) : IsNull(v) \/ IsNumber(v) THEN result ELSE Error

\* A plausible mistake: the characters are counted as bytes.
Substr_OnlyBytes(op, values) ==
  LET s == OrEmpty(values[1])
  IN IF IsNull(values[1]) THEN Empty ELSE OfString(s, Wholes(Tail(values), Chars(Piece(s.chars, Whole(values[2]), Whole(values[3])))))

Substr(op, values) ==
  LET s      == values[1]
      start  == Whole(values[2])
      length == Whole(values[3])
  IN IF IsNull(s) THEN Empty
     ELSE OfString(s, Wholes(Tail(values),
            IF start < 0 THEN Empty
            ELSE IF op = "$substrCP" THEN Chars(FlattenSeq(Piece(Points(s.chars), start, length)))
            ELSE Chars(Piece(s.chars, start, length))))

\* Where one sequence is in another, from a place on.
Occurrences(list, sub) ==
  {n \in 0 .. Len(list) - Len(sub) : SubSeq(list, n + 1, n + Len(sub)) = sub}

\* The places of the occurrences that do not overlap, from left to right.
RECURSIVE Places(_, _, _)
Places(list, sub, from) ==
  LET at == {n \in Occurrences(list, sub) : n >= from}
  IN IF at = {} THEN <<>> ELSE <<Min(at)>> \o Places(list, sub, Min(at) + Len(sub))

\* What is between the places.
Between(list, sub, places) ==
  LET ends == Append(places, Len(list))
  IN [n \in DOMAIN ends |-> SubSeq(list, IF n = 1 THEN 1 ELSE ends[n - 1] + Len(sub) + 1, ends[n])]

Split(values) ==
  IF IsNull(values[1]) THEN Null
  ELSE OfString(values[1],
    IF IsNull(values[2]) THEN Null
    ELSE OfString(values[2],
      LET s == values[1].chars
          delim == values[2].chars
          parts == Between(s, delim, Places(s, delim, 0))
      IN IF delim = <<>> THEN Error ELSE Array([n \in DOMAIN parts |-> Chars(parts[n])])))

\* An empty string is found in front of every character and at the end.
RuneStarts(bytes) ==
  LET runes == Runes(bytes)
  IN [n \in 1 .. Len(runes) + 1 |-> FoldLeft(LAMBDA l, r : l + Len(r), 0, SubSeq(runes, 1, n - 1))]
FoundAt(bytes, find) == IF find = <<>> THEN RuneStarts(bytes) ELSE Places(bytes, find, 0)

JoinedBy(parts, with) == FlattenSeq([n \in DOMAIN parts |-> IF n = 1 THEN parts[n] ELSE with \o parts[n]])

Replaced(bytes, find, replacement, all) ==
  LET found == FoundAt(bytes, find)
  IN JoinedBy(Between(bytes, find, IF all \/ found = <<>> THEN found ELSE <<Head(found)>>), replacement)

\* All three are looked at before null is; a replacement that is null is empty.
Replace(op, spec) ==
  LET input == OrEmpty(spec["input"])
      find  == OrEmpty(spec["find"])
      replacement == OrEmpty(spec["replacement"])
  IN IF ~IsChars(input) \/ ~IsChars(find) \/ ~IsChars(replacement) THEN Error
     ELSE IF IsNull(spec["input"]) \/ IsNull(spec["find"]) THEN Null
     ELSE Chars(Replaced(input.chars, find.chars, replacement.chars, op = "$replaceAll"))

\* Trimmed by characters.
Whitespace == <<32, 9, 10, 11, 12, 13>>
Trimmed(bytes, cutset, left, right) ==
  LET runes == Runes(bytes)
      kept  == SelectSeq([n \in DOMAIN runes |-> n], LAMBDA n : Points(runes[n])[1] \notin Range(Points(cutset)))
      Stays(n) == (left => \E k \in Range(kept) : k <= n) /\ (right => \E k \in Range(kept) : k >= n)
  IN FlattenSeq([n \in DOMAIN runes |-> IF Stays(n) THEN runes[n] ELSE <<>>])

Trim(op, spec) ==
  LET input == spec["input"]
      chars == Option(spec, "chars", Chars(Whitespace))
  IN InTurn(<<Needed(input, IsChars(input)), Needed(chars, IsChars(chars))>>,
            Chars(Trimmed(input.chars, chars.chars, op # "$rtrim", op # "$ltrim")))

\* Where a string is found between two places, which are moved into the string.
IndexIn(list, sub, at) ==
  LET l     == Len(list)
      Into(n) == Max({0, Min({n, l})})
      start == IF at = <<>> \/ IsNull(at[1]) THEN 0 ELSE Into(at[1].value)
      end   == IF Len(at) < 2 \/ IsNull(at[2]) THEN l ELSE Into(at[2].value)
      found == {n \in Occurrences(list, sub) : start <= n /\ n + Len(sub) <= Max({start, end})}
  IN IF found = {} THEN -1 ELSE Min(found)

IndexOfString(op, values) ==
  LET at == SubSeq(values, 3, Len(values))
  IN IF IsNull(values[1]) THEN Null
     ELSE OfString(values[1],
       IF IsNull(values[2]) THEN Number(-1)
       ELSE OfString(values[2], Wholes(at,
         Number(IF op = "$indexOfCP" THEN IndexIn(Points(values[1].chars), Points(values[2].chars), at)
                ELSE IndexIn(values[1].chars, values[2].chars, at)))))

---------------------------------------------------------------------------
TextOperators == {"$concat", "$toUpper", "$toLower", "$strLenCP", "$strLenBytes", "$strcasecmp", "$substr",
                  "$substrBytes", "$substrCP", "$split", "$indexOfCP", "$indexOfBytes"}

TextOperation(op, values) ==
  CASE op = "$concat" -> Concat(values)
    [] op \in {"$toUpper", "$toLower"} -> CaseConv(op, values[1])
    [] op \in {"$strLenCP", "$strLenBytes"} -> StrLen(op, values[1])
    [] op = "$strcasecmp" -> Strcasecmp(values)
    [] op \in {"$substr", "$substrBytes", "$substrCP"} -> Substr(op, values)
    [] op = "$split" -> Split(values)
    [] op \in {"$indexOfCP", "$indexOfBytes"} -> IndexOfString(op, values)

\* The keys that those with a specification require.
TextKeys == [op \in {"$trim", "$ltrim", "$rtrim"} |-> {"input"}]
              @@ [op \in {"$replaceOne", "$replaceAll"} |-> {"input", "find", "replacement"}]
============================================================================
