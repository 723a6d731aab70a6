------------------------------- MODULE Dates -------------------------------
(***************************************************************************)
(* The operators on dates, by the values of their arguments.               *)
(*                                                                         *)
(* A date is an instant, in whole minutes since 1970, so that seconds and  *)
(* milliseconds are 0.  A zone is a string that says how far it is from    *)
(* UTC before and after the one time it changes; all other strings name no *)
(* zone.  A format is a sequence of specifiers and of other text, and a    *)
(* date that is written has what each of them stands for.  The units of a  *)
(* second and less are left out.                                           *)
(***************************************************************************)
EXTENDS Operands

Date(t) == Scalar("date", t)
Zone(before, at, after) == Text([zone |-> [before |-> before, at |-> at, after |-> after]])
UTC == Zone(0, 0, 0)
Format(elements) == Text([format |-> elements])
Written(elements) == Text([written |-> elements])

---------------------------------------------------------------------------
\* The calendar of Go.  Day 0 is the first of 1970, a Thursday.

MinutesPerDay == 1440

IsLeap(y) == y % 4 = 0 /\ (y % 100 # 0 \/ y % 400 = 0)
FirstDay(y) == 365 * (y - 1970) + ((y - 1) \div 4) - ((y - 1) \div 100) + ((y - 1) \div 400) - 477
CommonStarts == <<0, 31, 59, 90, 120, 151, 181, 212, 243, 273, 304, 334, 365>>
MonthStarts(y) == [m \in 1 .. 13 |-> CommonStarts[m] + IF m > 2 /\ IsLeap(y) THEN 1 ELSE 0]

Year(day) == CHOOSE y \in 1969 + (day \div 366) .. 1971 + (day \div 365) : FirstDay(y) <= day /\ day < FirstDay(y + 1)
YearDay(day) == day - FirstDay(Year(day))
Month(day) == CHOOSE m \in 1 .. 12 : LET s == MonthStarts(Year(day)) IN s[m] <= YearDay(day) /\ YearDay(day) < s[m + 1]
MonthDay(day) == YearDay(day) - MonthStarts(Year(day))[Month(day)] + 1
Weekday(day) == (day + 4) % 7

\* The months and days that are too many go over to the next year and month.
DayNumber(y, m, d) ==
  LET months == 12 * y + m - 1
  IN FirstDay(months \div 12) + MonthStarts(months \div 12)[(months % 12) + 1] + d - 1

\* The week of a year that has the Thursday of a week.
Thursday(day) == day + 3 - ((Weekday(day) + 6) % 7)
ISOWeek(day) == (YearDay(Thursday(day)) \div 7) + 1

Offset(zone, t) == IF t < zone.at THEN zone.before ELSE zone.after
Local(t, zone) == t + Offset(zone, t)

\* The clock of a zone is read with the offset it has when the first guess is
\* taken for the instant.
Instant(local, zone) == local - Offset(zone, local - Offset(zone, local))
Midnight(day, zone) == Instant(day * MinutesPerDay, zone)
LocalDay(t, zone) == Local(t, zone) \div MinutesPerDay

AddMonthsAndDays(t, zone, months, days) ==
  LET day == LocalDay(t, zone)
  IN Instant(DayNumber(Year(day), Month(day) + months, MonthDay(day) + days) * MinutesPerDay
               + (Local(t, zone) % MinutesPerDay), zone)

---------------------------------------------------------------------------
\* What the operators have in common.

IsDate(v) == v.type = "date"
IsZone(v) == "zone" \in DOMAIN v
ZoneOf(spec) == Option(spec, "timezone", UTC)

ADate(v) == Needed(v, IsDate(v))
AZone(spec) == Needed(ZoneOf(spec), IsZone(ZoneOf(spec)))

WeekNumber(day) == (YearDay(day) + 7 - Weekday(day)) \div 7
IsoDayOfWeek(day) == ((Weekday(day) + 6) % 7) + 1

Extractions == {"$year", "$month", "$dayOfMonth", "$hour", "$minute", "$second", "$millisecond", "$dayOfWeek",
                "$dayOfYear", "$week", "$isoDayOfWeek", "$isoWeek", "$isoWeekYear"}

Extract(op, local) ==
  LET day == local \div MinutesPerDay
  IN CASE op = "$year" -> Year(day) [] op = "$month" -> Month(day) [] op = "$dayOfMonth" -> MonthDay(day)
       [] op = "$hour" -> (local % MinutesPerDay) \div 60 [] op = "$minute" -> local % 60
       [] op = "$dayOfWeek" -> Weekday(day) + 1 [] op = "$dayOfYear" -> YearDay(day) + 1
       [] op = "$week" -> WeekNumber(day) [] op = "$isoDayOfWeek" -> IsoDayOfWeek(day)
       [] op = "$isoWeek" -> ISOWeek(day) [] op = "$isoWeekYear" -> Year(Thursday(day))
       [] OTHER -> 0

\* The date is looked at before the zone.
DateExtract(op, spec) ==
  InTurn(<<ADate(spec["date"]), AZone(spec)>>, Number(Extract(op, Local(spec["date"].value, ZoneOf(spec).zone))))

---------------------------------------------------------------------------
\* Parts.

Clock == [hour |-> "$hour", minute |-> "$minute", second |-> "$second", millisecond |-> "$millisecond"]
CalendarParts == [year |-> "$year", month |-> "$month", day |-> "$dayOfMonth"] @@ Clock
IsoParts == [isoWeekYear |-> "$isoWeekYear", isoWeek |-> "$isoWeek", isoDayOfWeek |-> "$isoDayOfWeek"] @@ Clock

DateToParts(spec) ==
  LET iso == Option(spec, "iso8601", Bool(FALSE))
      parts == IF Truthy(iso) THEN IsoParts ELSE CalendarParts
  IN InTurn(<<AZone(spec), Needed(iso, iso.type = "bool"), ADate(spec["date"])>>,
            Document([p \in DOMAIN parts |-> Number(Extract(parts[p], Local(spec["date"].value, ZoneOf(spec).zone)))]))

Part(spec, key) ==
  Option(spec, key, Number(IF key \in DOMAIN Clock THEN 0 ELSE IF key \in {"year", "isoWeekYear"} THEN 1970 ELSE 1))

\* The fourth of January is in the first week, whose Monday is looked for.  The
\* code counts from midnight to midnight.
IsoDay(year, week, weekday, zone) ==
  LET jan4   == Midnight(DayNumber(year, 1, 4), zone)
      monday == AddMonthsAndDays(jan4, zone, 0, 1 - IsoDayOfWeek(LocalDay(jan4, zone)))
  IN LocalDay(AddMonthsAndDays(monday, zone, 0, (week - 1) * 7 + (weekday - 1)), zone)

DateFromParts(spec) ==
  LET iso   == "isoWeekYear" \in DOMAIN spec
      keys  == (IF iso THEN <<"isoWeekYear", "isoWeek", "isoDayOfWeek">> ELSE <<"year", "month", "day">>)
                 \o <<"hour", "minute", "second", "millisecond">>
      V(n)  == Part(spec, keys[n]).value
      zone  == ZoneOf(spec).zone
      day   == IF iso THEN IsoDay(V(1), V(2), V(3), zone) ELSE DayNumber(V(1), V(2), V(3))
  IN InTurn(<<AZone(spec)>> \o [n \in DOMAIN keys |-> Needed(Part(spec, keys[n]), IsNumber(Part(spec, keys[n])))],
            Date(Instant(day * MinutesPerDay + V(4) * 60 + V(5) + (V(6) \div 60), zone)))

---------------------------------------------------------------------------
\* Units.

Months == [year |-> 12, quarter |-> 3, month |-> 1]
Days == [week |-> 7, day |-> 1]
Minutes == [hour |-> 60, minute |-> 1]
UnitMinutes == [day |-> MinutesPerDay] @@ Minutes

UnitOf(v) == IF IsName(v) THEN v.name ELSE "none"
AString(v) == IF v.type \in {"string", "null"} THEN v ELSE Error

AddTimeUnit(t, unit, amount, zone) ==
  CASE unit \in DOMAIN Months -> Date(AddMonthsAndDays(t, zone, Months[unit] * amount, 0))
    [] unit \in DOMAIN Days -> Date(AddMonthsAndDays(t, zone, 0, Days[unit] * amount))
    [] unit \in DOMAIN Minutes -> Date(t + Minutes[unit] * amount)
    [] OTHER -> Error

\* All is evaluated before anything but the zone and the type of the unit is
\* looked at.
Considered(spec, values, unit, result) ==
  InTurn(<<AZone(spec)>>,
    Evaluated(values \o <<AString(unit)>>, IF \E v \in Range(values) \union {unit} : IsNull(v) THEN Null ELSE result))

DateArith(op, spec) ==
  LET start == spec["startDate"]
      amount == spec["amount"]
  IN Considered(spec, <<start, amount>>, spec["unit"],
       IF ~IsDate(start) \/ ~IsNumber(amount) THEN Error
       ELSE AddTimeUnit(start.value, UnitOf(spec["unit"]),
                        IF op = "$dateAdd" THEN amount.value ELSE -amount.value, ZoneOf(spec).zone))

\* How many boundaries of a unit are before a local time.
WeekIndex(local) == ((local \div MinutesPerDay) + 4) \div 7
MonthIndex(day) == Year(day) * 12 + Month(day) - 1
Boundary(local, unit) ==
  CASE unit \in DOMAIN Months -> MonthIndex(local \div MinutesPerDay) \div Months[unit]
    [] unit = "week" -> WeekIndex(local)
    [] OTHER -> local \div UnitMinutes[unit]

DateDiff(spec) ==
  LET start == spec["startDate"]
      end   == spec["endDate"]
      unit  == UnitOf(spec["unit"])
  IN Considered(spec, <<start, end>>, spec["unit"],
       IF ~IsDate(start) \/ ~IsDate(end) \/ unit \notin DOMAIN Months \union DOMAIN Days \union DOMAIN Minutes THEN Error
       ELSE Number(Boundary(Local(end.value, ZoneOf(spec).zone), unit) - Boundary(Local(start.value, ZoneOf(spec).zone), unit)))

\* Bins are counted from the first of 2000; those of weeks from the last start
\* of a week before it.
Epoch == DayNumber(2000, 1, 1)

\* A plausible mistake: the quotient of what is before 2000 is not rounded down.
Floor_TowardZero(n, size) == IF n < 0 THEN -(((-n) \div size) * size) ELSE (n \div size) * size
Floor(n, size) == (n \div size) * size

StartDays == [sunday |-> 0, sun |-> 0, monday |-> 1, mon |-> 1, tuesday |-> 2, tue |-> 2, wednesday |-> 3, wed |-> 3,
              thursday |-> 4, thu |-> 4, friday |-> 5, fri |-> 5, saturday |-> 6, sat |-> 6]

BinOf(t, ref, size, zone) ==
  Date(Instant(Local(ref, zone) + Floor(Local(t, zone) - Local(ref, zone), size), zone))

Truncate(t, unit, size, weekStart, zone) ==
  LET ref == Midnight(Epoch, zone)
  IN CASE unit \in DOMAIN Months ->
            LET month == Floor(MonthIndex(LocalDay(t, zone)) - 2000 * 12, Months[unit] * size)
            IN Date(Midnight(DayNumber(2000, month + 1, 1), zone))
       [] unit = "week" ->
            IF weekStart \notin DOMAIN StartDays THEN Error
            ELSE LET delta == (Weekday(LocalDay(ref, zone)) - StartDays[weekStart] + 7) % 7
                 IN BinOf(t, AddMonthsAndDays(ref, zone, 0, -delta), size * 7 * MinutesPerDay, zone)
       [] unit \in DOMAIN UnitMinutes -> BinOf(t, ref, size * UnitMinutes[unit], zone)
       [] OTHER -> Error

DateTrunc(spec) ==
  LET size   == Option(spec, "binSize", Number(1))
      start  == Option(spec, "startOfWeek", Name("sunday"))
      needs  == <<AZone(spec), Needed(size, IsNumber(size) /\ size.value >= 1), Needed(start, start.type = "string")>>
  IN IF Failed(AString(spec["unit"])) /\ IsZone(ZoneOf(spec)) THEN Error
     ELSE InTurn(needs, Evaluated(<<spec["date"]>>,
            IF IsNull(spec["date"]) \/ IsNull(spec["unit"]) THEN Null
            ELSE IF ~IsDate(spec["date"]) THEN Error
            ELSE Truncate(spec["date"].value, UnitOf(spec["unit"]), size.value, UnitOf(start), ZoneOf(spec).zone)))

---------------------------------------------------------------------------
\* Text.

\* The specifiers, what they stand for and how many characters it takes.
Specifiers == [Y |-> "$year", m |-> "$month", d |-> "$dayOfMonth", H |-> "$hour", M |-> "$minute", S |-> "$second",
               L |-> "$millisecond", j |-> "$dayOfYear", w |-> "$dayOfWeek", U |-> "$week", G |-> "$isoWeekYear",
               V |-> "$isoWeek", u |-> "$isoDayOfWeek"]
Width == [s \in DOMAIN Specifiers |->
            CASE s \in {"Y", "G"} -> 4 [] s \in {"L", "j"} -> 3 [] s \in {"w", "u"} -> 1 [] OTHER -> 2]
\* The default ends with a Z, which says UTC, in whatever zone.
DefaultFormat == <<"Y", "-", "m", "-", "d", "T", "H", ":", "M", ":", "S", ".", "L", "zulu">>

\* z and Z are the zone, as four digits and as a number of minutes.
WriteElement(s, local, offset) ==
  IF s \in DOMAIN Specifiers THEN [width |-> Width[s], value |-> Extract(Specifiers[s], local)]
  ELSE IF s = "z" THEN [zone |-> "digits", value |-> offset]
  ELSE IF s = "Z" THEN [zone |-> "minutes", value |-> offset]
  ELSE [text |-> s]

FormatDate(t, format, zone) ==
  Written([n \in DOMAIN format |-> WriteElement(format[n], Local(t, zone), Offset(zone, t))])

NullResult(spec) == Option(spec, "onNull", Null)
IsFormat(v) == "format" \in DOMAIN v

DateToString(spec) ==
  LET zone == ZoneOf(spec)
      isGiven == "format" \in DOMAIN spec
  IN IF isGiven /\ IsNull(spec["format"]) THEN Null
     ELSE IF isGiven /\ ~IsFormat(spec["format"]) THEN Error
     ELSE IF IsNull(zone) THEN NullResult(spec)
     ELSE IF ~IsZone(zone) THEN Error
     ELSE IF IsNull(spec["date"]) THEN NullResult(spec)
     ELSE IF ~IsDate(spec["date"]) THEN Error
     ELSE FormatDate(spec["date"].value, IF isGiven THEN spec["format"].format ELSE DefaultFormat, zone.zone)

\* A format is read as a layout of Go: without day of year, weeks and weekdays,
\* and Z stands for hours and minutes, which is not how it is written.
Readable == {"Y", "m", "d", "H", "M", "S", "L", "z", "Z"}
Reads(s, written) ==
  CASE s = "z" -> "zone" \in DOMAIN written /\ written.zone = "digits"
    [] s = "Z" -> FALSE
    [] s \in Readable \ {"z", "Z"} -> "width" \in DOMAIN written /\ written.width = Width[s]
    [] OTHER -> written = [text |-> s]

Matches(text, format) ==
  /\ DOMAIN text = DOMAIN format
  /\ Range(format) \intersect DOMAIN Specifiers \subseteq Readable
  /\ \A n \in DOMAIN format : Reads(format[n], text[n])

\* What is not in the format is the first of its kind; without a zone in it,
\* the time is one of the zone that is given.
ReadField(text, format, s, default) ==
  LET at == {n \in DOMAIN format : format[n] = s} IN IF at = {} THEN default ELSE text[Max(at)].value

ParseDate(text, format, zone) ==
  LET Read(s, default) == ReadField(text, format, s, default)
      year  == Read("Y", 0)
      month == Read("m", 1)
      isDay == /\ month \in 1 .. 12
               /\ Read("d", 1) \in 1 .. MonthStarts(year)[month + 1] - MonthStarts(year)[month]
               /\ Read("H", 0) < 24 /\ Read("M", 0) < 60
      local == DayNumber(year, month, Read("d", 1)) * MinutesPerDay + Read("H", 0) * 60 + Read("M", 0)
  IN IF ~Matches(text, format) \/ ~isDay THEN Error
     ELSE Date(IF "z" \in Range(format) THEN local - Read("z", 0) ELSE Instant(local, zone))

\* The layouts that are tried without a format, one after the other; a Z at the
\* end is UTC.
ParseLayouts == <<DefaultFormat, <<"Y", "-", "m", "-", "d", "T", "H", ":", "M", ":", "S">>, <<"Y", "-", "m", "-", "d">>>>
ParseAny(text, zone) ==
  FoldLeft(LAMBDA date, l : IF Failed(date) THEN ParseDate(text, l, IF "zulu" \in Range(l) THEN UTC.zone ELSE zone) ELSE date,
           Error, ParseLayouts)

\* A zone that is not known ends the connection: its error is made of another,
\* which is nil.
DateFromString(spec) ==
  LET text == spec["dateString"]
      zone == ZoneOf(spec)
      isGiven == "format" \in DOMAIN spec
      needs  == <<AZone(spec)>> \o (IF isGiven THEN <<Needed(spec["format"], IsFormat(spec["format"]))>> ELSE <<>>)
  IN IF Failed(text) THEN Error
     ELSE IF IsNull(text) THEN NullResult(spec)
     ELSE IF text.type # "string" THEN Option(spec, "onError", Error)
     ELSE InTurn(needs, OrOnError(spec,
            IF "written" \notin DOMAIN text THEN Error
            ELSE IF isGiven THEN ParseDate(text.written, spec["format"].format, zone.zone)
            ELSE ParseAny(text.written, zone.zone)))

---------------------------------------------------------------------------
\* The keys that an operator on dates requires, and the operator.

DateKeys ==
  [op \in {"$dateToString", "$dateToParts"} |-> {"date"}] @@ [op \in {"$dateFromString"} |-> {"dateString"}]
  @@ [op \in {"$dateFromParts"} |-> {}] @@ [op \in {"$dateAdd", "$dateSubtract"} |-> {"startDate", "unit", "amount"}]
  @@ [op \in {"$dateDiff"} |-> {"startDate", "endDate", "unit"}] @@ [op \in {"$dateTrunc"} |-> {"date", "unit"}]

DateOperation(op, spec) ==
  CASE op = "$dateToString" -> DateToString(spec)
    [] op = "$dateFromString" -> DateFromString(spec)
    [] op = "$dateToParts" -> DateToParts(spec)
    [] op = "$dateFromParts" -> DateFromParts(spec)
    [] op \in {"$dateAdd", "$dateSubtract"} -> DateArith(op, spec)
    [] op = "$dateDiff" -> DateDiff(spec)
    [] op = "$dateTrunc" -> DateTrunc(spec)
============================================================================
