------------------------------- MODULE Dates -------------------------------
(***************************************************************************)
(* Dates, which are a number of days since 1970-01-01, and timestamps: the *)
(* casts from and to texts, the first day of a week, month, quarter or     *)
(* year, and the timestamps of the zone GMT+08:00, which has no summer     *)
(* time.  A text is the sequence of its bytes.                             *)
(***************************************************************************)
EXTENDS Decimals, Texts

CONSTANTS
  Int32Max,       \* 2^31 - 1, the largest number of days and of a year on the way
  MinYear,        \* -292275055
  MaxYear,        \* 292278994
  LeapYearOffset, \* 4000000000, a multiple of 400
  MillisPerSecond, MinEpochSeconds, MaxEpochSeconds  \* 1000, and the years 0 to 9999

ASSUME YearRange ==
  /\ MinYear < 0 /\ 0 < MaxYear /\ MaxYear < Int32Max /\ Int32Max < 10 * MaxYear
  /\ LeapYearOffset % 400 = 0 /\ MinYear + LeapYearOffset > 0

Minus == 45
Plus  == 43
Point == 46

IsDigit(byte) == 48 <= byte /\ byte <= 57
DigitOf(byte) == byte - 48

\* Blanks before and after are not looked at (StringUtil::TrimString).
TrimString(s) ==
  LET text == {i \in DOMAIN s : s[i] # Space}
  IN  IF text = {} THEN <<>>
      ELSE SubSeq(s, CHOOSE i \in text : \A j \in text : i <= j,
                     CHOOSE i \in text : \A j \in text : j <= i)

\* The digits of a number that is not negative.
RECURSIVE DigitsOf(_)
DigitsOf(n) == IF n < 10 THEN <<48 + n>> ELSE Append(DigitsOf(n \div 10), 48 + (n % 10))

\* With zeros before it up to a width.
AppendDigits(n, minWidth) ==
  [i \in 1 .. minWidth - Len(DigitsOf(n)) |-> 48] \o DigitsOf(n)

-----------------------------------------------------------------------------
(* The calendar.                                                           *)

IsLeapYear(year) == Rem(year, 4) = 0 /\ (Rem(year, 100) # 0 \/ Rem(year, 400) = 0)

NormalMonths == <<31, 28, 31, 30, 31, 30, 31, 31, 30, 31, 30, 31>>
MonthLengths(leap) == IF leap THEN [NormalMonths EXCEPT ![2] = 29] ELSE NormalMonths

\* The days of a year before each of its months, and at its end.
CumulativeNormal == <<0, 31, 59, 90, 120, 151, 181, 212, 243, 273, 304, 334, 365>>
CumulativeLeap   == <<0, 31, 60, 91, 121, 152, 182, 213, 244, 274, 305, 335, 366>>
CumulativeDays(leap) == IF leap THEN CumulativeLeap ELSE CumulativeNormal

\* The table of the days from 1970 to each year up to 2370.
CumulativeYearDays ==
  [y \in 0 .. 400 |-> 365 * y + Cardinality({k \in 1970 .. 1969 + y : IsLeapYear(k)})]

DaysPerYearInterval == 146097

IsValidDate(year, month, day) ==
  /\ 1 <= month /\ month <= 12
  /\ MinYear <= year /\ year <= MaxYear
  /\ 1 <= day /\ day <= MonthLengths(IsLeapYear(year))[month]

\* How many times 400 years are added until a year is in the table.
Intervals(year) ==
  CASE year < 1970  -> (1970 - year + 399) \div 400
    [] year >= 2370 -> -((year - 2370) \div 400 + 1)
    [] OTHER        -> 0

\* The day of a date, or none.
DaysSinceEpochFromDate(year, month, day) ==
  LET known == year + 400 * Intervals(year)
  IN  IF ~IsValidDate(year, month, day) THEN <<>>
      ELSE <<CumulativeYearDays[known - 1970] - Intervals(year) * DaysPerYearInterval
             + CumulativeDays(IsLeapYear(known))[month] + day - 1>>

ValidDate(days) == -Int32Max - 1 <= days /\ days <= Int32Max

LeapThroughEndOf(y) ==
  LET n == y + LeapYearOffset IN Quo(n, 4) - Quo(n, 100) + Quo(n, 400)

\* The year a number of days from the first of January of y lies in, and the day in it.
RECURSIVE YearOfDays(_, _)
YearOfDays(y, days) ==
  IF days >= 0 /\ days < IF IsLeapYear(y) THEN 366 ELSE 365
  THEN [year |-> y, day |-> days]
  ELSE LET newY == y + Quo(days, 365) - IF days < 0 THEN 1 ELSE 0
       IN  YearOfDays(newY, days - ((newY - y) * 365 + LeapThroughEndOf(newY - 1)
                                                    - LeapThroughEndOf(y - 1)))

\* A day of a year by its month.
OfYear(at) ==
  LET before == CumulativeDays(IsLeapYear(at.year))
      mon    == CHOOSE m \in 1 .. 12 : before[m] <= at.day /\ at.day < before[m + 1]
  IN  [year |-> at.year, mon |-> mon, mday |-> at.day - before[mon] + 1]

\* The day of a number of seconds, which is not before them, and the seconds of the day.
SecondsPerDay == 86400
EpochToUtc(days) == OfYear(YearOfDays(1970, days))

TmToStringView(tm) ==
  (IF tm.year < 0 THEN <<Minus>> ELSE IF tm.year > 9999 THEN <<Plus>> ELSE <<>>)
    \o AppendDigits(Abs(tm.year), 4)
    \o <<Minus>> \o AppendDigits(tm.mon, 2) \o <<Minus>> \o AppendDigits(tm.mday, 2)

CastDateToString(days) == Gives(TmToStringView(EpochToUtc(days)))

-----------------------------------------------------------------------------
(* A text to a date.                                                       *)

\* The year from a position on: up to its first digit that makes it too large.
RECURSIVE YearFrom(_, _, _)
YearFrom(s, pos, year) ==
  LET next == 10 * year + DigitOf(s[pos])
  IN  IF pos > Len(s) \/ ~IsDigit(s[pos]) THEN [pos |-> pos, year |-> year, fits |-> TRUE]
      ELSE IF next > Int32Max THEN [pos |-> pos, year |-> year, fits |-> FALSE]
      ELSE IF next > MaxYear THEN [pos |-> pos, year |-> next, fits |-> TRUE]
      ELSE YearFrom(s, pos + 1, next)

\* One digit or two, or none.
ParseDigit(s, pos) ==
  CASE pos > Len(s) \/ ~IsDigit(s[pos]) -> [pos |-> pos, num |-> 0, any |-> FALSE]
    [] pos < Len(s) /\ IsDigit(s[pos]) /\ IsDigit(s[pos + 1]) ->
         [pos |-> pos + 2, num |-> 10 * DigitOf(s[pos]) + DigitOf(s[pos + 1]), any |-> TRUE]
    [] OTHER -> [pos |-> pos + 1, num |-> DigitOf(s[pos]), any |-> TRUE]

OnlyValid(days) == IF days # <<>> /\ ValidDate(days[1]) THEN days ELSE <<>>

\* After the day comes the end, or a T or a blank and anything.
WithDay(s, year, month, day) ==
  IF ~day.any \/ (day.pos <= Len(s) /\ s[day.pos] \notin {84, Space}) THEN <<>>
  ELSE OnlyValid(DaysSinceEpochFromDate(year, month, day.num))

WithMonth(s, year, month) ==
  IF ~month.any THEN <<>>
  ELSE IF month.pos > Len(s) THEN OnlyValid(DaysSinceEpochFromDate(year, month.num, 1))
  ELSE IF s[month.pos] # Minus THEN <<>>
  ELSE WithDay(s, year, month.num, ParseDigit(s, month.pos + 1))

WithYear(s, year, pos) ==
  IF year < MinYear THEN <<>>
  ELSE IF pos > Len(s) THEN OnlyValid(DaysSinceEpochFromDate(year, 1, 1))
  ELSE IF s[pos] # Minus THEN <<>>
  ELSE WithMonth(s, year, ParseDigit(s, pos + 1))

\* The year has four digits or more, which start at a position.
AfterSign(s, start, at) ==
  IF ~at.fits \/ at.pos - start < 4 THEN <<>>
  ELSE WithYear(s, IF s[1] = Minus THEN -at.year ELSE at.year, at.pos)

\* The day of a text, or none.
DateOfTrimmed(s) ==
  IF s = <<>> THEN <<>>
  ELSE LET start == IF s[1] \in {Minus, Plus} THEN 2 ELSE 1
       IN  AfterSign(s, start, YearFrom(s, start, 0))

StringToDate32(s) == DateOfTrimmed(TrimString(s))

\* The form of a date: digits of a year, two of a month and two of a day.
MatchesDate(s, years) ==
  \E y \in years :
    /\ Len(s) = y + 6
    /\ \A i \in DOMAIN s : IF i \in {y + 1, y + 4} THEN s[i] = Minus ELSE IsDigit(s[i])

OrFails(c, days) ==
  IF days # <<>> THEN Gives(days[1]) ELSE IF c.mode = "null" THEN GivesNull ELSE GivesError

\* A year has up to five digits, in a batch four.
CastStringToDateNotAllowReducePrecison(c, s) ==
  OrFails(c, IF MatchesDate(TrimString(s), 1 .. 5) THEN StringToDate32(s) ELSE <<>>)
CastStringToDateAllowReducePrecison(c, s) == OrFails(c, StringToDate32(s))

BatchCastStringToDateNotAllowReducePrecison(c, s) ==
  OrFails(c, IF MatchesDate(TrimString(s), {4}) THEN StringToDate32(s) ELSE <<>>)
BatchCastStringToDateAllowReducePrecison(c, s) == OrFails(c, StringToDate32(s))

-----------------------------------------------------------------------------
(* The first day of a week, month, quarter or year.                        *)

DaysPerCycle == 146097
Days0000To1970 == DaysPerCycle * 5 - (30 * 365 + 7)

\* The days before a year that begins in March, and of the estimate of the year.
DaysBeforeYear(year) == 365 * year + Quo(year, 4) - Quo(year, 100) + Quo(year, 400)

\* A date of its day in a year that begins in March.
FromMarch(year, doy) ==
  LET month == (doy * 5 + 2) \div 153
  IN  [year  |-> year + month \div 10,
       month |-> ((month + 2) % 12) + 1,
       day   |-> doy - (month * 306 + 5) \div 10 + 1]

\* An estimate of the year, that is one too large where no day is left.
FromEstimate(dayZero, yearEst, adjust) ==
  IF dayZero >= DaysBeforeYear(yearEst)
  THEN FromMarch(yearEst + adjust, dayZero - DaysBeforeYear(yearEst))
  ELSE FromMarch(yearEst - 1 + adjust, dayZero - DaysBeforeYear(yearEst - 1))

\* A day before the year 0 is moved by cycles of 400 years.
FromDayZero(dayZero) ==
  LET cycles == IF dayZero < 0 THEN Quo(dayZero + 1, DaysPerCycle) - 1 ELSE 0
      moved  == dayZero - cycles * DaysPerCycle
  IN  FromEstimate(moved, Quo(400 * moved + 591, DaysPerCycle), 400 * cycles)

LocalDate(epochDay) == FromDayZero(epochDay + Days0000To1970 - 60)

ToDays(date) ==
  LET year == date.year
      leaps == IF year >= 0 THEN Quo(year + 3, 4) - Quo(year + 99, 100) + Quo(year + 399, 400)
               ELSE -(Quo(year, -4) - Quo(year, -100) + Quo(year, -400))
      late == IF date.month <= 2 THEN 0 ELSE IF IsLeapYear(year) THEN 1 ELSE 2
  IN  365 * year + leaps + Quo(367 * date.month - 362, 12) + date.day - 1 - late - Days0000To1970

SetQuarter(date) == [date EXCEPT !.month = Quo(@ - 1, 3) * 3 + 1, !.day = 1]

FirstDayOfYear(date) ==
  LET days == IF IsLeapYear(date.year) THEN 1 ELSE 0
      first == <<1, 32, 60, 91, 121, 152, 182, 213, 244, 274, 305, 335>>
  IN  first[date.month] + IF date.month > 2 THEN days ELSE 0

DayOfYear(date) == FirstDayOfYear(date) + date.day - 1

Monday == 4
GetNextDateForDayOfWeek(startDay, dayOfWeek) ==
  startDay + 1 + Rem(Rem(dayOfWeek - 1 - startDay, 7) + 7, 7)

\* The names of the levels, in upper case; those shorter than a day are for timestamps.
ParseTruncLevel(name) ==
  CASE name = "WEEK" -> "week"
    [] name \in {"MON", "MONTH", "MM"}  -> "month"
    [] name = "QUARTER" -> "quarter"
    [] name \in {"YEAR", "YYYY", "YY"} -> "year"
    [] OTHER -> "invalid"

TruncDate(days, level) ==
  CASE level = "week"    -> <<GetNextDateForDayOfWeek(days - 7, Monday)>>
    [] level = "month"   -> <<days - LocalDate(days).day + 1>>
    [] level = "quarter" -> <<ToDays(SetQuarter(LocalDate(days)))>>
    [] level = "year"    -> <<days - DayOfYear(LocalDate(days)) + 1>>
    [] level = "invalid" -> <<>>

DateTrunc(c, days) == OrFails(c, TruncDate(days, ParseTruncLevel(c.level)))

DateAdd(r) == Gives(r.n + r.m)
DateDiff(r) == Gives(r.n - r.m)

-----------------------------------------------------------------------------
(* Timestamps.  In GMT+08:00 (Etc/GMT-8) a second is that of UTC, eight    *)
(* hours before; what localtime_r, mktime, strptime and strftime of the C  *)
(* library do is taken for granted.                                        *)

SecondsPerHour == 3600
GmtOffset == 8 * SecondsPerHour

\* The second of a local day and time of day.
Mktime(days, time) == days * SecondsPerDay + time - GmtOffset

LocalTime(seconds) ==
  LET local == seconds + GmtOffset
  IN  [day |-> EpochToUtc(local \div SecondsPerDay), time |-> local % SecondsPerDay]

TwoDigits(s, at) == 10 * DigitOf(s[at]) + DigitOf(s[at + 1])
FourDigits(s, at) == 100 * TwoDigits(s, at) + TwoDigits(s, at + 2)

Strptime(s) ==
  [year |-> FourDigits(s, 1), month |-> TwoDigits(s, 6), day |-> TwoDigits(s, 9),
   time |-> IF Len(s) = 10 THEN 0
            ELSE SecondsPerHour * TwoDigits(s, 12) + 60 * TwoDigits(s, 15) + TwoDigits(s, 18)]

Strftime(local, fmt) ==
  TmToStringView(local.day)
    \o IF fmt = "%Y-%m-%d" THEN <<>>
       ELSE <<Space>> \o AppendDigits(local.time \div SecondsPerHour, 2)
              \o <<58>> \o AppendDigits((local.time \div 60) % 60, 2)
              \o <<58>> \o AppendDigits(local.time % 60, 2)

\* The letters of a format to those of the C library; a row has either.
ToOmniTimeFormat(fmt) ==
  CASE fmt = "yyyy-MM-dd"          -> "%Y-%m-%d"
    [] fmt = "yyyy-MM-dd HH:mm:ss" -> "%Y-%m-%d %H:%M:%S"
    [] OTHER -> fmt

\* The digits of a number at their places.
CheckAndGetNonNegativeInteger(s, start, width) ==
  \A i \in start .. start + width - 1 : IsDigit(s[i])

IsJulianLeapYear(year) == year % 4 = 0

\* The last day of February in a year that was a leap year before the calendar changed.
OnlyJulian(c, year, month, day) ==
  /\ c.policy = "exception" /\ month = 2 /\ day = 29
  /\ ~IsLeapYear(year) /\ IsJulianLeapYear(year) /\ 0 < year /\ year < 1582

TimeOfDayIsValid(s) ==
  /\ \A at \in {12, 15, 18} : CheckAndGetNonNegativeInteger(s, at, 2)
  /\ TwoDigits(s, 12) <= 23 /\ TwoDigits(s, 15) <= 59 /\ TwoDigits(s, 18) <= 59

DateIsValid(c, s) ==
  /\ CheckAndGetNonNegativeInteger(s, 1, 4) /\ CheckAndGetNonNegativeInteger(s, 6, 2)
  /\ CheckAndGetNonNegativeInteger(s, 9, 2)
  /\ TwoDigits(s, 6) \in 1 .. 12
  /\ \/ OnlyJulian(c, FourDigits(s, 1), TwoDigits(s, 6), TwoDigits(s, 9))
     \/ TwoDigits(s, 9) \in 1 .. MonthLengths(IsLeapYear(FourDigits(s, 1)))[TwoDigits(s, 6)]

\* The lengths of a text and of its format must fit; what is between the digits is not seen.
IsTimeValid(c, s, fmt) ==
  /\ \/ Len(s) = 19 /\ fmt = "%Y-%m-%d %H:%M:%S"
     \/ Len(s) = 10 /\ fmt = "%Y-%m-%d"
  /\ DateIsValid(c, s)
  /\ Len(s) = 19 => TimeOfDayIsValid(s)

\* The exception of the policy is thrown when everything else is valid.
TimestampOf(c, t) ==
  IF OnlyJulian(c, t.year, t.month, t.day) THEN GivesError
  ELSE Gives(Mktime(DaysSinceEpochFromDate(t.year, t.month, t.day)[1], t.time))

UnixTimestampOf(c, s, fmt) ==
  IF s = <<>> \/ fmt = "" \/ ~IsTimeValid(c, s, fmt) THEN GivesNull ELSE TimestampOf(c, Strptime(s))

UnixTimestampFromStr(c, s) == UnixTimestampOf(c, s, ToOmniTimeFormat(c.fmt))
BatchUnixTimestampFromStr(c, s) == UnixTimestampOf(c, s, c.fmt)

\* Midnight of a day, in the zone.
UnixTimestampFromDate(days) == Gives(SecondsPerDay * days - GmtOffset)
BatchUnixTimestampFromDate(days) == Gives(SecondsPerDay * days - GmtOffset)

\* There is room for the three bytes by which a date is longer than its format.
Printed(text, fmtLen) == IF Len(text) + 1 > fmtLen + 3 THEN GivesNull ELSE Gives(text)

FormatLength(fmt) ==
  CASE fmt = "%Y-%m-%d" -> 8 [] fmt = "%Y-%m-%d %H:%M:%S" -> 17
    [] fmt = "yyyy-MM-dd" -> 10 [] fmt = "yyyy-MM-dd HH:mm:ss" -> 19

FromUnixTime(c, timestamp) ==
  Printed(Strftime(LocalTime(timestamp), ToOmniTimeFormat(c.fmt)), FormatLength(c.fmt))
BatchFromUnixTime(c, timestamp) ==
  Printed(Strftime(LocalTime(timestamp), c.fmt), FormatLength(c.fmt))

\* Timestamps in milliseconds; a second begins at or before each of its instants.
SecondsOf(timestamp) ==
  IF timestamp >= 0 THEN Quo(timestamp, MillisPerSecond)
  ELSE Quo(timestamp - (MillisPerSecond - 1), MillisPerSecond)

FromUnixTimeWithoutTz(c, timestamp) ==
  Gives(Strftime(LocalTime(SecondsOf(timestamp) - GmtOffset), c.fmt))
FromUnixTimeWithTz(c, timestamp) == Gives(Strftime(LocalTime(SecondsOf(timestamp)), c.fmt))

\* The timestamps of the years 0 to 9999.
MillisPerDay == SecondsPerDay * MillisPerSecond
MinEpochMills == MinEpochSeconds * MillisPerSecond
MaxEpochMills == MaxEpochSeconds * MillisPerSecond + MillisPerSecond - 1

InEpoch(millis) ==
  IF millis < MinEpochMills \/ millis > MaxEpochMills THEN GivesNull ELSE Gives(millis)

\* Of a timestamp that is not before 1970.
GetHourFromTimestamp(timestamp) ==
  Gives(Rem(Quo(Quo(timestamp, SecondsPerHour), MillisPerSecond), 24))

GetHourFromTimestampWithTz(timestamp) ==
  Gives(Quo(LocalTime(SecondsOf(timestamp)).time, SecondsPerHour))

DateAddDays(timestamp, days) == InEpoch(timestamp + days * MillisPerDay)

\* The seconds are looked at before they are multiplied, but for an int.
ToTimestampLtz(c, n, precision) ==
  CASE precision = 0 ->
         IF ~c.int /\ (n < MinEpochSeconds \/ n > MaxEpochSeconds) THEN GivesNull
         ELSE InEpoch(n * MillisPerSecond)
    [] precision = 3 -> InEpoch(n)
    [] precision \notin {0, 3} -> GivesNull

-----------------------------------------------------------------------------
(* Calls.                                                                  *)

DateOps == {"to_date", "from_date", "trunc", "date_add", "date_diff", "to_unix", "date_to_unix",
            "from_unix", "from_millis", "hour", "add_days", "timestamp"}

DateRow(c, r) ==
  CASE r.nulls # {} -> GivesNull
    [] c.op = "to_date"   -> IF c.strict THEN CastStringToDateNotAllowReducePrecison(c, r.args[1])
                                         ELSE CastStringToDateAllowReducePrecison(c, r.args[1])
    [] c.op = "from_date" -> CastDateToString(r.n)
    [] c.op = "trunc"     -> DateTrunc(c, r.n)
    [] c.op = "date_add"  -> DateAdd(r)
    [] c.op = "date_diff" -> DateDiff(r)
    [] c.op = "to_unix"   -> UnixTimestampFromStr(c, r.args[1])
    [] c.op = "date_to_unix" -> UnixTimestampFromDate(r.n)
    [] c.op = "from_unix" -> FromUnixTime(c, r.n)
    [] c.op = "from_millis" -> IF c.zoned THEN FromUnixTimeWithTz(c, r.n)
                               ELSE FromUnixTimeWithoutTz(c, r.n)
    [] c.op = "hour"      -> IF c.zoned THEN GetHourFromTimestampWithTz(r.n)
                             ELSE GetHourFromTimestamp(r.n)
    [] c.op = "add_days"  -> DateAddDays(r.n, r.m)
    [] c.op = "timestamp" -> ToTimestampLtz(c, r.n, r.m)

DateBatch(c, r) ==
  CASE r.nulls # {} -> GivesNull
    [] c.op = "to_date" ->
         IF c.strict THEN BatchCastStringToDateNotAllowReducePrecison(c, r.args[1])
                     ELSE BatchCastStringToDateAllowReducePrecison(c, r.args[1])
    [] c.op = "to_unix" -> BatchUnixTimestampFromStr(c, r.args[1])
    [] c.op = "date_to_unix" -> BatchUnixTimestampFromDate(r.n)
    [] c.op = "from_unix" -> BatchFromUnixTime(c, r.n)

-----------------------------------------------------------------------------
(* What they mean: the days of the calendar, counted.                      *)

\* The days from 1970 on, with every fourth year a leap year but for three in 400.
DayNumber(y, m, d) ==
  LET leaps(year) == (year - 1) \div 4 - (year - 1) \div 100 + (year - 1) \div 400
      february == IF y % 4 = 0 /\ (y % 100 # 0 \/ y % 400 = 0) THEN 29 ELSE 28
      days == [NormalMonths EXCEPT ![2] = february]
  IN  365 * (y - 1970) + leaps(y) - leaps(1970)
        + FoldSet(LAMBDA k, sum : sum + days[k], 0, 1 .. m - 1) + d - 1

MonthDays(y, m) == DayNumber(IF m = 12 THEN y + 1 ELSE y, (m % 12) + 1, 1) - DayNumber(y, m, 1)
AnyDate(y, m, d) == m \in 1 .. 12 /\ d \in 1 .. MonthDays(y, m)

\* The year, month and day of a number of days.
DateOfDay(n) ==
  LET near == 1970 + (400 * (n \div 146097)) + ((n % 146097) \div 366)
      y == CHOOSE y \in near - 1 .. near + 3 : DayNumber(y, 1, 1) <= n /\ n < DayNumber(y + 1, 1, 1)
      m == CHOOSE m \in 1 .. 12 :
             DayNumber(y, m, 1) <= n /\ n < DayNumber(y, m, 1) + MonthDays(y, m)
  IN  [y |-> y, m |-> m, d |-> n - DayNumber(y, m, 1) + 1]

\* A number in at least so many digits.
InDigits(n, least) ==
  LET width == CHOOSE w \in least .. 10 : n < 10^w /\ (w = least \/ n >= 10^(w - 1))
  IN  [i \in 1 .. width |-> 48 + ((n \div 10^(width - i)) % 10)]

DateText(date) ==
  (CASE date.y < 0 -> <<Minus>> [] date.y > 9999 -> <<Plus>> [] OTHER -> <<>>)
    \o InDigits(Abs(date.y), 4) \o <<Minus>> \o InDigits(date.m, 2)
    \o <<Minus>> \o InDigits(date.d, 2)

AllDigits(s) == s # <<>> /\ \A i \in DOMAIN s : IsDigit(s[i])
NumberOf(s) == FoldLeft(LAMBDA n, byte : 10 * n + DigitOf(byte), 0, s)

\* What a text says: a sign, the parts between its dashes, and what follows the day.
DateParts(text) ==
  LET signed == text # <<>> /\ text[1] \in {Minus, Plus}
      body   == IF signed THEN Tail(text) ELSE text
      tails  == {i \in DOMAIN body : body[i] \in {84, Space}}
      head   == IF tails = {} THEN body
                ELSE SubSeq(body, 1, (CHOOSE i \in tails : \A j \in tails : i <= j) - 1)
  IN  [signed |-> signed, negative |-> signed /\ text[1] = Minus, tail |-> tails # {},
       parts |-> PiecesMeant(head, <<Minus>>)]

YearOfParts(p) == IF p.negative THEN -NumberOf(p.parts[1]) ELSE NumberOf(p.parts[1])
PartOr1(p, k) == IF k <= Len(p.parts) THEN NumberOf(p.parts[k]) ELSE 1

\* [+-]YYYY[-M[-D[(T| )...]]], of a year that is in range and a day that is.
IsDate(c, p) ==
  /\ Len(p.parts) \in 1 .. 3 /\ (p.tail => Len(p.parts) = 3)
  /\ \A k \in DOMAIN p.parts : AllDigits(p.parts[k]) /\ (k > 1 => Len(p.parts[k]) <= 2)
  /\ Len(p.parts[1]) >= 4
  /\ c.strict => /\ ~p.signed /\ ~p.tail /\ Len(p.parts) = 3 /\ Len(p.parts[1]) <= c.years
                 /\ Len(p.parts[2]) = 2 /\ Len(p.parts[3]) = 2
  /\ MinYear <= YearOfParts(p) /\ YearOfParts(p) <= MaxYear
  /\ AnyDate(YearOfParts(p), PartOr1(p, 2), PartOr1(p, 3))
  /\ DayNumber(YearOfParts(p), PartOr1(p, 2), PartOr1(p, 3)) \in -Int32Max - 1 .. Int32Max

DayOfParts(p) == DayNumber(YearOfParts(p), PartOr1(p, 2), PartOr1(p, 3))

\* The last of the first days that is not after a day.
FirstDayMeant(level, n) ==
  LET date == DateOfDay(n)
  IN  CASE level = "week"    -> <<n - ((n - Monday) % 7)>>
        [] level = "month"   -> <<DayNumber(date.y, date.m, 1)>>
        [] level = "quarter" -> <<DayNumber(date.y, CHOOSE m \in {1, 4, 7, 10} :
                                                      m <= date.m /\ date.m < m + 3, 1)>>
        [] level = "year"    -> <<DayNumber(date.y, 1, 1)>>
        [] level = "invalid" -> <<>>

TimeMeant(s) == SecondsPerHour * NumberOf(SubSeq(s, 12, 13)) + 60 * NumberOf(SubSeq(s, 15, 16))
                  + NumberOf(SubSeq(s, 18, 19))

\* YYYY-MM-DD, with HH:MM:SS where the format has a time.
IsTime(c, s, date) ==
  /\ Len(s) = IF c.timed THEN 19 ELSE 10
  /\ MatchesDate(SubSeq(s, 1, 10), {4})
  /\ AnyDate(date[1], date[2], date[3])
  /\ c.timed => /\ \A i \in {12, 13, 15, 16, 18, 19} : IsDigit(s[i])
                /\ NumberOf(SubSeq(s, 12, 13)) < 24
                /\ \A i \in {15, 18} : NumberOf(SubSeq(s, i, i + 1)) < 60

UnixMeant(c, s) ==
  LET date == <<NumberOf(SubSeq(s, 1, 4)), NumberOf(SubSeq(s, 6, 7)), NumberOf(SubSeq(s, 9, 10))>>
  IN  IF IsTime(c, s, date)
      THEN Gives((DayNumber(date[1], date[2], date[3]) * 24 - 8) * SecondsPerHour
                   + IF c.timed THEN TimeMeant(s) ELSE 0)
      \* A 29 of February that the calendar of the time had ends a query that asks for it.
      ELSE IF /\ c.policy = "exception" /\ Len(s) = IF c.timed THEN 19 ELSE 10
              /\ date[2] = 2 /\ date[3] = 29 /\ date[1] \in 1 .. 1581

              /\ date[1] % 4 = 0
              /\ IsTime(c, [s EXCEPT ![9] = 50, ![10] = 56], <<date[1], 2, 28>>)
      THEN GivesError ELSE GivesNull

FromUnixMeant(c, seconds, hours) ==
  LET local == seconds + hours * SecondsPerHour
      time  == local % SecondsPerDay
  IN  DateText(DateOfDay(local \div SecondsPerDay))
        \o IF ~c.timed THEN <<>>
           ELSE <<Space>> \o InDigits(time \div 3600, 2) \o <<58>>
                  \o InDigits((time % 3600) \div 60, 2) \o <<58>> \o InDigits(time % 60, 2)

\* An instant of the years 0 to 9999, or none.
InstantMeant(c, r) ==
  LET unit    == IF r.m = 0 THEN MillisPerSecond ELSE 1
      instant == IF c.op = "add_days" THEN r.n + r.m * MillisPerDay ELSE r.n * unit
  IN  IF /\ c.op = "timestamp" => r.m \in {0, 3}
         /\ instant \in MinEpochMills .. MaxEpochMills
      THEN Gives(instant) ELSE GivesNull

AnswerOfDate(c, r) ==
  CASE r.nulls # {} -> GivesNull
    [] c.op = "to_date" ->
         LET p == DateParts(TrimString(r.args[1]))
         IN  OrFails(c, IF IsDate(c, p) THEN <<DayOfParts(p)>> ELSE <<>>)
    [] c.op = "from_date" -> Gives(DateText(DateOfDay(r.n)))
    [] c.op = "trunc"     -> OrFails(c, FirstDayMeant(c.meant, r.n))
    [] c.op = "date_add"  -> Gives(r.n + r.m)
    [] c.op = "date_diff" -> Gives(r.n - r.m)
    [] c.op = "to_unix"   -> UnixMeant(c, r.args[1])
    [] c.op = "date_to_unix" -> Gives((24 * r.n - 8) * SecondsPerHour)
    [] c.op = "from_unix" -> Gives(FromUnixMeant(c, r.n, 8))
    [] c.op = "from_millis" ->
         Gives(FromUnixMeant(c, r.n \div MillisPerSecond, IF c.zoned THEN 8 ELSE 0))
    [] c.op = "hour" ->
         LET millis == SecondsPerHour * MillisPerSecond
         IN  Gives(((r.n \div millis) + IF c.zoned THEN 8 ELSE 0) % 24)
    [] c.op \in {"add_days", "timestamp"} -> InstantMeant(c, r)
=============================================================================
