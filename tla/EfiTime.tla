------------------------------ MODULE EfiTime ------------------------------
(***************************************************************************)
(* Timekeeping: gettimeofday, and the conversion of the firmware's date    *)
(* into seconds since 1970 that it shares with stat.                       *)
(*                                                                         *)
(* Every constant of the conversion that is larger than an hour is a       *)
(* multiple of 86400, so a time_t is modelled as a number of days and a    *)
(* number of seconds, and both stay far from the width of the integers.    *)
(* The real-time clock is the environment: it counts the days in variable  *)
(* day and shows the date the calendar gives them.                         *)
(***************************************************************************)
EXTENDS Integers, Sequences

CONSTANTS
  Years,      \* bound: the years the clock runs through
  TimesOfDay  \* the times <<hour, minute, second>> at which it is looked at

ASSUME EfiTimeAssumption ==
  /\ \A y \in Years : y \in Nat /\ 1970 <= y /\ y <= 9999
  /\ \A t \in TimesOfDay :
       t \in Nat \X Nat \X Nat /\ t[1] < 24 /\ t[2] < 60 /\ t[3] < 60

VARIABLES
  Year, Month, Day,  \* the date the clock shows
  tod,               \* and the time
  day,               \* history: whole days since 1970-01-01
  tv,                \* the struct timeval of the program
  read               \* history: tv is "stale" (the clock has moved on since
                     \* it was read), "good", or "failed" (GetTime failed)

timeVars == <<Year, Month, Day, tod, day, tv, read>>

-----------------------------------------------------------------------------
(* The calendar. *)

Leap(y) == (y % 4 = 0 /\ y % 100 # 0) \/ y % 400 = 0

MonthLength(y, m) ==
  IF m = 2 THEN IF Leap(y) THEN 29 ELSE 28
  ELSE IF m \in {4, 6, 9, 11} THEN 30 ELSE 31

(* Leap years up to and including year y. *)
LeapYears(y) == y \div 4 - y \div 100 + y \div 400

(* Days from 1970-01-01 to the first of January of year y. *)
YearStart(y) == 365 * (y - 1970) + LeapYears(y - 1) - LeapYears(1969)

(* secs_through_month in days: the days before month m of a common year. *)
ThroughMonth ==
  <<0, 31, 59, 90, 120, 151, 181, 212, 243, 273, 304, 334>>

(* Days from 1970-01-01 to a date. *)
DayNumber(y, m, d) ==
  YearStart(y) + ThroughMonth[m] + (IF Leap(y) /\ m > 2 THEN 1 ELSE 0) + d - 1

-----------------------------------------------------------------------------
(* The conversion.  year counts from 1900. *)

Bit(b) == IF b THEN 1 ELSE 0

(* Variant: the leap day of a leap year counts from its first of January. *)
FastYearWithLeapDay(year) ==
  [days |-> 365 * (year - 70) + (year - 68) \div 4, is_leap |-> (year - 68) % 4 = 0]

(* time_year_to_secs for 2 <= year <= 138. *)
FastYear(year) ==
  LET leap == (year - 68) % 4 = 0
  IN  [days |-> 365 * (year - 70) + (year - 68) \div 4 - Bit(leap),
       is_leap |-> leap]

(* time_year_to_secs for later years, by cycles of 400 years. *)
SlowYear(year) ==
  LET cycles    == (year - 100) \div 400
      rem       == (year - 100) % 400
      centuries == rem \div 100
      last      == rem % 100
      leap      == rem = 0 \/ (last # 0 /\ last % 4 = 0)
      leaps     == last \div 4 + 97 * cycles + 24 * centuries - Bit(leap)
  IN  [days |-> (year - 100) * 365 + leaps + 10957 + 1, is_leap |-> leap]

time_year_to_secs(year) ==
  IF year - 2 <= 136 THEN FastYear(year) ELSE SlowYear(year)

(* Variant: the workaround adds 99 instead of 98. *)
YearFieldPlus99(y) == IF y > 2000 THEN y - 1900 ELSE y + 99

(* Variant: a Month of 0 stays 0. *)
MonthFieldClamped(m) == IF m = 0 THEN 0 ELSE m - 1

(* Month is a UINT8, where adding 255 takes 1 away: a Month of 0 gives 255.*)
YearField(y) == IF y > 2000 THEN y - 1900 ELSE y + 98
MonthField(m) == (m + 255) % 256

(* Variant: the hours are carried over into the next day. *)
time_t_next_hour(y, m, d, t) ==
  LET month == MonthField(m) % 12
      first == time_year_to_secs(YearField(y) + MonthField(m) \div 12)
  IN  [days |-> first.days + ThroughMonth[month + 1]
                  + Bit(first.is_leap /\ month >= 2) + d - 1,
       secs |-> 3600 * (t[1] + 1) + 60 * t[2] + t[3]]

time_efi_time_to_time_t(y, m, d, t) ==
  LET field == MonthField(m)
      month == IF field >= 12 THEN field % 12 ELSE field
      year  == YearField(y) + (IF field >= 12 THEN field \div 12 ELSE 0)
      first == time_year_to_secs(year)
  IN  [days |-> first.days + ThroughMonth[month + 1]
                  + Bit(first.is_leap /\ month >= 2) + d - 1,
       secs |-> 3600 * t[1] + 60 * t[2] + t[3]]

-----------------------------------------------------------------------------
TimeInit ==
  /\ Year \in Years /\ Month = 1 /\ Day = 1
  /\ tod \in TimesOfDay
  /\ day = YearStart(Year)
  /\ tv = [days |-> 0, secs |-> 0]
  /\ read = "stale"

(* External: the clock moves on to another time of the same day ... *)
Tick ==
  /\ tod' \in TimesOfDay
  /\ tod'[1] * 3600 + tod'[2] * 60 + tod'[3] > tod[1] * 3600 + tod[2] * 60 + tod[3]
  /\ read' = "stale"
  /\ UNCHANGED <<Year, Month, Day, day, tv>>

(* ... or to the next day. *)
Midnight ==
  /\ day' = day + 1
  /\ tod' \in TimesOfDay
  /\ IF Day < MonthLength(Year, Month)
       THEN Day' = Day + 1 /\ UNCHANGED <<Year, Month>>
       ELSE /\ Day' = 1
            /\ IF Month < 12
                 THEN Month' = Month + 1 /\ UNCHANGED Year
                 ELSE Month' = 1 /\ Year' = Year + 1 /\ Year' \in Years
  /\ read' = "stale"
  /\ UNCHANGED tv

(* gettimeofday; the result of GetTime is not looked at. *)
time_gettimeofday ==
  /\ tv' = time_efi_time_to_time_t(Year, Month, Day, tod)
  /\ read' = "good"
  /\ UNCHANGED <<Year, Month, Day, tod, day>>

(* When GetTime fails, efi_time keeps its initial value, all zero. *)
time_gettimeofday_failing ==
  /\ tv' = time_efi_time_to_time_t(0, 0, 0, <<0, 0, 0>>)
  /\ read' = "failed"
  /\ UNCHANGED <<Year, Month, Day, tod, day>>

TimeNext == Tick \/ Midnight \/ time_gettimeofday \/ time_gettimeofday_failing

TimeSpec == TimeInit /\ [][TimeNext]_timeVars

-----------------------------------------------------------------------------
TimeTypeOK ==
  /\ Year \in Years
  /\ Month \in 1..12
  /\ Day \in 1..MonthLength(Year, Month)
  /\ tod \in TimesOfDay
  /\ day \in Int
  /\ tv \in [days : Int, secs : Nat]
  /\ tv.secs < 86400
  /\ read \in {"stale", "good", "failed"}

(* From 2001 on gettimeofday is exact: it answers with the days counted    *)
(* since 1970 and the seconds of the day, on either path through           *)
(* time_year_to_secs, across leap years, 2038, 2100 and 2400.              *)
TimeIsExact ==
  read = "good" /\ Year > 2000 =>
    /\ tv.days = day
    /\ tv.secs = 3600 * tod[1] + 60 * tod[2] + tod[3]

(* The workaround for buggy firmware moves every date up to the year 2000, *)
(* the right ones too, 1998 years into the future.                         *)
DatesTo2000AreShifted ==
  read = "good" /\ Year <= 2000 => tv.days = DayNumber(Year + 1998, Month, Day)

(* A failing GetTime is not reported: gettimeofday succeeds, and the time  *)
(* is the first second of 2019-03-31, whatever it was before.              *)
FailedClockReads2019 ==
  read = "failed" => tv = [days |-> DayNumber(2019, 3, 31), secs |-> 0]
=============================================================================
