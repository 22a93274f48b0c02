--------------------------- MODULE EfiTimeProofs ---------------------------
(* The conversion of dates is right for every date, whatever the years the  *)
(* clock runs through: arithmetic lemmas on the two paths for the year, the *)
(* step from one day to the next, and the inductive invariant ClockInv.     *)
EXTENDS EfiTime, TLAPS

(* One more leap year, if the next year is one. *)
LEMMA LeapCount ==
  ASSUME NEW y \in Nat
  PROVE  LeapYears(y + 1) = LeapYears(y) + (IF Leap(y + 1) THEN 1 ELSE 0)
BY Z3 DEF LeapYears, Leap

(* The path of time_year_to_secs up to 2038 finds the start of the year. *)
LEMMA FastYearIsRight ==
  ASSUME NEW y \in 2001..2038
  PROVE  /\ FastYear(y - 1900).days = YearStart(y)
         /\ FastYear(y - 1900).is_leap = Leap(y)
BY Z3 DEF FastYear, YearStart, LeapYears, Leap, Bit

(* So does the path by cycles of 400 years, from 2001 on.  The proof splits *)
(* the years since 2000 the way the code does: n = 400q + 100c + 4a + b.    *)
LEMMA SlowYearIsRight ==
  ASSUME NEW y \in Nat, y >= 2001
  PROVE  /\ SlowYear(y - 1900).days = YearStart(y)
         /\ SlowYear(y - 1900).is_leap = Leap(y)
<1> DEFINE n == y - 2000
<1> DEFINE q == n \div 400
<1> DEFINE r == n % 400
<1> DEFINE c == r \div 100
<1> DEFINE l == r % 100
<1> DEFINE a == l \div 4
<1> DEFINE b == l % 4
<1>1. /\ n \in Nat /\ q \in Nat /\ r \in 0..399 /\ c \in 0..3 /\ l \in 0..99
      /\ a \in 0..24 /\ b \in 0..3
      /\ n = 400 * q + r /\ r = 100 * c + l /\ l = 4 * a + b
  BY Z3
<1>2. y = 2000 + 400 * q + 100 * c + 4 * a + b
  BY <1>1, Z3
<1> HIDE DEF n, q, r, c, l, a, b
<1>3. /\ y % 4 = b
      /\ y % 100 = l
      /\ y % 400 = r
  BY <1>1, <1>2, Z3
<1>4. Leap(y) <=> r = 0 \/ (l # 0 /\ b = 0)
  BY <1>1, <1>3, Z3 DEF Leap
<1>5. LeapYears(y) = 500 + 100 * q + 25 * c + a - (20 + 4 * q + c) + (5 + q)
  BY <1>1, <1>2, Z3 DEF LeapYears
<1>6. LeapYears(y) = LeapYears(y - 1) + (IF Leap(y) THEN 1 ELSE 0)
  BY LeapCount, Z3
<1> DEFINE leap == r = 0 \/ (l # 0 /\ l % 4 = 0)
<1>7. (y - 1900) - 100 = n
  BY DEF n
<1>8. /\ SlowYear(y - 1900).days =
           n * 365 + (a + 97 * q + 24 * c - Bit(leap)) + 10957 + 1
      /\ SlowYear(y - 1900).is_leap = leap
  BY <1>7 DEF SlowYear, q, r, c, l, a, b
<1>9. leap = Leap(y)
  BY <1>4, <1>1 DEF b, Leap
<1> HIDE DEF leap
<1>10. n * 365 + (a + 97 * q + 24 * c - Bit(leap)) + 10957 + 1 = YearStart(y)
  <2>1. LeapYears(1969) = 477
    BY Z3 DEF LeapYears
  <2>2. n = y - 2000
    BY DEF n
  <2>3. Bit(leap) = IF Leap(y) THEN 1 ELSE 0
    BY <1>9 DEF Bit
  <2>4. LeapYears(y - 1) = LeapYears(y) - Bit(leap)
    BY <1>6, <2>3, Z3 DEF LeapYears
  <2>5. LeapYears(y) \in Int /\ Bit(leap) \in Int
    BY <2>3, Z3 DEF LeapYears
  <2> QED
    BY <1>1, <1>5, <2>1, <2>2, <2>4, <2>5, Z3 DEF YearStart
<1> QED
  BY <1>8, <1>9, <1>10

(* time_year_to_secs as a whole. *)
LEMMA YearIsRight ==
  ASSUME NEW y \in Nat, y >= 2001
  PROVE  /\ time_year_to_secs(y - 1900).days = YearStart(y)
         /\ time_year_to_secs(y - 1900).is_leap = Leap(y)
<1>1. CASE y <= 2038
  <2>1. y \in 2001..2038
    BY <1>1
  <2>2. time_year_to_secs(y - 1900) = FastYear(y - 1900)
    BY <1>1 DEF time_year_to_secs
  <2> QED
    BY <2>1, <2>2, FastYearIsRight
<1>2. CASE y > 2038
  <2>1. time_year_to_secs(y - 1900) = SlowYear(y - 1900)
    BY <1>2 DEF time_year_to_secs
  <2> QED
    BY <2>1, SlowYearIsRight
<1> QED
  BY <1>1, <1>2

(* time_efi_time_to_time_t of a date whose Year field yields year y. *)
LEMMA ConversionIsRight ==
  ASSUME NEW y \in Nat, y >= 2001, NEW y0 \in Nat, YearField(y0) = y - 1900,
         NEW m \in 1..12, NEW d \in Int, NEW t
  PROVE  time_efi_time_to_time_t(y0, m, d, t) =
           [days |-> DayNumber(y, m, d), secs |-> 3600 * t[1] + 60 * t[2] + t[3]]
<1>1. MonthField(m) = m - 1 /\ ~(MonthField(m) >= 12)
  BY Z3 DEF MonthField
<1>2. YearField(y0) + 0 = y - 1900
  OBVIOUS
<1>3. m - 1 >= 2 <=> m > 2
  OBVIOUS
<1>4. time_efi_time_to_time_t(y0, m, d, t) =
        [days |-> time_year_to_secs(y - 1900).days + ThroughMonth[(m - 1) + 1]
                  + Bit(time_year_to_secs(y - 1900).is_leap /\ m - 1 >= 2) + d - 1,
         secs |-> 3600 * t[1] + 60 * t[2] + t[3]]
  BY <1>1, <1>2 DEF time_efi_time_to_time_t
<1>5. Bit(time_year_to_secs(y - 1900).is_leap /\ m - 1 >= 2)
        = IF Leap(y) /\ m > 2 THEN 1 ELSE 0
  BY <1>3, YearIsRight DEF Bit
<1>6. (m - 1) + 1 = m
  OBVIOUS
<1> QED
  BY <1>4, <1>5, <1>6, YearIsRight DEF DayNumber

(* The calendar is consistent: a year has 365 or 366 days ... *)
LEMMA YearStartStep ==
  ASSUME NEW y \in Nat, y >= 1970
  PROVE  YearStart(y + 1) = YearStart(y) + 365 + (IF Leap(y) THEN 1 ELSE 0)
<1>1. LeapYears(y) = LeapYears(y - 1) + (IF Leap(y) THEN 1 ELSE 0)
  BY LeapCount, y - 1 \in Nat, (y - 1) + 1 = y
<1>2. LeapYears(y - 1) \in Int /\ LeapYears(1969) \in Int
  BY DEF LeapYears
<1> QED
  BY <1>1, <1>2, (y + 1) - 1 = y DEF YearStart

(* ... and day numbers follow each other through months and years. *)
LEMMA NextDay ==
  ASSUME NEW y \in Nat, y >= 1970, NEW m \in 1..12, NEW d \in 1..MonthLength(y, m)
  PROVE  /\ DayNumber(y, m, d) \in Int
         /\ DayNumber(y, m, d + 1) = DayNumber(y, m, d) + 1
         /\ d = MonthLength(y, m) /\ m < 12 =>
              DayNumber(y, m + 1, 1) = DayNumber(y, m, d) + 1
         /\ d = MonthLength(y, m) /\ m = 12 =>
              DayNumber(y + 1, 1, 1) = DayNumber(y, m, d) + 1
<1>1. YearStart(y) \in Int
  BY DEF YearStart, LeapYears
<1>2. MonthLength(y, m) \in Int
  BY DEF MonthLength
<1>3. ThroughMonth[m] \in Int
  BY DEF ThroughMonth
<1>4. m < 12 =>
        ThroughMonth[m + 1] + (IF Leap(y) /\ m + 1 > 2 THEN 1 ELSE 0)
          = ThroughMonth[m] + (IF Leap(y) /\ m > 2 THEN 1 ELSE 0) + MonthLength(y, m)
  BY DEF ThroughMonth, MonthLength
<1>5. m = 12 =>
        ThroughMonth[m] + (IF Leap(y) /\ m > 2 THEN 1 ELSE 0) + MonthLength(y, m)
          = 365 + (IF Leap(y) THEN 1 ELSE 0)
  BY DEF ThroughMonth, MonthLength
<1>6. ThroughMonth[1] = 0 /\ ~(1 > 2)
  BY DEF ThroughMonth
<1>7. ThroughMonth[m + 1] \in Int \/ m = 12
  BY DEF ThroughMonth
<1> QED
  BY <1>1, <1>2, <1>3, <1>4, <1>5, <1>6, <1>7, YearStartStep DEF DayNumber


(* The seconds of a day. *)
LEMMA SecondsRange ==
  ASSUME NEW h \in Nat, NEW m \in Nat, NEW s \in Nat, h < 24, m < 60, s < 60
  PROVE  3600 * h + 60 * m + s \in Nat /\ 3600 * h + 60 * m + s < 86400
OBVIOUS

(* The same for the times of day the clock is looked at. *)
LEMMA TodRange ==
  ASSUME NEW t \in TimesOfDay
  PROVE  /\ 3600 * t[1] + 60 * t[2] + t[3] \in Nat
         /\ 3600 * t[1] + 60 * t[2] + t[3] < 86400
<1>1. t \in Nat \X Nat \X Nat /\ t[1] < 24 /\ t[2] < 60 /\ t[3] < 60
  BY EfiTimeAssumption
<1>2. t[1] \in Nat /\ t[2] \in Nat /\ t[3] \in Nat
  BY <1>1
<1> QED
  BY <1>1, <1>2, SecondsRange

(* The clock shows no year before 1970. *)
LEMMA YearRange ==
  ASSUME NEW y \in Years
  PROVE  y \in Nat /\ y >= 1970
BY EfiTimeAssumption

(* Day numbers are integers. *)
LEMMA DayNumberIsInt ==
  ASSUME NEW y \in Nat, NEW m \in 1..12, NEW d \in Int
  PROVE  DayNumber(y, m, d) \in Int
<1>1. YearStart(y) \in Int
  BY DEF YearStart, LeapYears
<1>2. ThroughMonth[m] \in Int
  BY DEF ThroughMonth
<1> QED
  BY <1>1, <1>2 DEF DayNumber

-----------------------------------------------------------------------------
(* The inductive invariant: the number of days counted since 1970 is that  *)
(* of the date the clock shows, and what was read agrees with it.          *)
ClockInv ==
  /\ TimeTypeOK
  /\ day = DayNumber(Year, Month, Day)
  /\ TimeIsExact
  /\ DatesTo2000AreShifted
  /\ FailedClockReads2019

(* The clock starts on the first of January of some year. *)
LEMMA ClockInit == TimeInit => ClockInv
<1> SUFFICES ASSUME TimeInit PROVE ClockInv
  OBVIOUS
<1>1. Year \in Nat /\ Year >= 1970 /\ Month = 1 /\ Day = 1
  BY YearRange DEF TimeInit
<1>2. YearStart(Year) \in Int
  BY <1>1 DEF YearStart, LeapYears
<1>3. TimeTypeOK
  <2>1. Day \in 1..MonthLength(Year, Month)
    BY <1>1 DEF MonthLength
  <2> QED
    BY <1>2, <2>1 DEF TimeInit, TimeTypeOK
<1>4. day = DayNumber(Year, Month, Day)
  <2>1. ThroughMonth[1] = 0 /\ ~(1 > 2)
    BY DEF ThroughMonth
  <2> QED
    BY <1>2, <2>1 DEF TimeInit, DayNumber
<1> QED
  BY <1>3, <1>4 DEF ClockInv, TimeInit, TimeIsExact, DatesTo2000AreShifted,
                    FailedClockReads2019

(* The next day. *)
LEMMA MidnightKeepsInv == ClockInv /\ Midnight => ClockInv'
<1> SUFFICES ASSUME ClockInv, Midnight PROVE ClockInv'
  OBVIOUS
<1>1. TimeTypeOK /\ day = DayNumber(Year, Month, Day)
  BY DEF ClockInv
<1>2. /\ Year \in Nat /\ Year >= 1970
      /\ Month \in 1..12 /\ Day \in 1..MonthLength(Year, Month)
  BY <1>1, YearRange DEF TimeTypeOK
<1>3. MonthLength(Year, Month) \in Nat
  BY DEF MonthLength
<1>4. \/ Day < MonthLength(Year, Month) /\ Day' = Day + 1 /\ Month' = Month /\ Year' = Year
      \/ Day = MonthLength(Year, Month) /\ Month < 12
           /\ Day' = 1 /\ Month' = Month + 1 /\ Year' = Year
      \/ Day = MonthLength(Year, Month) /\ Month = 12
           /\ Day' = 1 /\ Month' = 1 /\ Year' = Year + 1 /\ Year' \in Years
  BY <1>2, <1>3 DEF Midnight
<1>5. day' = DayNumber(Year', Month', Day')
  <2>1. day' = DayNumber(Year, Month, Day) + 1
    BY <1>1 DEF Midnight
  <2> QED
    BY <1>2, <1>4, <2>1, NextDay
<1>6. Day' \in 1..MonthLength(Year', Month')
  <2>1. MonthLength(Year', Month') \in Nat /\ MonthLength(Year', Month') >= 1
    BY DEF MonthLength
  <2> QED
    BY <1>2, <1>3, <1>4, <2>1
<1>7. Year' \in Years /\ Month' \in 1..12 /\ tod' \in TimesOfDay /\ day' \in Int
      /\ tv' = tv /\ read' = "stale"
  BY <1>1, <1>2, <1>4 DEF Midnight, TimeTypeOK
<1>8. TimeTypeOK'
  BY <1>1, <1>6, <1>7 DEF TimeTypeOK
<1> QED
  BY <1>5, <1>7, <1>8 DEF ClockInv, TimeIsExact, DatesTo2000AreShifted,
                          FailedClockReads2019

(* gettimeofday with a working clock. *)
LEMMA ReadKeepsInv == ClockInv /\ time_gettimeofday => ClockInv'
<1> SUFFICES ASSUME ClockInv, time_gettimeofday PROVE ClockInv'
  OBVIOUS
<1>1. TimeTypeOK /\ day = DayNumber(Year, Month, Day)
  BY DEF ClockInv
<1>2. /\ Year \in Nat /\ Year >= 1970 /\ tod \in TimesOfDay
      /\ Month \in 1..12 /\ Day \in 1..MonthLength(Year, Month) /\ Day \in Int
  BY <1>1, YearRange DEF TimeTypeOK
<1> DEFINE y == IF Year > 2000 THEN Year ELSE Year + 1998
           secs == 3600 * tod[1] + 60 * tod[2] + tod[3]
<1>3. YearField(Year) = y - 1900 /\ y \in Nat /\ y >= 2001
  BY <1>2 DEF YearField
<1>4. Year > 2000 => y = Year
  OBVIOUS
<1>5. Year <= 2000 => y = Year + 1998
  BY <1>2
<1> HIDE DEF y
<1>6. secs \in Nat /\ secs < 86400
  BY <1>2, TodRange
<1>7. tv' = [days |-> DayNumber(y, Month, Day), secs |-> secs]
  BY <1>2, <1>3, ConversionIsRight DEF time_gettimeofday
<1>8. DayNumber(y, Month, Day) \in Int
  <2>1. y \in Nat /\ Month \in 1..12 /\ Day \in Int
    BY <1>2, <1>3
  <2> QED
    BY <2>1, DayNumberIsInt
<1>9. UNCHANGED <<Year, Month, Day, tod, day>> /\ read' = "good"
  BY DEF time_gettimeofday
<1>10. tv'.days = DayNumber(y, Month, Day) /\ tv'.secs = secs
  BY <1>7
<1>11. TimeTypeOK'
  <2>1. tv' \in [days : Int, secs : Nat] /\ tv'.secs < 86400
    BY <1>6, <1>7, <1>8
  <2> QED
    BY <1>1, <1>9, <2>1 DEF TimeTypeOK
<1>12. TimeIsExact'
  BY <1>1, <1>9, <1>4, <1>10 DEF TimeIsExact
<1>13. DatesTo2000AreShifted'
  BY <1>9, <1>5, <1>10 DEF DatesTo2000AreShifted
<1> QED
  BY <1>1, <1>9, <1>11, <1>12, <1>13 DEF ClockInv, FailedClockReads2019

(* The date of an efi_time that is all zero: month 255 is 21 years and three
   months, day 0 the day before the first. *)
LEMMA FailedConversion ==
  time_efi_time_to_time_t(0, 0, 0, <<0, 0, 0>>)
    = [days |-> DayNumber(2019, 3, 31), secs |-> 0]
<1>1. YearField(0) = 98 /\ MonthField(0) = 255
  BY Z3 DEF YearField, MonthField
<1>2. 255 % 12 = 3 /\ 255 \div 12 = 21 /\ 255 >= 12
  BY Z3
<1>3. /\ time_year_to_secs(119).days = YearStart(2019)
      /\ time_year_to_secs(119).is_leap = Leap(2019)
  BY YearIsRight, 2019 - 1900 = 119
<1>4. ~Leap(2019) /\ YearStart(2019) \in Int
  BY Z3 DEF Leap, YearStart, LeapYears
<1>5. ThroughMonth[3 + 1] = 90 /\ ThroughMonth[3] = 59
  BY DEF ThroughMonth
<1>6. time_efi_time_to_time_t(0, 0, 0, <<0, 0, 0>>) =
        [days |-> time_year_to_secs(119).days + ThroughMonth[3 + 1]
                  + Bit(time_year_to_secs(119).is_leap /\ 3 >= 2) + 0 - 1,
         secs |-> 0]
  BY <1>1, <1>2, 98 + 21 = 119 DEF time_efi_time_to_time_t
<1>7. Bit(time_year_to_secs(119).is_leap /\ 3 >= 2) = 0
  BY <1>3, <1>4 DEF Bit
<1> QED
  BY <1>3, <1>4, <1>5, <1>6, <1>7 DEF DayNumber

(* gettimeofday with a clock that fails. *)
LEMMA FailedReadKeepsInv == ClockInv /\ time_gettimeofday_failing => ClockInv'
<1> SUFFICES ASSUME ClockInv, time_gettimeofday_failing PROVE ClockInv'
  OBVIOUS
<1>1. UNCHANGED <<Year, Month, Day, tod, day>> /\ read' = "failed"
  BY DEF time_gettimeofday_failing
<1>2. tv' = [days |-> DayNumber(2019, 3, 31), secs |-> 0]
  BY FailedConversion DEF time_gettimeofday_failing
<1>3. DayNumber(2019, 3, 31) \in Int
  BY DayNumberIsInt
<1>4. TimeTypeOK'
  BY <1>1, <1>2, <1>3 DEF ClockInv, TimeTypeOK
<1> QED
  BY <1>1, <1>2, <1>4 DEF ClockInv, TimeIsExact, DatesTo2000AreShifted,
                          FailedClockReads2019

(* No step breaks the invariant. *)
LEMMA ClockNext == ClockInv /\ [TimeNext]_timeVars => ClockInv'
<1> SUFFICES ASSUME ClockInv, [TimeNext]_timeVars PROVE ClockInv'
  OBVIOUS
<1>1. CASE Tick
  BY <1>1 DEF ClockInv, Tick, TimeTypeOK, TimeIsExact, DatesTo2000AreShifted,
              FailedClockReads2019
<1>2. CASE Midnight
  BY <1>2, MidnightKeepsInv
<1>3. CASE time_gettimeofday
  BY <1>3, ReadKeepsInv
<1>4. CASE time_gettimeofday_failing
  BY <1>4, FailedReadKeepsInv
<1>5. CASE UNCHANGED timeVars
  BY <1>5 DEF ClockInv, timeVars, TimeTypeOK, TimeIsExact, DatesTo2000AreShifted,
              FailedClockReads2019
<1> QED
  BY <1>1, <1>2, <1>3, <1>4, <1>5 DEF TimeNext

(* The number of days counted is always that of the date, and what the     *)
(* program has read agrees with it.                                        *)
THEOREM ClockAlways == TimeSpec => []ClockInv
BY ClockInit, ClockNext, PTL DEF TimeSpec

(* gettimeofday never errs from 2001 on, for as long as the calendar runs. *)
THEOREM GettimeofdayIsExact == TimeSpec => []TimeIsExact
<1>1. ClockInv => TimeIsExact
  BY DEF ClockInv
<1> QED
  BY ClockAlways, <1>1, PTL

(* The types of the clock and of the program's timeval. *)
THEOREM ClockTypes == TimeSpec => []TimeTypeOK
<1>1. ClockInv => TimeTypeOK
  BY DEF ClockInv
<1> QED
  BY ClockAlways, <1>1, PTL

(* The correction of the year that fixupEfiTime makes shows in every date   *)
(* up to 2000, and in the same way.                                         *)
THEOREM EarlyDatesShifted == TimeSpec => []DatesTo2000AreShifted
<1>1. ClockInv => DatesTo2000AreShifted
  BY DEF ClockInv
<1> QED
  BY ClockAlways, <1>1, PTL

(* A clock that fails is read as 2019-03-31, whatever its time is.          *)
THEOREM FailureReads2019 == TimeSpec => []FailedClockReads2019
<1>1. ClockInv => FailedClockReads2019
  BY DEF ClockInv
<1> QED
  BY ClockAlways, <1>1, PTL

-----------------------------------------------------------------------------
(* Time runs forward. *)

(* Whether the timeval a is not after the timeval b. *)
NotAfter(a, b) == a.days < b.days \/ (a.days = b.days /\ a.secs <= b.secs)

(* The time of the clock, as a timeval. *)
Now == [days |-> day, secs |-> 3600 * tod[1] + 60 * tod[2] + tod[3]]

(* In the years for which the clock is read as it is, the program has been  *)
(* told no time that is yet to come.                                        *)
ForwardInv == ClockInv /\ Year > 2000 /\ NotAfter(tv, Now)

(* No year of the clock is before the time that tv starts with. *)
LEMMA ForwardInit == TimeInit /\ Year > 2000 => ForwardInv
<1> SUFFICES ASSUME TimeInit, Year > 2000 PROVE NotAfter(tv, Now)
  BY ClockInit DEF ForwardInv
<1>1. Year \in Nat /\ day = YearStart(Year) /\ tv.days = 0
  BY YearRange DEF TimeInit
<1>2. YearStart(Year) > 0
  BY <1>1, Z3 DEF YearStart, LeapYears
<1> QED
  BY <1>1, <1>2 DEF NotAfter, Now

(* The clock moves forward, and a reading is the time it shows. *)
LEMMA ForwardNext ==
  ForwardInv /\ [TimeNext /\ ~time_gettimeofday_failing]_timeVars
    => ForwardInv' /\ [NotAfter(tv, tv')]_timeVars
<1> SUFFICES ASSUME ForwardInv, [TimeNext /\ ~time_gettimeofday_failing]_timeVars
             PROVE  Year' > 2000 /\ NotAfter(tv', Now') /\ [NotAfter(tv, tv')]_timeVars
  BY ClockNext DEF ForwardInv
<1>1. /\ Year \in Nat /\ Year > 2000 /\ day \in Int /\ tod \in TimesOfDay
      /\ tv.days \in Int /\ tv.secs \in Nat /\ tv.secs < 86400
  BY YearRange DEF ForwardInv, ClockInv, TimeTypeOK
<1> DEFINE secs == 3600 * tod[1] + 60 * tod[2] + tod[3]
<1>2. secs \in Nat /\ secs < 86400
  BY <1>1, TodRange
<1>3. NotAfter(tv, Now) /\ Now.days = day /\ Now.secs = secs
  BY DEF ForwardInv, Now
<1>4. CASE Tick
  <2>1. UNCHANGED <<Year, day, tv>> /\ tod' \in TimesOfDay
    BY <1>4 DEF Tick
  <2>2. secs' \in Nat
    BY <2>1, TodRange
  <2>3. secs' > secs
    <3>1. /\ tod[1] \in Nat /\ tod[2] \in Nat /\ tod[3] \in Nat
          /\ tod'[1] \in Nat /\ tod'[2] \in Nat /\ tod'[3] \in Nat
      BY <1>1, <2>1, EfiTimeAssumption
    <3> QED
      BY <1>4, <3>1 DEF Tick
  <2> QED
    BY <1>1, <1>2, <1>3, <2>1, <2>2, <2>3 DEF NotAfter, Now
<1>5. CASE Midnight
  <2>1. day' = day + 1 /\ tv' = tv /\ tod' \in TimesOfDay /\ Year' \in {Year, Year + 1}
    BY <1>5 DEF Midnight
  <2> QED
    BY <1>1, <1>2, <1>3, <2>1 DEF NotAfter, Now
<1>6. CASE time_gettimeofday
  <2>1. UNCHANGED <<Year, tod, day>> /\ read' = "good"
    BY <1>6 DEF time_gettimeofday
  <2>2. TimeIsExact'
    BY <1>6, ReadKeepsInv DEF ForwardInv, ClockInv
  <2>3. tv'.days = day /\ tv'.secs = secs
    BY <1>1, <2>1, <2>2 DEF TimeIsExact
  <2> QED
    BY <1>1, <1>2, <1>3, <2>1, <2>3 DEF NotAfter, Now
<1>7. CASE UNCHANGED timeVars
  BY <1>1, <1>3, <1>7 DEF timeVars, NotAfter, Now
<1> QED
  BY <1>4, <1>5, <1>6, <1>7 DEF TimeNext

(* A clock that works, in the years the workaround leaves alone, gives a    *)
(* program that reads it again and again times that never go back.  Without *)
(* either premise they do: at the end of 2000, and when GetTime fails after *)
(* 2019-03-31.                                                              *)
THEOREM TimeNeverRunsBackwards ==
  TimeSpec /\ Year > 2000 /\ [][~time_gettimeofday_failing]_timeVars
    => [][NotAfter(tv, tv')]_timeVars
<1>1. TimeInit /\ Year > 2000 => ForwardInv
  BY ForwardInit
<1>2. ForwardInv /\ [TimeNext]_timeVars /\ [~time_gettimeofday_failing]_timeVars
        => ForwardInv' /\ [NotAfter(tv, tv')]_timeVars
  BY ForwardNext
<1> QED
  BY <1>1, <1>2, PTL DEF TimeSpec

-----------------------------------------------------------------------------
(* Dates compare as the numbers they are converted to. *)
Earlier(y1, m1, d1, y2, m2, d2) ==
  \/ y1 < y2
  \/ y1 = y2 /\ m1 < m2
  \/ y1 = y2 /\ m1 = m2 /\ d1 < d2

(* No year begins before an earlier one. *)
LEMMA YearsInOrder ==
  ASSUME NEW y \in Nat, NEW z \in Nat, y <= z
  PROVE  YearStart(y) <= YearStart(z)
<1>1. /\ (y - 1) \div 4 <= (z - 1) \div 4
      /\ (y - 1) \div 400 <= (z - 1) \div 400
  BY Z3
<1>2. (z - 1) \div 100 - (y - 1) \div 100 <= z - y
  BY Z3
<1> QED
  BY <1>1, <1>2, Z3 DEF YearStart, LeapYears

(* The days before a date in its year. *)
InYear(y, m, d) == ThroughMonth[m] + (IF Leap(y) /\ m > 2 THEN 1 ELSE 0) + d - 1

(* A date lies in its year, and the dates of a year are in order. *)
LEMMA DatesInYear ==
  ASSUME NEW y \in Nat, NEW m \in 1..12, NEW d \in 1..MonthLength(y, m)
  PROVE  /\ InYear(y, m, d) \in Nat
         /\ InYear(y, m, d) < 365 + (IF Leap(y) THEN 1 ELSE 0)
         /\ \A n \in 1..12, e \in Nat :
              m < n /\ e >= 1 => InYear(y, m, d) < InYear(y, n, e)
<1>1. d \in Nat /\ d >= 1 /\ d <= MonthLength(y, m) /\ MonthLength(y, m) \in 28..31
  BY DEF MonthLength
<1>2. ThroughMonth[m] \in Nat
  BY DEF ThroughMonth
<1> DEFINE past(n) == ThroughMonth[n] + (IF Leap(y) /\ n > 2 THEN 1 ELSE 0)
<1>3. past(m) + MonthLength(y, m) <= 365 + (IF Leap(y) THEN 1 ELSE 0)
  BY DEF ThroughMonth, MonthLength
<1>4. ASSUME NEW n \in 1..12, m < n PROVE past(m) + MonthLength(y, m) <= past(n)
  BY <1>4 DEF ThroughMonth, MonthLength
<1>5. \A n \in 1..12 : past(n) \in Nat
  BY DEF ThroughMonth
<1>6. \A n \in 1..12, e \in Nat : InYear(y, n, e) = past(n) + e - 1
  BY DEF InYear
<1> HIDE DEF past
<1>7. InYear(y, m, d) = past(m) + d - 1 /\ past(m) \in Nat
  BY <1>1, <1>5, <1>6
<1>8. ASSUME NEW n \in 1..12, NEW e \in Nat, m < n, e >= 1
      PROVE  InYear(y, m, d) < InYear(y, n, e)
  <2>1. InYear(y, n, e) = past(n) + e - 1 /\ past(n) \in Nat
    BY <1>5, <1>6
  <2>2. past(m) + MonthLength(y, m) <= past(n)
    BY <1>4, <1>8
  <2> QED
    BY <1>1, <1>7, <1>8, <2>1, <2>2
<1>9. InYear(y, m, d) \in Nat
  BY <1>1, <1>7
<1>10. InYear(y, m, d) < 365 + (IF Leap(y) THEN 1 ELSE 0)
  BY <1>1, <1>3, <1>7
<1> QED
  BY <1>8, <1>9, <1>10

(* An earlier date has the smaller day number.                              *)
LEMMA DatesInOrder ==
  ASSUME NEW y1 \in Nat, y1 >= 1970, NEW m1 \in 1..12, NEW d1 \in 1..MonthLength(y1, m1),
         NEW y2 \in Nat, y2 >= 1970, NEW m2 \in 1..12, NEW d2 \in 1..MonthLength(y2, m2),
         Earlier(y1, m1, d1, y2, m2, d2)
  PROVE  DayNumber(y1, m1, d1) < DayNumber(y2, m2, d2)
<1>1. /\ InYear(y1, m1, d1) \in Nat /\ InYear(y2, m2, d2) \in Nat
      /\ InYear(y1, m1, d1) < 365 + (IF Leap(y1) THEN 1 ELSE 0)
      /\ m1 < m2 => InYear(y1, m1, d1) < InYear(y1, m2, d2)
  <2>1. d2 \in Nat /\ d2 >= 1
    BY DEF MonthLength
  <2>2. InYear(y2, m2, d2) \in Nat
    BY DatesInYear, SMTT(60)
  <2>3. /\ InYear(y1, m1, d1) \in Nat
        /\ InYear(y1, m1, d1) < 365 + (IF Leap(y1) THEN 1 ELSE 0)
        /\ \A n \in 1..12, e \in Nat :
             m1 < n /\ e >= 1 => InYear(y1, m1, d1) < InYear(y1, n, e)
    BY DatesInYear, SMTT(60)
  <2>4. m1 < m2 => InYear(y1, m1, d1) < InYear(y1, m2, d2)
    BY <2>1, <2>3
  <2> QED
    BY <2>2, <2>3, <2>4
<1>2. YearStart(y1) \in Int /\ YearStart(y2) \in Int /\ YearStart(y1 + 1) \in Int
  BY DEF YearStart, LeapYears
<1>3. /\ DayNumber(y1, m1, d1) = YearStart(y1) + InYear(y1, m1, d1)
      /\ DayNumber(y2, m2, d2) = YearStart(y2) + InYear(y2, m2, d2)
  <2>1. ThroughMonth[m1] \in Int /\ ThroughMonth[m2] \in Int /\ d1 \in Int /\ d2 \in Int
    BY DEF ThroughMonth, MonthLength
  <2> QED
    BY <1>2, <2>1 DEF DayNumber, InYear
<1>4. CASE y1 < y2
  <2>1. YearStart(y1 + 1) <= YearStart(y2)
    BY <1>4, YearsInOrder
  <2>2. YearStart(y1 + 1) = YearStart(y1) + 365 + (IF Leap(y1) THEN 1 ELSE 0)
    BY YearStartStep
  <2> QED
    BY <1>1, <1>2, <1>3, <2>1, <2>2
<1>5. CASE y1 = y2 /\ m1 < m2
  BY <1>1, <1>2, <1>3, <1>5
<1>6. CASE y1 = y2 /\ m1 = m2 /\ d1 < d2
  <2>1. InYear(y1, m1, d1) < InYear(y2, m2, d2)
    <3>1. ThroughMonth[m1] \in Int /\ d1 \in Int /\ d2 \in Int
      BY DEF ThroughMonth, MonthLength
    <3> QED
      BY <1>6, <3>1 DEF InYear
  <2> QED
    BY <1>1, <1>2, <1>3, <1>6, <2>1
<1> QED
  BY <1>4, <1>5, <1>6 DEF Earlier

(* The conversion keeps the order of all dates from 2001 on: a program that *)
(* compares the times of two files compares the dates the firmware has      *)
(* stored, on whichever path through time_year_to_secs.                     *)
THEOREM ConversionKeepsOrder ==
  ASSUME NEW y1 \in Nat, y1 > 2000, NEW m1 \in 1..12, NEW d1 \in 1..MonthLength(y1, m1),
         NEW y2 \in Nat, y2 > 2000, NEW m2 \in 1..12, NEW d2 \in 1..MonthLength(y2, m2),
         Earlier(y1, m1, d1, y2, m2, d2), NEW t1, NEW t2
  PROVE  time_efi_time_to_time_t(y1, m1, d1, t1).days
           < time_efi_time_to_time_t(y2, m2, d2, t2).days
<1>1. YearField(y1) = y1 - 1900 /\ YearField(y2) = y2 - 1900
  BY DEF YearField
<1>2. y1 >= 2001 /\ y2 >= 2001 /\ d1 \in Int /\ d2 \in Int
  BY DEF MonthLength
<1>3. /\ time_efi_time_to_time_t(y1, m1, d1, t1).days = DayNumber(y1, m1, d1)
      /\ time_efi_time_to_time_t(y2, m2, d2, t2).days = DayNumber(y2, m2, d2)
  BY <1>1, <1>2, ConversionIsRight
<1> QED
  BY <1>2, <1>3, DatesInOrder, SMTT(60)
=============================================================================
