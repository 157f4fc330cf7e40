-------------------------------- MODULE Jalali -------------------------------
(***************************************************************************)
(* The Jalali calendar of the app (shared/lib/jalali.ts).  A Jalali date   *)
(* and a Gregorian one are triples of year, month and day; a Gregorian     *)
(* triple stands for the ISO text the code keeps, whose order as a text is *)
(* the order of the triples.                                               *)
(***************************************************************************)
EXTENDS Integers, FiniteSets, FiniteSetsExt

\* Order of two dates: cmp(a, b) < 0, and < on the ISO texts.
Before(a, b) ==
  \/ a[1] < b[1]
  \/ a[1] = b[1] /\ a[2] < b[2]
  \/ a[1] = b[1] /\ a[2] = b[2] /\ a[3] < b[3]

UpTo(a, b) == ~Before(b, a)

-----------------------------------------------------------------------------
\* Days before the first of a month in a common Gregorian year.
DaysBefore == <<0, 31, 59, 90, 120, 151, 181, 212, 243, 273, 304, 334>>

\* Of four years the first has 366 days; years and days of a year are counted from 0.
FourYears(year, days) ==
  IF days > 365 THEN <<year + (days - 1) \div 365, (days - 1) % 365>> ELSE <<year, days>>

JalaliDay(year, day) ==
  IF day < 186 THEN <<year, 1 + day \div 31, 1 + (day % 31)>>
  ELSE <<year, 7 + (day - 186) \div 30, 1 + ((day - 186) % 30)>>

JalaliDate(base, days) ==
  LET in33 == days % 12053
      at == FourYears(base + 33 * (days \div 12053) + 4 * (in33 \div 1461), in33 % 1461)
  IN JalaliDay(at[1], at[2])

toJalali(g) ==
  LET gy  == g[1] - IF g[1] <= 1600 THEN 621 ELSE 1600
      gy2 == IF g[2] > 2 THEN gy + 1 ELSE gy
  IN JalaliDate(IF g[1] <= 1600 THEN 0 ELSE 979,
                365 * gy + (gy2 + 3) \div 4 - (gy2 + 99) \div 100 + (gy2 + 399) \div 400
                - 80 + g[3] + DaysBefore[g[2]])

LeapGregorian(y) == (y % 4 = 0 /\ y % 100 # 0) \/ y % 400 = 0

GregorianDay(year, day) ==
  LET starts(m) == DaysBefore[m] + IF m > 2 /\ LeapGregorian(year) THEN 1 ELSE 0
      month == Cardinality({m \in 1..12 : starts(m) <= day})
  IN <<year, month, day + 1 - starts(month)>>

\* in400 counts from the first day of 400 years, in100 of 100, of which the first has a
\* day more.
GregorianDate(base, in400) ==
  LET Century(year, in100) ==
        LET at == FourYears(year + 4 * (in100 \div 1461), in100 % 1461)
        IN GregorianDay(at[1], at[2])
      rest == (in400 - 1) % 36524
  IN IF in400 <= 36524 THEN Century(base, in400)
     ELSE Century(base + 100 * ((in400 - 1) \div 36524), IF rest >= 365 THEN rest + 1 ELSE rest)

toGregorian(j) ==
  LET jy   == j[1] - IF j[1] <= 979 THEN 0 ELSE 979
      days == 365 * jy + (jy \div 33) * 8 + ((jy % 33) + 3) \div 4 + 78 + j[3]
              + IF j[2] < 7 THEN (j[2] - 1) * 31 ELSE (j[2] - 7) * 30 + 186
  IN GregorianDate((IF j[1] <= 979 THEN 621 ELSE 1600) + 400 * (days \div 146097),
                   days % 146097)

isoToJalali(iso) == toJalali(iso)
jalaliToIso(j)   == toGregorian(j)

-----------------------------------------------------------------------------
isLeap(jy) == jy % 33 \in {1, 5, 9, 13, 17, 22, 26, 30}

daysInMonth(jy, jm) ==
  CASE jm <= 6             -> 31
    [] jm \in 7..11        -> 30
    [] jm = 12             -> IF isLeap(jy) THEN 30 ELSE 29

\* What parse accepts.
IsDate(j) == j[2] \in 1..12 /\ j[3] \in 1..daysInMonth(j[1], j[2])

daysLeftInMonth(j) == Max({1, daysInMonth(j[1], j[2]) - j[3] + 1})

nextMonth(jy, jm) == IF jm = 12 THEN <<jy + 1, 1>> ELSE <<jy, jm + 1>>
prevMonth(jy, jm) == IF jm = 1 THEN <<jy - 1, 12>> ELSE <<jy, jm - 1>>

-----------------------------------------------------------------------------
\* The Date of JavaScript counts days: a Gregorian date whose day may be out of its
\* month has a number, and every number its date.
DayNumber(g) ==
  LET y == IF g[2] <= 2 THEN g[1] - 1 ELSE g[1]
  IN 365 * y + y \div 4 - y \div 100 + y \div 400
     + (153 * ((g[2] + 9) % 12) + 2) \div 5 + g[3] - 1

MarchDate(year, doy) ==
  LET mp == (5 * doy + 2) \div 153
      m  == IF mp < 10 THEN mp + 3 ELSE mp - 9
  IN <<year + (IF m <= 2 THEN 1 ELSE 0), m, doy - (153 * mp + 2) \div 5 + 1>>

\* Years begin in March; those of an era of 400 are counted from 0.
CivilDate(n) ==
  LET doe == n % 146097
      date(yoe) ==
        MarchDate(yoe + 400 * (n \div 146097), doe - (365 * yoe + yoe \div 4 - yoe \div 100))
  IN date((doe - doe \div 1460 + doe \div 36524 - doe \div 146096) \div 365)

addDays(j, n) == toJalali(CivilDate(DayNumber(toGregorian(j)) + n))

\* Saturday is 0; getDay() has Sunday 0, and day 2 of the count is a Friday.
getDay(iso) == (DayNumber(iso) + 3) % 7
weekdayIndex(j) == (getDay(toGregorian(j)) + 1) % 7
=============================================================================
