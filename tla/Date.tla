-------------------------------- MODULE Date --------------------------------
(***************************************************************************)
(* src/dps/date.c: the stamp of a line to seconds since the game was       *)
(* released, and back.  A stamp is a record of its parts; one that is not  *)
(* 20 characters long is NoStamp.                                          *)
(***************************************************************************)
EXTENDS Integers, FiniteSets

CONSTANTS MINUTE, HOUR, DAY,   \* 60, 60 * MINUTE and 24 * HOUR
          NoStamp
ASSUME DateAssumption == /\ {MINUTE, HOUR, DAY} \subseteq Nat \ {0}
                         /\ HOUR % MINUTE = 0 /\ DAY % HOUR = 0

Month  == <<"Jan", "Feb", "Mar", "Apr", "May", "Jun",
            "Jul", "Aug", "Sep", "Oct", "Nov", "Dec">>
EQDate == 74 * DAY

isLeapYearJulian(year) == year % 4 = 0
isLeapYear(year) == year % 4 = 0 /\ (year % 25 # 0 \/ year % 16 = 0)
LeapDay(year)    == IF isLeapYear(year) THEN 1 ELSE 0
leapYearsSince1999(year) ==
  Cardinality({i \in 2000..(year - 1) : i % 4 = 0 /\ isLeapYear(i)})
-----------------------------------------------------------------------------
(* parseDate.  A word that is no month counts as no days. *)
MonthNumber(word) ==
  IF \E m \in 1..12 : Month[m] = word THEN CHOOSE m \in 1..12 : Month[m] = word ELSE 0

(* The days of the year before a month: each case falls through to those   *)
(* of the months before.                                                   *)
MonthDays(month, year) ==
  LET from(m, days) == IF month - 1 >= m THEN days ELSE 0
  IN  from(11, 30) + from(10, 31) + from(9, 30) + from(8, 31) + from(7, 31)
        + from(6, 30) + from(5, 31) + from(4, 30) + from(3, 31)
        + from(2, 28 + LeapDay(year)) + from(1, 31)

SecondsSinceEQDate(stamp, month) ==
  stamp.second + stamp.minute * MINUTE + stamp.hour * HOUR
    + (stamp.day - 1) * DAY
    + MonthDays(month, stamp.year) * DAY
    + (365 * (stamp.year - 1999) + leapYearsSince1999(stamp.year)) * DAY
    - EQDate
parseDate(stamp) ==
  IF stamp = NoStamp THEN -1 ELSE SecondsSinceEQDate(stamp, MonthNumber(stamp.month))
-----------------------------------------------------------------------------
(* unparseDate.  First the loop over the years, which ends with the year   *)
(* and the day in it.                                                      *)
YearDays == [year : Nat, day : Nat]
YearAndDay[at \in YearDays] ==
  LET daysOfYear == 365 + LeapDay(at.year)
  IN  IF at.day >= daysOfYear
      THEN YearAndDay[[year |-> at.year + 1, day |-> at.day - daysOfYear]]
      ELSE at

(* The days of the year up to the end of a month: the bounds of the ifs,   *)
(* and what they subtract.                                                 *)
EndOfMonth(m, leapday) ==
  LET end == <<31, 59, 90, 120, 151, 181, 212, 243, 273, 304, 334, 365>>
  IN  IF m = 0 THEN 0 ELSE IF m = 1 THEN end[1] ELSE end[m] + leapday
MonthOf(day, leapday) ==
  CHOOSE m \in 1..12 : /\ day < EndOfMonth(m, leapday)
                       /\ \A k \in 1..(m - 1) : day >= EndOfMonth(k, leapday)

StampOf(year, day, seconds) ==
  LET m == MonthOf(day, LeapDay(year))
      minutes == seconds % HOUR
  IN  [year   |-> year, month |-> Month[m],
       day    |-> day - EndOfMonth(m - 1, LeapDay(year)) + 1,
       hour   |-> seconds \div HOUR,
       minute |-> minutes \div MINUTE,
       second |-> minutes % MINUTE]
unparseDate(now) ==
  LET seconds == now + EQDate
      at == YearAndDay[[year |-> 1999, day |-> seconds \div DAY]]
  IN  StampOf(at.year, at.day, seconds % DAY)
=============================================================================
