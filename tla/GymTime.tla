------------------------------ MODULE GymTime ------------------------------
(***************************************************************************)
(* Local days in a gym's zone (packages/utils/src/time): local midnight in *)
(* UTC, membership windows, financial years, and the next firing of a job  *)
(* at a local hour.                                                        *)
(*                                                                         *)
(* An instant is a number of hours in UTC, a date the number of its day.   *)
(* A zone is an offset that may change once, at an instant; the quarter    *)
(* hours of real offsets and minutes are scaled away.  Intl is external:   *)
(* Offset says what it answers.                                            *)
(***************************************************************************)
EXTENDS Integers, FiniteSets

Hours == 24

Offset(zone, t) == IF t < zone.at THEN zone.before ELSE zone.after

LocalOf(zone, t) == t + Offset(zone, t)

IsoDateIn(zone, t) == LocalOf(zone, t) \div Hours

(* Two passes: the offset at the first guess corrects it. *)
LocalMidnightUtc(zone, date) ==
    LET naive == date * Hours
        guess == naive - Offset(zone, naive)
    IN  naive - Offset(zone, guess)

LocalDayEndUtc(zone, date) ==
    LocalMidnightUtc(zone, IsoDateIn(zone, LocalMidnightUtc(zone, date) + 26))

-----------------------------------------------------------------------------
(* The calendar of Date.UTC; day 0 is 1 January 2000. *)
Leap(y) == y % 4 = 0 /\ (y % 100 /= 0 \/ y % 400 = 0)
MonthLength(y, m) == IF m = 2 THEN IF Leap(y) THEN 29 ELSE 28
                     ELSE IF m \in {4, 6, 9, 11} THEN 30 ELSE 31
DaysBefore == <<0, 31, 59, 90, 120, 151, 181, 212, 243, 273, 304, 334>>
LeapsBefore(y) == (y - 1) \div 4 - (y - 1) \div 100 + (y - 1) \div 400

DateOf(y, m, d) ==
    365 * (y - 2000) + LeapsBefore(y) - LeapsBefore(2000) + DaysBefore[m]
      + (IF m > 2 /\ Leap(y) THEN 1 ELSE 0) + d - 1

YearOf(date) ==
    CHOOSE y \in 1999 + (date \div 366) .. 2001 + (date \div 365) :
        DateOf(y, 1, 1) <= date /\ date < DateOf(y + 1, 1, 1)
MonthOf(date) ==
    LET y == YearOf(date)
    IN  CHOOSE m \in 1 .. 12 : 0 <= date - DateOf(y, m, 1) /\ date - DateOf(y, m, 1) < MonthLength(y, m)
DayOf(date) == date - DateOf(YearOf(date), MonthOf(date), 1) + 1

-----------------------------------------------------------------------------
IsWithin(t, window) == t >= window.startsAt /\ t < window.endsAt

(* The day of the month, or the last there is. *)
AddMonths(date, months) ==
    LET total == MonthOf(date) - 1 + months
        year  == YearOf(date) + total \div 12
        month == (total % 12) + 1
        last  == MonthLength(year, month)
    IN  DateOf(year, month, IF DayOf(date) < last THEN DayOf(date) ELSE last)

MonthlyWindow(zone, date, months) ==
    [startsAt |-> LocalMidnightUtc(zone, date),
     endsAt   |-> LocalMidnightUtc(zone, AddMonths(date, months))]

DailyWindow(zone, date, days) ==
    LET start == LocalMidnightUtc(zone, date)
    IN  [startsAt |-> start,
         endsAt   |-> LocalMidnightUtc(zone, IsoDateIn(zone, start + days * Hours + 12))]

ExtendMonthly(zone, window, months) ==
    [startsAt |-> window.startsAt,
     endsAt   |-> MonthlyWindow(zone, IsoDateIn(zone, window.endsAt), months).endsAt]

Overlaps(a, b) == a.startsAt < b.endsAt /\ b.startsAt < a.endsAt

-----------------------------------------------------------------------------
FinancialYear(zone, startYear, startMonth) ==
    [startYear |-> startYear,
     startsAt  |-> LocalMidnightUtc(zone, DateOf(startYear, startMonth, 1)),
     endsAt    |-> LocalMidnightUtc(zone, DateOf(startYear + 1, startMonth, 1))]

FinancialYearOf(zone, t, startMonth) ==
    LET date == IsoDateIn(zone, t)
        year == YearOf(date)
    IN  FinancialYear(zone, IF MonthOf(date) >= startMonth THEN year ELSE year - 1, startMonth)

-----------------------------------------------------------------------------
(* Today's midnight and the hours of the schedule, or tomorrow's. *)
NextLocalTimeUtc(zone, after, hour) ==
    LET today    == LocalMidnightUtc(zone, IsoDateIn(zone, after))
        tomorrow == LocalMidnightUtc(zone, IsoDateIn(zone, today + 26))
    IN  IF today + hour > after THEN today + hour ELSE tomorrow + hour

DelayUntilNextFiring(zone, after, hour) ==
    LET delay == NextLocalTimeUtc(zone, after, hour) - after
    IN  IF delay > 0 THEN delay ELSE 0

-----------------------------------------------------------------------------
(* The clocks of the zone show the midnight the date begins at, or show it *)
(* and not again an hour later.                                            *)
HasMidnight(zone, date) ==
    \E t \in (date - 1) * Hours .. (date + 1) * Hours : LocalOf(zone, t) = date * Hours
HasOneMidnight(zone, date) ==
    \E t \in (date - 1) * Hours .. (date + 1) * Hours :
       \A u \in (date - 1) * Hours .. (date + 1) * Hours : LocalOf(zone, u) = date * Hours <=> u = t

(* Every local day begins at the instant its clocks show midnight, days    *)
(* follow each other without gap or overlap whether they have 23, 24 or 25 *)
(* hours, and a window of days ends on the day it should                   *)
(* (local-midnight-utc.ts, validity-window.ts dailyWindow).                *)
DaysTile(zone, date, days) ==
    (\A d \in date .. date + days : HasMidnight(zone, d)) =>
       /\ LocalOf(zone, LocalMidnightUtc(zone, date)) = date * Hours
       /\ LocalDayEndUtc(zone, date) = LocalMidnightUtc(zone, date + 1)
       /\ LocalMidnightUtc(zone, date) < LocalMidnightUtc(zone, date + 1)
       /\ days > 0 => DailyWindow(zone, date, days).endsAt
                        = LocalMidnightUtc(zone, date + days)

(* A membership of some months, extended by others: no instant is in both  *)
(* terms or in neither, the extension begins where the first ended and     *)
(* ends later, and a month is never cut by more than the days the shorter  *)
(* one lacks (validity-window.ts).                                         *)
TermsTile(zone, date, months, more) ==
    LET first    == MonthlyWindow(zone, date, months)
        extended == ExtendMonthly(zone, first, more)
        second   == MonthlyWindow(zone, IsoDateIn(zone, first.endsAt), more)
        edges    == {first.startsAt, first.endsAt, extended.endsAt}
        near     == UNION {e - 2 .. e + 2 : e \in edges}
    IN  (\A d \in {date, AddMonths(date, months)} : HasMidnight(zone, d)) =>
          /\ first.startsAt < first.endsAt /\ first.endsAt < extended.endsAt
          /\ ~Overlaps(first, second)
          /\ \A t \in near : IsWithin(t, extended)
                               <=> (IsWithin(t, first) /= IsWithin(t, second))
          /\ DayOf(AddMonths(date, months)) <= DayOf(date)
          /\ DayOf(date) - DayOf(AddMonths(date, months)) <= 3

(* Every instant is in the financial year it is given, and the next year   *)
(* begins where it ends (financial-year.ts), in a zone whose clocks show   *)
(* the midnights the two begin at, and each once: of an hour from midnight *)
(* that comes twice, the code may begin the year with the second.          *)
YearsTile(zone, t, startMonth) ==
    LET fy     == FinancialYearOf(zone, t, startMonth)
        starts == {DateOf(fy.startYear + n, startMonth, 1) : n \in {0, 1}}
    IN  (\A d \in starts : HasOneMidnight(zone, d)) =>
          /\ IsWithin(t, fy)
          /\ FinancialYear(zone, fy.startYear + 1, startMonth).startsAt = fy.endsAt
          /\ FinancialYearOf(zone, fy.endsAt, startMonth).startYear = fy.startYear + 1

(* A job's next firing is strictly later, so that a scheduler that         *)
(* recomputes after each run cannot spin, comes within two days, and, if   *)
(* the clocks do not change meanwhile, is the first instant that shows the *)
(* scheduled hour (gym-timezone.ts, timezone-schedule.ts).  West of        *)
(* Greenwich, where the clocks skip tomorrow's midnight, the code takes 23 *)
(* o'clock for it, and the firing may not be later: the clocks must show   *)
(* it.                                                                     *)
FiresNext(zone, after, hour) ==
    LET next == NextLocalTimeUtc(zone, after, hour)
    IN  /\ HasMidnight(zone, IsoDateIn(zone, after) + 1) =>
              DelayUntilNextFiring(zone, after, hour) > 0
        /\ next <= after + 2 * Hours
        /\ Offset(zone, after - Hours) = Offset(zone, after + 2 * Hours) =>
              /\ LocalOf(zone, next) % Hours = hour
              /\ next - after <= Hours
=============================================================================
