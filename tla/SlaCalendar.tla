---------------------------- MODULE SlaCalendar ----------------------------
(***************************************************************************)
(* sla.util.ts: the deadline of a case and the working time that has gone  *)
(* by, each by a loop of its own over the days of a calendar.  Instants    *)
(* are counted in units of a day; only whole units matter to the code,     *)
(* which adds and subtracts them.                                          *)
(***************************************************************************)
EXTENDS Naturals, FiniteSets

CONSTANTS
    DayLength,  \* units of a day
    Week,       \* days of a week
    Holidays,   \* the days that may be holidays
    Latest,     \* bound: the last instant at which a case is raised
    MaxHours,   \* bound: the longest SLA, in units
    Horizon     \* bound: how long the case is followed

VARIABLES
    calendar,   \* the business hours of the organisation
    raised,     \* submittedAt
    hours,      \* the hours of the case type
    now

slaVars == <<calendar, raised, hours, now>>
-----------------------------------------------------------------------------
Day(t) == t \div DayLength
Hour(t) == t % DayLength
Instant(day, hour) == day * DayLength + hour
IsWorkingDay(day) == day \notin calendar.holidays /\ day % Week \in calendar.workDays

\* From a moment outside the working hours on to the start of the next working
\* day; the search is given up after 400 days.
NextWorkingMoment(t) ==
    LET search[i \in 0..400] ==
          LET cur == IF i = 0 THEN t ELSE Instant(Day(t) + i, calendar.start) IN
          IF i = 400 THEN cur
          ELSE IF ~IsWorkingDay(Day(cur)) \/ Hour(cur) >= calendar.end THEN search[i + 1]
          ELSE IF Hour(cur) < calendar.start THEN Instant(Day(cur), calendar.start) ELSE cur
    IN search[0]
NextDay(t) == Instant(Day(t) + 1, calendar.start)
DayEnd(t) == Instant(Day(t), calendar.end)
Available(t, to) == IF to > t THEN to - t ELSE 0

\* Both loops are given up after that many turns.
Turns == 10000

\* Wrong variant: the hours left over are carried to the next day, whatever it is.
ComputeSlaDueAtNextDay(from, slaHours) ==
    LET spend[turn \in 0..Turns] == [at \in Nat \X Nat |->
          LET cursor == at[1]
              remaining == at[2]
              available == Available(cursor, DayEnd(cursor))
          IN  IF turn = Turns THEN cursor
              ELSE IF remaining <= available THEN cursor + remaining
              ELSE spend[turn + 1][<<NextDay(cursor), remaining - available>>]]
    IN spend[0][<<NextWorkingMoment(from), slaHours>>]

\* The hours are spent day by day, each up to the end of its working hours.
ComputeSlaDueAt(from, slaHours) ==
    LET spend[turn \in 0..Turns] == [at \in Nat \X Nat |->
          LET cursor == at[1]
              remaining == at[2]
              available == Available(cursor, DayEnd(cursor))
          IN  IF turn = Turns THEN cursor
              ELSE IF remaining <= available THEN cursor + remaining
              ELSE spend[turn + 1][<<NextWorkingMoment(NextDay(cursor)),
                                     remaining - available>>]]
    IN spend[0][<<NextWorkingMoment(from), slaHours>>]

\* What each day has up to the instant `to` is added up.
WorkingBetween(from, to) ==
    LET total[turn \in 0..Turns] == [cursor \in Nat |->
          IF turn = Turns \/ cursor >= to THEN 0
          ELSE Available(cursor, IF DayEnd(cursor) < to THEN DayEnd(cursor) ELSE to)
                 + total[turn + 1][NextWorkingMoment(NextDay(cursor))]]
    IN IF to <= from THEN 0 ELSE total[0][NextWorkingMoment(from)]
-----------------------------------------------------------------------------
Calendars ==
    {c \in [workDays: (SUBSET (0..(Week - 1))) \ {{}}, holidays: SUBSET Holidays,
            start: 0..(DayLength - 1), end: 1..DayLength] : c.start < c.end}

Init ==
    /\ calendar \in Calendars
    /\ raised \in 0..Latest /\ hours \in 0..MaxHours
    /\ now = raised

\* The sweep looks again a unit later.
Tick == now < Horizon /\ now' = now + 1 /\ UNCHANGED <<calendar, raised, hours>>

Next == Tick
Spec == Init /\ [][Next]_slaVars
-----------------------------------------------------------------------------
TypeOK ==
    /\ calendar \in Calendars /\ raised \in 0..Latest /\ hours \in 0..MaxHours
    /\ now \in raised..Horizon

\* The units of time in which the calendar has people at work.
AtWork(t) ==
    /\ Day(t) \notin calendar.holidays /\ Day(t) % Week \in calendar.workDays
    /\ calendar.start <= Hour(t) /\ Hour(t) < calendar.end
Worked == Cardinality({t \in raised..now : t < now /\ AtWork(t)})

\* The working time that workingMsBetween adds up is the time people were at
\* work, and the deadline that computeSlaDueAt set has come exactly when that
\* time has reached the hours of the SLA: across nights, weekends, holidays and
\* cases raised outside the hours, the two loops tell the same time.
CalendarAgrees ==
    /\ WorkingBetween(raised, now) = Worked
    /\ hours > 0 => (now >= ComputeSlaDueAt(raised, hours)) = (Worked >= hours)
=============================================================================
