----------------------------- MODULE CalendarTicks -----------------------------
(***************************************************************************)
(* The slots of a calendar recurrence (CalendarSpec of                     *)
(* crates/scheduler/src/lib.rs, next_calendar_tick of worker.rs): a time   *)
(* of day in a zone whose clocks go forward and back by one unit, on every *)
(* day, on some weekdays, or every n days from the last tick.              *)
(*                                                                         *)
(* TickScheduler walks slots of a fixed interval; this module is about     *)
(* where the next one is when the days are not of one length.              *)
(***************************************************************************)
EXTENDS Integers, FiniteSets, FiniteSetsExt

CONSTANTS
  DayLength,     \* units of a day
  WeekLength,    \* days of a week
  Horizon,       \* days looked ahead, 800 in the code
  MaxEvery,      \* bound: "every n days" up to this n
  MaxInstant     \* bound: latest tick and latest change of clocks

ASSUME CalendarConstants ==
  /\ {DayLength, WeekLength, Horizon, MaxEvery} \subseteq Nat \ {0}
  /\ MaxInstant \in Nat

VARIABLES
  calendar,    \* the schedule's recurrence, with the time of day
  clocks,      \* when the zone's clocks go forward, and when back
  lastTick     \* MAX(tick_ts) of the schedule, or its creation

calendarVars == <<calendar, clocks, lastTick>>

\* Every n = 1 is daily; a weekly rule may name every day.
Rules ==
  [rule : {"weekly"}, days : SUBSET (0 .. WeekLength - 1) \ {{}}]
    \cup [rule : {"every"}, n : 1 .. MaxEvery]

CalendarInit ==
  /\ calendar \in [at : 0 .. DayLength - 1, on : Rules]
  /\ clocks \in {c \in [forward : 0 .. MaxInstant, back : 0 .. MaxInstant] : c.forward # c.back}
  /\ lastTick \in 0 .. DayLength - 1

\* A zone ahead of the other half of its year, north or south.
Ahead(t) ==
  IF clocks.forward < clocks.back THEN clocks.forward <= t /\ t < clocks.back
  ELSE t < clocks.back \/ clocks.forward <= t

\* What a clock on the wall shows at an instant, and its date.
WallClock(t) == IF Ahead(t) THEN t + 1 ELSE t
DateOf(t) == WallClock(t) \div DayLength

\* The instants at which the wall clock shows the time of day on a date: none in a
\* gap, two when the clocks have gone back over it.
InstantsOn(date) ==
  LET wall == date * DayLength + calendar.at
  IN {t \in {wall - 1, wall} : WallClock(t) = wall}

DayMatches(anchor, date) ==
  IF calendar.on.rule = "weekly" THEN (date % WeekLength) \in calendar.on.days
  ELSE date >= anchor /\ (date - anchor) % calendar.on.n = 0

\* Mutant of NextCalendarTick: the instants are compared before the earliest is taken.
NextOfEither(last) ==
  LET anchor == DateOf(last)
      dates == {d \in anchor .. anchor + Horizon - 1 :
                  DayMatches(anchor, d) /\ \E t \in InstantsOn(d) : t > last}
  IN IF dates = {} THEN {} ELSE {Min({t \in InstantsOn(Min(dates)) : t > last})}

\* The slot after a tick: at most one.  A date whose time falls into a gap is passed
\* over; one that shows the time twice has the earlier instant.
NextCalendarTick(last) ==
  LET anchor == DateOf(last)
      dates == {d \in anchor .. anchor + Horizon - 1 :
                  DayMatches(anchor, d) /\ InstantsOn(d) # {} /\ Min(InstantsOn(d)) > last}
  IN IF dates = {} THEN {} ELSE {Min(InstantsOn(Min(dates)))}

\* The worker claims the slot.
RunSlot ==
  /\ lastTick' \in NextCalendarTick(lastTick)
  /\ lastTick' <= MaxInstant
  /\ UNCHANGED <<calendar, clocks>>

\* A run-now tick bears the instant of its request, and is the anchor from then on.
RunNow ==
  /\ lastTick' \in lastTick + 1 .. MaxInstant
  /\ UNCHANGED <<calendar, clocks>>

CalendarNext == RunSlot \/ RunNow

CalendarSpec == CalendarInit /\ [][CalendarNext]_calendarVars

-----------------------------------------------------------------------------
\* The slots as a reader of the recurrence counts them, instant by instant: the wall
\* clock shows the time of day for the first time on a date that matches.
IsSlot(anchor, t) ==
  /\ WallClock(t) % DayLength = calendar.at
  /\ DayMatches(anchor, DateOf(t))
  /\ WallClock(t - 1) # WallClock(t)

\* next_calendar_tick finds the first slot after the last tick, whether that tick was a
\* slot or a run-now, on a day of any length, in a gap or in an hour that comes twice:
\* no matching day is passed over and none has two slots.  It finds none only when
\* there is none within the horizon.
NextIsFirstSlot ==
  LET anchor == DateOf(lastTick)
      slots == {t \in lastTick + 1 .. lastTick + (Horizon + 1) * DayLength :
                  IsSlot(anchor, t) /\ DateOf(t) < anchor + Horizon}
  IN NextCalendarTick(lastTick) = IF slots = {} THEN {} ELSE {Min(slots)}
===============================================================================
