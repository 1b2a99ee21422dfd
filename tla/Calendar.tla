------------------------------ MODULE Calendar ------------------------------
(***************************************************************************)
(* The exchange calendar: which session a day has and which phase of it an *)
(* instant is in.  A day is a number, an instant is a number of ticks, and *)
(* the times of a session are ticks of its day.                            *)
(***************************************************************************)
EXTENDS Integers, FiniteSets

CONSTANTS
  DayTicks,  \* ticks in a day
  Absent     \* None of the code

ASSUME DaysHaveTicks == DayTicks \in Nat \ {0}

\* What the components sort by time: a set in an order without ties.
Sorted(set, Before(_, _)) ==
  [i \in 1 .. Cardinality(set) |->
     CHOOSE x \in set : Cardinality({y \in set : Before(y, x)}) = i - 1]

\* local_date, and the time of the day.
Day(at) == at \div DayTicks
TickOf(at) == at % DayTicks

\* SessionTimes.validate_order: a snapshot with other times does not load.
TimesOrdered(times) ==
  /\ times.preopen < times.open /\ times.open < times.finalEntry
  /\ times.finalEntry < times.flatten /\ times.flatten < times.deadline
  /\ times.deadline < times.close

\* A calendar: [from, to, weekdays, regular, holidays, specials], where specials
\* are [date, confirmed, times].  session_on raises CalendarCoverageError for a
\* day that is not covered.
Covered(calendar, day) == calendar.from <= day /\ day <= calendar.to

SpecialsOf(calendar, day) == {s \in calendar.specials : s.date = day}

\* The times of the day's session, Absent without one: a special session replaces
\* the regular rule, also on a holiday, and none is held until it is confirmed.
SessionOn(calendar, day) ==
  IF SpecialsOf(calendar, day) # {}
  THEN LET special == CHOOSE s \in SpecialsOf(calendar, day) : TRUE
       IN IF special.confirmed THEN special.times ELSE Absent
  ELSE IF day % 7 \in calendar.weekdays /\ day \notin calendar.holidays
       THEN calendar.regular ELSE Absent

\* A snapshot that loads: all of its sessions are in order and in the day.
SessionsOrdered(calendar) ==
  /\ calendar.from \in Int /\ calendar.to \in Int
  /\ \A day \in calendar.from .. calendar.to :
       SessionOn(calendar, day) # Absent =>
         /\ TimesOrdered(SessionOn(calendar, day))
         /\ \A phase \in {"preopen", "open", "finalEntry", "flatten", "deadline", "close"} :
              SessionOn(calendar, day)[phase] \in 0 .. DayTicks - 1

\* session_bounds, and the other times of the day of an instant.
Moment(calendar, at, phase) == Day(at) * DayTicks + SessionOn(calendar, Day(at))[phase]
SessionKnown(calendar, at) == Covered(calendar, Day(at)) /\ SessionOn(calendar, Day(at)) # Absent

\* state_at, for a day that is covered.
StateAt(calendar, at) ==
  LET times == SessionOn(calendar, Day(at))
      t == TickOf(at)
  IN IF times = Absent THEN "CLOSED"
     ELSE IF t < times.preopen THEN "CLOSED"
     ELSE IF t < times.open THEN "PREOPEN"
     ELSE IF t < times.finalEntry THEN "OPEN"
     ELSE IF t < times.flatten THEN "FINAL_ENTRY_BLOCKED"
     ELSE IF t < times.deadline THEN "FLATTENING"
     ELSE "CLOSED_POST"
=============================================================================
