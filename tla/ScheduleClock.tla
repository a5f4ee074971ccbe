--------------------------- MODULE ScheduleClock ---------------------------
(***************************************************************************)
(* When a schedule runs next, in hours.  Instants are hours of UTC from a  *)
(* Sunday's midnight on, days are numbered from that Sunday, and a zone is *)
(* its offset before an instant, from it on, and that instant.             *)
(***************************************************************************)
EXTENDS Integers, FiniteSetsExt

CONSTANT Never     \* no next run: null

ASSUME NeverAssumption == Never \notin Int

Day == 24
SearchedDays == 14

Zone(before, after, at) == [before |-> before, after |-> after, at |-> at]

OffsetAt(zone, t) == IF t < zone.at THEN zone.before ELSE zone.after
Local(zone, t) == t + OffsetAt(zone, t)

FormatYMDUtc(zone, t) == t \div Day
FormatYMD(zone, t) == Local(zone, t) \div Day
Weekday(zone, t) == FormatYMD(zone, t) % 7

\* The local date is read as a date of UTC, and days are added to its midnight.
AddDays(zone, base, days) == (FormatYMD(zone, base) + days) * Day

CombineUtc(zone, ymd, hour) == ymd * Day + hour

\* The offset is the one at the wall-clock time read as UTC, not at the result.
Combine(zone, ymd, hour) ==
  LET naive == ymd * Day + hour IN naive - OffsetAt(zone, naive)

NextRecurring(hour, days, zone, from) ==
  LET candidate(offset) == AddDays(zone, from, offset)
      at(offset) == Combine(zone, FormatYMD(zone, candidate(offset)), hour)
      fits == {offset \in 0..(SearchedDays - 1) :
                 Weekday(zone, candidate(offset)) \in days /\ at(offset) > from}
  IN IF fits = {} THEN Never ELSE at(Min(fits))

\* A one-time schedule runs at its date, even if that has passed.
NextRunAtFromInput(input) ==
  IF input.hour = Never THEN Never
  ELSE IF input.type = "one_time"
       THEN IF input.date = Never THEN Never ELSE Combine(input.zone, input.date, input.hour)
       ELSE NextRecurring(input.hour, input.days, input.zone, input.from)

-----------------------------------------------------------------------------
\* The calendar of the zone: instants, at most two weeks ahead, whose local time it is.
Occurrences(input) ==
  {t \in (input.from + 1)..(input.from + SearchedDays * Day) :
     /\ Local(input.zone, t) % Day = input.hour
     /\ Weekday(input.zone, t) \in input.days}

Earliest(input) == IF Occurrences(input) = {} THEN Never ELSE Min(Occurrences(input))

\* The zone keeps its offset from a day before the look-up to a day after the result.
Steady(input) ==
  LET last == IF Earliest(input) = Never THEN input.from ELSE Earliest(input)
  IN input.zone.at \notin (input.from - Day)..(last + Day)

\* A recurring schedule runs next at the first hour of its days by the user's wall clock,
\* east and west of Greenwich, although dates pass through UTC's midnight on the way: as
\* long as the zone keeps its offset near by.
NextRunIsEarliest(input) ==
  input.type = "recurring" /\ input.hour # Never /\ Steady(input)
    => NextRunAtFromInput(input) = Earliest(input)

\* The size of the change.
Shift(zone) ==
  IF zone.after > zone.before THEN zone.after - zone.before ELSE zone.before - zone.after

\* The day that is no candidate's, where the clocks move from west of Greenwich to it or
\* beyond it: the local date at its midnight in UTC is the day before, that at the next
\* one the day after.
Skipped(zone) ==
  IF zone.before < 0 /\ zone.after >= 0 THEN {FormatYMDUtc(zone, zone.at - 1)} ELSE {}

\* At a change of offset the clock shows, at the next run, a time that is off by no more
\* than the change; the run is never set in the past, and no time in the week ahead is
\* passed over by more than the change: the schedule is not fired twice, nor late by a
\* week, but for a skipped day.
NextRunNearChange(input) ==
  LET next == NextRunAtFromInput(input)
      shift == Shift(input.zone)
      shown == Local(input.zone, next)
  IN input.type = "recurring" /\ input.hour # Never /\ next # Never
       => /\ next > input.from
          /\ \E wall \in (shown - shift)..(shown + shift) :
               wall % Day = input.hour /\ (wall \div Day) % 7 \in input.days
          /\ \A t \in Occurrences(input) \cap (input.from + shift + 1)..(input.from + 7 * Day) :
               FormatYMD(input.zone, t) \notin Skipped(input.zone) => next <= t + shift

\* Only a schedule without a time, without its date or without days has no next run; and
\* a weekly one whose day a week ahead is skipped, which then stops for good.
NextRunExists(input) ==
  LET unset == \/ input.hour = Never
               \/ input.type = "one_time" /\ input.date = Never
               \/ input.type = "recurring" /\ input.days = {}
  IN /\ unset => NextRunAtFromInput(input) = Never
     /\ NextRunAtFromInput(input) = Never =>
          \/ unset
          \/ /\ input.type = "recurring"
             /\ input.days = {Weekday(input.zone, input.from)}
             /\ FormatYMD(input.zone, input.from) + 7 \in Skipped(input.zone)
=============================================================================
