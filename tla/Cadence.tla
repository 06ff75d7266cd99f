-------------------------------- MODULE Cadence -------------------------------
(* When a model of a sleeve is due (src/leaps_quant_engine/cadence.py). Time    *)
(* is a number of minutes since a Monday, first of a month, at 00:00 in the     *)
(* market's time zone; a cadence is a record of its kind and its parameters.    *)
EXTENDS Naturals

CONSTANTS MinutesPerDay,  \* length of a day, 24 * 60 in the program
          DaysPerMonth,   \* months have one length here
          Never           \* no last run

ASSUME CadenceAssumption ==
  MinutesPerDay \in Nat \ {0} /\ DaysPerMonth \in Nat \ {0} /\ Never \notin Nat

Date(t) == t \div MinutesPerDay
TimeOfDay(t) == t % MinutesPerDay
Weekday(t) == Date(t) % 7
Week(t) == Date(t) \div 7
Month(t) == Date(t) \div DaysPerMonth

ScheduledKinds == {"daily_at", "week_start_at", "weekly_at"}

\* A scheduled model never runs on a weekend or before its time of day, and once
\* in its day or week: after a run at its time or later.
DoneFor(cadence, now, last) ==
  /\ last # Never
  /\ IF cadence.kind = "daily_at"
     THEN Date(last) = Date(now) /\ TimeOfDay(last) >= cadence.at
     ELSE Week(last) = Week(now)

ScheduledDue(cadence, now, last) ==
  /\ Weekday(now) < 5
  /\ TimeOfDay(now) >= cadence.at
  /\ cadence.kind = "weekly_at" => Weekday(now) = cadence.weekday
  /\ ~DoneFor(cadence, now, last)

CadenceDue(cadence, now, last) ==
  \/ cadence.kind \in ScheduledKinds /\ ScheduledDue(cadence, now, last)
  \/ cadence.kind = "every_cycle"
  \/ cadence.kind \notin ScheduledKinds /\ last = Never
  \/ /\ last # Never
     /\ \/ cadence.kind = "once_per_day" /\ Date(now) # Date(last)
        \/ cadence.kind = "once_per_month" /\ Month(now) # Month(last)
        \/ cadence.kind = "every_minutes" /\ now - last >= cadence.n
        \/ cadence.kind = "every_days" /\ Date(now) >= Date(last) + cadence.n

\* A window whose end lies before its start runs over midnight; both ends belong
\* to it.
WithinTimeWindow(now, window) ==
  IF window.start <= window.end
  THEN window.start <= TimeOfDay(now) /\ TimeOfDay(now) <= window.end
  ELSE TimeOfDay(now) >= window.start \/ TimeOfDay(now) <= window.end
===============================================================================
