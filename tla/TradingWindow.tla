---------------------------- MODULE TradingWindow ----------------------------
(***************************************************************************)
(* schedule.py: the weekly trading windows.  Time counts from the start of *)
(* a Monday; a day has DayLen units and a week Days days.  A schedule is a *)
(* record of `enabled', the weekdays 0..Days-1 and the windows.  A window   *)
(* has its start and its end, counted from the start of a day, and isTime: *)
(* whether its start_hour and start_minute are an hour and a minute, which *)
(* nothing checks before datetime.replace does.                            *)
(***************************************************************************)
EXTENDS Integers

CONSTANTS
  Days,    \* the days of a week (7 in the code)
  DayLen   \* the minutes of a day

ASSUME WeekAssumption == Days \in Nat \ {0} /\ DayLen \in Nat \ {0}

Weekday(t)   == (t \div DayLen) % Days
TimeOfDay(t) == t % DayLen

IsTradingActive(t, s) ==
  s.enabled =>
    /\ Weekday(t) \in s.weekdays
    /\ \E w \in s.windows : w.start <= TimeOfDay(t) /\ TimeOfDay(t) < w.end

\* Mutant: a week looks as far as it has days.
DaysAhead_Seven(t, s) == {k \in 0..(Days - 1) : ((t \div DayLen) + k) % Days \in s.weekdays}

\* The days of the schedule from today to the same weekday of next week.
DaysAhead(t, s) == {k \in 0..Days : ((t \div DayLen) + k) % Days \in s.weekdays}

\* The starts on these days that are still to come.
Candidates(t, s) ==
  {start \in {((t \div DayLen) + k) * DayLen + w.start :
                k \in DaysAhead(t, s), w \in s.windows} : start > t}

\* next_window_start raises: no start is to come, or one that is looked at is no
\* time of a day.
SearchRaises(t, s) ==
  \/ Candidates(t, s) = {}
  \/ DaysAhead(t, s) # {} /\ \E w \in s.windows : ~w.isTime

\* next_window_start, where it does not raise.
NextWindowStart(t, s) ==
  CHOOSE start \in Candidates(t, s) : \A other \in Candidates(t, s) : start <= other

=============================================================================
