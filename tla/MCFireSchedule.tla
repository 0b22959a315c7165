-------------------------- MODULE MCFireSchedule ---------------------------
(***************************************************************************)
(* Device configurations for model-checking FireSchedule.  An hour is 3    *)
(* ticks, a day 2 or 3 hours, a year 2 or 3 days: every countdown crosses  *)
(* its boundaries, entries hand over to each other and the year wraps.     *)
(***************************************************************************)
EXTENDS FireSchedule

Entry(format, day, period, duration, start) ==
  [format |-> format, day |-> day, period |-> period,
   duration |-> duration, start |-> start]

\* The local time never jumps, or by an hour in either direction.
NoChanges == {}
AnHour == {-1, 1}

\* The lowest period_countdown explored.
Floor == -3

Unset == Entry("unset", 1, 0, 0, 0)

Dated(has_rl, entries) ==
  [active |-> TRUE, period |-> 0, has_rl |-> has_rl, entries |-> entries]

Periodic(hours, has_rl) ==
  [active |-> TRUE, period |-> hours, has_rl |-> has_rl,
   entries |-> [e \in Entries |-> Unset]]

Inactive == [Dated(TRUE, [e \in Entries |-> Entry("dd/mm", 1, 1, 1, 0)])
               EXCEPT !.active = FALSE]

\* Two dates that hand over to each other; durations shorter than, equal to
\* and longer than the period; a period of 0; equal dates; unreadable dates.
SafetyConfigs ==
  {Dated(TRUE, <<Entry("dd/mm", 1, 2, 1, 0), Entry("dd/mm", 2, 1, 1, 1)>>),
   Dated(TRUE, <<Entry("dd/mm", 2, 1, 2, 1), Entry("dd/mm", 1, 2, 0, 1)>>),
   Dated(TRUE, <<Entry("dd/mm", 2, 0, 1, 0), Entry("dd/mm", 2, 1, 1, 0)>>),
   Dated(TRUE, <<Entry("dd", 1, 1, 1, 0), Entry("dd/mm", 2, 1, 1, 1)>>),
   Dated(FALSE, <<Unset, Entry("dd/mm", 1, 2, 1, 0)>>),
   Periodic(1, TRUE), Periodic(2, TRUE), Periodic(1, FALSE), Inactive}

\* Schedules that must keep going: periods are not 0 and relays exist.  The first
\* has two daily entries that hand over to each other in mid-year.
LiveConfigs ==
  {Dated(TRUE, <<Entry("dd/mm", 1, HoursPerDay, 2, 1),
                 Entry("dd/mm", 2, HoursPerDay, 1, 0)>>),
   Dated(TRUE, <<Entry("dd/mm", 1, 2, 1, 0), Entry("dd/mm", 2, 1, 1, 1)>>),
   Dated(TRUE, <<Unset, Entry("dd/mm", 2, 2, 1, 1)>>),
   Periodic(1, TRUE), Periodic(2, FALSE)}

\* A daily entry on for one hour.
DailyConfigs == {Dated(TRUE, <<Unset, Entry("dd/mm", 1, HoursPerDay, 1, 0)>>)}
=============================================================================
