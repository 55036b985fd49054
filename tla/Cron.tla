-------------------------------- MODULE Cron --------------------------------
(***************************************************************************)
(* Cron expressions and the next instant at which one fires                 *)
(* (schedules/cron.py), over a calendar small enough to enumerate.          *)
(*                                                                         *)
(* An instant is a minute counted from 1. Zone[t] is the local minute shown  *)
(* at instant t: a zone that skips a local minute (the clock is put forward) *)
(* or shows one twice (it is put back) is an ordinary value of Zone.         *)
(* A parsed expression is a record of the five sets of allowed values and    *)
(* of the two flags that say whether the day fields are restricted.          *)
(***************************************************************************)
EXTENDS Integers, FiniteSetsExt

CONSTANTS
  MinutesPerHour, HoursPerDay, DaysPerMonth, MonthsPerYear,
  DaysPerWeek,    \* the calendar
  Horizon,        \* last instant the calendar knows
  MaxSearchDays,  \* _MAX_SEARCH_DAYS
  Zone            \* local minute shown at each instant

None == 0

ASSUME CronAssumption ==
  /\ {MinutesPerHour, HoursPerDay, DaysPerMonth, MonthsPerYear,
      DaysPerWeek, MaxSearchDays}
       \subseteq Nat \ {0}
  /\ Horizon \in Nat
  /\ Zone \in [1..Horizon -> Nat]

MinutesPerDay == MinutesPerHour * HoursPerDay

(***************************************************************************)
(* Parsing. A part of a field is [body, from, to, step]: body is "*", "n"    *)
(* (from) or "-" (from - to), step 0 when the part has no "/". A part that   *)
(* the parser rejects has no values, and a field without values is rejected. *)
(***************************************************************************)
ParsePart(part, low, high) ==
  LET step == IF part.step = 0 THEN 1 ELSE part.step
      start == IF part.body = "*" THEN low ELSE part.from
      end == CASE part.body = "*" -> high
               [] part.body = "-" -> part.to
               [] OTHER -> IF part.step = 0 THEN part.from ELSE high
      accepted == /\ step <= high - low + 1
                  /\ start \in low..high
                  /\ end \in low..high
  IN {v \in start..end : accepted /\ (v - start) % step = 0}

ParseField(parts, low, high) ==
  IF \E p \in parts : ParsePart(p, low, high) = {}
  THEN {}
  ELSE UNION {ParsePart(p, low, high) : p \in parts}

Star == [body |-> "*", from |-> 0, to |-> 0, step |-> 0]

CronFields == {"minute", "hour", "dayOfMonth", "month", "dayOfWeek"}

\* Weekday DaysPerWeek is another name of weekday 0 (Sunday).
ParseCron(fields) ==
  [minutes |-> ParseField(fields.minute, 0, MinutesPerHour - 1),
   hours |-> ParseField(fields.hour, 0, HoursPerDay - 1),
   daysOfMonth |-> ParseField(fields.dayOfMonth, 1, DaysPerMonth),
   months |-> ParseField(fields.month, 1, MonthsPerYear),
   daysOfWeek |-> {v % DaysPerWeek : v \in ParseField(fields.dayOfWeek, 0, DaysPerWeek)},
   dayOfMonthRestricted |-> fields.dayOfMonth # {Star},
   dayOfWeekRestricted |-> fields.dayOfWeek # {Star}]

\* CronExpression: what parsing can give.
CronExpressions ==
  [minutes : SUBSET (0..MinutesPerHour - 1), hours : SUBSET (0..HoursPerDay - 1),
   daysOfMonth : SUBSET (1..DaysPerMonth), months : SUBSET (1..MonthsPerYear),
   daysOfWeek : SUBSET (0..DaysPerWeek - 1),
   dayOfMonthRestricted : BOOLEAN, dayOfWeekRestricted : BOOLEAN]

(***************************************************************************)
(* Searching. Dates are counted from 0. A restricted day of month and a      *)
(* restricted day of week are alternatives, as in every cron.                *)
(***************************************************************************)
MatchesDate(expr, date) ==
  LET day == (date % DaysPerMonth) + 1 \in expr.daysOfMonth
      weekday == date % DaysPerWeek \in expr.daysOfWeek
      month == ((date \div DaysPerMonth) % MonthsPerYear) + 1 \in expr.months
  IN month /\ IF expr.dayOfMonthRestricted /\ expr.dayOfWeekRestricted
     THEN day \/ weekday
     ELSE day /\ weekday

\* The first instant that shows a local minute, None if the clock skips it.
ResolveLocal(local) ==
  LET shown == {t \in DOMAIN Zone : Zone[t] = local}
  IN IF shown = {} THEN None ELSE Min(shown)

LocalMinutes(expr, date) ==
  {date * MinutesPerDay + h * MinutesPerHour + m : h \in expr.hours, m \in expr.minutes}

\* Day by day from the local date of after; within a day in local order.
StartDate(after) == Zone[IF after < 1 THEN 1 ELSE after] \div MinutesPerDay
Later(expr, after, date) ==
  {l \in LocalMinutes(expr, date) : ResolveLocal(l) # None /\ ResolveLocal(l) > after}
Days(expr, after) ==
  {d \in StartDate(after)..StartDate(after) + MaxSearchDays - 1 :
     MatchesDate(expr, d) /\ Later(expr, after, d) # {}}
NextOccurrence(expr, after) ==
  IF Days(expr, after) = {} THEN None
  ELSE ResolveLocal(Min(Later(expr, after, Min(Days(expr, after)))))

(***************************************************************************)
(* Reference: the instants at which the clock shows a matching minute for    *)
(* the first time.                                                          *)
(***************************************************************************)
FiresAt(expr, t) ==
  LET date == Zone[t] \div MinutesPerDay
  IN /\ ResolveLocal(Zone[t]) = t
     /\ MatchesDate(expr, date)
     /\ Zone[t] \in LocalMinutes(expr, date)

(***************************************************************************)
(* What next_occurrence relies on. The docstring of next_occurrence: local   *)
(* minutes that exist come in the order of their instants; and the search    *)
(* ends after _MAX_SEARCH_DAYS although the expression could match later     *)
(* (29 February across 2100).                                               *)
(***************************************************************************)
ClockRunsOn ==
  \A t, u \in DOMAIN Zone :
    t < u /\ ResolveLocal(Zone[t]) = t /\ ResolveLocal(Zone[u]) = u => Zone[t] < Zone[u]

SearchReaches(expr) ==
  \A after \in 0..Horizon, t \in DOMAIN Zone :
    after < t /\ FiresAt(expr, t) =>
      \E u \in DOMAIN Zone :
        /\ after < u /\ FiresAt(expr, u)
        /\ Zone[u] \div MinutesPerDay < StartDate(after) + MaxSearchDays
=============================================================================
