---------------------------- MODULE ServiceProofs ---------------------------
(***************************************************************************)
(* Proofs about the parts of the service that admit work (MCTaskService), for *)
(* any values of their constants: task schedules (Cron, ScheduleOccurrences), *)
(* projects (Projects), the catalogue and task admission (SkillCatalog,       *)
(* Integrations, TaskAdmission), interpretation requests                      *)
(* (SkillInterpretation), designs (SkillDesign), and users and sessions       *)
(* (Accounts).                                                               *)
(*                                                                         *)
(* Schedules come in three parts. The first is about next_occurrence alone:   *)
(* it returns the first instant at which the expression fires. The second is  *)
(* about the rows: an instant is claimed before the schedule moves on to a    *)
(* later one, and every transaction that touches the schedule leaves a new    *)
(* row_version. The third puts both together: on a calendar that is searched  *)
(* far enough no instant is lost. Every other part has one inductive          *)
(* invariant; those of the parts that admit work are put together at the end  *)
(* as properties of the service.                                             *)
(***************************************************************************)
EXTENDS MCTaskService, FiniteSetTheorems, WellFoundedInduction, TLAPS

-----------------------------------------------------------------------------
(* Natural numbers.                                                        *)

\* The least member of a set of numbers.
LEMMA MinIsLeast ==
  ASSUME NEW S, S \subseteq Nat, S # {}
  PROVE  Min(S) \in S /\ \A y \in S : Min(S) <= y
  <1>1. PICK x \in S : \A y \in S : <<y, x>> \notin OpToRel(<, Nat)
    BY NatLessThanWellFounded, WFMin
  <1>2. \A y \in S : ~(y < x)
    BY <1>1 DEF OpToRel
  <1>3. \E least \in S : \A y \in S : least <= y
    BY <1>2
  <1>. QED
    BY <1>3 DEF Min

\* A minute of an hour of a date is a minute of that date.
LEMMA LocalMinuteOfDate ==
  ASSUME NEW date \in Nat, NEW h \in 0..HoursPerDay - 1, NEW m \in 0..MinutesPerHour - 1,
         NEW l, l = date * MinutesPerDay + h * MinutesPerHour + m
  PROVE  l \in Nat /\ l \div MinutesPerDay = date
  <1>1. MinutesPerHour \in Nat \ {0} /\ HoursPerDay \in Nat \ {0}
    BY CronAssumption
  <1>2. MinutesPerDay = MinutesPerHour * HoursPerDay /\ MinutesPerDay \in Nat \ {0}
    BY <1>1 DEF MinutesPerDay
  <1>3. /\ h * MinutesPerHour <= (HoursPerDay - 1) * MinutesPerHour
        /\ (HoursPerDay - 1) * MinutesPerHour = MinutesPerDay - MinutesPerHour
    BY <1>1, <1>2
  <1>4. (date + 1) * MinutesPerDay = date * MinutesPerDay + MinutesPerDay
    BY <1>2
  <1>5. date * MinutesPerDay \in Nat /\ h * MinutesPerHour \in Nat
    BY <1>1, <1>2
  <1>6. l \in Nat /\ date * MinutesPerDay <= l /\ l < (date + 1) * MinutesPerDay
    BY <1>1, <1>2, <1>3, <1>4, <1>5
  <1>. QED
    BY <1>2, <1>6

\* Later minutes are not of earlier dates.
LEMMA DatesFollow ==
  ASSUME NEW l \in Nat, NEW k \in Nat, l <= k
  PROVE  /\ l \div MinutesPerDay \in Nat
         /\ l \div MinutesPerDay <= k \div MinutesPerDay
  <1>1. MinutesPerDay \in Nat \ {0}
    BY CronAssumption DEF MinutesPerDay
  <1>. QED
    BY <1>1

-----------------------------------------------------------------------------
(* The next instant of an expression.                                      *)

\* What resolving a shown local minute gives: the first instant that shows it.
LEMMA ResolveIsFirst ==
  ASSUME NEW local
  PROVE  /\ ResolveLocal(local) # None =>
              /\ ResolveLocal(local) \in 1..Horizon
              /\ Zone[ResolveLocal(local)] = local
         /\ \A t \in 1..Horizon :
              Zone[t] = local =>
                ResolveLocal(local) # None /\ ResolveLocal(local) <= t
  <1>. DEFINE shown == {t \in DOMAIN Zone : Zone[t] = local}
  <1>1. DOMAIN Zone = 1..Horizon /\ Horizon \in Nat
    BY CronAssumption
  <1>2. shown \subseteq Nat \ {0}
    BY <1>1
  <1>3. CASE shown = {}
    BY <1>1, <1>3 DEF ResolveLocal
  <1>4. CASE shown # {}
    <2>1. ResolveLocal(local) = Min(shown)
      BY <1>4 DEF ResolveLocal
    <2>2. Min(shown) \in shown /\ \A t \in shown : Min(shown) <= t
      BY <1>2, <1>4, MinIsLeast
    <2>. QED
      BY <1>1, <1>2, <2>1, <2>2 DEF None
  <1>. QED
    BY <1>3, <1>4

\* The local minutes of a date.
LEMMA MinutesOfDate ==
  ASSUME NEW expr \in CronExpressions, NEW date \in Nat, NEW l \in LocalMinutes(expr, date)
  PROVE  l \in Nat /\ l \div MinutesPerDay = date
  <1>1. PICK h \in expr.hours, m \in expr.minutes :
          l = date * MinutesPerDay + h * MinutesPerHour + m
    BY DEF LocalMinutes
  <1>2. h \in 0..HoursPerDay - 1 /\ m \in 0..MinutesPerHour - 1
    BY <1>1 DEF CronExpressions
  <1>. QED
    BY <1>1, <1>2, LocalMinuteOfDate

\* On a clock that shows local minutes in order, an instant that fires after the
\* start of the search is of no earlier date.
LEMMA FiringFollows ==
  ASSUME ClockRunsOn, NEW expr, NEW after \in 0..Horizon, NEW t \in DOMAIN Zone,
         after < t, FiresAt(expr, t)
  PROVE  /\ StartDate(after) <= Zone[t] \div MinutesPerDay
         /\ StartDate(after) \in Nat
         /\ Zone[t] \div MinutesPerDay \in Nat
  <1>. DEFINE from == IF after < 1 THEN 1 ELSE after
              r == ResolveLocal(Zone[from])
  <1>1. DOMAIN Zone = 1..Horizon /\ Horizon \in Nat /\ \A u \in 1..Horizon : Zone[u] \in Nat
    BY CronAssumption
  <1>2. from \in 1..Horizon /\ from <= t /\ StartDate(after) = Zone[from] \div MinutesPerDay
    BY <1>1 DEF StartDate
  <1>. HIDE DEF from
  <1>3. r \in 1..Horizon /\ Zone[r] = Zone[from] /\ r <= from
    BY <1>2, ResolveIsFirst
  <1>4. ResolveLocal(Zone[r]) = r /\ ResolveLocal(Zone[t]) = t
    BY <1>3 DEF FiresAt
  <1>. HIDE DEF r
  <1>5. r < t => Zone[r] < Zone[t]
    BY <1>1, <1>3, <1>4 DEF ClockRunsOn
  <1>6. Zone[from] <= Zone[t]
    BY <1>1, <1>2, <1>3, <1>5
  <1>. QED
    BY <1>1, <1>2, <1>6, DatesFollow, SMTT(30)


\* What a search finds is an instant of the calendar, later than its start, at which the
\* expression fires, on the first of those dates and the first of its minutes.
LEMMA NextFires ==
  ASSUME NEW expr \in CronExpressions, NEW after \in 0..Horizon, Horizon > 0
  PROVE  /\ NextOccurrence(expr, after) = None <=> Days(expr, after) = {}
         /\ NextOccurrence(expr, after) # None =>
              /\ NextOccurrence(expr, after) \in DOMAIN Zone
              /\ NextOccurrence(expr, after) > after
              /\ FiresAt(expr, NextOccurrence(expr, after))
              /\ Zone[NextOccurrence(expr, after)] \div MinutesPerDay \in Days(expr, after)
              /\ \A d \in Days(expr, after) :
                   Zone[NextOccurrence(expr, after)] \div MinutesPerDay <= d
              /\ \A l \in Later(expr, after, Zone[NextOccurrence(expr, after)] \div MinutesPerDay) :
                   Zone[NextOccurrence(expr, after)] <= l
  <1>1. DOMAIN Zone = 1..Horizon /\ Horizon \in Nat /\ \A u \in 1..Horizon : Zone[u] \in Nat
    BY CronAssumption
  <1>. DEFINE next == NextOccurrence(expr, after)
  <1>2. StartDate(after) \in Nat
    <2>. DEFINE z == Zone[IF after < 1 THEN 1 ELSE after]
    <2>1. z \in Nat /\ StartDate(after) = z \div MinutesPerDay
      BY <1>1 DEF StartDate
    <2>. HIDE DEF z
    <2>. QED
      BY <2>1, DatesFollow
  <1>3. Days(expr, after) \subseteq Nat
    BY <1>2, CronAssumption DEF Days
  <1>4. next = IF Days(expr, after) = {} THEN None
               ELSE ResolveLocal(Min(Later(expr, after, Min(Days(expr, after)))))
    BY DEF NextOccurrence
  <1>. HIDE DEF next
  <1>5. CASE Days(expr, after) = {}
    BY <1>4, <1>5 DEF next
  <1>6. CASE Days(expr, after) # {}
    <2>. DEFINE d == Min(Days(expr, after))
                l == Min(Later(expr, after, d))
    <2>1. d \in Days(expr, after) /\ \A e \in Days(expr, after) : d <= e
      BY <1>3, <1>6, MinIsLeast
    <2>2. d \in Nat /\ MatchesDate(expr, d) /\ Later(expr, after, d) # {}
      BY <1>3, <2>1 DEF Days
    <2>3. Later(expr, after, d) \subseteq LocalMinutes(expr, d)
      BY DEF Later
    <2>4. Later(expr, after, d) \subseteq Nat
      BY <2>2, <2>3, MinutesOfDate
    <2>5. l \in Later(expr, after, d) /\ \A k \in Later(expr, after, d) : l <= k
      BY <2>2, <2>4, MinIsLeast
    <2>6. next = ResolveLocal(l)
      BY <1>4, <1>6
    <2>. HIDE DEF d, l
    <2>7. l \in LocalMinutes(expr, d) /\ next # None /\ next > after
      BY <2>5, <2>6 DEF Later
    <2>8. next \in 1..Horizon /\ Zone[next] = l
      BY <2>6, <2>7, ResolveIsFirst
    <2>9. l \div MinutesPerDay = d
      BY <2>2, <2>7, MinutesOfDate
    <2>10. FiresAt(expr, next)
      BY <2>2, <2>6, <2>7, <2>8, <2>9 DEF FiresAt
    <2>. QED
      BY <1>1, <1>6, <2>1, <2>5, <2>7, <2>8, <2>9, <2>10 DEF next
  <1>. QED
    BY <1>5, <1>6

\* On a clock that shows local minutes in order, and with an expression that is
\* searched far enough, it is the first instant at which the expression fires.
THEOREM NextIsFirst ==
  ASSUME ClockRunsOn, NEW expr \in CronExpressions, SearchReaches(expr), Horizon > 0,
         NEW after \in 0..Horizon, NEW t \in DOMAIN Zone, after < t, FiresAt(expr, t)
  PROVE  NextOccurrence(expr, after) # None /\ NextOccurrence(expr, after) <= t
  <1>1. DOMAIN Zone = 1..Horizon /\ Horizon \in Nat /\ \A u \in 1..Horizon : Zone[u] \in Nat
    BY CronAssumption
  <1>. DEFINE next == NextOccurrence(expr, after)
              date(u) == Zone[u] \div MinutesPerDay
              first == StartDate(after)
  <1>2. \A u \in DOMAIN Zone : after < u /\ FiresAt(expr, u) =>
          /\ first <= date(u) /\ first \in Nat /\ date(u) \in Nat
          /\ MatchesDate(expr, date(u))
          /\ Zone[u] \in Later(expr, after, date(u))
    <2>. SUFFICES ASSUME NEW u \in DOMAIN Zone, after < u, FiresAt(expr, u)
                  PROVE  /\ first <= date(u) /\ first \in Nat /\ date(u) \in Nat
                         /\ MatchesDate(expr, date(u))
                         /\ Zone[u] \in Later(expr, after, date(u))
      OBVIOUS
    <2>1. first <= date(u) /\ first \in Nat /\ date(u) \in Nat
      BY FiringFollows
    <2>2. ResolveLocal(Zone[u]) = u /\ u # None
      BY <1>1 DEF FiresAt, None
    <2>3. MatchesDate(expr, date(u)) /\ Zone[u] \in LocalMinutes(expr, date(u))
      BY DEF FiresAt
    <2>4. Zone[u] \in Later(expr, after, date(u))
      BY <2>2, <2>3 DEF Later
    <2>. QED
      BY <2>1, <2>3, <2>4
  <1>3. \A u \in DOMAIN Zone : after < u /\ FiresAt(expr, u) /\ date(u) < first + MaxSearchDays =>
          date(u) \in Days(expr, after)
    <2>. SUFFICES ASSUME NEW u \in DOMAIN Zone, after < u, FiresAt(expr, u),
                         date(u) < first + MaxSearchDays
                  PROVE  date(u) \in Days(expr, after)
      OBVIOUS
    <2>. DEFINE d == date(u)
    <2>1. first <= d /\ first \in Nat /\ d \in Nat /\ d < first + MaxSearchDays
      BY <1>2
    <2>2. MatchesDate(expr, d) /\ Later(expr, after, d) # {}
      BY <1>2
    <2>. HIDE DEF d
    <2>3. d \in StartDate(after)..StartDate(after) + MaxSearchDays - 1
      <3>1. MaxSearchDays \in Nat /\ first = StartDate(after)
        BY CronAssumption
      <3>. HIDE DEF first
      <3>. QED
        BY ONLY <2>1, <3>1
    <2>4. d \in Days(expr, after)
      BY <2>2, <2>3 DEF Days
    <2>. QED
      BY <2>4 DEF d
  <1>4. next # None
    <2>1. PICK u \in DOMAIN Zone : after < u /\ FiresAt(expr, u) /\ date(u) < first + MaxSearchDays
      BY DEF SearchReaches
    <2>2. Days(expr, after) # {}
      BY <1>3, <2>1
    <2>. QED
      BY <2>2, NextFires
  <1>5. /\ next \in DOMAIN Zone /\ next > after /\ FiresAt(expr, next)
        /\ date(next) \in Days(expr, after) /\ \A d \in Days(expr, after) : date(next) <= d
        /\ \A l \in Later(expr, after, date(next)) : Zone[next] <= l
    BY <1>4, NextFires
  <1>6. ASSUME t < next
        PROVE  FALSE
    <2>1. Zone[t] < Zone[next]
      BY <1>5, <1>6 DEF ClockRunsOn, FiresAt
    <2>2. date(t) <= date(next) /\ date(next) \in Nat /\ date(t) \in Nat
      <3>1. t \in DOMAIN Zone /\ next \in DOMAIN Zone /\ Zone[t] \in Nat /\ Zone[next] \in Nat
        BY <1>1, <1>5
      <3>2. Zone[t] <= Zone[next]
        BY <2>1, <3>1
      <3>. HIDE DEF next
      <3>. QED
        BY ONLY <3>1, <3>2, DatesFollow
    <2>3. date(t) # date(next)
      BY <1>1, <1>2, <1>5, <2>1
    <2>4. date(t) < first + MaxSearchDays
      <3>1. MaxSearchDays \in Nat /\ first \in Nat
        BY <1>2, CronAssumption
      <3>2. date(next) \in first..first + MaxSearchDays - 1
        BY <1>5 DEF Days
      <3>. HIDE DEF next, date, first
      <3>. QED
        BY ONLY <2>2, <3>1, <3>2
    <2>5. date(t) \in Days(expr, after)
      BY <1>3, <2>4
    <2>. QED
      BY <1>5, <2>2, <2>3, <2>5
  <1>. QED
    BY <1>1, <1>4, <1>5, <1>6


\* So an expression fires at t exactly when its next instant after t - 1 is t.
LEMMA FiresWhenNext ==
  ASSUME ClockRunsOn, NEW expr \in CronExpressions, SearchReaches(expr), NEW t \in DOMAIN Zone
  PROVE  FiresAt(expr, t) <=> NextOccurrence(expr, t - 1) = t
  <1>1. DOMAIN Zone = 1..Horizon /\ Horizon \in Nat
    BY CronAssumption
  <1>2. t \in Nat \ {0} /\ t - 1 \in 0..Horizon /\ Horizon > 0
    BY <1>1
  <1>3. ASSUME FiresAt(expr, t)
        PROVE  NextOccurrence(expr, t - 1) = t
    <2>1. NextOccurrence(expr, t - 1) # None /\ NextOccurrence(expr, t - 1) <= t
      BY <1>2, <1>3, NextIsFirst
    <2>2. NextOccurrence(expr, t - 1) \in DOMAIN Zone /\ NextOccurrence(expr, t - 1) > t - 1
      BY <1>2, <2>1, NextFires
    <2>. QED
      BY <1>1, <1>2, <2>1, <2>2
  <1>4. ASSUME NextOccurrence(expr, t - 1) = t
        PROVE  FiresAt(expr, t)
    <2>1. NextOccurrence(expr, t - 1) # None
      BY <1>2, <1>4 DEF None
    <2>. QED
      BY <1>2, <1>4, <2>1, NextFires
  <1>. QED
    BY <1>3, <1>4

-----------------------------------------------------------------------------
(* The rows.                                                               *)

PendingAt(t) == occ[t].status = "PENDING"
ClaimedAt(t) == occ[t].status # "NONE"
PendingStates == {"NONE", "PENDING", "SETTLED"}

SchedRow ==
  [status : DOMAIN AllowedTransitions \cup {"ABSENT"}, protocol : {0, 1},
   def : Definitions \cup {NoDefinition}, next : Nat, version : Nat, runCount : Nat,
   missed : Nat, created : Nat, last : Nat]
OccRow ==
  [status : PendingStates, worker : Workers \cup {NoWorker}, gen : Nat, attempts : Nat,
   expires : Nat, outcome : Outcomes \cup {"NONE"}, version : Nat, exhausted : BOOLEAN]
WorkerRow ==
  [pc : {"idle", "due", "claimed", "unreplayed", "clear", "resolved", "settle"}, at : Nat,
   gen : Nat, expires : Nat, version : Nat, outcome : Outcomes \cup {"NONE"}]
EditRow == [version : Nat, def : Definitions \cup {NoDefinition}, first : Nat]

\* The values of the rows, for any bounds.
SchedTypes ==
  /\ now \in Times /\ sched \in SchedRow /\ edit \in EditRow
  /\ occ \in [Times -> OccRow]
  /\ runs \in [Times -> {"none", "active", "ended"}]
  /\ worker \in [Workers -> WorkerRow]

\* A worker works on an instant that has come, and concludes without a Run only.
WorkersKept ==
  \A w \in Workers :
    /\ worker[w].pc # "idle" => worker[w].at \in 1..now
    /\ worker[w].pc = "settle" => worker[w].outcome \in {"SKIPPED_OVERLAP", "FAILED_PRECONDITION"}

\* A Run exists for an occurrence that was settled with one, and at most one
\* occurrence is pending and one Run active.
RunsMatch ==
  /\ \A t \in Times :
       runs[t] # "none" <=> occ[t].status = "SETTLED" /\ occ[t].outcome = "RUN_CREATED"
  /\ \A t, u \in Times : PendingAt(t) /\ PendingAt(u) => t = u
  /\ \A t, u \in Times : runs[t] = "active" /\ runs[u] = "active" => t = u

\* What was claimed has come, and lies before the next instant: the one of the
\* schedule, and the one an edit of this version would give it.
Ordered ==
  \A t \in Times :
    ClaimedAt(t) =>
      /\ sched.status # "ABSENT" /\ t <= now /\ occ[t].version <= sched.version
      /\ sched.next # None => t < sched.next
      /\ edit # NoEdit /\ edit.version = sched.version => t < edit.first

\* An edit was begun on a version of a schedule that exists.
EditKept ==
  /\ sched.status # "ABSENT" => sched.def \in Definitions
  /\ edit # NoEdit =>
       /\ edit.version <= sched.version /\ edit.first # None /\ edit.def \in Definitions
       /\ sched.status # "ABSENT"

\* An active schedule without a next instant has exhausted its definition with the
\* occurrence that is pending, and nothing has touched it since that claim.
LastPending ==
  sched.status = "ACTIVE" /\ sched.next = None =>
    \E t \in Times : PendingAt(t) /\ occ[t].version = sched.version /\ occ[t].exhausted

SchedKept ==
  /\ SchedTypes
  /\ WorkersKept
  /\ RunsMatch
  /\ Ordered
  /\ EditKept
  /\ LastPending
  /\ RunLimitKept


-----------------------------------------------------------------------------
(* What a step does to the rows. Every action is one of seven kinds.        *)

\* Nothing but a lease, an edit in memory, the clock or the end of a Run.
QuietStep ==
  /\ sched' = sched /\ now <= now'
  /\ \A t \in Times :
       /\ occ'[t].status = occ[t].status /\ occ'[t].outcome = occ[t].outcome
       /\ occ'[t].version = occ[t].version /\ occ'[t].exhausted = occ[t].exhausted
       /\ occ[t].status # "PENDING" => occ'[t] = occ[t]
  /\ \A t \in Times :
       /\ runs'[t] = "none" <=> runs[t] = "none"
       /\ runs'[t] = "active" => runs[t] = "active"
  /\ edit' = edit \/ edit' = NoEdit \/ BeginUpdate

\* An accepted edit, a schedule closed by a worker, a claim, a settled occurrence.
EditStep == UpdateAccepted /\ UpdateSchedule
CloseStep ==
  /\ sched.status = "ACTIVE"
  /\ \E status \in {"ERROR", "COMPLETED"} : CloseDue(status)
  /\ UNCHANGED <<now, occ, runs, edit>>
ClaimStep(w) ==
  LET plan == PlanOccurrence(sched.def, sched.next)
  IN /\ sched.status = "ACTIVE" /\ sched.next \in 1..now /\ Pending = {}
     /\ ~LimitReached(sched.runCount)
     /\ occ' = [occ EXCEPT ![sched.next] = OccurrenceRow(w, plan)]
     /\ sched' = [sched EXCEPT !.next = plan.next, !.missed = @ + plan.missed,
                               !.version = @ + 1]
     /\ UNCHANGED <<now, runs, edit>>
SettleStep(at, outcome) ==
  /\ PendingAt(at)
  /\ Settle(at, outcome)
  /\ UNCHANGED <<now, edit>>
  /\ \/ /\ outcome = "RUN_CREATED" /\ ~HasOverlappingRun(at)
        /\ runs' = [runs EXCEPT ![at] = "active"]
     \/ outcome # "RUN_CREATED" /\ runs' = runs

\* A worker's next step.
LEMMA WorkerMoves ==
  ASSUME SchedTypes, WorkersKept, now' = now, NEW w \in Workers,
         NEW rec \in WorkerRow, SetWorker(w, rec),
         rec.pc # "idle" => rec.at \in 1..now,
         rec.pc = "settle" => rec.outcome \in {"SKIPPED_OVERLAP", "FAILED_PRECONDITION"}
  PROVE  worker' \in [Workers -> WorkerRow] /\ WorkersKept'
  <1>1. worker \in [Workers -> WorkerRow] /\ worker' = [worker EXCEPT ![w] = rec]
    BY DEF SchedTypes, SetWorker
  <1>2. worker' \in [Workers -> WorkerRow]
    BY <1>1
  <1>3. \A v \in Workers : worker'[v] = IF v = w THEN rec ELSE worker[v]
    BY <1>1
  <1>. QED
    BY <1>2, <1>3 DEF WorkersKept

\* A worker that gives up, goes on or concludes without a Run.
LEMMA WorkerProceeds ==
  ASSUME SchedTypes, WorkersKept, now' = now, NEW w \in Workers,
         \/ GiveUp(w)
         \/ /\ worker[w].pc # "idle"
            /\ \/ Proceed(w, "unreplayed") \/ Proceed(w, "clear") \/ Proceed(w, "resolved")
               \/ Conclude(w, "SKIPPED_OVERLAP") \/ Conclude(w, "FAILED_PRECONDITION")
  PROVE  worker' \in [Workers -> WorkerRow] /\ WorkersKept'
  <1>1. CASE GiveUp(w)
    <2>1. IdleWorker \in WorkerRow /\ IdleWorker.pc = "idle"
      BY DEF IdleWorker, WorkerRow, None
    <2>. QED
      BY <1>1, <2>1, WorkerMoves DEF GiveUp
  <1>2. CASE worker[w].pc # "idle" /\
             (Proceed(w, "unreplayed") \/ Proceed(w, "clear") \/ Proceed(w, "resolved"))
    <2>1. PICK pc \in {"unreplayed", "clear", "resolved"} : Proceed(w, pc)
      BY <1>2
    <2>. DEFINE rec == [worker[w] EXCEPT !.pc = pc]
    <2>2. worker[w] \in WorkerRow /\ worker[w].at \in 1..now
      BY <1>2 DEF SchedTypes, WorkersKept
    <2>3. rec \in WorkerRow /\ rec.pc = pc /\ rec.at = worker[w].at
      BY <2>2 DEF WorkerRow
    <2>4. SetWorker(w, rec)
      BY <2>1 DEF Proceed
    <2>. HIDE DEF rec
    <2>. QED
      BY <2>2, <2>3, <2>4, WorkerMoves
  <1>3. CASE worker[w].pc # "idle" /\
             (Conclude(w, "SKIPPED_OVERLAP") \/ Conclude(w, "FAILED_PRECONDITION"))
    <2>1. PICK o \in {"SKIPPED_OVERLAP", "FAILED_PRECONDITION"} : Conclude(w, o)
      BY <1>3
    <2>. DEFINE rec == [worker[w] EXCEPT !.pc = "settle", !.outcome = o]
    <2>2. worker[w] \in WorkerRow /\ worker[w].at \in 1..now
      BY <1>3 DEF SchedTypes, WorkersKept
    <2>3. rec \in WorkerRow /\ rec.outcome = o /\ rec.at = worker[w].at
      BY <2>2 DEF WorkerRow, Outcomes
    <2>4. SetWorker(w, rec)
      BY <2>1 DEF Conclude
    <2>. HIDE DEF rec
    <2>. QED
      BY <2>2, <2>3, <2>4, WorkerMoves
  <1>. QED
    BY <1>1, <1>2, <1>3

\* A worker that takes a claim.
LEMMA WorkerClaims ==
  ASSUME SchedTypes, WorkersKept, now' = now, NEW w \in Workers,
         NEW at \in 1..now, NEW gen \in Nat, NEW row \in Nat, ClaimBy(w, at, gen, row)
  PROVE  worker' \in [Workers -> WorkerRow] /\ WorkersKept'
  <1>. DEFINE rec == [IdleWorker EXCEPT !.pc = "claimed", !.at = at, !.gen = gen,
                                        !.expires = now + Lease, !.version = row]
  <1>1. now + Lease \in Nat /\ at \in Nat
    BY ScheduleAssumption DEF SchedTypes, Times
  <1>2. rec \in WorkerRow /\ rec.at = at /\ rec.pc = "claimed"
    BY <1>1 DEF IdleWorker, WorkerRow, None
  <1>3. SetWorker(w, rec)
    BY DEF ClaimBy
  <1>. HIDE DEF rec
  <1>. QED
    BY <1>2, <1>3, WorkerMoves


-----------------------------------------------------------------------------
(* Each action is of its kind, and keeps the types.                        *)

\* The next instant of a definition is a later one.
LEMMA NextIsLater ==
  ASSUME NEW def \in Definitions, NEW after \in Times
  PROVE  /\ NextFromDefinition(def, after) \in Nat
         /\ NextFromDefinition(def, after) # None => NextFromDefinition(def, after) > after
  <1>1. after \in 0..Horizon /\ Horizon > 0 /\ Horizon \in Nat
    BY ScheduleAssumption, CronAssumption DEF Times
  <1>2. def.cron \in CronExpressions /\ def.runAt \in Nat
    BY DefinitionAssumption
  <1>3. NextOccurrence(def.cron, after) \in Nat
    <2>1. CASE NextOccurrence(def.cron, after) = None
      BY <2>1 DEF None
    <2>2. CASE NextOccurrence(def.cron, after) # None
      <3>1. NextOccurrence(def.cron, after) \in DOMAIN Zone
        BY <1>1, <1>2, <2>2, NextFires
      <3>. QED
        BY <3>1, CronAssumption
    <2>. QED
      BY <2>1, <2>2
  <1>. QED
    BY <1>2, <1>3 DEF NextFromDefinition, None

\* Counts of instants.
LEMMA CountsAreNumbers ==
  ASSUME NEW lo \in Nat, NEW hi \in Nat, NEW S, S \subseteq lo..hi
  PROVE  IsFiniteSet(S) /\ Cardinality(S) \in Nat
  <1>1. IsFiniteSet(lo..hi)
    BY FS_Interval
  <1>2. IsFiniteSet(S)
    BY <1>1, FS_Subset
  <1>. QED
    BY <1>2, FS_CardinalityType

\* Instants that pass are counted.
LEMMA MissedIsNumber ==
  ASSUME NEW def, NEW start \in Nat, NEW until \in Nat
  PROVE  CountMissed(def, start, until) \in Nat
  <1>. DEFINE S == {t \in start..until :
                      t > start /\ NextOccurrence(def.cron, t - 1) = t /\ Within(def, t)}
  <1>1. Cardinality(S) \in Nat
    BY CountsAreNumbers
  <1>. HIDE DEF S
  <1>2. CountMissed(def, start, until) = IF def.kind = "ONCE" THEN 0 ELSE UpToLimit(Cardinality(S))
    BY DEF CountMissed, S
  <1>. QED
    BY <1>1, <1>2, ScheduleAssumption DEF UpToLimit

\* Creating a schedule.
LEMMA CreateTypes ==
  ASSUME SchedKept, CreateSchedule
  PROVE  SchedTypes' /\ WorkersKept'
  <1>1. SchedTypes /\ WorkersKept
    BY DEF SchedKept
  <1>2. PICK def \in Definitions, protocol \in {0, 1} :
          sched' = [Absent EXCEPT !.status = "ACTIVE", !.protocol = protocol, !.def = def,
                                  !.next = NextFromDefinition(def, now),
                                  !.version = 1, !.created = now]
    BY DEF CreateSchedule
  <1>3. now \in Times /\ now \in Nat /\ NextFromDefinition(def, now) \in Nat
    BY <1>1, NextIsLater DEF SchedTypes, Times
  <1>4. sched' \in SchedRow
    BY <1>2, <1>3 DEF SchedRow, Absent, AllowedTransitions
  <1>5. UNCHANGED <<now, occ, runs, worker, edit>>
    BY DEF CreateSchedule
  <1>. QED
    BY <1>1, <1>4, <1>5 DEF SchedTypes, WorkersKept

\* Editing a schedule.
LEMMA EditTypes ==
  ASSUME SchedKept, BeginUpdate \/ UpdateSchedule
  PROVE  /\ SchedTypes' /\ WorkersKept'
         /\ QuietStep \/ EditStep
  <1>1. SchedTypes /\ WorkersKept
    BY DEF SchedKept
  <1>2. now \in Times /\ now \in Nat /\ sched \in SchedRow /\ edit \in EditRow
    BY <1>1 DEF SchedTypes, Times
  <1>3. CASE BeginUpdate
    <2>1. PICK def \in Definitions :
            edit' = [version |-> sched.version, def |-> def,
                     first |-> NextFromDefinition(def, now)]
      BY <1>3 DEF BeginUpdate
    <2>2. edit' \in EditRow
      BY <1>2, <2>1, NextIsLater DEF EditRow, SchedRow
    <2>3. UNCHANGED <<now, sched, occ, runs, worker>>
      BY <1>3 DEF BeginUpdate
    <2>. QED
      BY <1>1, <1>2, <1>3, <2>2, <2>3 DEF SchedTypes, WorkersKept, QuietStep
  <1>4. CASE UpdateSchedule
    <2>1. UNCHANGED <<now, occ, runs, worker>> /\ edit' = NoEdit
      BY <1>4 DEF UpdateSchedule
    <2>2. NoEdit \in EditRow
      BY DEF NoEdit, EditRow, None
    <2>3. sched' \in SchedRow
      <3>1. CASE UpdateAccepted
        <4>1. sched' = [sched EXCEPT !.def = edit.def, !.version = @ + 1,
                          !.next = IF sched.status = "ACTIVE" THEN edit.first ELSE None]
          BY <1>4, <3>1 DEF UpdateSchedule
        <4>. DEFINE next == IF sched.status = "ACTIVE" THEN edit.first ELSE None
        <4>2. next \in Nat /\ edit.def \in Definitions \cup {NoDefinition} /\ sched.version + 1 \in Nat
          BY <1>2 DEF SchedRow, EditRow, None
        <4>3. sched' = [sched EXCEPT !.def = edit.def, !.version = sched.version + 1, !.next = next]
          BY <4>1
        <4>. HIDE DEF next
        <4>. QED
          BY <1>2, <4>2, <4>3 DEF SchedRow
      <3>2. CASE ~UpdateAccepted
        BY <1>2, <1>4, <3>2 DEF UpdateSchedule
      <3>. QED
        BY <3>1, <3>2
    <2>4. QuietStep \/ EditStep
      <3>1. CASE ~UpdateAccepted
        BY <1>2, <1>4, <2>1, <3>1 DEF UpdateSchedule, QuietStep
      <3>. QED
        BY <1>4, <3>1 DEF EditStep
    <2>. QED
      BY <1>1, <1>2, <2>1, <2>2, <2>3, <2>4 DEF SchedTypes, WorkersKept
  <1>. QED
    BY <1>3, <1>4

\* Pausing, resuming and archiving.
LEMMA StatusTypes ==
  ASSUME SchedKept, ChangeStatus
  PROVE  SchedTypes' /\ WorkersKept'
  <1>1. SchedTypes /\ WorkersKept /\ EditKept
    BY DEF SchedKept
  <1>2. now \in Times /\ sched \in SchedRow /\ sched.status # "ABSENT" /\ sched.def \in Definitions
    BY <1>1 DEF SchedTypes, EditKept, ChangeStatus
  <1>3. PICK target \in AllowedTransitions[sched.status] :
          sched' = [sched EXCEPT !.status = target, !.version = @ + 1,
                      !.next = IF target = "ACTIVE"
                               THEN NextFromDefinition(sched.def, now) ELSE None]
    BY DEF ChangeStatus
  <1>4. target \in DOMAIN AllowedTransitions
    BY <1>2 DEF SchedRow, AllowedTransitions
  <1>5. NextFromDefinition(sched.def, now) \in Nat
    BY <1>2, NextIsLater
  <1>. DEFINE next == IF target = "ACTIVE" THEN NextFromDefinition(sched.def, now) ELSE None
  <1>6. sched' \in SchedRow
    <2>1. next \in Nat /\ sched.version + 1 \in Nat
      BY <1>2, <1>5 DEF SchedRow, None
    <2>2. sched' = [sched EXCEPT !.status = target, !.version = sched.version + 1, !.next = next]
      BY <1>3
    <2>. HIDE DEF next
    <2>. QED
      BY <1>2, <1>4, <2>1, <2>2 DEF SchedRow
  <1>7. UNCHANGED <<now, occ, runs, worker, edit>>
    BY DEF ChangeStatus
  <1>. QED
    BY <1>1, <1>6, <1>7 DEF SchedTypes, WorkersKept


\* Nothing in the database changes.
LEMMA NothingIsQuiet ==
  ASSUME SchedTypes, UNCHANGED <<now, sched, occ, runs, edit>>,
         worker' \in [Workers -> WorkerRow]
  PROVE  QuietStep /\ SchedTypes'
  <1>1. now \in Nat
    BY DEF SchedTypes, Times
  <1>. QED
    BY <1>1 DEF QuietStep, SchedTypes

\* Workers that read, lose interest or die.
LEMMA ReadingTypes ==
  ASSUME SchedKept, NEW w \in Workers,
         \/ ListDue(w) \/ NoLongerDue(w) \/ LoseWorker(w)
         \/ FindReplay(w) \/ CheckOverlap(w) \/ ResolveTask(w)
  PROVE  SchedTypes' /\ WorkersKept' /\ QuietStep
  <1>1. SchedTypes /\ WorkersKept /\ now \in Times
    BY DEF SchedKept, SchedTypes
  <1>2. UNCHANGED <<now, sched, occ, runs, edit>>
    BY DEF ListDue, NoLongerDue, LoseWorker, FindReplay, CheckOverlap, ResolveTask
  <1>3. worker' \in [Workers -> WorkerRow] /\ WorkersKept'
    <2>1. CASE ListDue(w)
      <3>. DEFINE rec == [IdleWorker EXCEPT !.pc = "due", !.at = sched.next,
                                            !.version = sched.version]
      <3>1. sched.next \in Nat /\ sched.version \in Nat /\ sched.next # None /\ sched.next <= now
        BY <1>1, <2>1 DEF ListDue, SchedTypes, SchedRow
      <3>2. rec \in WorkerRow /\ rec.at = sched.next /\ rec.pc = "due"
        BY <3>1 DEF IdleWorker, WorkerRow
      <3>3. SetWorker(w, rec)
        BY <2>1 DEF ListDue
      <3>4. rec.at \in 1..now
        BY <1>1, <3>1, <3>2 DEF None, Times
      <3>. HIDE DEF rec
      <3>. QED
        BY <1>1, <1>2, <3>2, <3>3, <3>4, WorkerMoves
    <2>2. CASE NoLongerDue(w) \/ LoseWorker(w)
      <3>1. GiveUp(w)
        BY <2>2 DEF NoLongerDue, LoseWorker
      <3>. QED
        BY <1>1, <1>2, <3>1, WorkerProceeds
    <2>3. CASE FindReplay(w) \/ CheckOverlap(w) \/ ResolveTask(w)
      <3>1. /\ worker[w].pc # "idle"
            /\ \/ GiveUp(w)
               \/ Proceed(w, "unreplayed") \/ Proceed(w, "clear") \/ Proceed(w, "resolved")
               \/ Conclude(w, "SKIPPED_OVERLAP") \/ Conclude(w, "FAILED_PRECONDITION")
        BY <2>3 DEF FindReplay, CheckOverlap, ResolveTask
      <3>. QED
        BY <1>1, <1>2, <3>1, WorkerProceeds
    <2>. QED
      BY <2>1, <2>2, <2>3
  <1>. QED
    BY <1>1, <1>2, <1>3, NothingIsQuiet

\* The clock, the Runs and the rights of the creator.
LEMMA SurroundingTypes ==
  ASSUME SchedKept, AdvanceClock \/ Withdraw \/ \E t \in Times : EndRun(t)
  PROVE  SchedTypes' /\ WorkersKept' /\ QuietStep
  <1>1. SchedTypes /\ WorkersKept /\ now \in Times /\ now \in Nat
    BY DEF SchedKept, SchedTypes, Times
  <1>2. UNCHANGED <<sched, occ, worker, edit>>
    BY DEF AdvanceClock, Withdraw, EndRun
  <1>3. now' \in Times /\ now <= now'
    BY <1>1, ScheduleAssumption DEF AdvanceClock, Withdraw, EndRun, Times
  <1>4. /\ runs' \in [Times -> {"none", "active", "ended"}]
        /\ \A t \in Times : /\ runs'[t] = "none" <=> runs[t] = "none"
                            /\ runs'[t] = "active" => runs[t] = "active"
    <2>1. CASE AdvanceClock \/ Withdraw
      BY <1>1, <2>1 DEF AdvanceClock, Withdraw, SchedTypes
    <2>2. CASE \E t \in Times : EndRun(t)
      BY <1>1, <2>2 DEF EndRun, SchedTypes
    <2>. QED
      BY <2>1, <2>2
  <1>5. WorkersKept'
    BY <1>1, <1>2, <1>3 DEF WorkersKept, SchedTypes, WorkerRow, Times
  <1>. QED
    BY <1>1, <1>2, <1>3, <1>4, <1>5 DEF SchedTypes, QuietStep

\* An expired claim is taken over.
LEMMA RecoverTypes ==
  ASSUME SchedKept, NEW w \in Workers, ClaimRecoverable(w)
  PROVE  SchedTypes' /\ WorkersKept' /\ QuietStep
  <1>1. SchedTypes /\ WorkersKept /\ Ordered /\ now \in Times /\ now \in Nat
    BY DEF SchedKept, SchedTypes, Times
  <1>2. PICK t \in Pending :
          /\ occ' = [occ EXCEPT ![t].worker = w, ![t].gen = @ + 1, ![t].attempts = @ + 1,
                                ![t].expires = now + Lease]
          /\ ClaimBy(w, t, occ[t].gen + 1, occ[t].version)
    BY DEF ClaimRecoverable
  <1>3. UNCHANGED <<now, sched, runs, edit>>
    BY DEF ClaimRecoverable
  <1>. DEFINE row == [occ[t] EXCEPT !.worker = w, !.gen = occ[t].gen + 1,
                                    !.attempts = occ[t].attempts + 1, !.expires = now + Lease]
  <1>4. t \in Times /\ occ[t] \in OccRow /\ occ[t].status = "PENDING" /\ now + Lease \in Nat
    BY <1>1, <1>2, ScheduleAssumption DEF Pending, SchedTypes
  <1>5. /\ row \in OccRow /\ row.status = occ[t].status /\ row.outcome = occ[t].outcome
        /\ row.version = occ[t].version /\ row.exhausted = occ[t].exhausted
    <2>. DEFINE g == occ[t].gen + 1
                n == occ[t].attempts + 1
                e == now + Lease
    <2>1. g \in Nat /\ n \in Nat /\ e \in Nat
      BY <1>4 DEF OccRow
    <2>2. row = [occ[t] EXCEPT !.worker = w, !.gen = g, !.attempts = n, !.expires = e]
      OBVIOUS
    <2>. HIDE DEF g, n, e, row
    <2>. QED
      BY <1>4, <2>1, <2>2 DEF OccRow
  <1>6. occ' = [occ EXCEPT ![t] = row]
    BY <1>1, <1>2, <1>4 DEF SchedTypes
  <1>. HIDE DEF row
  <1>7. occ' \in [Times -> OccRow] /\ occ'[t] = row /\ \A u \in Times : u # t => occ'[u] = occ[u]
    BY <1>1, <1>4, <1>5, <1>6 DEF SchedTypes
  <1>8. worker' \in [Workers -> WorkerRow] /\ WorkersKept'
    <2>1. t \in 1..now
      BY <1>1, <1>4 DEF Ordered, ClaimedAt, Times
    <2>2. occ[t].gen + 1 \in Nat /\ occ[t].version \in Nat
      BY <1>4 DEF OccRow
    <2>. QED
      BY <1>1, <1>2, <1>3, <2>1, <2>2, WorkerClaims
  <1>. QED
    BY <1>1, <1>3, <1>4, <1>5, <1>7, <1>8 DEF SchedTypes, QuietStep

\* The rows after an occurrence is settled.
LEMMA SettleTypes ==
  ASSUME SchedKept, NEW at \in Times, NEW outcome \in Outcomes, PendingAt(at),
         Settle(at, outcome)
  PROVE  /\ sched' \in SchedRow /\ occ' \in [Times -> OccRow]
         /\ \A t \in Times : t # at => occ'[t] = occ[t]
         /\ occ'[at].status = "SETTLED" /\ occ'[at].outcome = outcome
         /\ occ'[at].version = occ[at].version
  <1>1. sched \in SchedRow /\ occ \in [Times -> OccRow] /\ occ[at] \in OccRow /\ at \in Nat
    BY DEF SchedKept, SchedTypes, Times
  <1>2. occ' = [occ EXCEPT ![at].status = "SETTLED", ![at].outcome = outcome]
    BY DEF Settle
  <1>. DEFINE count == sched.runCount + (IF outcome = "RUN_CREATED" THEN 1 ELSE 0)
              ended == CASE outcome = "FAILED_PRECONDITION" -> "ERROR"
                         [] occ[at].exhausted \/ LimitReached(count) -> "COMPLETED"
                         [] OTHER -> "ACTIVE"
              status == IF sched.version = occ[at].version /\ sched.status = "ACTIVE"
                        THEN ended ELSE sched.status
              last == IF at > sched.last THEN at ELSE sched.last
              next == IF status = sched.status THEN sched.next ELSE None
  <1>3. sched' = [sched EXCEPT !.runCount = count, !.status = status,
                               !.version = sched.version + 1, !.last = last, !.next = next]
    BY DEF Settle, SettledSchedule
  <1>4. count \in Nat /\ sched.version + 1 \in Nat /\ last \in Nat /\ next \in Nat
    BY <1>1 DEF SchedRow, None
  <1>5. ended \in {"ERROR", "COMPLETED", "ACTIVE"}
    OBVIOUS
  <1>6. status \in DOMAIN AllowedTransitions \cup {"ABSENT"}
    BY <1>1, <1>5 DEF SchedRow, AllowedTransitions
  <1>. HIDE DEF count, ended, status, last, next
  <1>7. sched' \in SchedRow
    BY <1>1, <1>3, <1>4, <1>6 DEF SchedRow
  <1>8. occ' \in [Times -> OccRow]
    BY <1>1, <1>2 DEF OccRow, PendingStates
  <1>. QED
    BY <1>1, <1>2, <1>7, <1>8 DEF OccRow


\* What has come is within the bounds of the clock.
LEMMA ComeIsTime ==
  ASSUME now \in Times
  PROVE  1..now \subseteq Times
  BY ScheduleAssumption DEF Times

\* A due instant is claimed, or its schedule closed.
LEMMA ClaimTypes ==
  ASSUME SchedKept, NEW w \in Workers, ClaimDue(w)
  PROVE  /\ SchedTypes' /\ WorkersKept'
         /\ QuietStep \/ CloseStep \/ ClaimStep(w)
  <1>1. /\ SchedTypes /\ WorkersKept /\ EditKept /\ now \in Times /\ now \in Nat
        /\ sched \in SchedRow /\ occ \in [Times -> OccRow] /\ edit \in EditRow
        /\ runs \in [Times -> {"none", "active", "ended"}]
    BY DEF SchedKept, SchedTypes, Times
  <1>2. /\ sched.status = "ACTIVE" /\ sched.next = worker[w].at
        /\ sched.next \in 1..now /\ sched.next \in Times
        /\ UNCHANGED <<now, runs, edit>>
    BY <1>1, ComeIsTime DEF ClaimDue, StillDue, WorkersKept
  <1>3. CASE \E status \in {"ERROR", "COMPLETED"} :
               CloseDue(status) /\ GiveUp(w) /\ UNCHANGED occ
    <2>1. PICK status \in {"ERROR", "COMPLETED"} :
            CloseDue(status) /\ GiveUp(w) /\ UNCHANGED occ
      BY <1>3
    <2>2. sched' = [sched EXCEPT !.status = status, !.next = None, !.version = sched.version + 1]
      BY <2>1 DEF CloseDue
    <2>3. status \in DOMAIN AllowedTransitions /\ sched.version + 1 \in Nat /\ None \in Nat
      BY <1>1 DEF AllowedTransitions, SchedRow, None
    <2>4. sched' \in SchedRow
      BY <1>1, <2>2, <2>3 DEF SchedRow
    <2>5. worker' \in [Workers -> WorkerRow] /\ WorkersKept'
      BY <1>1, <1>2, <2>1, WorkerProceeds
    <2>. QED
      BY <1>1, <1>2, <2>1, <2>4, <2>5 DEF SchedTypes, CloseStep
  <1>4. CASE GiveUp(w) /\ UNCHANGED <<sched, occ>>
    <2>1. worker' \in [Workers -> WorkerRow] /\ WorkersKept'
      BY <1>1, <1>2, <1>4, WorkerProceeds
    <2>. QED
      BY <1>1, <1>2, <1>4, <2>1, NothingIsQuiet
  <1>. DEFINE plan == PlanOccurrence(sched.def, sched.next)
  <1>5. CASE /\ Pending = {} /\ ~LimitReached(sched.runCount)
             /\ occ' = [occ EXCEPT ![sched.next] = OccurrenceRow(w, plan)]
             /\ sched' = [sched EXCEPT !.next = plan.next, !.missed = @ + plan.missed,
                                       !.version = @ + 1]
             /\ ClaimBy(w, sched.next, 1, sched.version + 1)
    <2>1. sched.def \in Definitions
      BY <1>1, <1>2 DEF EditKept
    <2>2. plan.next \in Nat /\ plan.missed \in Nat /\ plan.exhausted \in BOOLEAN
      <3>1. NextFromDefinition(sched.def, now) \in Nat
        BY <1>1, <2>1, NextIsLater
      <3>2. CountMissed(sched.def, sched.next, now) \in Nat
        BY <1>1, MissedIsNumber DEF SchedRow
      <3>. QED
        BY <3>1, <3>2 DEF PlanOccurrence
    <2>3. sched.version + 1 \in Nat /\ sched.missed + plan.missed \in Nat /\ now + Lease \in Nat
      BY <1>1, <2>2, ScheduleAssumption DEF SchedRow
    <2>4. OccurrenceRow(w, plan) \in OccRow
      BY <2>2, <2>3 DEF OccurrenceRow, OccRow, PendingStates
    <2>5. ClaimStep(w)
      BY <1>2, <1>5 DEF ClaimStep
    <2>6. sched' = [sched EXCEPT !.next = plan.next, !.missed = sched.missed + plan.missed,
                                 !.version = sched.version + 1]
      BY <1>5
    <2>. HIDE DEF plan
    <2>7. sched' \in SchedRow
      BY <1>1, <2>2, <2>3, <2>6 DEF SchedRow
    <2>8. occ' \in [Times -> OccRow]
      BY <1>1, <1>5, <2>4
    <2>9. worker' \in [Workers -> WorkerRow] /\ WorkersKept'
      BY <1>1, <1>2, <1>5, <2>3, WorkerClaims
    <2>. QED
      BY <1>1, <1>2, <2>5, <2>7, <2>8, <2>9 DEF SchedTypes
  <1>. QED
    BY <1>3, <1>4, <1>5 DEF ClaimDue

\* The Run is created with the settlement of its occurrence, or not at all.
LEMMA CreateRunTypes ==
  ASSUME SchedKept, NEW w \in Workers, CreateRun(w)
  PROVE  /\ SchedTypes' /\ WorkersKept'
         /\ QuietStep \/ \E at \in Times, outcome \in Outcomes : SettleStep(at, outcome)
  <1>. DEFINE at == worker[w].at
  <1>1. /\ SchedTypes /\ WorkersKept /\ now \in Times /\ now \in Nat
        /\ runs \in [Times -> {"none", "active", "ended"}]
    BY DEF SchedKept, SchedTypes, Times
  <1>2. worker[w].pc # "idle" /\ at \in Times /\ UNCHANGED <<now, edit>>
    BY <1>1, ComeIsTime DEF CreateRun, WorkersKept
  <1>3. CASE /\ UNCHANGED <<sched, occ, runs>>
             /\ GiveUp(w) \/ Conclude(w, "FAILED_PRECONDITION") \/ Conclude(w, "SKIPPED_OVERLAP")
    <2>1. worker' \in [Workers -> WorkerRow] /\ WorkersKept'
      BY <1>1, <1>2, <1>3, WorkerProceeds
    <2>. QED
      BY <1>1, <1>2, <1>3, <2>1, NothingIsQuiet
  <1>4. CASE /\ occ[at].status = "PENDING" /\ ~HasOverlappingRun(at)
             /\ runs' = [runs EXCEPT ![at] = "active"]
             /\ Settle(at, "RUN_CREATED")
             /\ GiveUp(w)
    <2>1. PendingAt(at) /\ "RUN_CREATED" \in Outcomes
      BY <1>4 DEF PendingAt, Outcomes
    <2>. HIDE DEF at
    <2>2. SettleStep(at, "RUN_CREATED")
      BY <1>2, <1>4, <2>1 DEF SettleStep
    <2>3. sched' \in SchedRow /\ occ' \in [Times -> OccRow]
      BY <1>2, <1>4, <2>1, SettleTypes
    <2>4. runs' \in [Times -> {"none", "active", "ended"}]
      BY <1>1, <1>4
    <2>5. worker' \in [Workers -> WorkerRow] /\ WorkersKept'
      BY <1>1, <1>2, <1>4, WorkerProceeds
    <2>. QED
      BY <1>1, <1>2, <2>1, <2>2, <2>3, <2>4, <2>5 DEF SchedTypes
  <1>. QED
    BY <1>3, <1>4 DEF CreateRun

\* An outcome without a Run is recorded.
LEMMA RecordTypes ==
  ASSUME SchedKept, NEW w \in Workers, RecordOutcome(w)
  PROVE  /\ SchedTypes' /\ WorkersKept'
         /\ QuietStep \/ \E at \in Times, outcome \in Outcomes : SettleStep(at, outcome)
  <1>. DEFINE at == worker[w].at
              outcome == worker[w].outcome
  <1>1. /\ SchedTypes /\ WorkersKept /\ now \in Times /\ now \in Nat
        /\ UNCHANGED <<now, runs, edit>> /\ GiveUp(w)
    BY DEF SchedKept, SchedTypes, Times, RecordOutcome
  <1>2. at \in Times /\ outcome \in Outcomes /\ outcome # "RUN_CREATED"
    BY <1>1, ComeIsTime DEF RecordOutcome, WorkersKept, Outcomes
  <1>3. worker' \in [Workers -> WorkerRow] /\ WorkersKept'
    BY <1>1, WorkerProceeds
  <1>4. CASE UNCHANGED <<sched, occ>>
    BY <1>1, <1>3, <1>4, NothingIsQuiet
  <1>5. CASE occ[at].status = "PENDING" /\ Settle(at, outcome)
    <2>. HIDE DEF at, outcome
    <2>1. PendingAt(at)
      BY <1>5 DEF PendingAt
    <2>2. SettleStep(at, outcome)
      BY <1>1, <1>2, <1>5, <2>1 DEF SettleStep
    <2>3. sched' \in SchedRow /\ occ' \in [Times -> OccRow]
      BY <1>2, <1>5, <2>1, SettleTypes
    <2>. QED
      BY <1>1, <1>2, <1>3, <2>2, <2>3 DEF SchedTypes
  <1>. QED
    BY <1>4, <1>5 DEF RecordOutcome

\* All together.
LEMMA StepKinds ==
  ASSUME SchedKept, [SchedNext]_schedVars
  PROVE  /\ SchedTypes' /\ WorkersKept'
         /\ \/ QuietStep \/ CreateSchedule \/ EditStep \/ ChangeStatus \/ CloseStep
            \/ \E w \in Workers : ClaimStep(w)
            \/ \E at \in Times, outcome \in Outcomes : SettleStep(at, outcome)
  <1>1. CASE UNCHANGED schedVars
    <2>1. SchedTypes' /\ WorkersKept'
      BY <1>1 DEF SchedKept, SchedTypes, WorkersKept, schedVars
    <2>2. QuietStep
      BY <1>1, NothingIsQuiet DEF SchedKept, SchedTypes, schedVars
    <2>. QED
      BY <2>1, <2>2
  <1>2. CASE UserStep
    BY <1>2, CreateTypes, EditTypes, StatusTypes DEF UserStep
  <1>3. ASSUME NEW w \in Workers, TickStep(w) \/ FireStep(w) \/ LoseWorker(w)
        PROVE  /\ SchedTypes' /\ WorkersKept'
               /\ \/ QuietStep \/ CloseStep \/ \E v \in Workers : ClaimStep(v)
                  \/ \E at \in Times, outcome \in Outcomes : SettleStep(at, outcome)
    <2>1. CASE ListDue(w) \/ NoLongerDue(w) \/ LoseWorker(w)
               \/ FindReplay(w) \/ CheckOverlap(w) \/ ResolveTask(w)
      BY <2>1, ReadingTypes
    <2>2. CASE ClaimRecoverable(w)
      BY <2>2, RecoverTypes
    <2>3. CASE ClaimDue(w)
      BY <2>3, ClaimTypes
    <2>4. CASE CreateRun(w)
      BY <2>4, CreateRunTypes
    <2>5. CASE RecordOutcome(w)
      BY <2>5, RecordTypes
    <2>. QED
      BY <1>3, <2>1, <2>2, <2>3, <2>4, <2>5 DEF TickStep, FireStep
  <1>4. CASE AdvanceClock \/ Withdraw \/ \E t \in Times : EndRun(t)
    BY <1>4, SurroundingTypes
  <1>. QED
    BY <1>1, <1>2, <1>3, <1>4 DEF SchedNext


-----------------------------------------------------------------------------
(* Each kind of step keeps the rows, and only moves occurrences on.         *)

RowsKept == RunsMatch /\ Ordered /\ EditKept /\ LastPending /\ RunLimitKept

\* The pending occurrence counts one.
LEMMA PendingCount ==
  ASSUME \A t, u \in Times : PendingAt(t) /\ PendingAt(u) => t = u
  PROVE  /\ (\A t \in Times : ~PendingAt(t)) => Pending = {} /\ Cardinality(Pending) = 0
         /\ \A t \in Times : PendingAt(t) => Pending = {t} /\ Cardinality(Pending) = 1
         /\ Cardinality(Pending) \in Nat
  <1>1. ASSUME \A t \in Times : ~PendingAt(t)
        PROVE  Pending = {} /\ Cardinality(Pending) = 0
    <2>1. Pending = {}
      BY <1>1 DEF Pending, PendingAt
    <2>. QED
      BY <2>1, FS_EmptySet
  <1>2. ASSUME NEW t \in Times, PendingAt(t)
        PROVE  Pending = {t} /\ Cardinality(Pending) = 1
    <2>1. Pending = {t}
      BY <1>2 DEF Pending, PendingAt
    <2>. QED
      BY <2>1, FS_Singleton
  <1>3. Cardinality(Pending) \in Nat
    BY <1>1, <1>2
  <1>. QED
    BY <1>1, <1>2, <1>3

\* A step that leaves the occurrences, the Runs and the count as they are keeps the
\* limit if it keeps the definition, or meets the limit of a new one.
LEMMA LimitKept ==
  ASSUME RunLimitKept, sched'.runCount = sched.runCount,
         \A t \in Times : occ'[t].status = occ[t].status,
         \A t \in Times : runs'[t] = "none" <=> runs[t] = "none",
         \/ sched'.def = sched.def /\ sched.status # "ABSENT"
         \/ sched'.def = sched.def /\ sched'.status = sched.status
         \/ sched'.def.maxRuns # None =>
              sched'.def.maxRuns >= sched.runCount + Cardinality(Pending)
  PROVE  RunLimitKept'
  <1>1. Pending' = Pending /\ CreatedRuns' = CreatedRuns
    BY DEF Pending, CreatedRuns
  <1>2. Cardinality(Pending)' = Cardinality(Pending) /\ Cardinality(CreatedRuns)' = Cardinality(CreatedRuns)
    BY <1>1
  <1>. QED
    BY <1>2 DEF RunLimitKept

\* Quiet steps.
LEMMA QuietKeeps ==
  ASSUME SchedKept, SchedTypes', QuietStep
  PROVE  RowsKept' /\ OccurrenceAdvances
  <1>1. RunsMatch /\ Ordered /\ EditKept /\ LastPending /\ RunLimitKept /\ SchedTypes
    BY DEF SchedKept
  <1>2. /\ sched' = sched /\ now <= now' /\ now \in Times /\ now \in Nat
        /\ \A t \in Times :
             /\ occ'[t].status = occ[t].status /\ occ'[t].outcome = occ[t].outcome
             /\ occ'[t].version = occ[t].version /\ occ'[t].exhausted = occ[t].exhausted
             /\ occ[t].status # "PENDING" => occ'[t] = occ[t]
        /\ \A t \in Times : /\ runs'[t] = "none" <=> runs[t] = "none"
                            /\ runs'[t] = "active" => runs[t] = "active"
    BY <1>1 DEF QuietStep, SchedTypes, Times
  <1>3. RunsMatch'
    <2>1. \A t \in Times : occ'[t].status = occ[t].status /\ occ'[t].outcome = occ[t].outcome
      BY <1>2
    <2>2. \A t \in Times : /\ runs'[t] = "none" <=> runs[t] = "none"
                           /\ runs'[t] = "active" => runs[t] = "active"
      BY <1>2
    <2>3. RunsMatch
      BY <1>1
    <2>. QED
      BY ONLY <2>1, <2>2, <2>3 DEF RunsMatch, PendingAt
  <1>4. \/ edit' = edit \/ edit' = NoEdit
        \/ /\ edit'.version = sched.version /\ edit'.first # None /\ edit'.first > now
           /\ edit'.def \in Definitions /\ sched.status # "ABSENT"
    <2>1. CASE BeginUpdate
      <3>1. PICK def \in Definitions :
              /\ Acceptable(def)
              /\ edit' = [version |-> sched.version, def |-> def,
                          first |-> NextFromDefinition(def, now)]
        BY <2>1 DEF BeginUpdate
      <3>2. NextFromDefinition(def, now) # None /\ NextFromDefinition(def, now) > now
        BY <1>2, <3>1, NextIsLater DEF Acceptable
      <3>. QED
        BY <2>1, <3>1, <3>2 DEF BeginUpdate
    <2>. QED
      BY <2>1 DEF QuietStep
  <1>5. Ordered'
    <2>. SUFFICES ASSUME NEW t \in Times, ClaimedAt(t)'
                  PROVE  /\ sched'.status # "ABSENT" /\ t <= now'
                         /\ occ'[t].version <= sched'.version
                         /\ sched'.next # None => t < sched'.next
                         /\ edit' # NoEdit /\ edit'.version = sched'.version => t < edit'.first
      BY DEF Ordered
    <2>1. ClaimedAt(t)
      BY <1>2 DEF ClaimedAt
    <2>2. /\ sched.status # "ABSENT" /\ t <= now /\ occ[t].version <= sched.version
          /\ sched.next # None => t < sched.next
          /\ edit # NoEdit /\ edit.version = sched.version => t < edit.first
      BY <1>1, <2>1 DEF Ordered
    <2>3. /\ t \in Nat /\ now' \in Int /\ now \in Int /\ now <= now'
          /\ occ'[t].version = occ[t].version /\ sched' = sched
          /\ edit'.first # None => edit'.first \in Nat
      BY <1>2 DEF Times, SchedTypes, EditRow
    <2>4. t <= now'
      BY <2>2, <2>3
    <2>5. edit' # NoEdit /\ edit'.version = sched.version => t < edit'.first
      BY <1>4, <2>2, <2>3
    <2>. QED
      BY <2>2, <2>3, <2>4, <2>5
  <1>6. EditKept'
    BY <1>1, <1>2, <1>4 DEF EditKept, SchedTypes, SchedRow
  <1>7. LastPending'
    BY <1>1, <1>2 DEF LastPending, PendingAt
  <1>8. RunLimitKept'
    BY <1>1, <1>2, LimitKept
  <1>9. OccurrenceAdvances
    BY <1>2 DEF OccurrenceAdvances
  <1>. QED
    BY <1>3, <1>5, <1>6, <1>7, <1>8, <1>9 DEF RowsKept


\* A new schedule has no occurrences.
LEMMA CreateKeeps ==
  ASSUME SchedKept, SchedTypes', CreateSchedule
  PROVE  RowsKept' /\ OccurrenceAdvances
  <1>1. RunsMatch /\ Ordered /\ EditKept /\ SchedTypes /\ now \in Times
    BY DEF SchedKept, SchedTypes
  <1>2. PICK def \in Definitions, protocol \in {0, 1} :
          /\ Acceptable(def)
          /\ sched' = [Absent EXCEPT !.status = "ACTIVE", !.protocol = protocol, !.def = def,
                                     !.next = NextFromDefinition(def, now),
                                     !.version = 1, !.created = now]
    BY DEF CreateSchedule
  <1>3. /\ sched'.status = "ACTIVE" /\ sched'.def = def /\ sched'.next # None
        /\ sched'.runCount = 0 /\ sched.status = "ABSENT"
        /\ UNCHANGED <<now, occ, runs, edit>>
    BY <1>2 DEF Acceptable, Absent, CreateSchedule
  <1>4. \A t \in Times : ~ClaimedAt(t) /\ ~PendingAt(t) /\ runs[t] = "none"
    BY <1>1, <1>3 DEF Ordered, ClaimedAt, PendingAt, RunsMatch
  <1>5. edit = NoEdit
    BY <1>1, <1>3 DEF EditKept
  <1>6. RunsMatch' /\ Ordered' /\ EditKept' /\ LastPending' /\ OccurrenceAdvances
    BY <1>1, <1>3, <1>4, <1>5
       DEF RunsMatch, Ordered, EditKept, LastPending, PendingAt, ClaimedAt, OccurrenceAdvances
  <1>7. RunLimitKept'
    <2>1. Pending' = {} /\ CreatedRuns' = {}
      BY <1>3, <1>4 DEF Pending, PendingAt, CreatedRuns
    <2>2. Cardinality(Pending)' = 0 /\ Cardinality(CreatedRuns)' = 0
      BY <2>1, FS_EmptySet
    <2>3. sched'.def.maxRuns \in Nat
      BY <1>3, DefinitionAssumption
    <2>. QED
      BY <1>3, <2>2, <2>3 DEF RunLimitKept
  <1>. QED
    BY <1>6, <1>7 DEF RowsKept

\* Steps of the schedule alone: a new version, and a next instant after now, or the
\* one the edit of this version promised, or none.
LEMMA VersionKeeps ==
  ASSUME SchedKept, SchedTypes', UNCHANGED <<now, occ, runs>>,
         edit' = edit \/ edit' = NoEdit,
         sched'.version = sched.version + 1, sched'.runCount = sched.runCount,
         sched.status # "ABSENT", sched'.status # "ABSENT", sched'.def \in Definitions,
         \/ sched'.next = None /\ sched'.status # "ACTIVE"
         \/ sched'.next > now
         \/ sched'.next = edit.first /\ edit # NoEdit /\ edit.version = sched.version,
         RunLimitKept'
  PROVE  RowsKept' /\ OccurrenceAdvances
  <1>1. /\ RunsMatch /\ Ordered /\ EditKept /\ SchedTypes /\ now \in Times /\ now \in Nat
        /\ sched \in SchedRow /\ sched.version \in Nat /\ edit \in EditRow /\ edit.version \in Nat
    <2>1. RunsMatch /\ Ordered /\ EditKept /\ SchedTypes
      BY DEF SchedKept
    <2>2. now \in Times /\ sched \in SchedRow /\ edit \in EditRow
      BY <2>1 DEF SchedTypes
    <2>3. now \in Nat /\ sched.version \in Nat /\ edit.version \in Nat
      BY ONLY <2>2 DEF Times, SchedRow, EditRow
    <2>. QED
      BY <2>1, <2>2, <2>3
  <1>2. RunsMatch' /\ OccurrenceAdvances
    BY <1>1 DEF RunsMatch, PendingAt, OccurrenceAdvances
  <1>3. edit # NoEdit => edit.version <= sched.version
    BY <1>1 DEF EditKept
  <1>4. Ordered'
    <2>. SUFFICES ASSUME NEW t \in Times, ClaimedAt(t)
                  PROVE  /\ t <= now /\ occ[t].version <= sched'.version
                         /\ sched'.next # None => t < sched'.next
                         /\ edit' # NoEdit /\ edit'.version = sched'.version => t < edit'.first
      BY DEF Ordered, ClaimedAt
    <2>1. /\ t <= now /\ occ[t].version <= sched.version
          /\ edit # NoEdit /\ edit.version = sched.version => t < edit.first
      BY <1>1 DEF Ordered
    <2>2. t \in Nat /\ occ[t].version \in Nat /\ sched'.next \in Nat
      <3>1. t \in Nat /\ occ[t] \in OccRow /\ sched' \in SchedRow
        BY <1>1 DEF Times, SchedTypes
      <3>. QED
        BY ONLY <3>1 DEF OccRow, SchedRow
    <2>3. sched'.next # None => t < sched'.next
      BY <1>1, <2>1, <2>2
    <2>4. ~(edit' # NoEdit /\ edit'.version = sched'.version)
      BY <1>1, <1>3
    <2>. QED
      BY <1>1, <2>1, <2>2, <2>3, <2>4
  <1>5. EditKept'
    BY <1>1 DEF EditKept
  <1>6. LastPending'
    BY <1>1 DEF LastPending, EditKept, None
  <1>. QED
    BY <1>2, <1>4, <1>5, <1>6 DEF RowsKept

\* An accepted edit keeps to what runs already exist or are pending.
LEMMA EditKeeps ==
  ASSUME SchedKept, SchedTypes', EditStep
  PROVE  RowsKept' /\ OccurrenceAdvances
  <1>1. RunsMatch /\ EditKept /\ SchedTypes /\ RunLimitKept /\ sched \in SchedRow
    BY DEF SchedKept, SchedTypes
  <1>2. /\ edit # NoEdit /\ edit' = NoEdit /\ edit.version = sched.version
        /\ UNCHANGED <<now, occ, runs>>
        /\ sched' = [sched EXCEPT !.def = edit.def, !.version = @ + 1,
                       !.next = IF sched.status = "ACTIVE" THEN edit.first ELSE None]
        /\ edit.def.maxRuns # None => edit.def.maxRuns >= sched.runCount + Cardinality(Pending)
    BY DEF EditStep, UpdateSchedule, UpdateAccepted
  <1>3. /\ sched'.def = edit.def /\ sched'.version = sched.version + 1
        /\ sched'.next = (IF sched.status = "ACTIVE" THEN edit.first ELSE None)
        /\ sched'.status = sched.status /\ sched'.runCount = sched.runCount
    BY <1>1, <1>2 DEF SchedRow
  <1>4. sched.status # "ABSENT" /\ edit.def \in Definitions
    BY <1>1, <1>2 DEF EditKept
  <1>5. RunLimitKept'
    BY <1>1, <1>2, <1>3, LimitKept
  <1>. QED
    BY <1>2, <1>3, <1>4, <1>5, VersionKeeps

\* So do pausing, resuming and archiving, and closing a schedule.
LEMMA StatusKeeps ==
  ASSUME SchedKept, SchedTypes', ChangeStatus \/ CloseStep
  PROVE  RowsKept' /\ OccurrenceAdvances
  <1>1. RunsMatch /\ EditKept /\ SchedTypes /\ RunLimitKept /\ sched \in SchedRow /\ now \in Times
    BY DEF SchedKept, SchedTypes
  <1>2. CASE ChangeStatus
    <2>1. PICK target \in AllowedTransitions[sched.status] :
            /\ target = "ACTIVE" => NextFromDefinition(sched.def, now) # None
            /\ sched' = [sched EXCEPT !.status = target, !.version = @ + 1,
                           !.next = IF target = "ACTIVE"
                                    THEN NextFromDefinition(sched.def, now) ELSE None]
      BY <1>2 DEF ChangeStatus
    <2>2. sched.status # "ABSENT" /\ UNCHANGED <<now, occ, runs, edit>>
      BY <1>2 DEF ChangeStatus
    <2>3. sched.def \in Definitions /\ target # "ABSENT"
      BY <1>1, <2>1, <2>2 DEF EditKept, SchedRow, AllowedTransitions
    <2>4. /\ sched'.version = sched.version + 1 /\ sched'.runCount = sched.runCount
          /\ sched'.def = sched.def /\ sched'.status = target
          /\ sched'.next = (IF target = "ACTIVE" THEN NextFromDefinition(sched.def, now) ELSE None)
      BY <1>1, <2>1 DEF SchedRow
    <2>5. target = "ACTIVE" => NextFromDefinition(sched.def, now) > now
      BY <1>1, <2>1, <2>3, NextIsLater
    <2>6. RunLimitKept'
      BY <1>1, <2>2, <2>4, LimitKept
    <2>. QED
      BY <2>2, <2>3, <2>4, <2>5, <2>6, VersionKeeps
  <1>3. CASE CloseStep
    <2>1. PICK status \in {"ERROR", "COMPLETED"} : CloseDue(status)
      BY <1>3 DEF CloseStep
    <2>2. UNCHANGED <<now, occ, runs, edit>>
      BY <1>3 DEF CloseStep
    <2>3. /\ sched'.version = sched.version + 1 /\ sched'.runCount = sched.runCount
          /\ sched'.def = sched.def /\ sched'.status = status /\ sched'.next = None
      BY <1>1, <2>1 DEF SchedRow, CloseDue
    <2>4. sched.status # "ABSENT" /\ sched.def \in Definitions
      BY <1>1, <1>3 DEF EditKept, CloseStep
    <2>5. RunLimitKept'
      BY <1>1, <2>2, <2>3, <2>4, LimitKept
    <2>6. sched'.status # "ABSENT" /\ sched'.status # "ACTIVE"
      <3>1. status # "ABSENT" /\ status # "ACTIVE"
        BY <2>1
      <3>. QED
        BY <2>3, <3>1
    <2>. QED
      BY <2>2, <2>3, <2>4, <2>5, <2>6, VersionKeeps
  <1>. QED
    BY <1>2, <1>3


\* Claiming the next instant: nothing was pending, and every claim so far is earlier.
LEMMA ClaimKeeps ==
  ASSUME SchedKept, SchedTypes', NEW w \in Workers, ClaimStep(w)
  PROVE  RowsKept' /\ OccurrenceAdvances
  <1>. DEFINE at == sched.next
              plan == PlanOccurrence(sched.def, sched.next)
              row == OccurrenceRow(w, plan)
              following == NextFromDefinition(sched.def, now)
  <1>1. /\ RunsMatch /\ Ordered /\ EditKept /\ RunLimitKept /\ now \in Times /\ now \in Nat
        /\ sched \in SchedRow /\ occ \in [Times -> OccRow] /\ edit \in EditRow
    BY DEF SchedKept, SchedTypes, Times
  <1>2. /\ sched.status = "ACTIVE" /\ at \in 1..now /\ Pending = {} /\ ~LimitReached(sched.runCount)
        /\ UNCHANGED <<now, runs, edit>>
    BY DEF ClaimStep
  <1>3. occ' = [occ EXCEPT ![at] = row]
    BY DEF ClaimStep
  <1>4. /\ sched'.status = "ACTIVE" /\ sched'.def = sched.def /\ sched'.runCount = sched.runCount
        /\ sched'.next = following /\ sched'.version = sched.version + 1
    BY <1>1, <1>2 DEF ClaimStep, SchedRow, PlanOccurrence
  <1>5. /\ row.status = "PENDING" /\ row.outcome = "NONE" /\ row.version = sched.version + 1
        /\ following = None => row.exhausted
    BY DEF OccurrenceRow, PlanOccurrence
  <1>6. sched.def \in Definitions
    BY <1>1, <1>2 DEF EditKept
  <1>7. following \in Nat /\ (following # None => following > now)
    BY <1>1, <1>6, NextIsLater
  <1>8. at \in Times /\ at \in Nat /\ at # None /\ at <= now
    BY <1>1, <1>2, ComeIsTime DEF None
  <1>. HIDE DEF at, plan, row, following
  <1>9. \A t \in Times : occ'[t] = IF t = at THEN row ELSE occ[t]
    BY <1>1, <1>3
  <1>10. \A t \in Times : ~PendingAt(t)
    BY <1>2 DEF Pending, PendingAt
  <1>11. \A t \in Times : ClaimedAt(t) => t < at /\ t <= now /\ occ[t].version <= sched.version
    BY <1>1, <1>8 DEF Ordered, at
  <1>12. occ[at].status = "NONE"
    BY <1>8, <1>11 DEF ClaimedAt
  <1>13. RunsMatch'
    <2>1. \A t \in Times : runs[t] # "none" <=> occ[t].status = "SETTLED" /\ occ[t].outcome = "RUN_CREATED"
      BY <1>1 DEF RunsMatch
    <2>2. \A t, u \in Times : runs[t] = "active" /\ runs[u] = "active" => t = u
      BY <1>1 DEF RunsMatch
    <2>3. \A t \in Times : runs[t] # "none" <=> occ'[t].status = "SETTLED" /\ occ'[t].outcome = "RUN_CREATED"
      BY <2>1, <1>5, <1>8, <1>9, <1>12
    <2>4. \A t \in Times : occ'[t].status = "PENDING" => t = at
      BY <1>9, <1>10 DEF PendingAt
    <2>. QED
      BY <1>2, <2>2, <2>3, <2>4 DEF RunsMatch, PendingAt
  <1>14. edit' # NoEdit => edit'.version < sched'.version
    <2>1. edit \in EditRow /\ sched \in SchedRow /\ (edit # NoEdit => edit.version <= sched.version)
      BY <1>1 DEF EditKept
    <2>2. edit.version \in Nat /\ sched.version \in Nat
      BY ONLY <2>1 DEF EditRow, SchedRow
    <2>. QED
      BY <1>2, <1>4, <2>1, <2>2
  <1>15. Ordered'
    <2>. SUFFICES ASSUME NEW t \in Times, ClaimedAt(t)'
                  PROVE  /\ sched'.status # "ABSENT" /\ t <= now' /\ occ'[t].version <= sched'.version
                         /\ sched'.next # None => t < sched'.next
                         /\ edit' # NoEdit /\ edit'.version = sched'.version => t < edit'.first
      BY DEF Ordered
    <2>1. t \in Nat /\ t <= now
      BY <1>8, <1>9, <1>11 DEF Times, ClaimedAt
    <2>2. occ'[t].version <= sched'.version
      <3>1. sched.version \in Nat /\ occ[t] \in OccRow
        BY <1>1 DEF SchedRow
      <3>2. occ[t].version \in Nat
        BY ONLY <3>1 DEF OccRow
      <3>. QED
        BY <1>4, <1>5, <1>9, <1>11, <3>1, <3>2 DEF ClaimedAt
    <2>3. edit'.version \in Nat /\ sched'.version \in Nat
      <3>1. edit' \in EditRow /\ sched' \in SchedRow
        BY DEF SchedTypes
      <3>. QED
        BY ONLY <3>1 DEF EditRow, SchedRow
    <2>4. sched'.next # None => t < sched'.next
      BY <1>1, <1>4, <1>7, <2>1
    <2>. QED
      BY <1>2, <1>4, <1>14, <2>1, <2>2, <2>3, <2>4
  <1>16. EditKept'
    <2>1. sched.version \in Nat /\ edit.version \in Nat
      BY <1>1 DEF SchedRow, EditRow
    <2>. QED
      BY <1>1, <1>2, <1>4, <2>1 DEF EditKept
  <1>17. LastPending'
    BY <1>4, <1>5, <1>8, <1>9 DEF LastPending, PendingAt
  <1>18. RunLimitKept'
    <2>1. Cardinality(CreatedRuns)' = Cardinality(CreatedRuns)
      BY <1>2 DEF CreatedRuns
    <2>2. Pending' = {at}
      BY <1>5, <1>8, <1>9, <1>10 DEF Pending, PendingAt
    <2>3. Cardinality(Pending)' = 1
      BY <2>2, FS_Singleton
    <2>4. sched.runCount \in Nat /\ sched.def.maxRuns \in Nat
      BY <1>1, <1>6, DefinitionAssumption DEF SchedRow
    <2>5. sched.def.maxRuns # None => sched.runCount < sched.def.maxRuns
      BY <1>2, <2>4 DEF LimitReached
    <2>. QED
      BY <1>1, <1>4, <2>1, <2>3, <2>4, <2>5 DEF RunLimitKept
  <1>19. OccurrenceAdvances
    BY <1>5, <1>8, <1>9, <1>11, <1>12 DEF OccurrenceAdvances, ClaimedAt
  <1>. QED
    BY <1>13, <1>15, <1>16, <1>17, <1>18, <1>19 DEF RowsKept


\* Settling the pending occurrence: its Run, if any, is the only active one, and the
\* schedule ends unless a next instant is set.
LEMMA SettleKeeps ==
  ASSUME SchedKept, SchedTypes', NEW at \in Times, NEW outcome \in Outcomes,
         SettleStep(at, outcome)
  PROVE  RowsKept' /\ OccurrenceAdvances
  <1>. DEFINE made == IF outcome = "RUN_CREATED" THEN 1 ELSE 0
              stays == sched'.status = sched.status /\ sched'.next = sched.next
  <1>1. /\ RunsMatch /\ Ordered /\ EditKept /\ LastPending /\ RunLimitKept
        /\ sched \in SchedRow /\ sched.version \in Nat /\ sched.runCount \in Nat
        /\ edit \in EditRow /\ edit.version \in Nat
        /\ runs \in [Times -> {"none", "active", "ended"}]
    BY DEF SchedKept, SchedTypes, SchedRow, EditRow
  <1>2. PendingAt(at) /\ Settle(at, outcome) /\ UNCHANGED <<now, edit>>
    BY DEF SettleStep
  <1>3. /\ \A t \in Times : t # at => occ'[t] = occ[t]
        /\ occ'[at].status = "SETTLED" /\ occ'[at].outcome = outcome
        /\ occ'[at].version = occ[at].version
    BY <1>2, SettleTypes
  <1>4. /\ sched'.version = sched.version + 1 /\ sched'.def = sched.def
        /\ sched'.runCount = sched.runCount + made
        /\ sched'.next = sched.next \/ sched'.next = None
        /\ sched'.status = "ACTIVE" =>
             /\ sched.status = "ACTIVE" /\ sched'.next = sched.next
             /\ sched.version # occ[at].version \/ ~occ[at].exhausted
    BY <1>1, <1>2 DEF Settle, SettledSchedule, SchedRow
  <1>5. made \in {0, 1}
    OBVIOUS
  <1>6. /\ runs[at] = "none"
        /\ \A t \in Times : t # at => runs'[t] = runs[t]
        /\ outcome = "RUN_CREATED" => runs'[at] = "active" /\ ~HasOverlappingRun(at)
        /\ outcome # "RUN_CREATED" => runs'[at] = "none"
    <2>1. runs[at] = "none"
      BY <1>1, <1>2 DEF RunsMatch, PendingAt
    <2>. QED
      BY <1>1, <2>1 DEF SettleStep
  <1>7. \A t \in Times : PendingAt(t) => t = at
    BY <1>1, <1>2 DEF RunsMatch
  <1>8. \A t \in Times : ~PendingAt(t)'
    BY <1>3, <1>7 DEF PendingAt
  <1>9. \A t \in Times : ClaimedAt(t)' => ClaimedAt(t)
    BY <1>2, <1>3 DEF ClaimedAt, PendingAt
  <1>10. sched.status # "ABSENT"
    BY <1>1, <1>2 DEF Ordered, ClaimedAt, PendingAt
  <1>. HIDE DEF made
  <1>11. RunsMatch'
    <2>1. \A t \in Times : runs[t] # "none" <=> occ[t].status = "SETTLED" /\ occ[t].outcome = "RUN_CREATED"
      BY <1>1 DEF RunsMatch
    <2>2. \A t \in Times : runs'[t] # "none" <=> occ'[t].status = "SETTLED" /\ occ'[t].outcome = "RUN_CREATED"
      BY <2>1, <1>3, <1>6
    <2>3. ASSUME NEW t \in Times, NEW u \in Times, runs'[t] = "active", runs'[u] = "active"
          PROVE  t = u
      <3>1. CASE outcome = "RUN_CREATED"
        <4>1. \A v \in Times : v # at => runs[v] # "active"
          BY <1>6, <2>1, <3>1 DEF HasOverlappingRun, Settled
        <4>. QED
          BY <1>6, <2>3, <4>1
      <3>2. CASE outcome # "RUN_CREATED"
        BY <1>1, <1>6, <2>3, <3>2 DEF RunsMatch
      <3>. QED
        BY <3>1, <3>2
    <2>. QED
      BY <2>2, <2>3, <1>8 DEF RunsMatch
  <1>12. Ordered'
    <2>. SUFFICES ASSUME NEW t \in Times, ClaimedAt(t)'
                  PROVE  /\ sched'.status # "ABSENT" /\ t <= now' /\ occ'[t].version <= sched'.version
                         /\ sched'.next # None => t < sched'.next
                         /\ edit' # NoEdit /\ edit'.version = sched'.version => t < edit'.first
      BY DEF Ordered
    <2>1. /\ t <= now /\ occ[t].version <= sched.version
          /\ sched.next # None => t < sched.next
      BY <1>1, <1>9 DEF Ordered
    <2>2. occ'[t].version = occ[t].version /\ occ[t].version \in Nat
      <3>1. occ[t] \in OccRow
        BY DEF SchedKept, SchedTypes
      <3>. QED
        BY <1>3, <3>1 DEF OccRow
    <2>3. ~(edit' # NoEdit /\ edit'.version = sched'.version)
      BY <1>1, <1>2, <1>4 DEF EditKept
    <2>4. sched'.status # "ABSENT"
      BY <1>1, <1>2, <1>10 DEF Settle, SettledSchedule, SchedRow
    <2>. QED
      BY <1>1, <1>2, <1>4, <2>1, <2>2, <2>3, <2>4
  <1>13. EditKept'
    <2>1. sched'.status # "ABSENT"
      BY <1>2, <1>3, <1>12 DEF Ordered, ClaimedAt
    <2>2. edit' = edit /\ (edit # NoEdit => edit.version <= sched'.version)
      BY <1>1, <1>2, <1>4 DEF EditKept
    <2>. QED
      BY <1>1, <1>4, <1>10, <2>1, <2>2 DEF EditKept
  <1>14. LastPending'
    <2>. SUFFICES ASSUME sched'.status = "ACTIVE", sched'.next = None
                  PROVE  FALSE
      BY DEF LastPending
    <2>1. sched.status = "ACTIVE" /\ sched.next = None
      BY <1>4
    <2>2. PICK t \in Times : PendingAt(t) /\ occ[t].version = sched.version /\ occ[t].exhausted
      BY <1>1, <2>1 DEF LastPending
    <2>3. t = at
      BY <1>7, <2>2
    <2>. QED
      BY <1>4, <2>2, <2>3
  <1>15. RunLimitKept'
    <2>. DEFINE before == Cardinality(CreatedRuns)
                after == Cardinality(CreatedRuns')
                pending == Cardinality(Pending)
    <2>1. after = before + made
      <3>1. CreatedRuns' = IF made = 1 THEN CreatedRuns \cup {at} ELSE CreatedRuns
        BY <1>6 DEF CreatedRuns, made
      <3>2. at \notin CreatedRuns
        BY <1>6 DEF CreatedRuns
      <3>3. IsFiniteSet(CreatedRuns)
        <4>1. CreatedRuns \subseteq 1..MaxTime
          BY DEF CreatedRuns, Times
        <4>. QED
          BY <4>1, CountsAreNumbers, ScheduleAssumption
      <3>4. before \in Nat
        BY <3>3, FS_CardinalityType
      <3>5. Cardinality(CreatedRuns \cup {at}) = before + 1
        BY <3>2, <3>3, FS_AddElement
      <3>. QED
        BY <1>5, <3>1, <3>4, <3>5
    <2>2. pending = 1
      BY <1>1, <1>2, PendingCount DEF RunsMatch
    <2>3. Pending' = {}
      BY <1>8 DEF Pending, PendingAt
    <2>4. Cardinality(Pending') = 0
      BY <2>3, FS_EmptySet
    <2>5. /\ sched.runCount = before
          /\ sched.def.maxRuns # None => sched.runCount + pending <= sched.def.maxRuns
      BY <1>1, <1>10 DEF RunLimitKept
    <2>. HIDE DEF before, after, pending
    <2>6. sched.def.maxRuns \in Nat
      BY <1>1, <1>10, DefinitionAssumption DEF EditKept
    <2>7. /\ sched'.runCount = after
          /\ sched'.def.maxRuns # None => sched'.runCount + 0 <= sched'.def.maxRuns
      BY <1>1, <1>4, <1>5, <2>1, <2>2, <2>5, <2>6
    <2>. QED
      BY <2>4, <2>7 DEF RunLimitKept, after
  <1>16. OccurrenceAdvances
    BY <1>2, <1>3 DEF OccurrenceAdvances, PendingAt
  <1>. QED
    BY <1>11, <1>12, <1>13, <1>14, <1>15, <1>16 DEF RowsKept

-----------------------------------------------------------------------------
(* Every step.                                                             *)

\* Every step of the scheduler, its workers and the users keeps the schedules.
LEMMA SchedStep ==
  ASSUME SchedKept, [SchedNext]_schedVars
  PROVE  SchedKept' /\ OccurrenceAdvances
  <1>1. SchedTypes' /\ WorkersKept'
    BY StepKinds
  <1>2. CASE QuietStep
    BY <1>1, <1>2, QuietKeeps DEF SchedKept, RowsKept
  <1>3. CASE CreateSchedule
    BY <1>1, <1>3, CreateKeeps DEF SchedKept, RowsKept
  <1>4. CASE EditStep
    BY <1>1, <1>4, EditKeeps DEF SchedKept, RowsKept
  <1>5. CASE ChangeStatus \/ CloseStep
    BY <1>1, <1>5, StatusKeeps DEF SchedKept, RowsKept
  <1>6. ASSUME NEW w \in Workers, ClaimStep(w)
        PROVE  SchedKept' /\ OccurrenceAdvances
    BY <1>1, <1>6, ClaimKeeps DEF SchedKept, RowsKept
  <1>7. ASSUME NEW at \in Times, NEW outcome \in Outcomes, SettleStep(at, outcome)
        PROVE  SchedKept' /\ OccurrenceAdvances
    BY <1>1, <1>7, SettleKeeps DEF SchedKept, RowsKept
  <1>. QED
    BY <1>2, <1>3, <1>4, <1>5, <1>6, <1>7, StepKinds


\* Nothing has been scheduled yet.
LEMMA SchedInitial == SchedInit => SchedKept
  <1>. SUFFICES ASSUME SchedInit PROVE SchedKept
    OBVIOUS
  <1>1. /\ now = 1 /\ sched = Absent /\ edit = NoEdit
        /\ occ = [t \in Times |-> NoOcc] /\ runs = [t \in Times |-> "none"]
        /\ worker = [w \in Workers |-> IdleWorker]
    BY DEF SchedInit
  <1>2. SchedTypes
    <2>1. now \in Times
      BY <1>1, ScheduleAssumption DEF Times
    <2>2. Absent \in SchedRow /\ NoEdit \in EditRow /\ NoOcc \in OccRow /\ IdleWorker \in WorkerRow
      BY DEF Absent, NoEdit, NoOcc, IdleWorker, SchedRow, EditRow, OccRow, WorkerRow,
             PendingStates, None
    <2>. QED
      BY <1>1, <2>1, <2>2 DEF SchedTypes
  <1>3. WorkersKept
    BY <1>1 DEF WorkersKept, IdleWorker
  <1>4. \A t \in Times : ~PendingAt(t) /\ ~ClaimedAt(t)
    BY <1>1 DEF PendingAt, ClaimedAt, NoOcc
  <1>5. RunsMatch
    BY <1>1, <1>4 DEF RunsMatch, NoOcc
  <1>6. Ordered /\ LastPending
    BY <1>1, <1>4 DEF Ordered, LastPending, Absent
  <1>7. EditKept
    BY <1>1 DEF EditKept, Absent
  <1>8. RunLimitKept
    <2>1. CreatedRuns = {}
      BY <1>1 DEF CreatedRuns
    <2>2. Cardinality(CreatedRuns) = 0
      BY <2>1, FS_EmptySet
    <2>. QED
      BY <1>1, <2>2 DEF RunLimitKept, Absent
  <1>. QED
    BY <1>2, <1>3, <1>5, <1>6, <1>7, <1>8 DEF SchedKept

\* The invariant of the schedules: rows, Runs, claims, edits and the limit fit each
\* other after any number of claims, recoveries, edits, settlements and lost workers.
THEOREM SchedulesInductive == SchedSpec => []SchedKept
  <1>1. SchedInit => SchedKept
    BY SchedInitial
  <1>2. SchedKept /\ [SchedNext]_schedVars => SchedKept'
    BY SchedStep
  <1>. QED
    BY <1>1, <1>2, PTL DEF SchedSpec

\* At most one active Run.
LEMMA OneActive ==
  ASSUME RunsMatch
  PROVE  OneRunAtATime
  <1>. DEFINE A == {t \in Times : runs[t] = "active"}
  <1>1. \A t, u \in A : t = u
    BY DEF RunsMatch
  <1>2. Cardinality(A) <= 1
    <2>1. CASE A = {}
      BY <2>1, FS_EmptySet
    <2>2. ASSUME NEW t \in A
          PROVE  Cardinality(A) <= 1
      <3>1. A = {t}
        BY <1>1
      <3>2. Cardinality({t}) = 1
        BY FS_Singleton
      <3>. QED
        BY <3>1, <3>2
    <2>. QED
      BY <2>1, <2>2
  <1>. QED
    BY <1>2 DEF OneRunAtATime

\* With no assumption on the calendar: the Runs of a schedule, with the one a pending
\* occurrence may create, stay within its limit and never overlap, and an active
\* schedule that has no next instant has a pending occurrence that will end it.
THEOREM LimitAndOverlapHold ==
  SchedSpec => [](RunLimitKept /\ OneRunAtATime /\ ActiveScheduleGoesOn)
  <1>1. SchedKept => ActiveScheduleGoesOn
    BY DEF SchedKept, ActiveScheduleGoesOn, LastPending, Pending, PendingAt
  <1>2. SchedKept => RunLimitKept /\ OneRunAtATime
    BY OneActive DEF SchedKept
  <1>. QED
    BY <1>1, <1>2, SchedulesInductive, PTL

\* Occurrences are claimed in the order of their instants, each once, and a settled
\* one never changes again, whichever workers tick and whoever edits.
THEOREM OccurrencesOnlyAdvance == SchedSpec => OccurrencesAdvance
  <1>1. SchedKept /\ [SchedNext]_schedVars => [OccurrenceAdvances]_schedVars
    BY SchedStep
  <1>. QED
    BY <1>1, SchedulesInductive, PTL DEF SchedSpec, OccurrencesAdvance


-----------------------------------------------------------------------------
(* The instants at which a definition fires after it was given, and those of  *)
(* them that lie before the next instant of the schedule.                    *)

FiresOf(def, created) ==
  IF def.kind = "ONCE" THEN {u \in {def.runAt} : u > created}
  ELSE {u \in created + 1..Horizon : FiresAt(def.cron, u) /\ Within(def, u)}
PassedOf(def, created, next) ==
  {u \in FiresOf(def, created) : next = None \/ u < next}
GapOf(def, created, at, until) ==
  {u \in PassedOf(def, created, NextFromDefinition(def, until)) : u > at}
MissedOf(def, at, until) ==
  {t \in at..until : t > at /\ NextOccurrence(def.cron, t - 1) = t /\ Within(def, t)}

\* Sets without a common member.
LEMMA DisjointCount ==
  ASSUME NEW some, NEW more, IsFiniteSet(some), IsFiniteSet(more), some \cap more = {}
  PROVE  Cardinality(some \cup more) = Cardinality(some) + Cardinality(more)
  <1>1. Cardinality(some \cup more) = Cardinality(some) + Cardinality(more) - Cardinality(some \cap more)
    BY FS_Union
  <1>2. Cardinality(some \cap more) = 0
    BY FS_EmptySet
  <1>3. Cardinality(some) \in Nat /\ Cardinality(more) \in Nat
    BY FS_CardinalityType
  <1>. QED
    BY <1>1, <1>2, <1>3

\* A firing instant of a definition is a natural number, and there are finitely many.
LEMMA FiresAreFinite ==
  ASSUME NEW def \in Definitions, NEW created \in Times
  PROVE  FiresOf(def, created) \subseteq Nat /\ IsFiniteSet(FiresOf(def, created))
  <1>1. created \in Nat /\ Horizon \in Nat /\ def.runAt \in Nat
    BY ScheduleAssumption, CronAssumption, DefinitionAssumption DEF Times
  <1>2. CASE def.kind = "ONCE"
    <2>1. FiresOf(def, created) \subseteq def.runAt..def.runAt
      BY <1>1, <1>2 DEF FiresOf
    <2>. QED
      BY <1>1, <2>1, CountsAreNumbers
  <1>3. CASE def.kind # "ONCE"
    <2>1. FiresOf(def, created) \subseteq created + 1..Horizon
      BY <1>3 DEF FiresOf
    <2>2. created + 1 \in Nat
      BY <1>1
    <2>. QED
      BY <1>1, <2>1, <2>2, CountsAreNumbers
  <1>. QED
    BY <1>2, <1>3

\* The next instant of a definition is the first of its firing instants, and is found
\* again from the minute before it.
LEMMA NextOfDefinition ==
  ASSUME SearchIsExact, NEW def \in Definitions, NEW after \in Times,
         NextFromDefinition(def, after) # None
  PROVE  /\ NextFromDefinition(def, NextFromDefinition(def, after) - 1)
              = NextFromDefinition(def, after)
         /\ PassedOf(def, after, NextFromDefinition(def, after)) = {}
  <1>. DEFINE t == NextFromDefinition(def, after)
  <1>1. /\ after \in Nat /\ after \in 0..Horizon /\ Horizon > 0 /\ Horizon \in Nat
        /\ DOMAIN Zone = 1..Horizon
    BY ScheduleAssumption, CronAssumption, SMTT(30) DEF Times
  <1>2. /\ def.cron \in CronExpressions /\ def.runAt \in Nat
        /\ ClockRunsOn /\ SearchReaches(def.cron)
    BY DefinitionAssumption DEF SearchIsExact
  <1>3. t \in Nat /\ t # None /\ t > after /\ Within(def, t)
    BY NextIsLater DEF NextFromDefinition
  <1>4. CASE def.kind = "ONCE"
    <2>1. t = def.runAt
      BY <1>4 DEF NextFromDefinition
    <2>2. NextFromDefinition(def, t - 1) = t
      BY <1>3, <1>4, <2>1 DEF NextFromDefinition
    <2>3. PassedOf(def, after, t) = {}
      BY <1>2, <1>3, <1>4, <2>1 DEF PassedOf, FiresOf
    <2>. QED
      BY <2>2, <2>3
  <1>5. CASE def.kind # "ONCE"
    <2>1. t = NextOccurrence(def.cron, after)
      BY <1>5 DEF NextFromDefinition
    <2>2. t \in DOMAIN Zone /\ FiresAt(def.cron, t)
      BY <1>1, <1>2, <1>3, <2>1, NextFires
    <2>3. NextOccurrence(def.cron, t - 1) = t
      BY <1>2, <2>2, FiresWhenNext
    <2>4. NextFromDefinition(def, t - 1) = t
      BY <1>3, <1>5, <2>3 DEF NextFromDefinition
    <2>5. ASSUME NEW u \in PassedOf(def, after, t)
          PROVE  FALSE
      <3>1. u \in after + 1..Horizon /\ FiresAt(def.cron, u) /\ u < t
        BY <1>3, <1>5 DEF PassedOf, FiresOf
      <3>2. u \in DOMAIN Zone /\ after < u
        BY <1>1, <3>1
      <3>3. NextOccurrence(def.cron, after) <= u
        BY <1>1, <1>2, <3>1, <3>2, NextIsFirst
      <3>. QED
        BY <1>1, <1>3, <2>1, <3>1, <3>3
    <2>. QED
      BY <2>4, <2>5
  <1>. QED
    BY <1>4, <1>5

\* A claim at now passes the claimed instant and those behind it that have come, which
\* it counts as missed up to the limit, and no other.
LEMMA ClaimPasses ==
  ASSUME SearchIsExact, NEW def \in Definitions, NEW created \in Times, NEW until \in Times,
         NEW at \in Times, created < at, at <= until, NextFromDefinition(def, at - 1) = at
  PROVE  LET later == PassedOf(def, created, NextFromDefinition(def, until))
             gap == GapOf(def, created, at, until)
         IN /\ \A u \in later : u <= until
            /\ later = (PassedOf(def, created, at) \cup {at}) \cup gap
            /\ IsFiniteSet(gap)
            /\ CountMissed(def, at, until) = UpToLimit(Cardinality(gap))
  <1>. DEFINE next == NextFromDefinition(def, until)
              later == PassedOf(def, created, next)
              earlier == PassedOf(def, created, at)
              fires == FiresOf(def, created)
              gap == GapOf(def, created, at, until)
  <1>0. gap = {u \in later : u > at}
    BY DEF GapOf
  <1>. HIDE DEF gap
  <1>1. /\ created \in Nat /\ until \in Nat /\ at \in Nat /\ at # None /\ until < Horizon
        /\ Horizon \in Nat /\ DOMAIN Zone = 1..Horizon /\ until \in 0..Horizon /\ Horizon > 0
    BY ScheduleAssumption, CronAssumption DEF Times, None
  <1>2. /\ def.cron \in CronExpressions /\ def.runAt \in Nat
        /\ ClockRunsOn /\ SearchReaches(def.cron)
    BY DefinitionAssumption DEF SearchIsExact
  <1>3. next \in Nat /\ (next # None => next > until)
    BY NextIsLater
  <1>4. Within(def, at)
    BY <1>1 DEF NextFromDefinition
  <1>5. fires \subseteq Nat /\ IsFiniteSet(fires)
    BY FiresAreFinite
  <1>6. earlier = {u \in fires : u < at} /\ later = {u \in fires : next = None \/ u < next}
    BY <1>1 DEF PassedOf
  <1>7. CASE def.kind = "ONCE"
    <2>1. at = def.runAt
      BY <1>1, <1>7 DEF NextFromDefinition
    <2>2. fires = {at}
      BY <1>1, <1>7, <2>1 DEF FiresOf
    <2>3. earlier = {} /\ later = {at}
      <3>1. next = None \/ at < next
        BY <1>1, <1>3
      <3>. QED
        BY <1>1, <1>6, <2>2, <3>1
    <2>4. IsFiniteSet({}) /\ Cardinality({}) = 0 /\ UpToLimit(0) = 0
      BY FS_EmptySet, ScheduleAssumption DEF UpToLimit
    <2>5. CountMissed(def, at, until) = 0
      BY <1>7 DEF CountMissed
    <2>. HIDE DEF later, earlier
    <2>6. gap = {}
      BY <1>0, <1>1, <2>3
    <2>7. (\A u \in later : u <= until) /\ later = (earlier \cup {at}) \cup gap
      BY <2>3, <2>6
    <2>8. IsFiniteSet(gap) /\ CountMissed(def, at, until) = UpToLimit(Cardinality(gap))
      BY <2>4, <2>5, <2>6
    <2>. QED
      BY <2>7, <2>8 DEF later, earlier, gap
  <1>8. CASE def.kind # "ONCE"
    <2>. DEFINE missed == MissedOf(def, at, until)
    <2>1. CountMissed(def, at, until) = UpToLimit(Cardinality(missed))
      BY <1>8 DEF CountMissed, MissedOf
    <2>2. \A u \in created + 1..Horizon : u \in fires <=> FiresAt(def.cron, u) /\ Within(def, u)
      BY <1>8 DEF FiresOf
    <2>3. fires \subseteq created + 1..Horizon
      BY <1>8 DEF FiresOf
    <2>4. at \in fires
      <3>1. NextOccurrence(def.cron, at - 1) = at /\ at \in DOMAIN Zone /\ at \in created + 1..Horizon
        BY <1>1, <1>8 DEF NextFromDefinition
      <3>2. FiresAt(def.cron, at)
        BY <1>2, <3>1, FiresWhenNext
      <3>. QED
        BY <1>4, <2>2, <3>1, <3>2
    <2>5. \A t \in fires : t > at /\ t <= until => t \in missed
      <3>. SUFFICES ASSUME NEW t \in fires, t > at, t <= until
                    PROVE  t \in missed
        OBVIOUS
      <3>1. t \in Nat /\ t \in at..until /\ t \in DOMAIN Zone
        BY <1>1, <2>3
      <3>2. FiresAt(def.cron, t) /\ Within(def, t)
        BY <2>2, <2>3
      <3>3. NextOccurrence(def.cron, t - 1) = t
        BY <1>2, <3>1, <3>2, FiresWhenNext
      <3>. QED
        BY <3>1, <3>2, <3>3 DEF MissedOf
    <2>6. \A t \in missed : t \in fires /\ t > at /\ t <= until
      <3>. SUFFICES ASSUME NEW t \in missed
                    PROVE  t \in fires /\ t > at /\ t <= until
        OBVIOUS
      <3>1. /\ t \in at..until /\ t > at /\ NextOccurrence(def.cron, t - 1) = t /\ Within(def, t)
        BY DEF MissedOf
      <3>2. t \in DOMAIN Zone /\ t \in created + 1..Horizon
        BY <1>1, <3>1
      <3>3. FiresAt(def.cron, t)
        BY <1>2, <3>1, <3>2, FiresWhenNext
      <3>. QED
        BY <1>1, <2>2, <3>1, <3>2, <3>3
    <2>7. \A u \in later : u <= until
      <3>. SUFFICES ASSUME NEW u \in later, u > until
                    PROVE  FALSE
        BY <1>1, <1>5, <1>6
      <3>1. u \in DOMAIN Zone /\ FiresAt(def.cron, u) /\ Within(def, u) /\ u \in Nat
        BY <1>1, <1>6, <2>2, <2>3
      <3>. DEFINE n == NextOccurrence(def.cron, until)
      <3>2. n # None /\ n <= u
        BY <1>1, <1>2, <3>1, NextIsFirst
      <3>3. n \in Nat /\ n > until
        BY <1>1, <1>2, <3>2, NextFires
      <3>4. Within(def, n)
        <4>1. def.endAt \in Nat
          BY DefinitionAssumption
        <4>. QED
          BY <3>1, <3>2, <3>3, <4>1 DEF Within
      <3>5. next = n
        BY <1>8, <3>2, <3>3, <3>4 DEF NextFromDefinition
      <3>6. u < next
        BY <1>6, <3>2, <3>5
      <3>. QED
        BY <3>1, <3>2, <3>3, <3>5, <3>6
    <2>. HIDE DEF next, later, earlier, fires, missed
    <2>8. later = (earlier \cup {at}) \cup missed
      <3>1. \A u \in later : u \in earlier \/ u = at \/ u \in missed
        BY <1>1, <1>5, <1>6, <2>5, <2>7
      <3>2. \A u \in earlier : u \in later
        BY <1>1, <1>3, <1>5, <1>6
      <3>3. at \in later
        BY <1>1, <1>3, <1>6, <2>4
      <3>4. ASSUME NEW u \in missed
            PROVE  u \in later
        <4>1. u \in fires /\ u \in Nat /\ u <= until
          BY <1>5, <2>6
        <4>2. next = None \/ u < next
          BY <1>1, <1>3, <4>1
        <4>. QED
          BY <1>6, <4>1, <4>2
      <3>. QED
        BY <3>1, <3>2, <3>3, <3>4
    <2>9. gap = missed
      <3>1. \A u \in earlier \cup {at} : ~(u > at)
        BY <1>1, <1>5, <1>6
      <3>. QED
        BY <1>0, <2>6, <2>8, <3>1
    <2>10. IsFiniteSet(gap)
      <3>1. missed \subseteq fires
        BY <2>6
      <3>. QED
        BY <1>5, <2>9, <3>1, FS_Subset
    <2>11. CountMissed(def, at, until) = UpToLimit(Cardinality(gap))
      BY <2>1, <2>9
    <2>12. later = (earlier \cup {at}) \cup gap
      BY <2>8, <2>9
    <2>. QED
      BY <2>7, <2>10, <2>11, <2>12 DEF later, next, earlier, gap
  <1>. QED
    BY <1>7, <1>8


-----------------------------------------------------------------------------
(* What holds of the instants between the steps.                           *)

\* The next instant of the schedule, and the one an edit promises, are instants of
\* their definitions that come after the schedule was created.
CandidatesFire ==
  /\ sched.next # None =>
       /\ NextFromDefinition(sched.def, sched.next - 1) = sched.next
       /\ sched.next > sched.created
  /\ edit # NoEdit =>
       /\ NextFromDefinition(edit.def, edit.first - 1) = edit.first
       /\ edit.first > sched.created

\* Each claim and each settlement took a row_version: a schedule that counts no more
\* than those has not been edited, paused, resumed or closed.
VersionsCount ==
  sched.status # "ABSENT" =>
    /\ sched.created \in Times /\ sched.created <= now
    /\ sched.version >= 1 + Cardinality(Pending) + 2 * Cardinality(Settled)

\* The instants before the next one have come; the occurrences are among them, and the
\* others were counted, or came behind an occurrence in a row longer than the limit.
PassedInstants == PassedOf(sched.def, sched.created, sched.next)
SkippedInstants == PassedInstants \ Claimed
LeftBehind(t) == {u \in SkippedInstants : u > t /\ \A v \in Claimed : v > t => v > u}
InstantsAccounted ==
  /\ Claimed \subseteq PassedInstants
  /\ sched.missed <= Cardinality(SkippedInstants)
  /\ sched.missed < Cardinality(SkippedInstants) =>
       /\ sched.missed >= MissedLimit
       /\ \E t \in Claimed : Cardinality(LeftBehind(t)) > MissedLimit
InstantsCounted ==
  sched.status = "ACTIVE" /\ Undisturbed =>
    /\ \A u \in PassedInstants : u <= now
    /\ InstantsAccounted

\* The calendar is an assumption of the invariant.
InstantsKept ==
  SearchIsExact => CandidatesFire /\ VersionsCount /\ InstantsCounted

\* Occurrences are counted by natural numbers.
LEMMA OccurrenceCounts ==
  /\ IsFiniteSet(Pending) /\ IsFiniteSet(Settled)
  /\ Cardinality(Pending) \in Nat /\ Cardinality(Settled) \in Nat
  <1>1. Pending \subseteq 1..MaxTime /\ Settled \subseteq 1..MaxTime
    BY DEF Pending, Settled, Times
  <1>2. MaxTime \in Nat /\ 1 \in Nat
    BY ScheduleAssumption
  <1>. QED
    BY <1>1, <1>2, CountsAreNumbers

\* A step that leaves the status of every occurrence as it is.
LEMMA SameOccurrences ==
  ASSUME \A t \in Times : occ'[t].status = occ[t].status
  PROVE  /\ Pending' = Pending /\ Settled' = Settled /\ Claimed' = Claimed
         /\ Cardinality(Pending)' = Cardinality(Pending)
         /\ Cardinality(Settled)' = Cardinality(Settled)
  <1>1. Pending' = Pending /\ Settled' = Settled
    BY DEF Pending, Settled
  <1>. QED
    BY <1>1 DEF Claimed

\* A step that passes no instant, claims none and counts none.
LEMMA SameAccount ==
  ASSUME InstantsAccounted, Claimed' = Claimed, PassedInstants' = PassedInstants,
         sched'.missed = sched.missed
  PROVE  InstantsAccounted'
  <1>1. SkippedInstants' = SkippedInstants
    BY DEF SkippedInstants
  <1>2. \A t \in Claimed : LeftBehind(t)' = LeftBehind(t)
    BY <1>1 DEF LeftBehind
  <1>. QED
    BY <1>1, <1>2 DEF InstantsAccounted

\* Quiet steps leave the instants alone, or begin an edit.
LEMMA QuietKeepsInstants ==
  ASSUME SchedKept, SchedTypes', SearchIsExact,
         CandidatesFire, VersionsCount, InstantsCounted, QuietStep
  PROVE  CandidatesFire' /\ VersionsCount' /\ InstantsCounted'
  <1>1. /\ sched' = sched /\ now <= now' /\ now \in Times /\ now \in Nat /\ now' \in Nat
        /\ sched \in SchedRow /\ sched.created \in Nat /\ sched.version \in Nat
    BY DEF QuietStep, SchedKept, SchedTypes, Times, SchedRow
  <1>2. /\ Cardinality(Pending)' = Cardinality(Pending)
        /\ Cardinality(Settled)' = Cardinality(Settled) /\ Claimed' = Claimed
    BY SameOccurrences DEF QuietStep
  <1>3. CandidatesFire'
    <2>1. CASE edit' = edit \/ edit' = NoEdit
      BY <1>1, <2>1 DEF CandidatesFire
    <2>2. CASE BeginUpdate
      <3>1. PICK def \in Definitions :
              /\ Acceptable(def)
              /\ edit' = [version |-> sched.version, def |-> def,
                          first |-> NextFromDefinition(def, now)]
        BY <2>2 DEF BeginUpdate
      <3>. DEFINE first == NextFromDefinition(def, now)
      <3>2. first # None /\ first \in Nat /\ first > now
        BY <1>1, <3>1, NextIsLater DEF Acceptable
      <3>3. NextFromDefinition(def, first - 1) = first
        BY <1>1, <3>2, NextOfDefinition
      <3>4. sched.created <= now
        BY <2>2 DEF VersionsCount, BeginUpdate
      <3>5. edit'.def = def /\ edit'.first = first
        BY <3>1
      <3>. HIDE DEF first
      <3>6. first > sched.created
        BY <1>1, <3>2, <3>4
      <3>. QED
        BY <1>1, <3>3, <3>5, <3>6 DEF CandidatesFire
    <2>. QED
      BY <2>1, <2>2 DEF QuietStep
  <1>4. VersionsCount'
    BY <1>1, <1>2 DEF VersionsCount, Times
  <1>5. InstantsCounted'
    <2>1. PassedInstants' = PassedInstants
      BY <1>1 DEF PassedInstants
    <2>2. Undisturbed' = Undisturbed
      BY <1>1, <1>2 DEF Undisturbed
    <2>. SUFFICES ASSUME sched.status = "ACTIVE", Undisturbed
                  PROVE  (\A u \in PassedInstants : u <= now') /\ InstantsAccounted'
      BY <1>1, <2>1, <2>2 DEF InstantsCounted
    <2>3. (\A u \in PassedInstants : u <= now) /\ InstantsAccounted'
      BY <1>1, <1>2, <2>1, SameAccount DEF InstantsCounted
    <2>4. PassedInstants \subseteq Nat
      <3>1. sched.def \in Definitions /\ sched.created \in Times
        BY DEF SchedKept, EditKept, VersionsCount
      <3>. QED
        BY <3>1, FiresAreFinite DEF PassedInstants, PassedOf
    <2>. QED
      BY <1>1, <2>3, <2>4
  <1>. QED
    BY <1>3, <1>4, <1>5

\* A new schedule starts with its first instant.
LEMMA CreateKeepsInstants ==
  ASSUME SchedKept, SchedTypes', SearchIsExact, CreateSchedule
  PROVE  CandidatesFire' /\ VersionsCount' /\ InstantsCounted'
  <1>1. PICK def \in Definitions, protocol \in {0, 1} :
          /\ Acceptable(def)
          /\ sched' = [Absent EXCEPT !.status = "ACTIVE", !.protocol = protocol, !.def = def,
                                     !.next = NextFromDefinition(def, now),
                                     !.version = 1, !.created = now]
    BY DEF CreateSchedule
  <1>. DEFINE first == NextFromDefinition(def, now)
  <1>2. /\ sched'.status = "ACTIVE" /\ sched'.def = def /\ sched'.next = first
        /\ sched'.version = 1 /\ sched'.created = now /\ sched'.missed = 0
        /\ sched.status = "ABSENT" /\ UNCHANGED <<now, occ, edit>> /\ now \in Times /\ now \in Nat
    <2>1. /\ sched'.status = "ACTIVE" /\ sched'.def = def /\ sched'.next = first
          /\ sched'.version = 1 /\ sched'.created = now /\ sched'.missed = 0
      BY <1>1 DEF Absent
    <2>2. sched.status = "ABSENT" /\ UNCHANGED <<now, occ, edit>>
      BY DEF CreateSchedule
    <2>3. now \in Times /\ now \in Nat
      BY DEF SchedKept, SchedTypes, Times
    <2>. QED
      BY <2>1, <2>2, <2>3
  <1>3. first # None /\ first \in Nat /\ first > now
    BY <1>1, <1>2, NextIsLater DEF Acceptable
  <1>4. NextFromDefinition(def, first - 1) = first /\ PassedOf(def, now, first) = {}
    BY <1>2, <1>3, NextOfDefinition
  <1>5. edit' = NoEdit
    BY <1>2 DEF SchedKept, EditKept
  <1>6. \A t \in Times : occ'[t].status = "NONE"
    BY <1>2 DEF SchedKept, Ordered, ClaimedAt
  <1>7. Pending' = {} /\ Settled' = {}
    BY <1>6 DEF Pending, Settled
  <1>. HIDE DEF first
  <1>8. Cardinality(Pending)' = 0 /\ Cardinality(Settled)' = 0 /\ Claimed' = {}
    <2>1. Claimed' = {}
      BY <1>7 DEF Claimed
    <2>. QED
      BY <1>7, <2>1, FS_EmptySet
  <1>9. CandidatesFire'
    BY <1>2, <1>3, <1>4, <1>5 DEF CandidatesFire
  <1>10. VersionsCount'
    BY <1>2, <1>8 DEF VersionsCount
  <1>11. PassedInstants' = {}
    BY <1>2, <1>4 DEF PassedInstants
  <1>12. InstantsCounted'
    <2>1. SkippedInstants' = {}
      BY <1>8, <1>11 DEF SkippedInstants
    <2>2. Cardinality(SkippedInstants)' = 0
      BY <2>1, FS_EmptySet
    <2>3. InstantsAccounted'
      BY <1>2, <1>8, <2>2 DEF InstantsAccounted
    <2>. QED
      BY <1>11, <2>3 DEF InstantsCounted
  <1>. QED
    BY <1>9, <1>10, <1>12


\* An edit, a change of status and a closed schedule take a row_version that no
\* occurrence accounts for, and give an instant of the definition, or none.
LEMMA VersionKeepsInstants ==
  ASSUME SchedKept, SchedTypes', CandidatesFire, VersionsCount,
         UNCHANGED <<now, occ>>, edit' = edit \/ edit' = NoEdit,
         sched.status # "ABSENT", sched'.version = sched.version + 1,
         sched'.created = sched.created,
         sched'.next # None =>
           /\ NextFromDefinition(sched'.def, sched'.next - 1) = sched'.next
           /\ sched'.next > sched.created
  PROVE  CandidatesFire' /\ VersionsCount' /\ InstantsCounted'
  <1>1. /\ Cardinality(Pending)' = Cardinality(Pending)
        /\ Cardinality(Settled)' = Cardinality(Settled)
    BY SameOccurrences
  <1>2. CandidatesFire'
    BY DEF CandidatesFire
  <1>3. sched.version \in Nat
    BY DEF SchedKept, SchedTypes, SchedRow
  <1>4. VersionsCount'
    BY <1>1, <1>3, OccurrenceCounts DEF VersionsCount
  <1>5. ~Undisturbed'
    <2>1. sched.version >= 1 + Cardinality(Pending) + 2 * Cardinality(Settled)
      BY DEF VersionsCount
    <2>. QED
      BY <1>1, <1>3, <2>1, OccurrenceCounts DEF Undisturbed
  <1>. QED
    BY <1>2, <1>4, <1>5 DEF InstantsCounted

\* The steps of that form.
LEMMA OwnStepsKeepInstants ==
  ASSUME SchedKept, SchedTypes', SearchIsExact, CandidatesFire, VersionsCount,
         EditStep \/ ChangeStatus \/ CloseStep
  PROVE  CandidatesFire' /\ VersionsCount' /\ InstantsCounted'
  <1>1. EditKept /\ sched \in SchedRow /\ now \in Times /\ now \in Nat
    BY DEF SchedKept, SchedTypes, Times
  <1>2. CASE EditStep
    <2>1. /\ edit # NoEdit /\ edit' = NoEdit /\ UNCHANGED <<now, occ>>
          /\ sched' = [sched EXCEPT !.def = edit.def, !.version = @ + 1,
                         !.next = IF sched.status = "ACTIVE" THEN edit.first ELSE None]
      BY <1>2 DEF EditStep, UpdateSchedule
    <2>2. /\ sched'.def = edit.def /\ sched'.version = sched.version + 1
          /\ sched'.next = edit.first \/ sched'.next = None
          /\ sched'.created = sched.created
      BY <1>1, <2>1 DEF SchedRow
    <2>3. sched.status # "ABSENT"
      BY <1>1, <2>1 DEF EditKept
    <2>4. NextFromDefinition(edit.def, edit.first - 1) = edit.first /\ edit.first > sched.created
      BY <2>1 DEF CandidatesFire
    <2>. QED
      BY <2>1, <2>2, <2>3, <2>4, VersionKeepsInstants
  <1>3. CASE ChangeStatus
    <2>1. PICK target \in AllowedTransitions[sched.status] :
            /\ target = "ACTIVE" => NextFromDefinition(sched.def, now) # None
            /\ sched' = [sched EXCEPT !.status = target, !.version = @ + 1,
                           !.next = IF target = "ACTIVE"
                                    THEN NextFromDefinition(sched.def, now) ELSE None]
      BY <1>3 DEF ChangeStatus
    <2>. DEFINE first == NextFromDefinition(sched.def, now)
    <2>2. sched.status # "ABSENT" /\ UNCHANGED <<now, occ, edit>> /\ sched.def \in Definitions
      BY <1>1, <1>3 DEF ChangeStatus, EditKept
    <2>3. /\ sched'.def = sched.def /\ sched'.version = sched.version + 1
          /\ sched'.next = first \/ sched'.next = None
          /\ sched'.created = sched.created
      BY <1>1, <2>1 DEF SchedRow
    <2>4. first # None => NextFromDefinition(sched.def, first - 1) = first
      BY <1>1, <2>2, NextOfDefinition
    <2>5. first # None => first > sched.created
      <3>1. first \in Nat /\ (first # None => first > now)
        BY <1>1, <2>2, NextIsLater
      <3>2. sched.created <= now /\ sched.created \in Nat
        BY <1>1, <2>2 DEF VersionsCount, SchedRow
      <3>. HIDE DEF first
      <3>. QED
        BY <1>1, <3>1, <3>2
    <2>. HIDE DEF first
    <2>. QED
      BY <2>2, <2>3, <2>4, <2>5, VersionKeepsInstants
  <1>4. CASE CloseStep
    <2>1. PICK status \in {"ERROR", "COMPLETED"} : CloseDue(status)
      BY <1>4 DEF CloseStep
    <2>2. sched.status # "ABSENT" /\ UNCHANGED <<now, occ, edit>>
      BY <1>4 DEF CloseStep
    <2>3. /\ sched'.version = sched.version + 1 /\ sched'.next = None
          /\ sched'.created = sched.created
      BY <1>1, <2>1 DEF SchedRow, CloseDue
    <2>. QED
      BY <2>2, <2>3, VersionKeepsInstants
  <1>. QED
    BY <1>2, <1>3, <1>4


\* A claim accounts for what it passes: the claimed instant, and a gap behind it that is
\* counted up to the limit.
LEMMA ClaimAccounts ==
  ASSUME InstantsAccounted, NEW at \in Nat, at \notin Claimed, NEW gap, gap \subseteq Nat, IsFiniteSet(gap),
         PassedInstants \subseteq Nat, IsFiniteSet(PassedInstants),
         \A u \in PassedInstants : u < at, \A u \in gap : u > at,
         sched.missed \in Nat, sched'.missed = sched.missed + UpToLimit(Cardinality(gap)),
         PassedInstants' = (PassedInstants \cup {at}) \cup gap,
         Claimed' = Claimed \cup {at}
  PROVE  InstantsAccounted'
  <1>. DEFINE k == Cardinality(SkippedInstants)
              g == Cardinality(gap)
  <1>1. /\ Claimed \subseteq PassedInstants /\ sched.missed <= k
        /\ sched.missed < k =>
             /\ sched.missed >= MissedLimit
             /\ \E t \in Claimed : Cardinality(LeftBehind(t)) > MissedLimit
    BY DEF InstantsAccounted
  <1>2. \A u \in Claimed \cup SkippedInstants : u \in Nat /\ u < at
    BY <1>1 DEF SkippedInstants
  <1>3. SkippedInstants' = SkippedInstants \cup gap /\ SkippedInstants \cap gap = {}
    <2>1. \A u \in gap : u \notin Claimed \cup {at} /\ u \notin PassedInstants
      BY <1>2
    <2>2. \A u : u \in SkippedInstants' <=>
                 (u \in PassedInstants \/ u = at \/ u \in gap) /\ u \notin Claimed /\ u # at
      BY DEF SkippedInstants
    <2>3. \A u : u \in SkippedInstants <=> u \in PassedInstants /\ u \notin Claimed
      BY DEF SkippedInstants
    <2>4. at \notin PassedInstants
      OBVIOUS
    <2>. QED
      BY <2>1, <2>2, <2>3, <2>4
  <1>4. IsFiniteSet(SkippedInstants)
    BY FS_Subset DEF SkippedInstants
  <1>5. k \in Nat /\ g \in Nat /\ k' = k + g
    BY <1>3, <1>4, FS_CardinalityType, DisjointCount
  <1>6. \A t \in Claimed : LeftBehind(t)' = LeftBehind(t)
    <2>. SUFFICES ASSUME NEW t \in Claimed
                  PROVE  LeftBehind(t)' = LeftBehind(t)
      OBVIOUS
    <2>1. t \in Nat /\ t < at /\ at \in Claimed'
      BY <1>2
    <2>2. \A u \in LeftBehind(t)' : u \in SkippedInstants
      <3>1. \A u \in LeftBehind(t)' : u \in SkippedInstants \cup gap /\ at > u
        BY <1>3, <2>1 DEF LeftBehind
      <3>2. \A u \in gap : u \in Nat /\ ~(at > u)
        OBVIOUS
      <3>. QED
        BY <3>1, <3>2
    <2>3. \A u \in LeftBehind(t)' : u \in LeftBehind(t)
      BY <2>2 DEF LeftBehind
    <2>4. \A u \in LeftBehind(t) : u \in LeftBehind(t)'
      BY <1>2, <1>3 DEF LeftBehind
    <2>. QED
      BY <2>3, <2>4
  <1>7. LeftBehind(at)' = gap
    <2>1. \A u \in LeftBehind(at)' : u \in gap
      BY <1>2, <1>3 DEF LeftBehind
    <2>2. \A v \in Claimed' : ~(v > at)
      BY <1>2
    <2>3. \A u \in gap : u \in LeftBehind(at)'
      BY <1>3, <2>2 DEF LeftBehind
    <2>. QED
      BY <2>1, <2>3
  <1>8. MissedLimit \in Nat /\ UpToLimit(g) = IF g > MissedLimit THEN MissedLimit ELSE g
    BY ScheduleAssumption DEF UpToLimit
  <1>9. Claimed' \subseteq PassedInstants'
    BY <1>1
  <1>10. sched'.missed <= k'
    BY <1>1, <1>5, <1>8
  <1>11. ASSUME sched'.missed < k'
         PROVE  /\ sched'.missed >= MissedLimit
                /\ \E t \in Claimed' : Cardinality(LeftBehind(t)') > MissedLimit
    <2>1. CASE g > MissedLimit
      BY <1>7, <1>8, <2>1
    <2>2. CASE ~(g > MissedLimit)
      <3>1. sched.missed < k
        BY <1>5, <1>8, <1>11, <2>2
      <3>2. PICK t \in Claimed : Cardinality(LeftBehind(t)) > MissedLimit
        BY <1>1, <3>1
      <3>. QED
        BY <1>1, <1>5, <1>6, <1>8, <2>2, <3>1, <3>2
    <2>. QED
      BY <2>1, <2>2
  <1>. QED
    BY <1>9, <1>10, <1>11 DEF InstantsAccounted

\* A claim counts the instants it passes, and moves on to the next one of the definition.
LEMMA ClaimKeepsInstants ==
  ASSUME SchedKept, SchedTypes', SearchIsExact, CandidatesFire, VersionsCount, InstantsCounted,
         NEW w \in Workers, ClaimStep(w)
  PROVE  CandidatesFire' /\ VersionsCount' /\ InstantsCounted'
  <1>. DEFINE at == sched.next
              plan == PlanOccurrence(sched.def, sched.next)
              next == NextFromDefinition(sched.def, now)
              missed == CountMissed(sched.def, sched.next, now)
              p == Cardinality(Pending)
              s == Cardinality(Settled)
              later == PassedOf(sched.def, sched.created, next)
              gap == GapOf(sched.def, sched.created, at, now)
  <1>1. /\ Ordered /\ EditKept /\ now \in Times /\ now \in Nat
        /\ sched \in SchedRow /\ sched.version \in Nat /\ sched.missed \in Nat
        /\ sched.created \in Nat /\ occ \in [Times -> OccRow]
    BY DEF SchedKept, SchedTypes, Times, SchedRow
  <1>2. /\ sched.status = "ACTIVE" /\ at \in 1..now /\ Pending = {}
        /\ UNCHANGED <<now, edit>>
    BY DEF ClaimStep
  <1>3. at \in Times /\ at \in Nat /\ at # None /\ at <= now
    BY <1>1, <1>2, ComeIsTime DEF None
  <1>4. /\ sched'.status = "ACTIVE" /\ sched'.def = sched.def /\ sched'.created = sched.created
        /\ sched'.next = next /\ sched'.version = sched.version + 1
        /\ sched'.missed = sched.missed + missed
    BY <1>1, <1>2 DEF ClaimStep, SchedRow, PlanOccurrence
  <1>5. sched.def \in Definitions /\ sched.created \in Times /\ sched.created <= now
    BY <1>1, <1>2 DEF EditKept, VersionsCount
  <1>6. NextFromDefinition(sched.def, at - 1) = at /\ sched.created < at
    BY <1>1, <1>3 DEF CandidatesFire
  <1>7. next \in Nat /\ (next # None => next > now /\ NextFromDefinition(sched.def, next - 1) = next)
    BY <1>1, <1>5, NextIsLater, NextOfDefinition
  <1>8. missed \in Nat
    BY <1>1, <1>3, MissedIsNumber
  <1>9. /\ \A u \in later : u <= now
        /\ later = (PassedInstants \cup {at}) \cup gap
        /\ gap \subseteq Nat /\ (\A u \in gap : u > at)
        /\ IsFiniteSet(gap) /\ missed = UpToLimit(Cardinality(gap))
    <2>1. PassedInstants = PassedOf(sched.def, sched.created, at)
      BY DEF PassedInstants
    <2>2. /\ \A u \in later : u <= now
          /\ later = (PassedOf(sched.def, sched.created, at) \cup {at}) \cup gap
          /\ IsFiniteSet(gap) /\ missed = UpToLimit(Cardinality(gap))
      BY <1>1, <1>3, <1>5, <1>6, ClaimPasses
    <2>3. later \subseteq FiresOf(sched.def, sched.created)
      BY DEF PassedOf
    <2>4. gap \subseteq Nat /\ \A u \in gap : u > at
      BY <1>5, <2>3, FiresAreFinite DEF GapOf
    <2>. QED
      BY <2>1, <2>2, <2>4
  <1>10. PassedInstants' = later
    BY <1>4 DEF PassedInstants
  <1>11. /\ \A t \in Times : t # at => occ'[t] = occ[t]
         /\ occ'[at].status = "PENDING" /\ occ[at].status = "NONE"
    <2>1. occ' = [occ EXCEPT ![at] = OccurrenceRow(w, plan)]
      BY DEF ClaimStep
    <2>2. OccurrenceRow(w, plan).status = "PENDING"
      BY DEF OccurrenceRow
    <2>3. ~ClaimedAt(at)
      BY <1>1, <1>3 DEF Ordered
    <2>. HIDE DEF plan
    <2>. QED
      BY <1>1, <1>3, <2>1, <2>2, <2>3 DEF ClaimedAt
  <1>12. Pending' = {at} /\ Settled' = Settled /\ at \notin Settled
         /\ Claimed = Settled /\ Claimed' = Settled \cup {at}
    <2>1. Pending' = {at}
      BY <1>2, <1>3, <1>11 DEF Pending
    <2>2. Settled' = Settled /\ at \notin Settled
      BY <1>3, <1>11 DEF Settled
    <2>. QED
      BY <1>2, <2>1, <2>2 DEF Claimed
  <1>13. p = 0 /\ p' = 1 /\ s' = s /\ s \in Nat
    BY <1>2, <1>12, OccurrenceCounts, FS_EmptySet, FS_Singleton
  <1>14. PassedInstants \subseteq Nat /\ IsFiniteSet(PassedInstants) /\ (\A u \in PassedInstants : u < at)
    <2>1. PassedInstants \subseteq FiresOf(sched.def, sched.created)
          /\ \A u \in PassedInstants : u < at
      BY <1>3 DEF PassedInstants, PassedOf
    <2>. QED
      BY <1>5, <2>1, FiresAreFinite, FS_Subset
  <1>15. /\ Undisturbed <=> sched.version = 1 + p + 2 * s
         /\ Undisturbed' <=> sched'.version = 1 + p' + 2 * s'
         /\ sched.version >= 1 + p + 2 * s
    BY <1>2 DEF Undisturbed, VersionsCount
  <1>16. Undisturbed => InstantsAccounted
    BY <1>2 DEF InstantsCounted
  <1>17. CandidatesFire'
    <2>1. sched'.next # None => sched'.next > sched'.created
      BY <1>1, <1>4, <1>5, <1>7
    <2>. QED
      BY <1>2, <1>4, <1>7, <2>1 DEF CandidatesFire
  <1>18. sched'.version >= 1 + p' + 2 * s'
    <2>. HIDE DEF p, s
    <2>. QED
      BY <1>1, <1>4, <1>13, <1>15
  <1>19. VersionsCount'
    BY <1>2, <1>4, <1>5, <1>18 DEF VersionsCount
  <1>20. Undisturbed' => Undisturbed
    <2>. HIDE DEF p, s
    <2>. QED
      BY <1>1, <1>4, <1>13, <1>15
  <1>21. InstantsAccounted => InstantsAccounted'
    <2>. HIDE DEF next, missed, later, gap, plan
    <2>. QED
      BY <1>1, <1>3, <1>4, <1>9, <1>10, <1>12, <1>14, ClaimAccounts
  <1>22. InstantsCounted'
    <2>. HIDE DEF next, missed, later, gap, plan
    <2>. QED
      BY <1>2, <1>9, <1>10, <1>16, <1>20, <1>21 DEF InstantsCounted
  <1>. QED
    BY <1>17, <1>19, <1>22

\* Settling moves one occurrence from pending to settled, and takes one row_version.
LEMMA SettleKeepsInstants ==
  ASSUME SchedKept, SchedTypes', CandidatesFire, VersionsCount, InstantsCounted,
         NEW at \in Times, NEW outcome \in Outcomes, SettleStep(at, outcome)
  PROVE  CandidatesFire' /\ VersionsCount' /\ InstantsCounted'
  <1>. DEFINE p == Cardinality(Pending)
              s == Cardinality(Settled)
  <1>1. /\ RunsMatch /\ Ordered /\ sched \in SchedRow /\ sched.version \in Nat
    BY DEF SchedKept, SchedTypes, SchedRow
  <1>2. PendingAt(at) /\ Settle(at, outcome) /\ UNCHANGED <<now, edit>>
    BY DEF SettleStep
  <1>3. sched.status # "ABSENT"
    BY <1>1, <1>2 DEF Ordered, ClaimedAt, PendingAt
  <1>4. /\ \A t \in Times : t # at => occ'[t] = occ[t]
        /\ occ'[at].status = "SETTLED"
    BY <1>2, SettleTypes
  <1>5. /\ sched'.version = sched.version + 1 /\ sched'.def = sched.def
        /\ sched'.created = sched.created /\ sched'.missed = sched.missed
        /\ sched'.next = sched.next \/ sched'.next = None
        /\ sched'.status = "ACTIVE" => sched.status = "ACTIVE" /\ sched'.next = sched.next
    BY <1>1, <1>2 DEF Settle, SettledSchedule, SchedRow
  <1>6. Pending = {at} /\ p = 1
    BY <1>1, <1>2, PendingCount DEF RunsMatch
  <1>7. Pending' = {} /\ Settled' = Settled \cup {at} /\ at \notin Settled
    <2>1. \A t \in Times : occ[t].status = "PENDING" <=> t = at
      BY <1>6 DEF Pending
    <2>. QED
      BY <1>4, <2>1 DEF Pending, Settled
  <1>8. Claimed' = Claimed
    BY <1>6, <1>7 DEF Claimed
  <1>9. p' = 0 /\ s' = s + 1 /\ s \in Nat
    <2>1. IsFiniteSet(Settled) /\ s \in Nat
      BY OccurrenceCounts
    <2>2. Cardinality(Settled \cup {at}) = s + 1
      BY <1>7, <2>1, FS_AddElement
    <2>3. Cardinality({}) = 0
      BY FS_EmptySet
    <2>. QED
      BY <1>7, <2>1, <2>2, <2>3
  <1>10. /\ Undisturbed <=> sched.version = 1 + p + 2 * s
         /\ Undisturbed' <=> sched'.version = 1 + p' + 2 * s'
         /\ sched.version >= 1 + p + 2 * s
    BY <1>3 DEF Undisturbed, VersionsCount
  <1>11. CandidatesFire'
    BY <1>2, <1>5 DEF CandidatesFire
  <1>12. sched'.version >= 1 + p' + 2 * s' /\ (Undisturbed' => Undisturbed)
    <2>. HIDE DEF p, s
    <2>. QED
      BY <1>1, <1>5, <1>6, <1>9, <1>10
  <1>13. VersionsCount'
    BY <1>2, <1>3, <1>5, <1>12 DEF VersionsCount
  <1>14. InstantsCounted'
    <2>. SUFFICES ASSUME sched'.status = "ACTIVE", Undisturbed'
                  PROVE  (\A u \in PassedInstants' : u <= now') /\ InstantsAccounted'
      BY DEF InstantsCounted
    <2>1. PassedInstants' = PassedInstants
      BY <1>5 DEF PassedInstants
    <2>. QED
      BY <1>2, <1>5, <1>8, <1>12, <2>1, SameAccount DEF InstantsCounted
  <1>. QED
    BY <1>11, <1>13, <1>14


\* Every step keeps what holds of the instants.
LEMMA InstantsStep ==
  ASSUME SchedKept, InstantsKept, [SchedNext]_schedVars
  PROVE  InstantsKept'
  <1>. SUFFICES ASSUME SearchIsExact
                PROVE  CandidatesFire' /\ VersionsCount' /\ InstantsCounted'
    BY DEF InstantsKept
  <1>1. CandidatesFire /\ VersionsCount /\ InstantsCounted
    BY DEF InstantsKept
  <1>2. SchedTypes'
    BY StepKinds
  <1>3. CASE QuietStep
    BY <1>1, <1>2, <1>3, QuietKeepsInstants
  <1>4. CASE CreateSchedule
    BY <1>2, <1>4, CreateKeepsInstants
  <1>5. CASE EditStep \/ ChangeStatus \/ CloseStep
    BY <1>1, <1>2, <1>5, OwnStepsKeepInstants
  <1>6. ASSUME NEW w \in Workers, ClaimStep(w)
        PROVE  CandidatesFire' /\ VersionsCount' /\ InstantsCounted'
    BY <1>1, <1>2, <1>6, ClaimKeepsInstants
  <1>7. ASSUME NEW at \in Times, NEW outcome \in Outcomes, SettleStep(at, outcome)
        PROVE  CandidatesFire' /\ VersionsCount' /\ InstantsCounted'
    BY <1>1, <1>2, <1>7, SettleKeepsInstants
  <1>. QED
    BY <1>3, <1>4, <1>5, <1>6, <1>7, StepKinds

\* The instants that the property calls passed are those of the invariant.
LEMMA NothingIsLost ==
  ASSUME SchedKept, InstantsKept, SearchIsExact
  PROVE  NoInstantLost
  <1>. SUFFICES ASSUME sched.status = "ACTIVE", Undisturbed
                PROVE  /\ Claimed \subseteq Passed
                       /\ sched.missed <= Cardinality(Skipped)
                       /\ sched.missed < Cardinality(Skipped) =>
                            /\ sched.missed >= MissedLimit
                            /\ \E t \in Claimed : Cardinality(SkippedBehind(t)) > MissedLimit
    BY DEF NoInstantLost
  <1>. DEFINE fires == FiresOf(sched.def, sched.created)
  <1>1. (\A u \in PassedInstants : u <= now) /\ InstantsAccounted
    BY DEF InstantsKept, InstantsCounted
  <1>2. sched.created \in Nat /\ now \in Nat /\ now < Horizon /\ Horizon \in Nat
    <2>1. sched \in SchedRow /\ now \in Times
      BY DEF SchedKept, SchedTypes
    <2>2. sched.created \in Nat
      BY <2>1 DEF SchedRow
    <2>3. MaxTime \in Nat /\ MaxTime < Horizon /\ Horizon \in Nat
      BY ScheduleAssumption, CronAssumption
    <2>4. now \in Nat /\ now <= MaxTime
      BY <2>1, <2>3 DEF Times
    <2>. QED
      BY <2>2, <2>3, <2>4
  <1>3. FiredUpTo(now) = {u \in fires : u <= now}
    <2>1. CASE sched.def.kind = "ONCE"
      BY <2>1 DEF FiredUpTo, FiresOf
    <2>2. CASE sched.def.kind # "ONCE"
      <3>1. sched.created + 1..now = {u \in sched.created + 1..Horizon : u <= now}
        BY <1>2
      <3>. QED
        BY <2>2, <3>1 DEF FiredUpTo, FiresOf
    <2>. QED
      BY <2>1, <2>2
  <1>4. PassedInstants = {u \in fires : sched.next = None \/ u < sched.next}
    BY DEF PassedInstants, PassedOf
  <1>. HIDE DEF fires
  <1>5. Passed = PassedInstants
    BY <1>1, <1>3, <1>4 DEF Passed
  <1>6. Skipped = SkippedInstants
    BY <1>5 DEF Skipped, SkippedInstants
  <1>7. \A t \in Claimed : SkippedBehind(t) = LeftBehind(t)
    BY <1>6 DEF SkippedBehind, LeftBehind
  <1>. QED
    BY <1>1, <1>5, <1>6, <1>7 DEF InstantsAccounted

\* Nothing was given yet.
LEMMA InstantsInitial == SchedInit => InstantsKept
  BY DEF SchedInit, InstantsKept, CandidatesFire, VersionsCount, InstantsCounted, Absent

\* Rows and instants together.
THEOREM InstantsInductive == SchedSpec => []InstantsKept
  <1>1. SchedInit => InstantsKept
    BY InstantsInitial
  <1>2. SchedKept /\ InstantsKept /\ [SchedNext]_schedVars => InstantsKept'
    BY InstantsStep
  <1>. QED
    BY <1>1, <1>2, SchedulesInductive, PTL DEF SchedSpec

\* On a calendar whose search is exact, a schedule keeps its limit, never overlaps,
\* always has something left to wake it while it is active, moves only to instants of
\* its definition, and loses none of them.
THEOREM SchedulesStayKept == SchedSpec => [](SearchIsExact => SchedulesAreKept)
  <1>1. SchedKept /\ InstantsKept => (SearchIsExact => CandidateMatchesDefinition /\ NoInstantLost)
    BY NothingIsLost DEF InstantsKept, CandidatesFire, CandidateMatchesDefinition
  <1>2. /\ RunLimitKept /\ OneRunAtATime /\ ActiveScheduleGoesOn
        /\ SearchIsExact => CandidateMatchesDefinition /\ NoInstantLost
        => (SearchIsExact => SchedulesAreKept)
    BY DEF SchedulesAreKept
  <1>. QED
    BY <1>1, <1>2, SchedulesInductive, InstantsInductive, LimitAndOverlapHold, PTL
-----------------------------------------------------------------------------
(* A project and what it leaves behind, for any users, requests and edits.     *)

Orders ==
  [op : {"none", "create", "update", "archive", "unarchive", "delete", "purge", "add_member",
         "remove_member", "prefer", "prefer_none", "write"},
   by : People \cup {Nowhere}, target : People \cup {Nowhere}, version : Nat]
OrdersKnown ==
  /\ order \in [Tasks -> Orders]
  /\ \A t \in Tasks : order[t].op # "none" => order[t].by \in People
ProjectKept == ProjectTypeOK /\ OrdersKnown /\ NothingLeftBehind

\* What a route admits names its user.
LEMMA RoutesNamePeople ==
  ASSUME ProjectTypeOK, NEW u \in People, NEW r \in ProjectRequests(u)
  PROVE  r.by \in People /\ r \in Orders
  <1>1. project.version \in Nat
    BY ProjectAssumption DEF ProjectTypeOK
  <1>. QED
    BY <1>1 DEF ProjectRequests, PreferenceRoutes, ContentRoutes, ProjectRoutes, MemberRoutes, Order,
                Orders

\* Whatever overtakes a request, the service leaves nothing behind a deleted project.
LEMMA ProjectServiceKeeps ==
  ASSUME ProjectTypeOK, NothingLeftBehind, NEW r, r.by \in People, ProjectService(r)
  PROVE  /\ valid' = valid /\ prefers' \subseteq People /\ audited' \in BOOLEAN
         /\ project' \in [status : {"none", "gone", "ACTIVE", "ARCHIVED"}, version : 0..MaxProjectVersion]
         /\ member' \in [People -> {"none", "ACTIVE", "REMOVED"}]
         /\ content' \in {"none", "settled", "busy"} /\ NothingLeftBehind'
  <1>. USE ProjectAssumption DEF ProjectTypeOK, NothingLeftBehind, ProjectExists
  <1>1. CASE CreateProject(r)
    BY <1>1 DEF CreateProject, others
  <1>2. CASE UpdateProject(r)
    <2>1. project.version + 1 \in 0..MaxProjectVersion
      BY <1>2 DEF UpdateProject
    <2>2. project' \in [status : {"none", "gone", "ACTIVE", "ARCHIVED"}, version : 0..MaxProjectVersion]
      BY <1>2, <2>1 DEF UpdateProject
    <2>3. project'.status = project.status
      BY <1>2 DEF UpdateProject
    <2>. QED
      BY <1>2, <2>2, <2>3 DEF UpdateProject, ProjectAt, others
  <1>0. ASSUME DropProject, valid' = valid
        PROVE  /\ prefers' \subseteq People /\ audited' \in BOOLEAN
               /\ project' \in [status : {"none", "gone", "ACTIVE", "ARCHIVED"},
                                version : 0..MaxProjectVersion]
               /\ member' \in [People -> {"none", "ACTIVE", "REMOVED"}]
               /\ content' \in {"none", "settled", "busy"} /\ NothingLeftBehind'
    <2>1. GoneProject \in [status : {"none", "gone", "ACTIVE", "ARCHIVED"}, version : 0..MaxProjectVersion]
      BY DEF GoneProject
    <2>2. /\ project' = GoneProject /\ member' = [u \in People |-> "none"] /\ content' = "none"
          /\ audited' = FALSE /\ prefers' = {}
      BY <1>0 DEF DropProject
    <2>. QED
      BY <2>1, <2>2
  <1>3. CASE DeleteProject(r)
    BY <1>0, <1>3 DEF DeleteProject
  <1>4. CASE PurgeProject(r)
    BY <1>0, <1>4 DEF PurgeProject
  <1>5. ASSUME NEW op \in {"archive", "unarchive"}, NEW status \in {"ACTIVE", "ARCHIVED"},
               SetProjectStatus(r, op, status)
        PROVE  /\ valid' = valid /\ prefers' \subseteq People /\ audited' \in BOOLEAN
               /\ project' \in [status : {"none", "gone", "ACTIVE", "ARCHIVED"},
                                version : 0..MaxProjectVersion]
               /\ member' \in [People -> {"none", "ACTIVE", "REMOVED"}]
               /\ content' \in {"none", "settled", "busy"} /\ NothingLeftBehind'
    <2>1. project.version + 1 \in 0..MaxProjectVersion
      BY <1>5 DEF SetProjectStatus
    <2>2. project' \in [status : {"none", "gone", "ACTIVE", "ARCHIVED"}, version : 0..MaxProjectVersion]
      BY <1>5, <2>1 DEF SetProjectStatus
    <2>3. project'.status = status
      BY <1>5 DEF SetProjectStatus
    <2>. QED
      BY <1>5, <2>2, <2>3 DEF SetProjectStatus, others
  <1>6. CASE AddMember(r)
    <2>1. (audited \/ member[r.target] # "ACTIVE") \in BOOLEAN
      OBVIOUS
    <2>. QED
      BY <1>6, <2>1 DEF AddMember
  <1>7. CASE RemoveMember(r)
    BY <1>7 DEF RemoveMember
  <1>8. CASE SetPreference(r)
    BY <1>8 DEF SetPreference
  <1>9. CASE WriteContent(r)
    BY <1>9 DEF WriteContent, MayWrite
  <1>. QED
    BY <1>1, <1>2, <1>3, <1>4, <1>5, <1>6, <1>7, <1>8, <1>9 DEF ProjectService

\* Every step on a project keeps its rows, and leaves none behind a deleted one.
LEMMA ProjectNextKeeps ==
  ASSUME ProjectKept, [ProjectNext]_projectVars
  PROVE  ProjectKept'
  <1>0. NoOrder \in Orders /\ NoOrder.op = "none"
    BY DEF NoOrder, Orders
  <1>1. ASSUME NEW u \in People, LoseSession(u)
        PROVE  ProjectKept'
    BY <1>1 DEF ProjectKept, OrdersKnown, ProjectTypeOK, NothingLeftBehind, ProjectExists, LoseSession
  <1>2. ASSUME NEW t \in Tasks, NEW r \in Orders, order' = [order EXCEPT ![t] = r],
               r.op # "none" => r.by \in People
        PROVE  OrdersKnown' /\ \A o \in Tasks : order'[o].by \in People \cup {Nowhere}
    <2>1. order' \in [Tasks -> Orders]
      BY <1>2 DEF ProjectKept, OrdersKnown
    <2>2. \A o \in Tasks : order'[o] = IF o = t THEN r ELSE order[o]
      BY <1>2 DEF ProjectKept, OrdersKnown
    <2>. QED
      BY <1>2, <2>1, <2>2 DEF ProjectKept, OrdersKnown, Orders
  <1>3. ASSUME NEW t \in Tasks, AdmitOrder(t)
        PROVE  ProjectKept'
    <2>1. PICK u \in People : \E r \in ProjectRequests(u) : order' = [order EXCEPT ![t] = r]
      BY <1>3 DEF AdmitOrder
    <2>2. PICK r \in ProjectRequests(u) : order' = [order EXCEPT ![t] = r]
      BY <2>1
    <2>3. r.by \in People /\ r \in Orders
      BY RoutesNamePeople DEF ProjectKept
    <2>4. OrdersKnown' /\ \A o \in Tasks : order'[o].by \in People \cup {Nowhere}
      BY <1>2, <2>2, <2>3
    <2>. QED
      BY <1>3, <2>4 DEF ProjectKept, ProjectTypeOK, NothingLeftBehind, ProjectExists, AdmitOrder
  <1>4. ASSUME NEW t \in Tasks, RefuseOrder(t)
        PROVE  ProjectKept'
    <2>1. OrdersKnown' /\ \A o \in Tasks : order'[o].by \in People \cup {Nowhere}
      BY <1>0, <1>2, <1>4 DEF RefuseOrder
    <2>. QED
      BY <1>4, <2>1 DEF ProjectKept, ProjectTypeOK, NothingLeftBehind, ProjectExists, RefuseOrder
  <1>5. ASSUME NEW t \in Tasks, ServeOrder(t)
        PROVE  ProjectKept'
    <2>1. ProjectService(order[t]) /\ order' = [order EXCEPT ![t] = NoOrder]
      BY <1>5 DEF ServeOrder
    <2>2. order[t].op # "none"
      BY <2>1 DEF ProjectService, CreateProject, UpdateProject, DeleteProject, PurgeProject,
                  SetProjectStatus, AddMember, RemoveMember, SetPreference, WriteContent
    <2>3. order[t].by \in People
      BY <2>2 DEF ProjectKept, OrdersKnown
    <2>4. OrdersKnown' /\ \A o \in Tasks : order'[o].by \in People \cup {Nowhere}
      BY <1>0, <1>2, <2>1
    <2>5. /\ valid' = valid /\ prefers' \subseteq People /\ audited' \in BOOLEAN
          /\ project' \in [status : {"none", "gone", "ACTIVE", "ARCHIVED"}, version : 0..MaxProjectVersion]
          /\ member' \in [People -> {"none", "ACTIVE", "REMOVED"}]
          /\ content' \in {"none", "settled", "busy"} /\ NothingLeftBehind'
      BY <2>1, <2>3, ProjectServiceKeeps DEF ProjectKept
    <2>. QED
      BY <2>4, <2>5 DEF ProjectKept, ProjectTypeOK
  <1>6. CASE ServeOrderAtOnce
    <2>1. PICK u \in People : \E r \in ProjectRequests(u) : ProjectService(r) /\ UNCHANGED order
      BY <1>6 DEF ServeOrderAtOnce
    <2>2. PICK r \in ProjectRequests(u) : ProjectService(r) /\ UNCHANGED order
      BY <2>1
    <2>3. r.by \in People
      BY RoutesNamePeople DEF ProjectKept
    <2>4. /\ valid' = valid /\ prefers' \subseteq People /\ audited' \in BOOLEAN
          /\ project' \in [status : {"none", "gone", "ACTIVE", "ARCHIVED"}, version : 0..MaxProjectVersion]
          /\ member' \in [People -> {"none", "ACTIVE", "REMOVED"}]
          /\ content' \in {"none", "settled", "busy"} /\ NothingLeftBehind'
      BY <2>2, <2>3, ProjectServiceKeeps DEF ProjectKept
    <2>. QED
      BY <2>2, <2>4 DEF ProjectKept, OrdersKnown, ProjectTypeOK
  <1>7. CASE ContentSettles
    BY <1>7 DEF ProjectKept, OrdersKnown, ProjectTypeOK, NothingLeftBehind, ProjectExists, ContentSettles
  <1>8. CASE UNCHANGED projectVars
    BY <1>8 DEF ProjectKept, OrdersKnown, ProjectTypeOK, NothingLeftBehind, ProjectExists, projectVars
  <1>. QED
    BY <1>1, <1>3, <1>4, <1>5, <1>6, <1>7, <1>8 DEF ProjectNext

\* No project yet, and nobody who asks for one.
LEMMA ProjectStarts ==
  ASSUME ProjectInit
  PROVE  ProjectKept
  <1>. USE DEF ProjectInit
  <1>1. NoProject \in [status : {"none", "gone", "ACTIVE", "ARCHIVED"}, version : 0..MaxProjectVersion]
    BY ProjectAssumption DEF NoProject
  <1>2. NoOrder \in Orders /\ NoOrder.op = "none" /\ NoOrder.by = Nowhere
    BY DEF NoOrder, Orders
  <1>3. OrdersKnown /\ \A t \in Tasks : order[t].by \in People \cup {Nowhere}
    BY <1>2 DEF OrdersKnown
  <1>4. NothingLeftBehind
    BY DEF NothingLeftBehind
  <1>. QED
    BY <1>1, <1>3, <1>4 DEF ProjectKept, ProjectTypeOK

\* The rows of a project, what its requests were admitted for, and what is left behind it.
THEOREM ProjectInductive == ProjectSpec => []ProjectKept
  BY ProjectStarts, ProjectNextKeeps, PTL DEF ProjectSpec

-----------------------------------------------------------------------------
(* Starting a task (SkillCatalog, TaskAdmission), for any versions, modules,   *)
(* keys and callers: what is referred to was published, and passed its gate    *)
(* before that.                                                              *)

CallerRows ==
  [at : {"new", "asking", "resolving", "asking_again", "creating", "inserting", "selection_failed",
         "answered", "conflict", "refused"},
   key : RunKeys \cup {NoVersion}, version : Versions \cup {NoVersion},
   intent : Intents \cup {NoVersion}, revision : Nat]
RunRows ==
  [state : {"none", "created", "purged"}, version : Versions \cup {NoVersion},
   intent : Intents \cup {NoVersion}, revision : Nat]
IntegrationRows == [status : {"ACTIVE", "DISABLED"}, revision : Nat]
PublishedPassed ==
  \A v \in Versions : version[v].status \in {"PUBLISHED", "DEPRECATED"} => version[v].passed
AdmissionRows ==
  /\ CatalogTypeOK /\ run \in [RunKeys -> RunRows] /\ caller \in [Callers -> CallerRows]
  /\ integration \in IntegrationRows
AdmissionKept == AdmissionRows /\ PublishedPassed /\ UsedVersionKept

\* Rows of versions and what refers to them, when no version in use loses its standing.
LEMMA ReferencesHold ==
  ASSUME PublishedPassed, UsedVersionKept,
         \A v \in Versions : version'[v] # version[v] =>
           /\ version'[v].status \in {"PUBLISHED", "DEPRECATED"} => version'[v].passed
           /\ References(v) => version'[v].status \in {"PUBLISHED", "DEPRECATED"},
         \A v \in Versions : References(v)' =>
           References(v) \/ version'[v].status \in {"PUBLISHED", "DEPRECATED"}
  PROVE  PublishedPassed' /\ UsedVersionKept'
  <1>1. ASSUME NEW v \in Versions
        PROVE  /\ version'[v].status \in {"PUBLISHED", "DEPRECATED"} => version'[v].passed
               /\ References(v)' => version'[v].status \in {"PUBLISHED", "DEPRECATED"} /\ version'[v].passed
    <2>1. CASE version'[v] = version[v]
      BY <2>1 DEF PublishedPassed, UsedVersionKept
    <2>2. CASE version'[v] # version[v]
      BY <2>2
    <2>. QED
      BY <2>1, <2>2
  <1>. QED
    BY <1>1 DEF PublishedPassed, UsedVersionKept

\* A step on a version.
LEMMA VersionStep ==
  ASSUME AdmissionKept, NEW v \in Versions, NEW row,
         row \in [status : {"none", "DRAFT", "PUBLISHED", "DEPRECATED", "deleted"},
                  of : Interpretations \cup {NoVersion}, passed : BOOLEAN],
         version' = [version EXCEPT ![v] = row],
         row.status \in {"PUBLISHED", "DEPRECATED"} => row.passed,
         References(v) => row.status \in {"PUBLISHED", "DEPRECATED"},
         enabled' \in [Versions -> {"never", "yes", "no"}],
         UNCHANGED <<ready, module, run, integrationVars, caller>>
  PROVE  AdmissionKept'
  <1>1. /\ version \in [Versions -> [status : {"none", "DRAFT", "PUBLISHED", "DEPRECATED", "deleted"},
                                     of : Interpretations \cup {NoVersion}, passed : BOOLEAN]]
        /\ integration' = integration
    BY DEF AdmissionKept, AdmissionRows, CatalogTypeOK, integrationVars
  <1>2. version'[v] = row /\ \A w \in Versions : w # v => version'[w] = version[w]
    BY <1>1
  <1>3. AdmissionRows'
    BY <1>1 DEF AdmissionKept, AdmissionRows, CatalogTypeOK
  <1>4. \A w \in Versions : version'[w] # version[w] =>
          /\ version'[w].status \in {"PUBLISHED", "DEPRECATED"} => version'[w].passed
          /\ References(w) => version'[w].status \in {"PUBLISHED", "DEPRECATED"}
    BY <1>2
  <1>5. \A w \in Versions : References(w)' => References(w)
    BY DEF References
  <1>. QED
    BY <1>3, <1>4, <1>5, ReferencesHold DEF AdmissionKept

\* A step of the catalogue.
LEMMA CatalogKeeps ==
  ASSUME AdmissionKept, CatalogNext, UNCHANGED <<integrationVars, caller>>
  PROVE  AdmissionKept'
  <1>. DEFINE Rows == [status : {"none", "DRAFT", "PUBLISHED", "DEPRECATED", "deleted"},
                       of : Interpretations \cup {NoVersion}, passed : BOOLEAN]
  <1>0. /\ CatalogTypeOK /\ run \in [RunKeys -> RunRows] /\ caller \in [Callers -> CallerRows]
        /\ integration \in IntegrationRows /\ version \in [Versions -> Rows] /\ integration' = integration
        /\ enabled \in [Versions -> {"never", "yes", "no"}] /\ module \in [Modules -> SUBSET Versions]
        /\ ready \subseteq Interpretations
    BY DEF AdmissionKept, AdmissionRows, CatalogTypeOK, integrationVars
  <1>1. ASSUME NEW i \in Interpretations, InterpretationReady(i)
        PROVE  AdmissionKept'
    BY <1>0, <1>1 DEF InterpretationReady, AdmissionKept, AdmissionRows, CatalogTypeOK, PublishedPassed,
                      UsedVersionKept, References
  <1>2. ASSUME NEW v \in Versions, NEW i \in Interpretations, NEW passed \in BOOLEAN,
               CreateVersionDraft(v, i, passed)
        PROVE  AdmissionKept'
    <2>1. Drafted(i, passed) \in Rows /\ Drafted(i, passed).status = "DRAFT"
      BY DEF Drafted
    <2>2. ~References(v)
      BY <1>2 DEF CreateVersionDraft, AdmissionKept, UsedVersionKept, Unborn
    <2>. QED
      BY <1>0, <1>2, <2>1, <2>2, VersionStep DEF CreateVersionDraft
  <1>3. ASSUME NEW v \in Versions, NEW status \in {"PUBLISHED", "DEPRECATED", "deleted"},
               version' = [version EXCEPT ![v].status = status],
               status # "deleted" => version[v].passed, status = "deleted" => ~References(v),
               enabled' \in [Versions -> {"never", "yes", "no"}], UNCHANGED <<ready, module, run>>
        PROVE  AdmissionKept'
    <2>. DEFINE row == [version[v] EXCEPT !.status = status]
    <2>1. row \in Rows /\ row.status = status /\ row.passed = version[v].passed
      BY <1>0
    <2>2. version' = [version EXCEPT ![v] = row]
      BY <1>3
    <2>. HIDE DEF row
    <2>. QED
      BY <1>3, <2>1, <2>2, VersionStep
  <1>4. ASSUME NEW v \in Versions, PublishVersion(v)
        PROVE  AdmissionKept'
    BY <1>0, <1>3, <1>4 DEF PublishVersion, GatePasses
  <1>5. ASSUME NEW v \in Versions, DeprecateVersion(v)
        PROVE  AdmissionKept'
    BY <1>0, <1>3, <1>5 DEF DeprecateVersion, AdmissionKept, PublishedPassed
  <1>6. ASSUME NEW v \in Versions, DeleteVersion(v)
        PROVE  AdmissionKept'
    BY <1>0, <1>3, <1>6 DEF DeleteVersion
  <1>7. ASSUME NEW v \in Versions, EnableVersion(v) \/ DisableVersion(v)
        PROVE  AdmissionKept'
    BY <1>0, <1>7 DEF EnableVersion, DisableVersion, AdmissionKept, AdmissionRows, CatalogTypeOK,
                      PublishedPassed, UsedVersionKept, References
  <1>8. ASSUME NEW m \in Modules, NEW bound \in SUBSET Versions,
               module' = [module EXCEPT ![m] = bound], \A v \in bound : Runnable(v),
               UNCHANGED <<ready, version, enabled, run>>
        PROVE  AdmissionKept'
    <2>1. \A v \in Versions : References(v)' => References(v) \/ v \in bound
      BY <1>0, <1>8 DEF References
    <2>2. \A v \in bound : version'[v].status \in {"PUBLISHED", "DEPRECATED"}
      BY <1>8 DEF Runnable
    <2>3. AdmissionRows'
      BY <1>0, <1>8 DEF AdmissionRows, CatalogTypeOK
    <2>4. version' = version
      BY <1>8
    <2>5. PublishedPassed' /\ UsedVersionKept'
      BY <2>1, <2>2, <2>4, ReferencesHold DEF AdmissionKept
    <2>. QED
      BY <2>3, <2>5 DEF AdmissionKept
  <1>9. ASSUME NEW m \in Modules, NEW bound \in SUBSET Versions, CreateModule(m, bound) \/ UpdateModule(m, bound)
        PROVE  AdmissionKept'
    BY <1>8, <1>9 DEF CreateModule, UpdateModule, Bindable
  <1>10. ASSUME NEW m \in Modules, DeleteModule(m)
        PROVE  AdmissionKept'
    BY <1>8, <1>10 DEF DeleteModule
  <1>. QED
    BY <1>1, <1>2, <1>4, <1>5, <1>6, <1>7, <1>9, <1>10 DEF CatalogNext

\* A caller moves on; the catalogue stays, except for the Run it may create.
LEMMA CallerMoves ==
  ASSUME AdmissionKept, NEW c \in Callers, NEW row \in CallerRows,
         caller' = [caller EXCEPT ![c] = row], UNCHANGED <<catalogVars, integrationVars>>
  PROVE  AdmissionKept'
  BY DEF AdmissionKept, AdmissionRows, CatalogTypeOK, PublishedPassed, UsedVersionKept, References,
         catalogVars, integrationVars

\* What a caller does, and where it can have been refused.
LEMMA CallerKeeps ==
  ASSUME AdmissionKept, NEW c \in Callers, CallerStep(c)
  PROVE  /\ AdmissionKept'
         /\ \A d \in Callers : caller'[d].at = "refused" /\ caller[d].at # "refused" =>
              ~(KeyTaken(d) /\ SameRequest(d))
  <1>. DEFINE Goal ==
         /\ AdmissionKept'
         /\ \A d \in Callers : caller'[d].at = "refused" /\ caller[d].at # "refused" =>
              ~(KeyTaken(d) /\ SameRequest(d))
  <1>0. /\ caller \in [Callers -> CallerRows] /\ caller[c] \in CallerRows
        /\ run \in [RunKeys -> RunRows] /\ integration.revision \in Nat /\ NoVersion \notin Versions
    BY CatalogAssumption DEF AdmissionKept, AdmissionRows, IntegrationRows
  <1>1. ASSUME NEW row \in CallerRows, caller' = [caller EXCEPT ![c] = row],
               UNCHANGED <<catalogVars, integrationVars>>,
               row.at = "refused" => ~(KeyTaken(c) /\ SameRequest(c))
        PROVE  Goal
    BY <1>0, <1>1, CallerMoves
  <1>2. ASSUME NEW at \in {"asking", "resolving", "asking_again", "creating", "inserting",
                           "selection_failed", "answered", "conflict", "refused"},
               Moves(c, at), at = "refused" => ~(KeyTaken(c) /\ SameRequest(c))
        PROVE  Goal
    <2>. DEFINE row == [caller[c] EXCEPT !.at = at]
    <2>1. row \in CallerRows /\ row.at = at
      BY <1>0 DEF CallerRows
    <2>2. caller' = [caller EXCEPT ![c] = row] /\ UNCHANGED <<catalogVars, integrationVars>>
      BY <1>2 DEF Moves
    <2>. HIDE DEF row, Goal
    <2>. QED
      BY <1>1, <1>2, <2>1, <2>2
  <1>. HIDE DEF Goal
  <1>. SUFFICES Goal
    BY DEF Goal
  <1>3. Replay(c) \in {"answered", "conflict"}
    BY DEF Replay
  <1>4. ASSUME NEW k \in RunKeys, NEW v \in Versions, NEW i \in Intents, Sent(c, k, v, i)
        PROVE  Goal
    <2>. DEFINE row == [Waiting EXCEPT !.at = "asking", !.key = k, !.version = v, !.intent = i]
    <2>1. row \in CallerRows /\ row.at = "asking"
      BY DEF Waiting, CallerRows
    <2>2. caller' = [caller EXCEPT ![c] = row] /\ UNCHANGED <<catalogVars, integrationVars>>
      BY <1>4 DEF Sent
    <2>. HIDE DEF row
    <2>. QED
      BY <1>1, <2>1, <2>2
  <1>5. ASSUME KeyTaken(c), Moves(c, Replay(c))
        PROVE  Goal
    BY <1>2, <1>3, <1>5
  <1>6. CASE FindTaskReplay(c)
    <2>1. (KeyTaken(c) /\ Moves(c, Replay(c))) \/ Moves(c, "resolving")
      BY <1>6 DEF FindTaskReplay
    <2>. QED
      BY <1>2, <1>5, <2>1
  <1>7. CASE ResolveTaskRun(c)
    <2>1. Moves(c, "creating") \/ Moves(c, "asking_again")
      BY <1>7 DEF ResolveTaskRun
    <2>. QED
      BY <1>2, <2>1
  <1>8. CASE FindReplayAgain(c) \/ SelectionFailed(c)
    <2>1. (KeyTaken(c) /\ Moves(c, Replay(c))) \/ (~KeyTaken(c) /\ Moves(c, "refused"))
      BY <1>8 DEF FindReplayAgain, SelectionFailed
    <2>. QED
      BY <1>2, <1>5, <2>1
  <1>9. CASE Resend(c)
    <2>1. Moves(c, "asking")
      BY <1>9 DEF Resend
    <2>. QED
      BY <1>2, <2>1
  <1>10. CASE SelectSources(c)
    <2>. DEFINE row == [caller[c] EXCEPT !.at = "inserting", !.revision = integration.revision]
    <2>1. row \in CallerRows /\ row.at = "inserting"
      BY <1>0 DEF CallerRows
    <2>2. ASSUME caller' = [caller EXCEPT ![c].at = "inserting", ![c].revision = integration.revision],
                 UNCHANGED <<catalogVars, integrationVars>>
          PROVE  Goal
      <3>1. caller' = [caller EXCEPT ![c] = row]
        BY <2>2
      <3>. HIDE DEF row
      <3>. QED
        BY <1>1, <2>1, <2>2, <3>1
    <2>3. (KeyTaken(c) /\ Moves(c, Replay(c))) \/ Moves(c, "selection_failed") \/
            (/\ caller' = [caller EXCEPT ![c].at = "inserting", ![c].revision = integration.revision]
             /\ UNCHANGED <<catalogVars, integrationVars>>)
      BY <1>10 DEF SelectSources
    <2>. QED
      BY <1>2, <1>5, <2>2, <2>3
  <1>11. CASE Insert(c)
    <2>1. ASSUME Moves(c, "conflict") \/ (KeyTaken(c) /\ Moves(c, Replay(c))) \/ (~KeyTaken(c) /\ Moves(c, "refused"))
          PROVE  Goal
      BY <1>2, <1>5, <2>1
    <2>. DEFINE made == [state |-> "created", version |-> caller[c].version,
                         intent |-> caller[c].intent, revision |-> caller[c].revision]
                row == [caller[c] EXCEPT !.at = "answered"]
    <2>2. ASSUME CurrentTask(c), run' = [run EXCEPT ![caller[c].key] = made],
                 caller' = [caller EXCEPT ![c].at = "answered"],
                 UNCHANGED <<ready, version, enabled, module, integrationVars>>
          PROVE  Goal
      <3>1. row \in CallerRows /\ row.at = "answered" /\ made \in RunRows /\ made.version = caller[c].version
        BY <1>0 DEF CallerRows, RunRows
      <3>2. caller' = [caller EXCEPT ![c] = row]
        BY <2>2
      <3>. HIDE DEF row, made
      <3>3. AdmissionRows'
        BY <1>0, <2>2, <3>1, <3>2 DEF AdmissionKept, AdmissionRows, CatalogTypeOK, integrationVars
      <3>4. \A v \in Versions : References(v)' => References(v) \/ v = caller[c].version
        BY <1>0, <2>2, <3>1 DEF References
      <3>5. version' = version /\ version[caller[c].version].status = "PUBLISHED"
        BY <2>2 DEF CurrentTask, Runnable
      <3>6. PublishedPassed' /\ UsedVersionKept'
        BY <3>4, <3>5, ReferencesHold DEF AdmissionKept
      <3>7. \A d \in Callers : d # c => caller'[d] = caller[d]
        BY <3>2
      <3>8. caller'[c].at = "answered"
        BY <1>0, <3>1, <3>2
      <3>. QED
        BY <3>3, <3>6, <3>7, <3>8 DEF AdmissionKept, Goal
    <2>3. Moves(c, "conflict") \/ (KeyTaken(c) /\ Moves(c, Replay(c))) \/ (~KeyTaken(c) /\ Moves(c, "refused"))
          \/ (/\ CurrentTask(c) /\ run' = [run EXCEPT ![caller[c].key] = made]
              /\ caller' = [caller EXCEPT ![c].at = "answered"]
              /\ UNCHANGED <<ready, version, enabled, module, integrationVars>>)
      BY <1>11 DEF Insert
    <2>. QED
      BY <2>1, <2>2, <2>3
  <1>. QED
    BY <1>4, <1>6, <1>7, <1>8, <1>9, <1>10, <1>11 DEF CallerStep

\* Every step of the admission of tasks.
LEMMA AdmissionNextKeeps ==
  ASSUME AdmissionKept, [AdmissionNext]_admissionVars
  PROVE  /\ AdmissionKept'
         /\ \A d \in Callers : caller'[d].at = "refused" /\ caller[d].at # "refused" =>
              ~(KeyTaken(d) /\ SameRequest(d))
  <1>1. CASE CatalogNext /\ UNCHANGED <<integrationVars, caller>>
    BY <1>1, CatalogKeeps
  <1>2. CASE IntegrationNext /\ UNCHANGED <<catalogVars, caller>>
    <2>1. integration' \in IntegrationRows
      <3>0. integration \in IntegrationRows
        BY DEF AdmissionKept, AdmissionRows
      <3>1. CASE integration' = integration
        BY <3>0, <3>1
      <3>2. CASE integration' = [integration EXCEPT !.revision = @ + 1]
        BY <3>0, <3>2 DEF IntegrationRows
      <3>3. CASE integration' = [status |-> "DISABLED", revision |-> integration.revision + 1]
        BY <3>0, <3>3 DEF IntegrationRows
      <3>. QED
        BY <1>2, <3>1, <3>2, <3>3 DEF IntegrationNext, ReadIntegration, PutResourceBinding,
                  UpdateIntegration, DisableIntegration, DisableSecretReference
    <2>. QED
      BY <1>2, <2>1 DEF AdmissionKept, AdmissionRows, CatalogTypeOK, PublishedPassed, UsedVersionKept,
                        References, catalogVars
  <1>3. CASE \E c \in Callers : CallerStep(c)
    BY <1>3, CallerKeeps
  <1>4. ASSUME NEW k \in RunKeys, PurgeRun(k)
        PROVE  AdmissionKept' /\ caller' = caller
    <2>. DEFINE row == [NoRun EXCEPT !.state = "purged"]
    <2>1. row \in RunRows /\ row.version = NoVersion
      BY DEF NoRun, RunRows
    <2>2. run' = [run EXCEPT ![k] = row] /\ UNCHANGED <<ready, version, enabled, module, integrationVars, caller>>
      BY <1>4 DEF PurgeRun
    <2>. HIDE DEF row
    <2>3. \A v \in Versions : References(v)' => References(v)
      BY <2>1, <2>2, CatalogAssumption DEF AdmissionKept, AdmissionRows, References
    <2>4. PublishedPassed' /\ UsedVersionKept'
      BY <2>2, <2>3, ReferencesHold DEF AdmissionKept
    <2>. QED
      BY <2>1, <2>2, <2>4 DEF AdmissionKept, AdmissionRows, CatalogTypeOK, integrationVars
  <1>5. CASE UNCHANGED admissionVars
    BY <1>5 DEF AdmissionKept, AdmissionRows, CatalogTypeOK, PublishedPassed, UsedVersionKept, References,
                admissionVars, catalogVars, integrationVars
  <1>6. UNCHANGED admissionVars => caller' = caller
    BY DEF admissionVars
  <1>. QED
    BY <1>1, <1>2, <1>3, <1>4, <1>5, <1>6 DEF AdmissionNext

\* No version, no module, no Run.
LEMMA AdmissionStarts ==
  ASSUME AdmissionInit
  PROVE  AdmissionKept
  <1>1. /\ Unborn \in [status : {"none", "DRAFT", "PUBLISHED", "DEPRECATED", "deleted"},
                       of : Interpretations \cup {NoVersion}, passed : BOOLEAN]
        /\ Unborn.status = "none" /\ NoRun \in RunRows /\ NoRun.version = NoVersion
    BY DEF Unborn, NoRun, RunRows
  <1>2. Waiting \in CallerRows
    BY DEF Waiting, CallerRows
  <1>3. /\ ready = {} /\ version = [v \in Versions |-> Unborn] /\ enabled = [v \in Versions |-> "never"]
        /\ module = [m \in Modules |-> {}] /\ run = [k \in RunKeys |-> NoRun]
        /\ caller = [c \in Callers |-> Waiting] /\ integration \in IntegrationRows
    BY DEF AdmissionInit, CatalogInit, IntegrationInit, IntegrationRows
  <1>4. AdmissionRows
    BY <1>1, <1>2, <1>3 DEF AdmissionRows, CatalogTypeOK
  <1>5. PublishedPassed /\ UsedVersionKept
    BY <1>1, <1>3, CatalogAssumption DEF PublishedPassed, UsedVersionKept, References
  <1>. QED
    BY <1>4, <1>5 DEF AdmissionKept

\* Versions, what refers to them and the callers, whatever runs in between.
THEOREM AdmissionInductive == AdmissionSpec => []AdmissionKept
  <1>1. AdmissionKept /\ [AdmissionNext]_admissionVars => AdmissionKept'
    BY AdmissionNextKeeps
  <1>. QED
    BY <1>1, AdmissionStarts, PTL DEF AdmissionSpec

\* A caller is refused only while no Run of its own request exists (create_task_run of the route
\* and of the service).
THEOREM RefusedHonestly == AdmissionSpec => RefusedOnlyWithoutRun
  <1>1. AdmissionKept /\ [AdmissionNext]_admissionVars =>
          [\A c \in Callers : caller'[c].at = "refused" /\ caller[c].at # "refused" =>
             ~(KeyTaken(c) /\ SameRequest(c))]_admissionVars
    BY AdmissionNextKeeps
  <1>. QED
    BY <1>1, AdmissionInductive, PTL DEF AdmissionSpec, RefusedOnlyWithoutRun


-----------------------------------------------------------------------------
(* The requests to interpret a source (SkillInterpretation), for any requests, *)
(* worker slots and keys.                                                    *)

Calling == {"RUNNING", "UNKNOWN", "REVOKED"}
AskRows ==
  [status : Active \cup RequestSettled \cup {"none"}, key : ExecutionKeys \cup {NoOne},
   owner : Jobs \cup {NoOne}, calls : Seq({"granted", "returned"}), stored : BOOLEAN]
JobRows ==
  [at : {"idle", "claimed", "unprepared", "finishing", "ready", "denied", "calling"},
   request : Requests \cup {NoOne}, ordinal : Nat,
   outcome : {"none", "unsafe", "reused", "invalid", "valid"}]
Interpreted == [ExecutionKeys -> {"none", "PREVIEW_READY", "FAILED"}]

(* A row: who owns it was given it; what it stored backs its status.           *)
AskKept(row, stored) ==
  /\ row.owner # NoOne => row.status \notin {"none", "QUEUED"}
  /\ row.status # "none" => row.key \in ExecutionKeys
  /\ Len(row.calls) <= MaxCandidateRepairs + 1
  /\ row.stored => /\ row.status \in {"SUCCEEDED", "FAILED"}
                   /\ \A i \in DOMAIN row.calls : row.calls[i] = "returned"
                   /\ stored[row.key] # "none"
                   /\ row.status = "SUCCEEDED" => stored[row.key] = "PREVIEW_READY"
                   /\ stored[row.key] = "PREVIEW_READY" => row.status = "SUCCEEDED"

(* A worker slot that is busy owns its request; one that calls the model has   *)
(* the last of the calls granted to itself.                                   *)
JobFits(w, j, rows) ==
  w.at # "idle" =>
    /\ w.request \in Requests /\ rows[w.request].owner = j
    /\ w.at \in {"claimed", "ready", "calling"} => w.ordinal <= MaxCandidateRepairs
    /\ w.at = "calling" => /\ Len(rows[w.request].calls) = w.ordinal + 1
                           /\ rows[w.request].status \in Calling

AsksKept ==
  /\ request \in [Requests -> AskRows] /\ job \in [Jobs -> JobRows] /\ interpretation \in Interpreted
  /\ \A q \in Requests : AskKept(request[q], interpretation)
  /\ \A j \in Jobs : JobFits(job[j], j, request)

SettledStays ==
  \A q \in Requests : request[q].status \in RequestSettled =>
    request'[q].status = request[q].status /\ request'[q].stored = request[q].stored
StoredStays == \A k \in ExecutionKeys : interpretation[k] # "none" => interpretation'[k] = interpretation[k]

\* One row moves, and with it at most one worker slot.
LEMMA OneRowMoves ==
  ASSUME AsksKept, NEW q \in Requests, request' \in [Requests -> AskRows],
         \A p \in Requests : p # q => request'[p] = request[p],
         interpretation' \in Interpreted, StoredStays, AskKept(request'[q], interpretation'),
         NEW mover \in Jobs \cup {NoOne}, job' \in [Jobs -> JobRows],
         \A i \in Jobs : i # mover => job'[i] = job[i],
         \A i \in Jobs : i = mover => JobFits(job'[i], i, request'),
         \/ request[q].owner \in {mover, NoOne}
         \/ /\ request'[q].owner = request[q].owner /\ request'[q].calls = request[q].calls
            /\ request[q].status \in Calling => request'[q].status \in Calling,
         request[q].status \in RequestSettled =>
           request'[q].status = request[q].status /\ request'[q].stored = request[q].stored
  PROVE  AsksKept' /\ SettledStays
  <1>1. ASSUME NEW p \in Requests
        PROVE  AskKept(request'[p], interpretation')
    <2>1. CASE p = q
      BY <2>1
    <2>2. CASE p # q
      <3>1. AskKept(request[p], interpretation) /\ request'[p] = request[p]
        BY <2>2 DEF AsksKept
      <3>2. request[p].status # "none" => interpretation[request[p].key] = "none" \/
              interpretation'[request[p].key] = interpretation[request[p].key]
        BY <3>1 DEF AskKept, StoredStays
      <3>. QED
        BY <3>1, <3>2 DEF AskKept
    <2>. QED
      BY <2>1, <2>2
  <1>2. ASSUME NEW i \in Jobs
        PROVE  JobFits(job'[i], i, request')
    <2>1. CASE i = mover
      BY <2>1
    <2>2. CASE i # mover
      <3>1. JobFits(job[i], i, request) /\ job'[i] = job[i] /\ i # NoOne
        BY <2>2, SkillAssumption DEF AsksKept
      <3>2. CASE job[i].request = q
        BY <2>2, <3>1, <3>2 DEF JobFits
      <3>3. CASE job[i].request # q
        BY <3>1, <3>3 DEF JobFits
      <3>. QED
        BY <3>2, <3>3
    <2>. QED
      BY <2>1, <2>2
  <1>3. SettledStays
    BY DEF SettledStays
  <1>. QED
    BY <1>1, <1>2, <1>3 DEF AsksKept

\* The same, with the row that is written.
LEMMA RowMoves ==
  ASSUME AsksKept, NEW q \in Requests, NEW row, row \in AskRows, request' = [request EXCEPT ![q] = row],
         interpretation' \in Interpreted, StoredStays, AskKept(row, interpretation'),
         NEW mover \in Jobs \cup {NoOne}, job' \in [Jobs -> JobRows],
         \A i \in Jobs : i # mover => job'[i] = job[i],
         \A i \in Jobs : i = mover => JobFits(job'[i], i, request'),
         \/ request[q].owner \in {mover, NoOne}
         \/ /\ row.owner = request[q].owner /\ row.calls = request[q].calls
            /\ request[q].status \in Calling => row.status \in Calling,
         request[q].status \in RequestSettled =>
           row.status = request[q].status /\ row.stored = request[q].stored
  PROVE  AsksKept' /\ SettledStays
  <1>1. /\ request' \in [Requests -> AskRows] /\ request'[q] = row
        /\ \A p \in Requests : p # q => request'[p] = request[p]
    BY DEF AsksKept
  <1>. QED
    BY <1>1, OneRowMoves

\* Only a worker slot moves.
LEMMA JobMoves ==
  ASSUME AsksKept, NEW j \in Jobs, NEW w, w \in JobRows, job' = [job EXCEPT ![j] = w],
         JobFits(w, j, request), UNCHANGED <<request, interpretation>>
  PROVE  AsksKept' /\ SettledStays
  <1>1. job \in [Jobs -> JobRows] /\ job' \in [Jobs -> JobRows]
    BY DEF AsksKept
  <1>2. \A i \in Jobs : JobFits(job'[i], i, request')
    BY <1>1 DEF AsksKept
  <1>. QED
    BY <1>1, <1>2 DEF AsksKept, SettledStays

\* What a revoked row keeps.
LEMMA RevokedKeeps ==
  ASSUME NEW r, r \in AskRows, AskKept(r, interpretation)
  PROVE  /\ Revoked(r) \in AskRows /\ AskKept(Revoked(r), interpretation)
         /\ Revoked(r).owner = r.owner /\ Revoked(r).calls = r.calls
         /\ r.status \in Calling => Revoked(r).status \in Calling
         /\ r.status \in RequestSettled => Revoked(r).status = r.status /\ Revoked(r).stored = r.stored
  <1>1. CASE r.status \notin Active
    BY <1>1 DEF Revoked
  <1>2. CASE r.status \in Active
    <2>. DEFINE row == [r EXCEPT !.status = "REVOKED"]
    <2>1. /\ row \in AskRows /\ row.status = "REVOKED" /\ row.owner = r.owner /\ row.calls = r.calls
          /\ row.key = r.key /\ row.stored = r.stored
      BY DEF AskRows, RequestSettled
    <2>2. Revoked(r) = row
      BY <1>2 DEF Revoked
    <2>3. r.status # "none" /\ r.status \notin RequestSettled /\ ~r.stored
      BY <1>2 DEF Active, RequestSettled, AskKept
    <2>4. AskKept(row, interpretation)
      BY <2>1, <2>3 DEF AskKept
    <2>. HIDE DEF row
    <2>. QED
      BY <2>1, <2>2, <2>3, <2>4 DEF Calling
  <1>. QED
    BY <1>1, <1>2

\* A transaction that only checks the session, and the slot that goes on to "denied" or ends.
LEMMA RefusedKeeps ==
  ASSUME AsksKept, NEW q \in Requests,
         Refused(q) \/ request' = [request EXCEPT ![q] = Revoked(request[q])],
         NEW j \in Jobs, NEW w, w \in JobRows, job' = [job EXCEPT ![j] = w],
         w.at = "idle" \/ (w.at = "denied" /\ w.request = job[j].request /\ job[j].at # "idle"),
         UNCHANGED interpretation
  PROVE  AsksKept' /\ SettledStays
  <1>. DEFINE row == IF signedIn /\ Refused(q) THEN request[q] ELSE Revoked(request[q])
  <1>1. /\ request \in [Requests -> AskRows] /\ job \in [Jobs -> JobRows] /\ interpretation \in Interpreted
        /\ request[q] \in AskRows /\ AskKept(request[q], interpretation)
        /\ JobFits(job[j], j, request)
    BY DEF AsksKept
  <1>2. request' = [request EXCEPT ![q] = row]
    BY <1>1 DEF Refused
  <1>3. /\ row \in AskRows /\ AskKept(row, interpretation)
        /\ row.owner = request[q].owner /\ row.calls = request[q].calls
        /\ request[q].status \in Calling => row.status \in Calling
        /\ request[q].status \in RequestSettled => row.status = request[q].status /\ row.stored = request[q].stored
    BY <1>1, RevokedKeeps
  <1>. HIDE DEF row
  <1>4. \A p \in Requests : request'[p].owner = request[p].owner
    BY <1>1, <1>2, <1>3
  <1>5. JobFits(w, j, request')
    BY <1>1, <1>4 DEF JobFits
  <1>6. job' \in [Jobs -> JobRows] /\ job'[j] = w /\ \A i \in Jobs : i # j => job'[i] = job[i]
    BY <1>1
  <1>7. StoredStays /\ interpretation' \in Interpreted /\ AskKept(row, interpretation')
    BY <1>1, <1>3 DEF StoredStays
  <1>8. j \in Jobs \cup {NoOne} /\ \A i \in Jobs : i = j => JobFits(job'[i], i, request')
    BY <1>5, <1>6
  <1>9. \/ request[q].owner \in {j, NoOne}
        \/ /\ row.owner = request[q].owner /\ row.calls = request[q].calls
           /\ request[q].status \in Calling => row.status \in Calling
    BY <1>3
  <1>. QED
    <2>1. /\ request' \in [Requests -> AskRows] /\ request'[q] = row
          /\ \A p \in Requests : p # q => request'[p] = request[p]
      BY <1>1, <1>2, <1>3
    <2>. QED
      BY <1>3, <1>6, <1>7, <1>8, <1>9, <2>1, OneRowMoves

\* What a request and its busy slot are at the start of a step.
LEMMA AskAndJob ==
  ASSUME AsksKept, NEW j \in Jobs, job[j].at # "idle"
  PROVE  /\ job[j].request \in Requests /\ request[job[j].request] \in AskRows
         /\ AskKept(request[job[j].request], interpretation) /\ JobFits(job[j], j, request)
         /\ job[j] \in JobRows /\ request[job[j].request].owner = j
         /\ job \in [Jobs -> JobRows] /\ request \in [Requests -> AskRows] /\ interpretation \in Interpreted
  BY DEF AsksKept, JobFits

\* A busy slot goes on without its request.
LEMMA SlotGoes ==
  ASSUME AsksKept, NEW j \in Jobs, job[j].at # "idle",
         NEW at \in {"unprepared", "finishing", "denied"},
         NEW outcome \in {"none", "unsafe", "reused", "invalid", "valid"},
         job' = [job EXCEPT ![j] = [job[j] EXCEPT !.at = at, !.outcome = outcome]],
         UNCHANGED <<request, interpretation>>
  PROVE  AsksKept' /\ SettledStays
  <1>. DEFINE w == [job[j] EXCEPT !.at = at, !.outcome = outcome]
  <1>0. job[j] \in JobRows
    BY AskAndJob
  <1>1. w \in JobRows /\ w.at = at /\ w.request = job[j].request /\ w.ordinal = job[j].ordinal
    BY <1>0 DEF JobRows
  <1>2. job' = [job EXCEPT ![j] = w]
    OBVIOUS
  <1>. HIDE DEF w
  <1>3. JobFits(w, j, request)
    BY <1>1, AskAndJob DEF JobFits
  <1>. QED
    BY <1>1, <1>2, <1>3, JobMoves

\* A slot's own request moves with it.
LEMMA OwnMoves ==
  ASSUME AsksKept, NEW j \in Jobs, job[j].at # "idle",
         NEW row, row \in AskRows, request' = [request EXCEPT ![job[j].request] = row],
         row.owner = j, request[job[j].request].status \notin RequestSettled \/
           (row.status = request[job[j].request].status /\ row.stored = request[job[j].request].stored),
         interpretation' \in Interpreted, StoredStays, AskKept(row, interpretation'),
         NEW w, w \in JobRows, job' = [job EXCEPT ![j] = w],
         w.at = "idle" \/ w.request = job[j].request,
         w.at \in {"claimed", "ready", "calling"} => w.ordinal <= MaxCandidateRepairs,
         w.at = "calling" => Len(row.calls) = w.ordinal + 1 /\ row.status \in Calling
  PROVE  AsksKept' /\ SettledStays
  <1>0. PICK q \in Requests : q = job[j].request
    BY AskAndJob
  <1>1. request'[q] = row /\ q = job[j].request /\ request[q].owner = j
    BY <1>0, AskAndJob
  <1>2. job' \in [Jobs -> JobRows] /\ job'[j] = w /\ \A i \in Jobs : i # j => job'[i] = job[i]
    BY AskAndJob
  <1>3. JobFits(w, j, request')
    BY <1>1 DEF JobFits
  <1>4. request' = [request EXCEPT ![q] = row]
    BY <1>0
  <1>5. j \in Jobs \cup {NoOne} /\ \A i \in Jobs : i = j => JobFits(job'[i], i, request')
    BY <1>2, <1>3
  <1>6. request[q].owner \in {j, NoOne}
    BY <1>1
  <1>7. request[q].status \in RequestSettled =>
          row.status = request[q].status /\ row.stored = request[q].stored
    BY <1>0
  <1>. QED
    <2>1. /\ request' \in [Requests -> AskRows] /\ request'[q] = row
          /\ \A p \in Requests : p # q => request'[p] = request[p]
      BY <1>0, <1>4, AskAndJob
    <2>2. AskKept(request'[q], interpretation')
      BY <2>1
    <2>3. request[q].status \in RequestSettled =>
            request'[q].status = request[q].status /\ request'[q].stored = request[q].stored
      BY <1>7, <2>1
    <2>4. \A i \in Jobs : i # j => job'[i] = job[i]
      BY <1>2
    <2>. QED
      BY <1>2, <1>5, <1>6, <2>1, <2>2, <2>3, <2>4, OneRowMoves

\* Nothing stored changes.
LEMMA StoredSame ==
  ASSUME AsksKept, UNCHANGED interpretation
  PROVE  interpretation' \in Interpreted /\ StoredStays /\ interpretation' = interpretation
  BY DEF AsksKept, StoredStays

\* A session that expires in the transaction revokes the row it changed.
LEMMA LateRow ==
  ASSUME NEW r, r \in AskRows, ~r.stored, r.key \in ExecutionKeys, Len(r.calls) <= MaxCandidateRepairs + 1,
         NEW stored, r.owner # NoOne => r.status \notin {"none", "QUEUED"}
  PROVE  LET row == [r EXCEPT !.status = "REVOKED"] IN
         /\ row \in AskRows /\ row.status = "REVOKED" /\ row.owner = r.owner /\ row.calls = r.calls
         /\ row.stored = r.stored /\ AskKept(row, stored) /\ AskKept(r, stored)
  <1>. DEFINE row == [r EXCEPT !.status = "REVOKED"]
  <1>1. /\ row \in AskRows /\ row.status = "REVOKED" /\ row.owner = r.owner /\ row.calls = r.calls
        /\ row.key = r.key /\ row.stored = r.stored
    BY DEF AskRows, RequestSettled
  <1>. HIDE DEF row
  <1>2. AskKept(row, stored) /\ AskKept(r, stored)
    BY <1>1 DEF AskKept
  <1>. QED
    BY <1>1, <1>2 DEF row

\* Claiming a request.
LEMMA ClaimRequestKeeps ==
  ASSUME AsksKept, NEW j \in Jobs, NEW q \in Requests, NEW late \in BOOLEAN, Claim(j, q, late)
  PROVE  AsksKept' /\ SettledStays
  <1>0. /\ request \in [Requests -> AskRows] /\ job \in [Jobs -> JobRows] /\ request[q] \in AskRows
        /\ AskKept(request[q], interpretation) /\ UNCHANGED interpretation /\ job[j] = IdleJob
        /\ IdleJob \in JobRows /\ IdleJob.at = "idle"
    BY DEF AsksKept, Claim, IdleJob, JobRows
  <1>1. CASE signedIn /\ Claimable(request[q].status)
    <2>. DEFINE changed == [request[q] EXCEPT !.status = "RUNNING", !.owner = j]
                taken == [IdleJob EXCEPT !.at = "claimed", !.request = q]
    <2>1. /\ request[q].status = "QUEUED" /\ request[q].owner = NoOne /\ ~request[q].stored
          /\ request[q].key \in ExecutionKeys /\ Len(request[q].calls) <= MaxCandidateRepairs + 1
      BY <1>0, <1>1 DEF Claimable, AskKept
    <2>2. /\ changed \in AskRows /\ changed.status = "RUNNING" /\ changed.owner = j
          /\ changed.calls = request[q].calls /\ changed.key = request[q].key /\ changed.stored = request[q].stored
      BY <1>0 DEF AskRows, Active
    <2>3. taken \in JobRows /\ taken.at = "claimed" /\ taken.request = q /\ taken.ordinal <= MaxCandidateRepairs
      <3>1. IdleJob \in JobRows /\ IdleJob.ordinal = 0
        BY DEF IdleJob, JobRows
      <3>2. taken \in JobRows /\ taken.at = "claimed" /\ taken.request = q /\ taken.ordinal = 0
        BY <3>1 DEF JobRows
      <3>. QED
        BY <3>2 DEF MaxCandidateRepairs
    <2>. DEFINE failed == [request[q] EXCEPT !.status = "FAILED"]
    <2>10. /\ failed \in AskRows /\ failed.owner = request[q].owner /\ failed.calls = request[q].calls
           /\ failed.key = request[q].key /\ failed.stored = request[q].stored /\ failed.status = "FAILED"
      BY <1>0 DEF AskRows, RequestSettled
    <2>4. \/ /\ request' = [request EXCEPT ![q] = IF late THEN [changed EXCEPT !.status = "REVOKED"] ELSE changed]
             /\ job' = IF late THEN job ELSE [job EXCEPT ![j] = taken]
          \/ request' = [request EXCEPT ![q] = failed] /\ job' = job
      BY <1>0, <1>1 DEF Claim, Authorized
    <2>. HIDE DEF changed, taken, failed
    <2>5. /\ [changed EXCEPT !.status = "REVOKED"] \in AskRows
          /\ [changed EXCEPT !.status = "REVOKED"].owner = j
          /\ AskKept([changed EXCEPT !.status = "REVOKED"], interpretation) /\ AskKept(changed, interpretation)
      BY <2>1, <2>2, LateRow
    <2>6. interpretation' \in Interpreted /\ StoredStays /\ interpretation' = interpretation
      BY <1>0, StoredSame
    <2>7. request[q].status \notin RequestSettled
      BY <2>1 DEF RequestSettled
    <2>11. CASE request' = [request EXCEPT ![q] = failed] /\ job' = job
      <3>1. AskKept(failed, interpretation')
        BY <2>1, <2>6, <2>10 DEF AskKept
      <3>2. JobFits(job'[j], j, request') /\ job' \in [Jobs -> JobRows]
        BY <1>0, <2>11 DEF JobFits
      <3>3. /\ j \in Jobs \cup {NoOne} /\ \A i \in Jobs : i = j => JobFits(job'[i], i, request')
            /\ \A i \in Jobs : i # j => job'[i] = job[i]
        BY <2>11, <3>2
      <3>. QED
        BY <2>1, <2>6, <2>7, <2>10, <2>11, <3>1, <3>2, <3>3, RowMoves
    <2>8. CASE late /\ ~(request' = [request EXCEPT ![q] = failed] /\ job' = job)
      <3>. DEFINE row == [changed EXCEPT !.status = "REVOKED"]
      <3>1. /\ row \in AskRows /\ AskKept(row, interpretation') /\ request' = [request EXCEPT ![q] = row]
            /\ job' = job
        BY <2>4, <2>5, <2>6, <2>8
      <3>2. JobFits(job'[j], j, request') /\ job' \in [Jobs -> JobRows]
        BY <1>0, <3>1 DEF JobFits
      <3>. HIDE DEF row
      <3>. QED
        BY <2>1, <2>6, <2>7, <3>1, <3>2, RowMoves
    <2>9. CASE ~late /\ ~(request' = [request EXCEPT ![q] = failed] /\ job' = job)
      <3>1. request' = [request EXCEPT ![q] = changed] /\ job' = [job EXCEPT ![j] = taken]
        BY <2>4, <2>9
      <3>2. /\ job' \in [Jobs -> JobRows] /\ job'[j] = taken /\ \A i \in Jobs : i # j => job'[i] = job[i]
            /\ request'[q] = changed
        BY <1>0, <2>3, <3>1
      <3>3. JobFits(taken, j, request')
        BY <2>2, <2>3, <3>2 DEF JobFits
      <3>4. AskKept(changed, interpretation')
        BY <2>5, <2>6
      <3>5. j \in Jobs \cup {NoOne} /\ \A i \in Jobs : i = j => JobFits(job'[i], i, request')
        BY <3>2, <3>3
      <3>6. request[q].owner \in {j, NoOne}
        BY <2>1
      <3>. QED
        BY <2>2, <2>6, <2>7, <3>1, <3>2, <3>4, <3>5, <3>6, RowMoves
    <2>. QED
      BY <2>8, <2>9, <2>11
  <1>2. CASE ~(signedIn /\ Claimable(request[q].status))
    <2>1. Refused(q) /\ job' = job
      BY <1>2 DEF Claim
    <2>2. job' = [job EXCEPT ![j] = IdleJob]
      BY <1>0, <2>1
    <2>. QED
      BY <1>0, <2>1, <2>2, RefusedKeeps
  <1>. QED
    BY <1>1, <1>2

\* A transaction of the worker on its request is refused, and the slot is denied or ends.
LEMMA DeniedKeeps ==
  ASSUME AsksKept, NEW j \in Jobs, job[j].at # "idle",
         Refused(job[j].request) \/
           request' = [request EXCEPT ![job[j].request] = Revoked(request[job[j].request])],
         Goes(j, "denied") \/ Ends(j), UNCHANGED interpretation
  PROVE  AsksKept' /\ SettledStays
  <1>0. PICK q \in Requests : q = job[j].request
    BY AskAndJob
  <1>1. CASE Goes(j, "denied")
    <2>. DEFINE w == [job[j] EXCEPT !.at = "denied"]
    <2>1. w \in JobRows /\ w.at = "denied" /\ w.request = job[j].request
      BY AskAndJob DEF JobRows
    <2>2. job' = [job EXCEPT ![j] = w]
      BY <1>1 DEF Goes
    <2>. HIDE DEF w
    <2>. QED
      BY <1>0, <2>1, <2>2, RefusedKeeps
  <1>2. CASE Ends(j)
    <2>1. IdleJob \in JobRows /\ IdleJob.at = "idle"
      BY DEF IdleJob, JobRows
    <2>. QED
      BY <1>0, <1>2, <2>1, RefusedKeeps DEF Ends
  <1>. QED
    BY <1>1, <1>2

\* A transaction of the worker that is granted, in which the session may expire, changes the
\* row to changed and the slot to w, or to "denied" or its end when it expired.
LEMMA GrantedKeeps ==
  ASSUME AsksKept, NEW j \in Jobs, job[j].at # "idle", NEW late \in BOOLEAN,
         NEW changed, changed \in AskRows, changed.owner = j, ~changed.stored,
         changed.key \in ExecutionKeys, changed.status \notin {"none", "QUEUED"},
         Len(changed.calls) <= MaxCandidateRepairs + 1, ~request[job[j].request].stored,
         signedIn, Authorized(job[j].request, late, changed),
         request[job[j].request].status \notin RequestSettled \/
           (request[job[j].request].status = "REVOKED" /\ changed.status = "REVOKED"),
         UNCHANGED interpretation,
         NEW w, w \in JobRows, job' = [job EXCEPT ![j] = w], w.at = "idle" \/ w.request = job[j].request,
         w.at \in {"claimed", "ready", "calling"} => w.ordinal <= MaxCandidateRepairs,
         w.at = "calling" => ~late /\ Len(changed.calls) = w.ordinal + 1 /\ changed.status \in Calling
  PROVE  AsksKept' /\ SettledStays
  <1>0. PICK q \in Requests : q = job[j].request
    BY AskAndJob
  <1>1. /\ [changed EXCEPT !.status = "REVOKED"] \in AskRows
        /\ [changed EXCEPT !.status = "REVOKED"].owner = j
        /\ [changed EXCEPT !.status = "REVOKED"].status = "REVOKED"
        /\ [changed EXCEPT !.status = "REVOKED"].stored = changed.stored
        /\ AskKept([changed EXCEPT !.status = "REVOKED"], interpretation) /\ AskKept(changed, interpretation)
    BY LateRow
  <1>2. interpretation' \in Interpreted /\ StoredStays /\ interpretation' = interpretation
    BY StoredSame
  <1>3. request[job[j].request].stored = FALSE /\ changed.stored = FALSE
    BY <1>0, AskAndJob DEF AskRows
  <1>4. CASE late
    <2>. DEFINE row == [changed EXCEPT !.status = "REVOKED"]
    <2>1. row \in AskRows /\ row.owner = j /\ row.status = "REVOKED" /\ AskKept(row, interpretation')
          /\ row.stored = FALSE
      BY <1>1, <1>2, <1>3
    <2>2. request' = [request EXCEPT ![job[j].request] = row]
      BY <1>4 DEF Authorized
    <2>. HIDE DEF row
    <2>. QED
      BY <1>2, <1>3, <1>4, <2>1, <2>2, OwnMoves
  <1>5. CASE ~late
    <2>1. request' = [request EXCEPT ![job[j].request] = changed] /\ AskKept(changed, interpretation')
      BY <1>1, <1>2, <1>5 DEF Authorized
    <2>. QED
      BY <1>2, <1>3, <1>5, <2>1, OwnMoves
  <1>. QED
    BY <1>4, <1>5

\* fail_before_call
LEMMA FailBeforeCallKeeps ==
  ASSUME AsksKept, NEW j \in Jobs, NEW late \in BOOLEAN, FailBeforeCall(j, late)
  PROVE  AsksKept' /\ SettledStays
  <1>. DEFINE q == job[j].request
  <1>0. job[j].at = "unprepared" /\ UNCHANGED interpretation
    BY DEF FailBeforeCall
  <1>1. CASE signedIn /\ request[q].status = "RUNNING" /\ Owns(j) /\ request[q].calls = <<>>
    <2>. DEFINE changed == [request[q] EXCEPT !.status = "FAILED"]
                w == IF late THEN [job[j] EXCEPT !.at = "denied"] ELSE IdleJob
    <2>1. /\ request[q] \in AskRows /\ AskKept(request[q], interpretation) /\ request[q].owner = j
          /\ job[j] \in JobRows /\ job \in [Jobs -> JobRows]
      BY <1>0, AskAndJob
    <2>2. ~request[q].stored /\ request[q].key \in ExecutionKeys /\ Len(request[q].calls) <= MaxCandidateRepairs + 1
      BY <1>1, <2>1 DEF AskKept
    <2>3. /\ changed \in AskRows /\ changed.status = "FAILED" /\ changed.owner = j /\ ~changed.stored
          /\ changed.key \in ExecutionKeys /\ Len(changed.calls) <= MaxCandidateRepairs + 1
      BY <2>1, <2>2 DEF AskRows, RequestSettled
    <2>4. w \in JobRows /\ w.at \in {"idle", "denied"} /\ (w.at = "idle" \/ w.request = job[j].request)
      BY <2>1 DEF JobRows, IdleJob
    <2>5. Authorized(job[j].request, late, changed) /\ job' = [job EXCEPT ![j] = w]
      BY <1>1, <2>1 DEF FailBeforeCall
    <2>6. request[q].status \notin RequestSettled
      BY <1>1 DEF RequestSettled
    <2>. HIDE DEF changed, w
    <2>. QED
      BY <1>0, <1>1, <2>2, <2>3, <2>4, <2>5, <2>6, GrantedKeeps
  <1>2. CASE ~(signedIn /\ request[q].status = "RUNNING" /\ Owns(j) /\ request[q].calls = <<>>)
    BY <1>0, <1>2, DeniedKeeps DEF FailBeforeCall
  <1>. QED
    BY <1>1, <1>2

\* start_call
LEMMA StartCallKeeps ==
  ASSUME AsksKept, NEW j \in Jobs, NEW late \in BOOLEAN, StartCall(j, late)
  PROVE  AsksKept' /\ SettledStays
  <1>. DEFINE q == job[j].request
  <1>0. job[j].at = "ready" /\ UNCHANGED interpretation
    BY DEF StartCall
  <1>1. CASE signedIn /\ MayCall(j)
    <2>. DEFINE changed == [request[q] EXCEPT !.calls = Append(@, "granted")]
                w == [job[j] EXCEPT !.at = IF late THEN "denied" ELSE "calling"]
    <2>1. /\ request[q] \in AskRows /\ AskKept(request[q], interpretation) /\ request[q].owner = j
          /\ job[j] \in JobRows /\ job \in [Jobs -> JobRows] /\ JobFits(job[j], j, request)
      BY <1>0, AskAndJob
    <2>2. /\ request[q].status = "RUNNING" /\ ~request[q].stored /\ request[q].key \in ExecutionKeys
          /\ Len(request[q].calls) = job[j].ordinal /\ job[j].ordinal <= MaxCandidateRepairs
      BY <1>0, <1>1, <2>1 DEF AskKept, MayCall, JobFits
    <2>3. request[q].calls \in Seq({"granted", "returned"}) /\ job[j].ordinal \in Nat
      BY <2>1 DEF AskRows, JobRows
    <2>4. /\ Append(request[q].calls, "granted") \in Seq({"granted", "returned"})
          /\ Len(Append(request[q].calls, "granted")) = job[j].ordinal + 1
      BY <2>2, <2>3
    <2>5. /\ changed \in AskRows /\ changed.status = "RUNNING" /\ changed.owner = j /\ ~changed.stored
          /\ changed.key \in ExecutionKeys /\ changed.calls = Append(request[q].calls, "granted")
      BY <2>1, <2>2, <2>4 DEF AskRows
    <2>6. Len(changed.calls) = job[j].ordinal + 1 /\ Len(changed.calls) <= MaxCandidateRepairs + 1
      BY <2>2, <2>3, <2>4, <2>5 DEF MaxCandidateRepairs
    <2>7. /\ w \in JobRows /\ w.at \in {"denied", "calling"} /\ w.request = job[j].request
          /\ w.ordinal = job[j].ordinal /\ (w.at = "calling" => ~late)
      BY <2>1 DEF JobRows
    <2>8. Authorized(job[j].request, late, changed) /\ job' = [job EXCEPT ![j] = w]
      BY <1>1, <2>1 DEF StartCall, Goes
    <2>9. request[q].status \notin RequestSettled /\ changed.status \in Calling
      BY <2>2, <2>5 DEF RequestSettled, Calling
    <2>. HIDE DEF changed, w
    <2>. QED
      BY <1>0, <1>1, <2>2, <2>5, <2>6, <2>7, <2>8, <2>9, GrantedKeeps
  <1>2. CASE ~(signedIn /\ MayCall(j))
    BY <1>0, <1>2, DeniedKeeps DEF StartCall
  <1>. QED
    BY <1>1, <1>2

\* record_return
LEMMA RecordReturnKeeps ==
  ASSUME AsksKept, NEW j \in Jobs, NEW late \in BOOLEAN, NEW outcome \in ModelAnswers,
         RecordReturn(j, outcome, late)
  PROVE  AsksKept' /\ SettledStays
  <1>. DEFINE q == job[j].request
              next == IF NeedsRepair(j, outcome) THEN "ready" ELSE "finishing"
              found == IF outcome = "valid" THEN "valid" ELSE "invalid"
              w == [job[j] EXCEPT !.at = next, !.ordinal = @ + 1, !.outcome = found]
              changed == [request[q] EXCEPT !.calls[job[j].ordinal + 1] = "returned"]
  <1>0. /\ job[j].at = "calling" /\ UNCHANGED interpretation
        /\ request' = [request EXCEPT ![q] = IF signedIn /\ ~late THEN changed ELSE Revoked(changed)]
        /\ job' = [job EXCEPT ![j] = w]
    BY AskAndJob DEF RecordReturn
  <1>1. /\ request[q] \in AskRows /\ AskKept(request[q], interpretation) /\ request[q].owner = j
        /\ job[j] \in JobRows /\ job \in [Jobs -> JobRows] /\ JobFits(job[j], j, request)
        /\ q \in Requests /\ request \in [Requests -> AskRows] /\ interpretation \in Interpreted
    BY <1>0, AskAndJob
  <1>2. /\ request[q].status \in Calling /\ ~request[q].stored /\ request[q].key \in ExecutionKeys
        /\ Len(request[q].calls) = job[j].ordinal + 1 /\ Len(request[q].calls) <= MaxCandidateRepairs + 1
    BY <1>0, <1>1 DEF AskKept, JobFits, Calling
  <1>3. /\ w \in JobRows /\ w.at \in {"ready", "finishing"} /\ w.request = job[j].request
        /\ w.ordinal = job[j].ordinal + 1 /\ (w.at = "ready" => job[j].ordinal < MaxCandidateRepairs)
    <2>1. /\ next \in {"ready", "finishing"} /\ found \in {"valid", "invalid"}
          /\ (next = "ready" => job[j].ordinal < MaxCandidateRepairs)
      BY DEF NeedsRepair
    <2>. HIDE DEF next, found
    <2>2. job[j] \in JobRows /\ job[j].ordinal \in Nat
      BY <1>1 DEF JobRows
    <2>3. job[j].ordinal + 1 \in Nat
      BY <2>2
    <2>4. w = [job[j] EXCEPT !.at = next, !.ordinal = job[j].ordinal + 1, !.outcome = found]
      BY <2>2 DEF JobRows
    <2>. HIDE DEF w
    <2>5. w \in JobRows
      BY <2>1, <2>2, <2>3, <2>4 DEF JobRows
    <2>6. w.at = next /\ w.ordinal = job[j].ordinal + 1 /\ w.request = job[j].request
      BY <2>2, <2>4 DEF JobRows
    <2>. QED
      BY <2>1, <2>5, <2>6
  <1>4. w.at = "ready" => w.ordinal <= MaxCandidateRepairs
    BY <1>1, <1>3 DEF JobRows, MaxCandidateRepairs
  <1>5. /\ changed \in AskRows /\ changed.owner = j /\ changed.status = request[q].status
        /\ ~changed.stored /\ AskKept(changed, interpretation)
    <2>. DEFINE calls == [request[q].calls EXCEPT ![job[j].ordinal + 1] = "returned"]
    <2>1. request[q].calls \in Seq({"granted", "returned"}) /\ job[j].ordinal \in Nat
      BY <1>1 DEF AskRows, JobRows
    <2>2. calls \in Seq({"granted", "returned"}) /\ Len(calls) = Len(request[q].calls)
      BY <1>2, <2>1
    <2>3. changed = [request[q] EXCEPT !.calls = calls]
      BY <1>1 DEF AskRows
    <2>. HIDE DEF calls
    <2>4. /\ changed \in AskRows /\ changed.status = request[q].status /\ changed.owner = j /\ ~changed.stored
          /\ changed.key = request[q].key /\ changed.calls = calls
      BY <1>1, <1>2, <2>2, <2>3 DEF AskRows
    <2>. HIDE DEF changed
    <2>. QED
      BY <1>1, <1>2, <2>2, <2>4 DEF AskKept
  <1>. DEFINE row == IF signedIn /\ ~late THEN changed ELSE Revoked(changed)
  <1>6. /\ row \in AskRows /\ AskKept(row, interpretation) /\ row.owner = j
        /\ request[q].status \in RequestSettled =>
             row.status = request[q].status /\ row.stored = request[q].stored
    <2>. HIDE DEF changed
    <2>1. /\ Revoked(changed) \in AskRows /\ AskKept(Revoked(changed), interpretation)
          /\ Revoked(changed).owner = j
          /\ changed.status \in RequestSettled =>
               Revoked(changed).status = changed.status /\ Revoked(changed).stored = changed.stored
      BY <1>5, RevokedKeeps
    <2>2. changed.stored = FALSE /\ request[q].stored = FALSE
      BY <1>1, <1>2, <1>5 DEF AskRows
    <2>. QED
      BY <1>5, <2>1, <2>2
  <1>7. interpretation' \in Interpreted /\ StoredStays /\ interpretation' = interpretation
    BY <1>0, StoredSame
  <1>8. request' = [request EXCEPT ![q] = row]
    BY <1>0
  <1>9. request[q].status \notin RequestSettled \/
          (row.status = request[q].status /\ row.stored = request[q].stored)
    BY <1>6
  <1>10. job[j].at # "idle" /\ w.at # "calling"
    BY <1>0, <1>3
  <1>11. AskKept(row, interpretation') /\ (w.at \in {"claimed", "ready", "calling"} => w.ordinal <= MaxCandidateRepairs)
    BY <1>3, <1>4, <1>6, <1>7
  <1>. HIDE DEF row, w, changed
  <1>. QED
    BY <1>0, <1>3, <1>6, <1>7, <1>8, <1>9, <1>10, <1>11, OwnMoves

\* finish
LEMMA FinishKeeps ==
  ASSUME AsksKept, NEW j \in Jobs, NEW late \in BOOLEAN, Finish(j, late)
  PROVE  AsksKept' /\ SettledStays
  <1>. DEFINE q == job[j].request
  <1>0. job[j].at = "finishing"
    BY DEF Finish
  <1>1. /\ request[q] \in AskRows /\ AskKept(request[q], interpretation) /\ request[q].owner = j
        /\ job[j] \in JobRows /\ job \in [Jobs -> JobRows] /\ interpretation \in Interpreted
        /\ q \in Requests /\ request \in [Requests -> AskRows]
    BY <1>0, AskAndJob
  <1>2. CASE ~(signedIn /\ ResultAccepted(j)) \/ late
    BY <1>0, <1>2, DeniedKeeps DEF Finish
  <1>3. CASE signedIn /\ ResultAccepted(j) /\ ~late
    <2>. DEFINE k == request[q].key
                kept == Saved(k, job[j].outcome)
                status == StatusOfStored(k, job[j].outcome)
                row == [request[q] EXCEPT !.stored = TRUE, !.status = status]
    <2>1. /\ request[q].status \in {"RUNNING", "UNKNOWN"} /\ k \in ExecutionKeys
          /\ \A i \in DOMAIN request[q].calls : request[q].calls[i] = "returned"
          /\ Len(request[q].calls) <= MaxCandidateRepairs + 1
      BY <1>1, <1>3 DEF ResultAccepted, RequestAcceptable, AskKept, CallsReturned
    <2>2. /\ request' = [request EXCEPT ![q] = row] /\ interpretation' = [interpretation EXCEPT ![k] = kept]
          /\ job' = [job EXCEPT ![j] = IdleJob]
      BY <1>1, <1>3 DEF Finish, Ends, KeyOf
    <2>3. /\ kept \in {"PREVIEW_READY", "FAILED"} /\ status \in {"SUCCEEDED", "FAILED"}
          /\ interpretation[k] # "none" => kept = interpretation[k]
          /\ status = "SUCCEEDED" => kept = "PREVIEW_READY"
          /\ kept = "PREVIEW_READY" => status = "SUCCEEDED"
      BY <1>1, <2>1 DEF Saved, StatusOfStored, Interpreted
    <2>. HIDE DEF kept, status
    <2>4. /\ row \in AskRows /\ row.owner = j /\ row.key = k /\ row.status = status
          /\ row.calls = request[q].calls
      BY <1>1, <2>3 DEF AskRows, RequestSettled
    <2>5. interpretation' \in Interpreted /\ StoredStays /\ interpretation'[k] = kept
      BY <1>1, <2>1, <2>2, <2>3 DEF Interpreted, StoredStays
    <2>. HIDE DEF row, k
    <2>6. AskKept(row, interpretation')
      BY <2>1, <2>3, <2>4, <2>5 DEF AskKept
    <2>7. IdleJob \in JobRows /\ IdleJob.at = "idle"
      BY DEF IdleJob, JobRows
    <2>8. request[q].status \notin RequestSettled
      BY <2>1 DEF RequestSettled
    <2>. QED
      BY <1>0, <2>2, <2>4, <2>5, <2>6, <2>7, <2>8, OwnMoves
  <1>. QED
    BY <1>2, <1>3

\* mark_unknown
LEMMA MarkUnknownKeeps ==
  ASSUME AsksKept, NEW j \in Jobs, MarkUnknown(j)
  PROVE  AsksKept' /\ SettledStays
  <1>. DEFINE q == job[j].request
  <1>0. job[j].at = "denied" /\ UNCHANGED interpretation /\ job' = [job EXCEPT ![j] = IdleJob]
    BY DEF MarkUnknown, Ends
  <1>1. CASE signedIn /\ request[q].status = "RUNNING" /\ Owns(j)
    <2>. DEFINE row == [request[q] EXCEPT !.status = "UNKNOWN"]
    <2>1. /\ request[q] \in AskRows /\ AskKept(request[q], interpretation) /\ request[q].owner = j
          /\ q \in Requests /\ request \in [Requests -> AskRows]
      BY <1>0, AskAndJob
    <2>2. request' = [request EXCEPT ![q] = row]
      BY <1>1 DEF MarkUnknown
    <2>3. /\ row \in AskRows /\ row.owner = j /\ row.status = "UNKNOWN" /\ row.key = request[q].key
          /\ row.calls = request[q].calls /\ row.stored = request[q].stored
      BY <2>1 DEF AskRows, Active
    <2>4. interpretation' \in Interpreted /\ StoredStays /\ interpretation' = interpretation
      BY <1>0, StoredSame
    <2>. HIDE DEF row
    <2>5. AskKept(row, interpretation')
      BY <1>1, <2>1, <2>3, <2>4 DEF AskKept
    <2>6. IdleJob \in JobRows /\ IdleJob.at = "idle" /\ request[q].status \notin RequestSettled
      BY <1>1 DEF IdleJob, JobRows, RequestSettled
    <2>. QED
      BY <1>0, <2>2, <2>3, <2>4, <2>5, <2>6, OwnMoves
  <1>2. CASE ~(signedIn /\ request[q].status = "RUNNING" /\ Owns(j))
    BY <1>0, <1>2, DeniedKeeps DEF MarkUnknown
  <1>. QED
    BY <1>1, <1>2

\* The sweep, and a request that is accepted: no slot moves.
LEMMA UnownedMoves ==
  ASSUME AsksKept, NEW q \in Requests, RecoverUnknown(q) \/ \E forced \in BOOLEAN : Accept(q, forced)
  PROVE  AsksKept' /\ SettledStays
  <1>0. /\ request \in [Requests -> AskRows] /\ request[q] \in AskRows /\ AskKept(request[q], interpretation)
        /\ job \in [Jobs -> JobRows] /\ UNCHANGED interpretation /\ job' = job
        /\ NoOne \notin Jobs
    BY SkillAssumption DEF AsksKept, RecoverUnknown, Accept
  <1>1. interpretation' \in Interpreted /\ StoredStays /\ interpretation' = interpretation
    BY <1>0, StoredSame
  <1>4. /\ NoOne \in Jobs \cup {NoOne} /\ job' \in [Jobs -> JobRows]
        /\ \A i \in Jobs : i # NoOne => job'[i] = job[i]
        /\ \A i \in Jobs : i = NoOne => JobFits(job'[i], i, request')
    BY <1>0
  <1>2. CASE RecoverUnknown(q)
    <2>. DEFINE kept == IF signedIn THEN "UNKNOWN" ELSE "REVOKED"
                row == [request[q] EXCEPT !.status = kept]
    <2>1. request' = [request EXCEPT ![q] = row] /\ request[q].status = "RUNNING"
      BY <1>2 DEF RecoverUnknown
    <2>2. kept \in {"UNKNOWN", "REVOKED"}
      OBVIOUS
    <2>. HIDE DEF kept
    <2>3. /\ row \in AskRows /\ row.owner = request[q].owner /\ row.status = kept /\ row.key = request[q].key
          /\ row.calls = request[q].calls /\ row.stored = request[q].stored
      BY <1>0, <2>2 DEF AskRows, Active, RequestSettled
    <2>. HIDE DEF row
    <2>4. AskKept(row, interpretation')
      BY <1>0, <1>1, <2>1, <2>2, <2>3 DEF AskKept
    <2>5. request[q].status \notin RequestSettled /\ row.status \in Calling
      BY <2>1, <2>2, <2>3 DEF RequestSettled, Calling
    <2>. QED
      BY <1>0, <1>1, <1>4, <2>1, <2>3, <2>4, <2>5, RowMoves
  <1>3. CASE \E forced \in BOOLEAN : Accept(q, forced)
    <2>0. PICK k \in ExecutionKeys :
            /\ request[q] = NoRequest
            /\ request' = [request EXCEPT ![q] = [NoRequest EXCEPT !.status = "QUEUED", !.key = k]]
      BY <1>3 DEF Accept, RequestKeys, ExecutionKeys
    <2>. DEFINE row == [NoRequest EXCEPT !.status = "QUEUED", !.key = k]
    <2>1. /\ row \in AskRows /\ row.owner = NoOne /\ row.status = "QUEUED" /\ row.key = k
          /\ Len(row.calls) <= MaxCandidateRepairs + 1 /\ row.stored = FALSE
      <3>1. /\ NoRequest \in AskRows /\ NoRequest.owner = NoOne /\ NoRequest.calls = <<>>
            /\ NoRequest.stored = FALSE
        BY DEF NoRequest, AskRows
      <3>2. Len(NoRequest.calls) <= MaxCandidateRepairs + 1
        BY <3>1 DEF MaxCandidateRepairs
      <3>. QED
        BY <3>1, <3>2 DEF AskRows, Active
    <2>2. request[q].owner = NoOne /\ request[q].status \notin RequestSettled
      BY <2>0 DEF NoRequest, RequestSettled
    <2>3. request' = [request EXCEPT ![q] = row]
      BY <2>0
    <2>. HIDE DEF row
    <2>4. AskKept(row, interpretation')
      BY <2>1 DEF AskKept
    <2>. QED
      BY <1>0, <1>1, <1>4, <2>1, <2>2, <2>3, <2>4, RowMoves
  <1>. QED
    BY <1>2, <1>3

\* Every step of the requests.
LEMMA SkillNextKeeps ==
  ASSUME AsksKept, [SkillNext]_skillVars
  PROVE  AsksKept' /\ SettledStays
  <1>0. job \in [Jobs -> JobRows]
    BY DEF AsksKept
  <1>1. ASSUME UNCHANGED <<request, job, interpretation>>
        PROVE  AsksKept' /\ SettledStays
    BY <1>1 DEF AsksKept, SettledStays
  <1>2. CASE Expire \/ ImportStep \/ UNCHANGED skillVars
    BY <1>1, <1>2 DEF Expire, ImportStep, BeginImport, PutSourceFile, SaveSource, AbandonImport, skillVars
  <1>3. CASE \E q \in Requests : RecoverUnknown(q) \/ \E forced \in BOOLEAN : Accept(q, forced)
    BY <1>3, UnownedMoves
  <1>4. ASSUME NEW k \in SourceKeys, NEW outcome \in {"valid", "fatal"}, InterpretDirectly(k, outcome)
        PROVE  AsksKept' /\ SettledStays
    <2>. DEFINE kept == Saved(k, outcome)
    <2>1. kept \in {"PREVIEW_READY", "FAILED"} /\ interpretation[k] = "none" /\ k \in ExecutionKeys
      BY <1>4 DEF Saved, InterpretDirectly, ExecutionKeys
    <2>2. interpretation' = [interpretation EXCEPT ![k] = kept] /\ UNCHANGED <<request, job>>
      BY <1>4 DEF InterpretDirectly
    <2>. HIDE DEF kept
    <2>3. interpretation' \in Interpreted /\ \A o \in ExecutionKeys : o # k => interpretation'[o] = interpretation[o]
      BY <2>1, <2>2 DEF AsksKept, Interpreted
    <2>4. ASSUME NEW q \in Requests
          PROVE  AskKept(request[q], interpretation')
      <3>1. AskKept(request[q], interpretation)
        BY DEF AsksKept
      <3>. QED
        BY <2>1, <2>3, <3>1 DEF AskKept
    <2>5. SettledStays
      BY <2>2 DEF SettledStays
    <2>6. \A i \in Jobs : JobFits(job'[i], i, request')
      BY <2>2 DEF AsksKept
    <2>7. \A q \in Requests : AskKept(request'[q], interpretation')
      BY <2>2, <2>4
    <2>. QED
      BY <2>2, <2>3, <2>5, <2>6, <2>7 DEF AsksKept
  <1>5. ASSUME NEW j \in Jobs, JobStep(j)
        PROVE  AsksKept' /\ SettledStays
    <2>1. CASE \E q \in Requests, late \in BOOLEAN : Claim(j, q, late)
      BY <2>1, ClaimRequestKeeps
    <2>2. CASE PrepareFails(j) \/ UnsafeSource(j) \/ RejectBeforeCall(j) \/ Interrupted(j)
      <3>. DEFINE at == IF PrepareFails(j) THEN "unprepared" ELSE IF Interrupted(j) THEN "denied" ELSE "finishing"
      <3>1. /\ job[j].at # "idle" /\ UNCHANGED <<request, interpretation>> /\ job[j] \in JobRows
            /\ \E next \in {"unprepared", "denied", "finishing"},
                  outcome \in {"none", "unsafe", "reused", "invalid", "valid"} :
                 job' = [job EXCEPT ![j] = [job[j] EXCEPT !.at = next, !.outcome = outcome]]
        <4>1. job[j] \in JobRows
          BY <1>0
        <4>2. job[j] = [job[j] EXCEPT !.outcome = job[j].outcome] /\ job[j].outcome \in {"none", "unsafe", "reused", "invalid", "valid"}
          BY <4>1 DEF JobRows
        <4>3. \A next : [job[j] EXCEPT !.at = next] = [job[j] EXCEPT !.at = next, !.outcome = job[j].outcome]
          BY <4>1 DEF JobRows
        <4>4. CASE PrepareFails(j)
          BY <1>0, <4>1, <4>2, <4>3, <4>4 DEF PrepareFails, Goes
        <4>5. CASE Interrupted(j)
          BY <1>0, <4>1, <4>2, <4>3, <4>5 DEF Interrupted, Goes
        <4>6. CASE UnsafeSource(j)
          BY <1>0, <4>1, <4>6 DEF UnsafeSource
        <4>7. CASE RejectBeforeCall(j)
          BY <1>0, <4>1, <4>7 DEF RejectBeforeCall
        <4>. QED
          BY <2>2, <4>4, <4>5, <4>6, <4>7
      <3>. QED
        BY <3>1, SlotGoes
    <2>3. CASE PrepareLaunch(j)
      <3>0. job[j].at = "claimed" /\ UNCHANGED <<request, interpretation>> /\ job[j] \in JobRows
        BY <1>0, <2>3 DEF PrepareLaunch
      <3>1. CASE Goes(j, "ready")
        <4>. DEFINE w == [job[j] EXCEPT !.at = "ready"]
        <4>1. w \in JobRows /\ w.at = "ready" /\ w.request = job[j].request /\ w.ordinal = job[j].ordinal
          BY <3>0 DEF JobRows
        <4>2. job' = [job EXCEPT ![j] = w]
          BY <3>1 DEF Goes
        <4>. HIDE DEF w
        <4>3. JobFits(w, j, request)
          BY <3>0, <4>1, AskAndJob DEF JobFits
        <4>. QED
          BY <3>0, <4>1, <4>2, <4>3, JobMoves
      <3>2. CASE job' = [job EXCEPT ![j].at = "finishing", ![j].outcome = "reused"]
        <4>1. job' = [job EXCEPT ![j] = [job[j] EXCEPT !.at = "finishing", !.outcome = "reused"]]
          BY <1>0, <3>2
        <4>. QED
          BY <3>0, <4>1, SlotGoes
      <3>. QED
        BY <2>3, <3>1, <3>2 DEF PrepareLaunch
    <2>4. CASE \E late \in BOOLEAN : FailBeforeCall(j, late) \/ StartCall(j, late) \/ Finish(j, late)
      BY <2>4, FailBeforeCallKeeps, StartCallKeeps, FinishKeeps
    <2>5. CASE \E outcome \in ModelAnswers, late \in BOOLEAN : RecordReturn(j, outcome, late)
      BY <2>5, RecordReturnKeeps
    <2>6. CASE MarkUnknown(j)
      BY <2>6, MarkUnknownKeeps
    <2>7. CASE WorkerDies(j)
      <3>1. IdleJob \in JobRows /\ JobFits(IdleJob, j, request)
        BY DEF IdleJob, JobRows, JobFits
      <3>. QED
        BY <2>7, <3>1, JobMoves DEF WorkerDies, Ends
    <2>. QED
      BY <1>5, <2>1, <2>2, <2>3, <2>4, <2>5, <2>6, <2>7 DEF JobStep
  <1>. QED
    BY <1>2, <1>3, <1>4, <1>5 DEF SkillNext

\* Nothing asked, nobody at work, nothing stored.
LEMMA SkillStarts ==
  ASSUME SkillInit
  PROVE  AsksKept
  <1>1. /\ NoRequest \in AskRows /\ NoRequest.owner = NoOne /\ NoRequest.status = "none" /\ NoRequest.stored = FALSE
        /\ Len(NoRequest.calls) <= MaxCandidateRepairs + 1
    BY DEF NoRequest, AskRows, MaxCandidateRepairs
  <1>2. IdleJob \in JobRows /\ IdleJob.at = "idle"
    BY DEF IdleJob, JobRows
  <1>3. /\ request = [q \in Requests |-> NoRequest] /\ job = [j \in Jobs |-> IdleJob]
        /\ interpretation = [k \in ExecutionKeys |-> "none"]
    BY DEF SkillInit
  <1>4. AskKept(NoRequest, interpretation)
    BY <1>1 DEF AskKept
  <1>. QED
    BY <1>1, <1>2, <1>3, <1>4 DEF AsksKept, Interpreted, JobFits

\* The requests, the worker slots and what is stored, whatever expires, dies or is delivered again.
THEOREM SkillsInductive == SkillSpec => []AsksKept
  <1>1. AsksKept /\ [SkillNext]_skillVars => AsksKept'
    BY SkillNextKeeps
  <1>. QED
    BY <1>1, SkillStarts, PTL DEF SkillSpec

\* One call of the model at a time for a request, two at most, and none for a request that has
\* its answer; a stored result has its calls answered and the status of what is stored.
LEMMA AsksAreSound ==
  ASSUME AsksKept
  PROVE  OneCallAtATime /\ OutcomeBacked
  <1>1. ASSUME NEW q \in Requests
        PROVE  LET calling == {j \in Jobs : job[j].request = q /\ job[j].at = "calling"} IN
               /\ Cardinality(calling) <= 1
               /\ Len(request[q].calls) <= MaxCandidateRepairs + 1
               /\ calling # {} => request[q].status \in {"RUNNING", "UNKNOWN", "REVOKED"}
    <2>. DEFINE calling == {j \in Jobs : job[j].request = q /\ job[j].at = "calling"}
    <2>1. \A j \in calling : request[q].owner = j /\ request[q].status \in Calling
      BY DEF AsksKept, JobFits
    <2>2. Len(request[q].calls) <= MaxCandidateRepairs + 1
      BY DEF AsksKept, AskKept
    <2>. HIDE DEF calling
    <2>3. CASE calling = {}
      <3>1. Cardinality(calling) = 0
        BY <2>3, FS_EmptySet
      <3>. QED
        BY <2>2, <2>3, <3>1 DEF calling
    <2>4. CASE calling # {}
      <3>1. calling = {request[q].owner}
        BY <2>1, <2>4
      <3>2. Cardinality(calling) = 1
        BY <3>1, FS_Singleton
      <3>. QED
        BY <2>1, <2>2, <2>4, <3>2 DEF calling, Calling
    <2>. QED
      BY <2>3, <2>4
  <1>2. OneCallAtATime
    BY <1>1 DEF OneCallAtATime
  <1>3. OutcomeBacked
    BY DEF AsksKept, AskKept, OutcomeBacked, CallsReturned
  <1>. QED
    BY <1>2, <1>3

\* A settled request stays as it is (claim, start_call, finish, recover_unknown).
THEOREM RequestsStaySettled == SkillSpec => RequestSettledForGood
  <1>1. AsksKept /\ [SkillNext]_skillVars =>
          [\A q \in Requests : request[q].status \in RequestSettled =>
             /\ request'[q].status = request[q].status
             /\ request'[q].stored = request[q].stored]_skillVars
    BY SkillNextKeeps DEF SettledStays
  <1>. QED
    BY <1>1, SkillsInductive, PTL DEF SkillSpec, RequestSettledForGood

-----------------------------------------------------------------------------
(* From a candidate to a published task (SkillDesign), for any candidates,     *)
(* capabilities and deployments.                                             *)

CapabilitySets == SUBSET (Capabilities \cup Platform \cup Withdrawn)
DesignRows ==
  [manifest : {Manifest(c) : c \in Candidates}, catalog : CapabilitySets, parent : Nat,
   scope : SUBSET Anything]
AskingRows ==
  [attempt : {0, 1, 2}, catalog : CapabilitySets, parent : Nat, scope : SUBSET Anything,
   before : SUBSET Candidates, mayEdit : SUBSET Anything]
DraftManifests == {Restamped(Manifest(c), i) : c \in Candidates, i \in 1..MaxDesigns} \cup {{}}
DraftRows ==
  [status : {"none", "DRAFT", "PUBLISHED"}, passed : BOOLEAN, catalog : CapabilitySets,
   manifest : DraftManifests]

(* The part of a manifest that a new identity leaves alone.                    *)
SameTask(m, n) ==
  /\ m.kind = n.kind /\ m.contract = n.contract /\ m.schema = n.schema /\ m.tools = n.tools
  /\ m.resources = n.resources /\ m.intents = n.intents /\ m.prerequisite = n.prerequisite
  /\ m.flagged = n.flagged
OnlyNativeWrites(m) == m.kind # "native" => m.intents = {}

(* A saved design passed the gate when it was accepted, and kept to its scope.  *)
DesignKept(i) ==
  /\ Publishable(design[i].manifest, design[i].catalog)
  /\ design[i].scope # Anything =>
       /\ design[i].parent \in 1..Len(design)
       /\ Changed(LaunchContract(design[design[i].parent].manifest), LaunchContract(design[i].manifest))
            \subseteq design[i].scope

(* A draft passed as its capabilities were registered; what is published       *)
(* passed.                                                                   *)
DraftKept(d, i) ==
  d.status # "none" =>
    /\ OnlyNativeWrites(d.manifest)
    /\ d.passed => BindingsKnown(d.manifest, d.catalog)
    /\ BindingsKnown(d.manifest, d.catalog) => d.passed
    /\ d.status = "PUBLISHED" => Gate(d.manifest, i, d.catalog)

DesignsKept ==
  /\ registered \in CapabilitySets /\ asking \in AskingRows /\ design \in Seq(DesignRows)
  /\ drafted \in [1..MaxDesigns -> DraftRows]
  /\ asking.scope # Anything => asking.parent \in 1..Len(design)
  /\ \A i \in 1..Len(design) : DesignKept(i)
  /\ \A i \in 1..MaxDesigns : DraftKept(drafted[i], i)

(* FirstProblem when no check fails.                                         *)
NoPlace == ""

\* A place is not that.
LEMMA Places ==
  "candidate" # NoPlace /\ "input_contract" # NoPlace /\ "resource_requirements" # NoPlace
  BY Zenon DEF NoPlace

\* The first check that fails is reported, so no report means that none fails.
LEMMA NoneFails ==
  ASSUME NEW Checks, NEW checks \in Seq(Checks), \A t \in Checks : t.at # NoPlace,
         FirstProblem(checks) = NoPlace
  PROVE  \A i \in 1..Len(checks) : checks[i].ok
  <1>. DEFINE failed == {i \in 1..Len(checks) : ~checks[i].ok}
  <1>1. SUFFICES ASSUME NEW i \in 1..Len(checks), ~checks[i].ok
                 PROVE  FALSE
    OBVIOUS
  <1>2. failed \subseteq 1..Len(checks) /\ failed # {}
    BY <1>1
  <1>3. FirstProblem(checks) = IF failed = {} THEN NoPlace ELSE checks[Min(failed)].at
    BY Zenon DEF FirstProblem, NoPlace
  <1>. HIDE DEF failed
  <1>6. failed \subseteq Nat /\ Len(checks) \in Nat
    BY <1>2
  <1>4. Min(failed) \in failed
    BY <1>2, <1>6, MinIsLeast
  <1>5. Min(failed) \in 1..Len(checks)
    BY <1>2, <1>4
  <1>7. checks[Min(failed)] \in Checks
    BY <1>5
  <1>. QED
    BY <1>2, <1>3, <1>7

\* The checks of compile_candidate name a place.
LEMMA CompiledChecks ==
  ASSUME NEW c
  PROVE  /\ \E S : CompileDirect(c) \in Seq(S) /\ \A t \in S : t.at # NoPlace
         /\ \E S : CompileNative(c) \in Seq(S) /\ \A t \in S : t.at # NoPlace
  <1>1. \E S : CompileDirect(c) \in Seq(S) /\ \A t \in S : t.at # NoPlace
    <2>. DEFINE a == [ok |-> c.contract # "not_an_object", at |-> "input_contract"]
                b == [ok |-> c.sourced, at |-> "resource_requirements"]
                d == [ok |-> \A r \in DOMAIN c.resources : ~c.resources[r].misfit, at |-> "resource_requirements"]
    <2>1. CompileDirect(c) = <<a, b, d>>
      BY DEF CompileDirect
    <2>2. a.at # NoPlace /\ b.at # NoPlace /\ d.at # NoPlace
      BY Places
    <2>. HIDE DEF a, b, d
    <2>. DEFINE S == {a, b, d}
    <2>3. a \in S /\ b \in S /\ d \in S /\ \A t \in S : t.at # NoPlace
      BY <2>2
    <2>. HIDE DEF S
    <2>4. <<a, b, d>> \in Seq(S)
      BY <2>3
    <2>. QED
      BY <2>1, <2>3, <2>4
  <1>2. \E S : CompileNative(c) \in Seq(S) /\ \A t \in S : t.at # NoPlace
    <2>. DEFINE a == [ok |-> c.sourced, at |-> "candidate"]
                b == [ok |-> c.traced, at |-> "candidate"]
    <2>1. CompileNative(c) = <<a, b>>
      BY DEF CompileNative
    <2>2. a.at # NoPlace /\ b.at # NoPlace
      BY Places
    <2>. HIDE DEF a, b
    <2>. DEFINE S == {a, b}
    <2>3. a \in S /\ b \in S /\ \A t \in S : t.at # NoPlace
      BY <2>2
    <2>. HIDE DEF S
    <2>4. <<a, b>> \in Seq(S)
      BY <2>3
    <2>. QED
      BY <2>1, <2>3, <2>4
  <1>. QED
    BY <1>1, <1>2

\* An answer with no problem is one that could be published, and kept to its scope.
LEMMA NoProblem ==
  ASSUME NEW c \in Candidates, Problem(c) = NoPlace
  PROVE  Publishable(Manifest(c), asking.catalog) /\ ScopeRespected(c)
  <1>. DEFINE r1 == [ok |-> RepairRespected(c), at |-> "candidate"]
              s == IF c.kind = "direct" THEN CompileDirect(c) ELSE CompileNative(c)
              r2 == [ok |-> ContractCompiles(c.contract),
                     at |-> IF c.kind = "direct" THEN "input_contract" ELSE "candidate"]
              r3 == [ok |-> c.kind = "native" => BlueprintValid(Manifest(c)), at |-> "candidate"]
              r4 == [ok |-> Publishable(Manifest(c), asking.catalog), at |-> "candidate"]
              r5 == [ok |-> ScopeRespected(c), at |-> "candidate"]
              last == s \o <<r2, r3, r4>>
              front == <<r1>> \o last
              checks == front \o <<r5>>
  <1>1. FirstProblem(checks) = NoPlace
    <2>1. Problem(c) = FirstProblem(<<r1>> \o RunChecks(c, asking.catalog) \o <<r5>>)
      BY DEF Problem
    <2>2. RunChecks(c, asking.catalog) = last
      BY DEF RunChecks
    <2>. HIDE DEF r1, r5, last
    <2>. QED
      BY <2>1, <2>2
  <1>2. PICK S : s \in Seq(S) /\ \A t \in S : t.at # NoPlace
    BY CompiledChecks
  <1>3. r1.at # NoPlace /\ r2.at # NoPlace /\ r3.at # NoPlace /\ r4.at # NoPlace /\ r5.at # NoPlace
    BY Places
  <1>4. (r4.ok => Publishable(Manifest(c), asking.catalog)) /\ (r5.ok => ScopeRespected(c))
    OBVIOUS
  <1>. HIDE DEF r1, r2, r3, r4, r5, s
  <1>. DEFINE Checks == {r1, r2, r3, r4, r5} \cup S
  <1>5. \A t \in Checks : t.at # NoPlace
    BY <1>2, <1>3
  <1>6. /\ r1 \in Checks /\ r2 \in Checks /\ r3 \in Checks /\ r4 \in Checks /\ r5 \in Checks
        /\ s \in Seq(Checks) /\ Len(s) \in Nat
    BY <1>2
  <1>. HIDE DEF Checks
  <1>7. last \in Seq(Checks) /\ Len(last) = Len(s) + 3 /\ last[Len(s) + 3] = r4
    BY <1>6
  <1>. HIDE DEF last
  <1>8. front \in Seq(Checks) /\ Len(front) = Len(s) + 4 /\ front[Len(s) + 4] = r4
    BY <1>6, <1>7
  <1>. HIDE DEF front
  <1>9. /\ checks \in Seq(Checks) /\ Len(checks) = Len(s) + 5
        /\ checks[Len(s) + 4] = r4 /\ checks[Len(s) + 5] = r5
    BY <1>6, <1>8
  <1>. HIDE DEF checks
  <1>10. \A i \in 1..Len(checks) : checks[i].ok
    BY <1>1, <1>5, <1>9, NoneFails
  <1>11. Len(s) + 4 \in 1..Len(checks) /\ Len(s) + 5 \in 1..Len(checks)
    BY <1>6, <1>9
  <1>12. checks[Len(s) + 4].ok /\ checks[Len(s) + 5].ok
    BY <1>10, <1>11
  <1>13. r4.ok /\ r5.ok
    BY <1>9, <1>12
  <1>. QED
    BY <1>4, <1>13

\* A manifest as it is compiled, and what its new identity leaves alone.
LEMMA RestampedTask ==
  ASSUME NEW c, NEW i
  PROVE  /\ Manifest(c).id = Placeholder /\ Manifest(c).blueprintId = Placeholder
         /\ OnlyNativeWrites(Manifest(c))
         /\ SameTask(Restamped(Manifest(c), i), Manifest(c)) /\ Restamped(Manifest(c), i).id = i
         /\ Manifest(c).kind = "native" => Restamped(Manifest(c), i).blueprintId = i
  BY DEF Manifest, Restamped, SameTask, OnlyNativeWrites

\* The gate of a draft is the gate of the answer, capabilities apart.
LEMMA RestampedPasses ==
  ASSUME NEW c, NEW i, NEW catalog, Publishable(Manifest(c), catalog), NEW asked
  PROVE  LET m == Restamped(Manifest(c), i) IN
         /\ Gate(m, i, asked) => BindingsKnown(m, asked)
         /\ BindingsKnown(m, asked) => Gate(m, i, asked)
         /\ OnlyNativeWrites(m)
  <1>. DEFINE n == Manifest(c)
              m == Restamped(n, i)
  <1>1. /\ OnlyNativeWrites(n) /\ SameTask(m, n) /\ m.id = i /\ (n.kind = "native" => m.blueprintId = i)
        /\ Publishable(n, catalog)
    BY RestampedTask
  <1>. HIDE DEF m, n
  <1>2. /\ Tools(m) = Tools(n) /\ Declared(m) = Declared(n) /\ Disclosed(m) = Disclosed(n)
        /\ Applies(m) = Applies(n)
    BY <1>1 DEF SameTask, Tools, Declared, Disclosed, Applies
  <1>3. BlueprintValid(n) => BlueprintValid(m)
    BY <1>1, <1>2 DEF BlueprintValid, SameTask, IntentAccepted, PrerequisiteIntent
  <1>4. DesignValid(m, i)
    BY <1>1, <1>3 DEF Publishable, Gate, DesignValid, SameTask
  <1>5. PrerequisiteTool(m) /\ ~m.flagged /\ NoEffectExposed(m) /\ ContractsCompiled(m) /\ ToolsDisclosed(m)
    BY <1>1, <1>2 DEF Publishable, Gate, SameTask, PrerequisiteTool, NoEffectExposed, ContractsCompiled,
                      ToolsDisclosed
  <1>6. OnlyNativeWrites(m)
    BY <1>1 DEF OnlyNativeWrites, SameTask
  <1>. QED
    BY <1>4, <1>5, <1>6 DEF Gate, m, n

\* Nothing is asked.
LEMMA IdleRow == Idle \in AskingRows /\ Idle.scope = Anything
  BY DEF Idle, AskingRows, CapabilitySets

\* The answer is accepted, refused for a repair, or refused for good.
LEMMA AnswersKeep ==
  ASSUME DesignsKept, NEW c \in Candidates, AcceptDesign(c) \/ Repair(c) \/ Fail(c)
  PROVE  DesignsKept'
  <1>0. /\ registered \in CapabilitySets /\ asking \in AskingRows /\ design \in Seq(DesignRows)
        /\ asking.scope # Anything => asking.parent \in 1..Len(design)
        /\ UNCHANGED <<registered, drafted>> /\ Idle \in AskingRows /\ Idle.scope = Anything
    <2>1. Idle \in AskingRows /\ Idle.scope = Anything
      BY IdleRow
    <2>. QED
      BY <2>1 DEF DesignsKept, AcceptDesign, Repair, Fail
  <1>1. ASSUME asking' \in AskingRows, asking'.scope # Anything => asking'.parent \in 1..Len(design'),
               design' \in Seq(DesignRows), \A i \in 1..Len(design') : DesignKept(i)'
        PROVE  DesignsKept'
    BY <1>0, <1>1 DEF DesignsKept
  <1>2. CASE design' = design
    <2>1. \A i \in 1..Len(design') : DesignKept(i)'
      BY <1>2 DEF DesignsKept, DesignKept
    <2>2. CASE asking' = Idle
      BY <1>0, <1>1, <1>2, <2>1, <2>2
    <2>3. CASE Repair(c)
      <3>. DEFINE freed == RepairComponents(c, Problem(c))
                  asked == [asking EXCEPT !.attempt = 2, !.before = {c}, !.mayEdit = freed]
      <3>1. freed \subseteq Anything
        BY DEF RepairComponents, Anything
      <3>5. {c} \in SUBSET Candidates
        OBVIOUS
      <3>. HIDE DEF freed
      <3>2. asked \in AskingRows
        BY <1>0, <3>1, <3>5 DEF AskingRows
      <3>4. asked.scope = asking.scope /\ asked.parent = asking.parent
        BY <1>0 DEF AskingRows
      <3>3. asking' = asked
        BY <2>3 DEF Repair, freed
      <3>. HIDE DEF asked
      <3>. QED
        BY <1>0, <1>1, <1>2, <2>1, <3>2, <3>3, <3>4
    <2>4. CASE AcceptDesign(c)
      BY <1>0, <1>2, <2>2, <2>4 DEF AcceptDesign
    <2>. QED
      BY <2>2, <2>3, <2>4 DEF Fail
  <1>3. CASE AcceptDesign(c)
    <2>. DEFINE row == [manifest |-> Manifest(c), catalog |-> asking.catalog,
                        parent |-> asking.parent, scope |-> asking.scope]
    <2>1. row \in DesignRows /\ row.manifest = Manifest(c) /\ row.catalog = asking.catalog
          /\ row.parent = asking.parent /\ row.scope = asking.scope
      BY <1>0 DEF DesignRows, AskingRows
    <2>2. design' = Append(design, row) /\ asking' = Idle /\ Problem(c) = NoPlace
      BY <1>3, Zenon DEF AcceptDesign, NoPlace
    <2>. HIDE DEF row
    <2>3. /\ design' \in Seq(DesignRows) /\ Len(design') = Len(design) + 1 /\ Len(design) \in Nat
          /\ design'[Len(design) + 1] = row /\ \A i \in 1..Len(design) : design'[i] = design[i]
      <3>1. design \in Seq(DesignRows) /\ row \in DesignRows /\ design' = Append(design, row)
        BY <1>0, <2>1, <2>2
      <3>. QED
        BY <3>1
    <2>4. ASSUME NEW i \in 1..Len(design)
          PROVE  DesignKept(i)'
      <3>1. DesignKept(i) /\ design'[i] = design[i] /\ 1..Len(design) \subseteq 1..Len(design')
        BY <2>3 DEF DesignsKept
      <3>2. design[i].scope # Anything => design'[design[i].parent] = design[design[i].parent]
        BY <2>3, <3>1 DEF DesignKept
      <3>. QED
        BY <3>1, <3>2 DEF DesignKept
    <2>5. ASSUME NEW i, i = Len(design) + 1
          PROVE  DesignKept(i)'
      <3>1. Publishable(Manifest(c), asking.catalog) /\ ScopeRespected(c)
        BY <2>2, NoProblem
      <3>2. asking.scope # Anything =>
              /\ asking.parent \in 1..Len(design') /\ design'[asking.parent] = design[asking.parent]
              /\ Changed(LaunchContract(design[asking.parent].manifest), LaunchContract(Manifest(c)))
                   \subseteq asking.scope
        BY <1>0, <2>3, <3>1 DEF ScopeRespected
      <3>. QED
        BY <2>1, <2>3, <2>5, <3>1, <3>2 DEF DesignKept
    <2>6. \A i \in 1..Len(design') : DesignKept(i)'
      <3>1. \A i \in 1..Len(design') : i \in 1..Len(design) \/ i = Len(design) + 1
        BY <2>3
      <3>. QED
        BY <3>1, <2>4, <2>5
    <2>. QED
      BY <1>0, <1>1, <2>2, <2>3, <2>6
  <1>. QED
    BY <1>2, <1>3 DEF Repair, Fail

\* A draft is made of a saved design, or published.
LEMMA DraftsKeep ==
  ASSUME DesignsKept, NEW i \in 1..MaxDesigns, CreateDraft(i) \/ Publish(i)
  PROVE  DesignsKept'
  <1>0. /\ registered \in CapabilitySets /\ design \in Seq(DesignRows)
        /\ drafted \in [1..MaxDesigns -> DraftRows] /\ UNCHANGED <<registered, asking, design>>
        /\ DraftKept(drafted[i], i) /\ drafted[i] \in DraftRows
    BY DEF DesignsKept, CreateDraft, Publish
  <1>1. ASSUME NEW d, d \in DraftRows, DraftKept(d, i), drafted' = [drafted EXCEPT ![i] = d]
        PROVE  DesignsKept'
    <2>1. drafted' \in [1..MaxDesigns -> DraftRows] /\ \A n \in 1..MaxDesigns : DraftKept(drafted'[n], n)
      BY <1>0, <1>1 DEF DesignsKept
    <2>2. \A n \in 1..Len(design') : DesignKept(n)'
      BY <1>0 DEF DesignsKept, DesignKept
    <2>. QED
      BY <1>0, <2>1, <2>2 DEF DesignsKept
  <1>2. CASE CreateDraft(i)
    <2>1. PICK c \in Candidates : design[i].manifest = Manifest(c)
      <3>1. design[i] \in DesignRows
        BY <1>0, <1>2 DEF CreateDraft
      <3>. QED
        BY <3>1 DEF DesignRows
    <2>2. i \in 1..Len(design) /\ Publishable(Manifest(c), design[i].catalog)
      BY <1>2, <2>1 DEF CreateDraft, DesignsKept, DesignKept
    <2>. DEFINE m == Restamped(Manifest(c), i)
                passes == Gate(m, i, registered)
                row == [status |-> "DRAFT", passed |-> passes, catalog |-> registered, manifest |-> m]
    <2>3. drafted' = [drafted EXCEPT ![i] = row]
      BY <1>2, <2>1 DEF CreateDraft
    <2>4. /\ passes => BindingsKnown(m, registered)
          /\ BindingsKnown(m, registered) => passes
          /\ OnlyNativeWrites(m)
      BY <2>2, RestampedPasses
    <2>5. passes \in BOOLEAN
      BY DEF Gate
    <2>6. m \in DraftManifests
      BY DEF DraftManifests
    <2>. HIDE DEF m, passes
    <2>7. row \in DraftRows /\ row.status = "DRAFT" /\ row.passed = passes /\ row.catalog = registered
          /\ row.manifest = m
      BY <1>0, <2>5, <2>6 DEF DraftRows
    <2>. HIDE DEF row
    <2>8. DraftKept(row, i)
      BY <2>4, <2>7 DEF DraftKept
    <2>. QED
      BY <1>1, <2>3, <2>7, <2>8
  <1>3. CASE Publish(i)
    <2>. DEFINE row == [drafted[i] EXCEPT !.status = "PUBLISHED", !.catalog = registered]
    <2>1. drafted' = [drafted EXCEPT ![i] = row]
      BY <1>0, <1>3 DEF Publish
    <2>2. /\ drafted[i].passed /\ drafted[i].status = "DRAFT" /\ Gate(drafted[i].manifest, i, registered)
      BY <1>3 DEF Publish
    <2>6. row \in DraftRows
      BY <1>0 DEF DraftRows
    <2>7. /\ row.status = "PUBLISHED" /\ row.passed = drafted[i].passed
          /\ row.catalog = registered /\ row.manifest = drafted[i].manifest
      BY <1>0 DEF DraftRows
    <2>. HIDE DEF row
    <2>3. /\ row \in DraftRows /\ row.status = "PUBLISHED" /\ row.passed = drafted[i].passed
          /\ row.catalog = registered /\ row.manifest = drafted[i].manifest
      BY <2>6, <2>7
    <2>4. BindingsKnown(drafted[i].manifest, registered)
      BY <2>2 DEF Gate
    <2>5. DraftKept(row, i)
      BY <1>0, <2>2, <2>3, <2>4 DEF DraftKept
    <2>. QED
      BY <1>1, <2>1, <2>3, <2>5
  <1>. QED
    BY <1>2, <1>3

\* Every step of a design.
LEMMA DesignNextKeeps ==
  ASSUME DesignsKept, [DesignNext]_designVars
  PROVE  DesignsKept'
  <1>0. /\ registered \in CapabilitySets /\ asking \in AskingRows /\ design \in Seq(DesignRows)
        /\ drafted \in [1..MaxDesigns -> DraftRows]
        /\ asking.scope # Anything => asking.parent \in 1..Len(design)
        /\ \A i \in 1..MaxDesigns : DraftKept(drafted[i], i)
    BY DEF DesignsKept
  <1>1. ASSUME UNCHANGED <<design, drafted>>, registered' \in CapabilitySets, asking' \in AskingRows,
               asking'.scope # Anything => asking'.parent \in 1..Len(design)
        PROVE  DesignsKept'
    <2>1. \A i \in 1..Len(design') : DesignKept(i)'
      BY <1>1 DEF DesignsKept, DesignKept
    <2>2. \A i \in 1..MaxDesigns : DraftKept(drafted'[i], i)
      BY <1>0, <1>1
    <2>. QED
      BY <1>0, <1>1, <2>1, <2>2 DEF DesignsKept
  <1>2. CASE Interpret
    <2>. DEFINE asked == [Idle EXCEPT !.attempt = 1, !.catalog = registered]
    <2>2. asked \in AskingRows
      BY <1>0, IdleRow DEF AskingRows
    <2>3. asked.scope = Anything
      BY <1>0 DEF Idle
    <2>1. asked \in AskingRows /\ asked.scope = Anything
      BY <2>2, <2>3
    <2>. QED
      BY <1>0, <1>1, <1>2, <2>1 DEF Interpret
  <1>3. ASSUME NEW parent \in 1..Len(design), NEW scope \in {{p} : p \in Parts} \cup {Anything}, Adjust(parent, scope)
        PROVE  DesignsKept'
    <2>. DEFINE asked == [Idle EXCEPT !.attempt = 1, !.catalog = registered, !.parent = parent, !.scope = scope]
    <2>1. scope \subseteq Anything /\ parent \in Nat
      BY <1>0 DEF Anything
    <2>3. asked \in AskingRows
      BY <1>0, <2>1, IdleRow DEF AskingRows
    <2>4. asked.parent = parent
      BY <1>0 DEF Idle
    <2>2. asked \in AskingRows /\ asked.parent = parent
      BY <2>3, <2>4
    <2>. QED
      BY <1>0, <1>1, <1>3, <2>2 DEF Adjust
  <1>4. CASE DesignAnswered
    BY <1>4, AnswersKeep DEF DesignAnswered
  <1>5. CASE \E i \in 1..MaxDesigns : CreateDraft(i) \/ Publish(i)
    BY <1>5, DraftsKeep
  <1>6. CASE Deploy
    <2>1. registered' \in CapabilitySets
      BY <1>0, <1>6 DEF Deploy, CapabilitySets
    <2>. QED
      BY <1>0, <1>1, <1>6, <2>1 DEF Deploy
  <1>7. CASE (\E c \in Capabilities : Connect(c)) \/ UNCHANGED designVars
    BY <1>0, <1>1, <1>7 DEF Connect, designVars
  <1>. QED
    BY <1>2, <1>3, <1>4, <1>5, <1>6, <1>7 DEF DesignNext

\* Nothing designed.
LEMMA DesignStarts ==
  ASSUME DesignInit
  PROVE  DesignsKept
  <1>1. Idle \in AskingRows /\ Idle.scope = Anything
    BY IdleRow
  <1>2. NoDraft \in DraftRows /\ NoDraft.status = "none"
    BY DEF NoDraft, DraftRows, DraftManifests, CapabilitySets
  <1>3. design = <<>> /\ design \in Seq(DesignRows) /\ Len(design) = 0
    BY DEF DesignInit
  <1>4. drafted \in [1..MaxDesigns -> DraftRows] /\ \A i \in 1..MaxDesigns : drafted[i] = NoDraft
    BY <1>2 DEF DesignInit
  <1>5. \A i \in 1..MaxDesigns : DraftKept(drafted[i], i)
    BY <1>2, <1>4 DEF DraftKept
  <1>6. registered \in CapabilitySets /\ asking = Idle
    BY DEF DesignInit, CapabilitySets
  <1>. QED
    BY <1>1, <1>3, <1>4, <1>5, <1>6 DEF DesignsKept

\* What was saved, drafted and published passed its gate, and kept to its scope.
THEOREM DesignsInductive == DesignSpec => []DesignsKept
  <1>1. DesignsKept /\ [DesignNext]_designVars => DesignsKept'
    BY DesignNextKeeps
  <1>. QED
    BY <1>1, DesignStarts, PTL DEF DesignSpec

\* What a published task may use and write.
LEMMA PublishedIsBounded ==
  ASSUME NEW m, NEW i, NEW catalog, Gate(m, i, catalog), OnlyNativeWrites(m)
  PROVE  /\ AllowedCapabilities(m) \cap Effects = {}
         /\ m.kind = "native" => AllowedCapabilities(m) \ Platform \subseteq Disclosed(m)
         /\ \A e \in Applies(m) :
              /\ Approval(e) = "ask" /\ e.resource \in Declared(m)
              /\ Level(m) = "RUNNABLE" => Serviceable(m, e.resource) \cap connected # {}
  <1>1. AllowedCapabilities(m) \cap Effects = {}
    BY DesignAssumption DEF AllowedCapabilities, Gate, NoEffectExposed
  <1>2. m.kind = "native" => AllowedCapabilities(m) \ Platform \subseteq Disclosed(m)
    BY DEF AllowedCapabilities, Gate, ToolsDisclosed
  <1>3. ASSUME NEW e \in Applies(m)
        PROVE  /\ Approval(e) = "ask" /\ e.resource \in Declared(m)
               /\ Level(m) = "RUNNABLE" => Serviceable(m, e.resource) \cap connected # {}
    <2>1. e \in m.intents /\ e.mode = "apply" /\ m.kind = "native"
      BY <1>3 DEF Applies, OnlyNativeWrites
    <2>2. IntentAccepted(m, e)
      BY <2>1 DEF Gate, DesignValid, BlueprintValid
    <2>3. Approval(e) = "ask" /\ e.resource \in Declared(m) /\ e.resource \in RequiredKeys(m)
      BY <2>1, <2>2 DEF IntentAccepted, RequiredKeys
    <2>4. ASSUME Level(m) = "RUNNABLE"
          PROVE  Serviceable(m, e.resource) \cap connected # {}
      <3>1. Bound(m, e.resource) \notin {"UNSUPPORTED", "UNAVAILABLE"}
        BY <2>3, <2>4 DEF Level
      <3>. QED
        BY <3>1 DEF Bound
    <2>. QED
      BY <2>3, <2>4
  <1>. QED
    BY <1>1, <1>2, <1>3

\* What was accepted passes when it is drafted, what is published is bounded, and an adjusted
\* design differs from its parent in its scope only.
LEMMA DesignsAreSound ==
  ASSUME DesignsKept
  PROVE  DesignIsSound
  <1>1. AcceptedDesignPasses
    <2>1. ASSUME NEW i \in 1..MaxDesigns, drafted[i].status # "none"
          PROVE  drafted[i].passed = BindingsKnown(drafted[i].manifest, drafted[i].catalog)
      <3>. DEFINE passed == drafted[i].passed
                  known == BindingsKnown(drafted[i].manifest, drafted[i].catalog)
      <3>1. passed \in BOOLEAN /\ known \in BOOLEAN
        BY DEF DesignsKept, DraftRows, BindingsKnown
      <3>2. (passed => known) /\ (known => passed)
        BY <2>1 DEF DesignsKept, DraftKept
      <3>. HIDE DEF passed, known
      <3>3. passed = known
        BY <3>1, <3>2
      <3>. QED
        BY <3>3 DEF passed, known
    <2>. QED
      BY <2>1 DEF AcceptedDesignPasses
  <1>2. PublishedTaskBounded
    <2>1. ASSUME NEW i \in 1..MaxDesigns, drafted[i].status = "PUBLISHED"
          PROVE  Gate(drafted[i].manifest, i, drafted[i].catalog) /\ OnlyNativeWrites(drafted[i].manifest)
      BY <2>1 DEF DesignsKept, DraftKept
    <2>. QED
      BY <2>1, PublishedIsBounded DEF PublishedTaskBounded
  <1>3. AdjustmentKeepsRest
    BY DEF DesignsKept, DesignKept, AdjustmentKeepsRest
  <1>. QED
    BY <1>1, <1>2, <1>3 DEF DesignIsSound

\* Designs, drafts and published tasks of every behaviour of a design
\* (skills/service.py, skills/manifest_gate.py, skills/candidate_revision.py).
THEOREM DesignsStaySound == DesignSpec => []DesignIsSound
  BY DesignsInductive, DesignsAreSound, PTL

-----------------------------------------------------------------------------
(* The service as a whole: each part moves by its own steps only.             *)

\* What the service does is what its parts do.
LEMMA PartsOfTheService ==
  /\ ServiceInit => SkillInit /\ AdmissionInit /\ ProjectInit /\ SchedInit /\ DesignInit
  /\ [ServiceNext]_serviceVars => [SkillNext]_skillVars
  /\ [ServiceNext]_serviceVars => [AdmissionNext]_admissionVars
  /\ [ServiceNext]_serviceVars => [ProjectNext]_projectVars
  /\ [ServiceNext]_serviceVars => [SchedNext]_schedVars
  /\ [ServiceNext]_serviceVars => [DesignNext]_designVars
  BY DEF ServiceInit, ServiceNext, serviceVars

\* One call of the model at a time for a request and a stored outcome behind its status, no
\* published version in use taken away, and no row of a deleted project left behind (start_call and
\* finish of skills/interpretation_requests.py, the routes of catalogue, tasks and projects).
THEOREM AdmissionStaysSound == ServiceSpec => []AdmissionIsSound
  <1>1. ServiceSpec => SkillSpec /\ AdmissionSpec /\ ProjectSpec
    BY PartsOfTheService, PTL DEF ServiceSpec, SkillSpec, AdmissionSpec, ProjectSpec
  <1>2. AsksKept /\ AdmissionKept /\ ProjectKept => AdmissionIsSound
    BY AsksAreSound DEF AdmissionKept, ProjectKept, AdmissionIsSound
  <1>. QED
    BY <1>1, <1>2, SkillsInductive, AdmissionInductive, ProjectInductive, PTL

\* Occurrences and skill requests only move on, and a refused admission left no Run under its key
\* (record of schedules/service.py, finish of skills/interpretation_requests.py, create_task_run).
THEOREM RecordsStayAdvanced == ServiceSpec => RecordsOnlyAdvance
  <1>1. ServiceSpec => SkillSpec /\ AdmissionSpec /\ SchedSpec
    BY PartsOfTheService, PTL DEF ServiceSpec, SkillSpec, AdmissionSpec, SchedSpec
  <1>2. OccurrencesAdvance /\ RequestSettledForGood /\ RefusedOnlyWithoutRun => RecordsOnlyAdvance
    BY DEF RecordsOnlyAdvance
  <1>. QED
    BY <1>1, <1>2, OccurrencesOnlyAdvance, RequestsStaySettled, RefusedHonestly, PTL

-----------------------------------------------------------------------------
(* Users and sessions. The invariant is                                      *)
(*                                                                         *)
(*   AccountsKept == AccountTypeOK /\ RequestsAreAdmitted                    *)
(*                   /\ LiveSessionsHaveUsers /\ AccountsAreSafe             *)
(*                                                                         *)
(* The two halves of AccountsAreSafe need each other: an administrator is    *)
(* never the last one to be demoted because the one who demotes holds a live *)
(* session, and a live session carries the role its user has now.            *)

\* A request the routes have let through names a session, and a user where the
\* service reads or writes a user row.
OnUserRow == {"create_user", "update_user", "change_password", "revoke_sessions"}
Admitted(r) ==
  /\ r.session \in Sessions
  /\ r.op \in OnUserRow => r.target \in Users
RequestsAreAdmitted ==
  \A q \in HttpRequests : http[q] = NoRequestYet \/ Admitted(http[q])

LiveSessionsHaveUsers ==
  \A s \in Sessions : ticket[s].state = "live" => ticket[s].user \in Users

AccountRowsKept == AccountTypeOK /\ LiveSessionsHaveUsers /\ AccountsAreSafe
AccountsKept == AccountRowsKept /\ RequestsAreAdmitted

UserRows == [status : {"none", "ACTIVE", "DISABLED"}, role : Roles, version : 0..MaxRowVersion]
SessionRows == [state : {"none", "live", "expired", "revoked"},
                user : Users \cup {NoUser}, role : Roles, key : BOOLEAN]

USE AccountAssumption
USE DEF Roles
-----------------------------------------------------------------------------
(* What one write does to the rows.                                         *)

\* A user row is written: the sessions that stay live either belong to somebody
\* else or carry what the row still says, and if the row was, or is the first,
\* of an active administrator then there is one afterwards (create, update_user,
\* change_password, revoke_sessions, bootstrap).
LEMMA UserRowIsWritten ==
  ASSUME AccountRowsKept, NEW u \in Users,
         account' \in [Users -> UserRows],
         \A v \in Users : v # u => account'[v] = account[v],
         ticket' \in [Sessions -> SessionRows],
         \A s \in Sessions : ticket'[s].state = "live" => ticket'[s] = ticket[s],
         \A s \in Sessions : ticket'[s].state = "live" /\ ticket[s].user = u =>
           account'[u].status = account[u].status /\ account'[u].role = account[u].role,
         \/ account'[u].status = "ACTIVE" /\ account'[u].role = "ADMIN"
         \/ \E v \in Users \ {u} : account[v].status = "ACTIVE" /\ account[v].role = "ADMIN"
  PROVE  AccountRowsKept'
  <1>1. AccountTypeOK'
    BY DEF AccountTypeOK, UserRows, SessionRows
  <1>2. ASSUME NEW s \in Sessions, ticket'[s].state = "live"
        PROVE  /\ ticket'[s].user \in Users
               /\ account'[ticket'[s].user].status = "ACTIVE"
               /\ account'[ticket'[s].user].role = ticket'[s].role
    <2>1. ticket'[s] = ticket[s] /\ ticket[s].state = "live"
      BY <1>2
    <2>2. /\ ticket[s].user \in Users
          /\ account[ticket[s].user].status = "ACTIVE"
          /\ account[ticket[s].user].role = ticket[s].role
      BY <2>1 DEF AccountRowsKept, LiveSessionsHaveUsers, AccountsAreSafe, LiveSessionsCurrent
    <2>3. CASE ticket[s].user = u
      BY <1>2, <2>1, <2>2, <2>3
    <2>4. CASE ticket[s].user # u
      BY <2>1, <2>2, <2>4
    <2>. QED
      BY <2>3, <2>4
  <1>3. \E v \in Users : account'[v].status = "ACTIVE" /\ account'[v].role = "ADMIN"
    OBVIOUS
  <1>4. AdminRemains'
    BY <1>3 DEF AdminRemains, ActiveAdmins
  <1>. QED
    BY <1>1, <1>2, <1>4
       DEF AccountRowsKept, LiveSessionsHaveUsers, AccountsAreSafe, LiveSessionsCurrent

\* A new user row disturbs no session: nobody was signed in under it.
LEMMA NewUserRow ==
  ASSUME AccountRowsKept, NEW u \in Users, account[u].status = "none",
         account' \in [Users -> UserRows],
         \A v \in Users : v # u => account'[v] = account[v],
         ticket' = ticket,
         \/ account'[u].status = "ACTIVE" /\ account'[u].role = "ADMIN"
         \/ \E v \in Users \ {u} : account[v].status = "ACTIVE" /\ account[v].role = "ADMIN"
  PROVE  AccountRowsKept'
  <1>1. ticket' \in [Sessions -> SessionRows]
    BY DEF AccountRowsKept, AccountTypeOK, SessionRows
  <1>2. \A s \in Sessions : ticket'[s].state = "live" => ticket'[s] = ticket[s]
    OBVIOUS
  <1>3. \A s \in Sessions : ticket'[s].state = "live" /\ ticket[s].user = u =>
          account'[u].status = account[u].status /\ account'[u].role = account[u].role
    BY DEF AccountRowsKept, AccountsAreSafe, LiveSessionsCurrent
  <1>. QED
    BY <1>1, <1>2, <1>3, UserRowIsWritten

\* Only sessions are written: those that are live were, or are of an active user
\* and carry the user's role (login, logout, expiry, create and revoke of a key).
LEMMA SessionRowIsWritten ==
  ASSUME AccountRowsKept, UNCHANGED account, NEW s \in Sessions, NEW row \in SessionRows,
         ticket' = [ticket EXCEPT ![s] = row],
         row.state = "live" => /\ row.user \in Users
                               /\ account[row.user].status = "ACTIVE"
                               /\ account[row.user].role = row.role
  PROVE  AccountRowsKept'
  <1>1. /\ ticket' \in [Sessions -> SessionRows]
        /\ ticket'[s] = row
        /\ \A t \in Sessions : t # s => ticket'[t] = ticket[t]
    BY DEF AccountRowsKept, AccountTypeOK, SessionRows
  <1>2. AccountTypeOK'
    BY <1>1 DEF AccountRowsKept, AccountTypeOK, SessionRows
  <1>3. AdminRemains'
    BY DEF AccountRowsKept, AccountsAreSafe, AdminRemains, ActiveAdmins
  <1>4. ASSUME NEW t \in Sessions, ticket'[t].state = "live"
        PROVE  /\ ticket'[t].user \in Users
               /\ account'[ticket'[t].user].status = "ACTIVE"
               /\ account'[ticket'[t].user].role = ticket'[t].role
    <2>1. CASE t = s
      BY <1>1, <1>4, <2>1
    <2>2. CASE t # s
      BY <1>1, <1>4, <2>2
         DEF AccountRowsKept, LiveSessionsHaveUsers, AccountsAreSafe, LiveSessionsCurrent
    <2>. QED
      BY <2>1, <2>2
  <1>. QED
    BY <1>2, <1>3, <1>4
       DEF AccountRowsKept, LiveSessionsHaveUsers, AccountsAreSafe, LiveSessionsCurrent

\* The sessions of the target end: no live one is left to the user, the others
\* are as they were (_finish).
LEMMA RevokedSessions ==
  ASSUME AccountRowsKept, NEW u \in Users, RevokeAll(u)
  PROVE  /\ ticket' \in [Sessions -> SessionRows]
         /\ \A s \in Sessions : ticket'[s].state = "live" =>
              ticket'[s] = ticket[s] /\ ticket[s].user # u
  <1>1. \A s \in Sessions : ticket[s] \in SessionRows
    BY DEF AccountRowsKept, AccountTypeOK, SessionRows
  <1>2. ASSUME NEW s \in Sessions
        PROVE  /\ ticket'[s] \in SessionRows
               /\ ticket'[s].state = "live" => ticket'[s] = ticket[s] /\ ticket[s].user # u
    <2>1. CASE ticket[s].user = u /\ ticket[s].state \in {"live", "expired"}
      <3>1. ticket'[s] = [ticket[s] EXCEPT !.state = "revoked"]
        BY <2>1 DEF RevokeAll
      <3>. QED
        BY <1>1, <3>1 DEF SessionRows
    <2>2. CASE ~(ticket[s].user = u /\ ticket[s].state \in {"live", "expired"})
      <3>1. ticket'[s] = ticket[s]
        BY <2>2 DEF RevokeAll
      <3>. QED
        BY <1>1, <2>2, <3>1
    <2>. QED
      BY <2>1, <2>2
  <1>3. ticket' \in [Sessions -> SessionRows]
    BY <1>1, <1>2 DEF RevokeAll
  <1>. QED
    BY <1>2, <1>3

\* Who passes the check of a service inside its transaction is an active user
\* (validate_session_state).
LEMMA AuthorizedActor ==
  ASSUME AccountRowsKept, NEW r, r.session \in Sessions, AuthorizeUser(r)
  PROVE  /\ Actor(r) \in Users
         /\ account[Actor(r)].status = "ACTIVE"
         /\ ActiveAdmins # {}
  <1>1. /\ ticket[r.session].state = "live"
        /\ account[Actor(r)].status = "ACTIVE"
    BY DEF AuthorizeUser, Usable, Actor
  <1>2. Actor(r) \in Users
    BY <1>1 DEF AccountRowsKept, LiveSessionsHaveUsers, Actor
  <1>3. ActiveAdmins # {}
    BY <1>1, <1>2 DEF AccountRowsKept, AccountsAreSafe, AdminRemains
  <1>. QED
    BY <1>1, <1>2, <1>3
-----------------------------------------------------------------------------
(* The services, one by one.                                                *)

\* The administrator who creates a user is an active one, and is somebody else.
LEMMA CreateUserKeeps ==
  ASSUME AccountRowsKept, NEW r, Admitted(r), CreateUser(r)
  PROVE  AccountRowsKept'
  <1>1. /\ r.target \in Users /\ account[r.target].status = "none"
        /\ AuthorizeUser(r) /\ account[Actor(r)].role = "ADMIN"
        /\ ticket' = ticket
    BY DEF CreateUser, Admitted, OnUserRow, AuthorizeAdmin
  <1>2. PICK role \in Roles :
          account' = [account EXCEPT ![r.target] =
                        [NoAccount EXCEPT !.status = "ACTIVE", !.role = role, !.version = 1]]
    BY DEF CreateUser
  <1>3. /\ account' \in [Users -> UserRows]
        /\ \A v \in Users : v # r.target => account'[v] = account[v]
    <2>1. 1 \in 0..MaxRowVersion
      OBVIOUS
    <2>. QED
      BY <1>1, <1>2, <2>1 DEF AccountRowsKept, AccountTypeOK, UserRows, NoAccount
  <1>4. Actor(r) \in Users /\ account[Actor(r)].status = "ACTIVE"
    BY <1>1, AuthorizedActor DEF Admitted
  <1>5. \E v \in Users \ {r.target} : account[v].status = "ACTIVE" /\ account[v].role = "ADMIN"
    BY <1>1, <1>4
  <1>. QED
    BY <1>1, <1>3, <1>5, NewUserRow

\* An administrator may be demoted or disabled only beside another active one;
\* an edit that changes the role or the status ends the user's sessions.
LEMMA UpdateUserKeeps ==
  ASSUME AccountRowsKept, NEW r, Admitted(r), UpdateUser(r)
  PROVE  AccountRowsKept'
  <1> DEFINE u == r.target
  <1>1. /\ u \in Users /\ account[u].status # "none"
        /\ AuthorizeUser(r) /\ account[u].version < MaxRowVersion
    BY DEF UpdateUser, Admitted, OnUserRow, AuthorizeAdmin, AccountAt
  <1>2. PICK role \in Roles, status \in {"ACTIVE", "DISABLED"}, renamed \in BOOLEAN :
          /\ u \in ActiveAdmins /\ (role # "ADMIN" \/ status # "ACTIVE") => HasOtherActiveAdmin(u)
          /\ account' = [account EXCEPT ![u] =
               IF ~renamed /\ <<role, status>> = <<account[u].role, account[u].status>> THEN account[u]
               ELSE [account[u] EXCEPT !.role = role, !.status = status, !.version = @ + 1]]
          /\ IF <<role, status>> # <<account[u].role, account[u].status>>
               THEN RevokeAll(u) ELSE UNCHANGED ticket
    BY DEF UpdateUser
  <1>3. account \in [Users -> UserRows] /\ ticket \in [Sessions -> SessionRows]
    BY DEF AccountRowsKept, AccountTypeOK, UserRows, SessionRows
  <1>4. /\ account' \in [Users -> UserRows]
        /\ account'[u].status = status /\ account'[u].role = role
        /\ \A v \in Users : v # u => account'[v] = account[v]
    <2>1. account[u].version + 1 \in 0..MaxRowVersion
      BY <1>1, <1>3 DEF UserRows
    <2> DEFINE written == [account[u] EXCEPT !.role = role, !.status = status, !.version = @ + 1]
               row == IF ~renamed /\ <<role, status>> = <<account[u].role, account[u].status>>
                      THEN account[u] ELSE written
    <2>2. account' = [account EXCEPT ![u] = row]
      BY <1>2
    <2>4. written.status = status /\ written.role = role /\ written \in UserRows
      BY <1>1, <1>3, <2>1 DEF UserRows
    <2>. HIDE DEF written
    <2>3. row.status = status /\ row.role = role /\ row \in UserRows
      BY <1>1, <1>3, <2>4
    <2>. HIDE DEF row
    <2>. QED
      BY <1>1, <1>3, <2>2, <2>3
  <1>5. \/ account'[u].status = "ACTIVE" /\ account'[u].role = "ADMIN"
        \/ \E v \in Users \ {u} : account[v].status = "ACTIVE" /\ account[v].role = "ADMIN"
    <2>1. ActiveAdmins # {}
      BY <1>1, AuthorizedActor DEF Admitted
    <2>2. CASE u \in ActiveAdmins
      BY <1>2, <1>4, <2>2 DEF HasOtherActiveAdmin, ActiveAdmins
    <2>3. CASE u \notin ActiveAdmins
      BY <2>1, <2>3 DEF ActiveAdmins
    <2>. QED
      BY <2>2, <2>3
  <1>6. /\ ticket' \in [Sessions -> SessionRows]
        /\ \A s \in Sessions : ticket'[s].state = "live" => ticket'[s] = ticket[s]
        /\ \A s \in Sessions : ticket'[s].state = "live" /\ ticket[s].user = u =>
             account'[u].status = account[u].status /\ account'[u].role = account[u].role
    <2>1. CASE <<role, status>> # <<account[u].role, account[u].status>>
      BY <1>1, <1>2, <2>1, RevokedSessions
    <2>2. CASE <<role, status>> = <<account[u].role, account[u].status>>
      BY <1>2, <1>3, <1>4, <2>2
    <2>. QED
      BY <2>1, <2>2
  <1>. HIDE DEF u
  <1>. QED
    BY <1>1, <1>4, <1>5, <1>6, UserRowIsWritten

\* A password change and a sign-out everywhere write only the version of the row
\* and end every session of the user.
LEMMA SignOutKeeps ==
  ASSUME AccountRowsKept, NEW u \in Users, account[u].status # "none",
         account[u].version < MaxRowVersion,
         account' = [account EXCEPT ![u].version = @ + 1], RevokeAll(u)
  PROVE  AccountRowsKept'
  <1>1. /\ account' \in [Users -> UserRows]
        /\ account'[u].status = account[u].status /\ account'[u].role = account[u].role
        /\ \A v \in Users : v # u => account'[v] = account[v]
    <2>1. account \in [Users -> UserRows]
      BY DEF AccountRowsKept, AccountTypeOK, UserRows
    <2>2. account[u].version + 1 \in 0..MaxRowVersion
      BY <2>1 DEF UserRows
    <2>. QED
      BY <2>1, <2>2 DEF UserRows
  <1>2. \/ account'[u].status = "ACTIVE" /\ account'[u].role = "ADMIN"
        \/ \E v \in Users \ {u} : account[v].status = "ACTIVE" /\ account[v].role = "ADMIN"
    <2>1. ActiveAdmins # {}
      BY DEF AccountRowsKept, AccountsAreSafe, AdminRemains
    <2>. QED
      BY <1>1, <2>1 DEF ActiveAdmins
  <1>3. /\ ticket' \in [Sessions -> SessionRows]
        /\ \A s \in Sessions : ticket'[s].state = "live" => ticket'[s] = ticket[s]
        /\ \A s \in Sessions : ticket'[s].state = "live" /\ ticket[s].user = u =>
             account'[u].status = account[u].status /\ account'[u].role = account[u].role
    BY RevokedSessions
  <1>. QED
    BY <1>1, <1>2, <1>3, UserRowIsWritten

\* The key of an administrator is made for the one who asks, in the transaction
\* that looked at the role; it expires or is revoked as sessions are.
LEMMA KeysKeep ==
  ASSUME AccountRowsKept, NEW r, Admitted(r), CreateKey(r) \/ RevokeKey(r)
  PROVE  AccountRowsKept'
  <1>1. CASE CreateKey(r)
    <2>1. UNCHANGED account /\ AuthorizeUser(r) /\ account[Actor(r)].role = "ADMIN"
      BY <1>1 DEF CreateKey, AuthorizeAdmin
    <2>2. Actor(r) \in Users /\ account[Actor(r)].status = "ACTIVE"
      BY <2>1, AuthorizedActor DEF Admitted
    <2> DEFINE row == [state |-> "live", user |-> Actor(r), role |-> "ADMIN", key |-> TRUE]
    <2>3. PICK s \in Sessions : ticket' = [ticket EXCEPT ![s] = row]
      BY <1>1 DEF CreateKey
    <2>4. row \in SessionRows
      BY <2>2 DEF SessionRows
    <2>5. /\ row.user \in Users /\ account[row.user].status = "ACTIVE"
          /\ account[row.user].role = row.role
      BY <2>1, <2>2
    <2>. HIDE DEF row
    <2>. QED
      BY <2>1, <2>3, <2>4, <2>5, SessionRowIsWritten
  <1>2. CASE RevokeKey(r)
    <2>1. PICK s \in Sessions : ticket' = [ticket EXCEPT ![s].state = "revoked"]
      BY <1>2 DEF RevokeKey
    <2> DEFINE row == [ticket[s] EXCEPT !.state = "revoked"]
    <2>2. ticket' = [ticket EXCEPT ![s] = row] /\ UNCHANGED account
      BY <1>2, <2>1 DEF RevokeKey
    <2>3. row \in SessionRows /\ row.state # "live"
      BY DEF AccountRowsKept, AccountTypeOK, SessionRows
    <2>. HIDE DEF row
    <2>. QED
      BY <2>2, <2>3, SessionRowIsWritten
  <1>. QED
    BY <1>1, <1>2

\* Every service keeps the rows, for any request the routes have let through.
LEMMA ServiceKeeps ==
  ASSUME AccountRowsKept, NEW r, Admitted(r), Service(r)
  PROVE  AccountRowsKept'
  <1>1. CASE ChangePassword(r) \/ RevokeSessions(r)
    <2>1. /\ r.target \in Users
          /\ account[r.target].status # "none" /\ account[r.target].version < MaxRowVersion
          /\ account' = [account EXCEPT ![r.target].version = @ + 1]
          /\ RevokeAll(r.target)
      BY <1>1 DEF ChangePassword, RevokeSessions, Admitted, OnUserRow, AccountAt
    <2>. QED
      BY <2>1, SignOutKeeps
  <1>. QED
    BY <1>1, CreateUserKeeps, UpdateUserKeeps, KeysKeep DEF Service
-----------------------------------------------------------------------------
(* Every step.                                                              *)

\* What the routes let through for a session names that session, and a user.
LEMMA RoutesAdmit ==
  ASSUME AccountRowsKept, NEW s \in Sessions, NEW r \in Routes(s)
  PROVE  Admitted(r)
  <1>1. Usable(s)
    BY DEF Routes
  <1>2. ticket[s].user \in Users
    BY <1>1 DEF Usable, AccountRowsKept, LiveSessionsHaveUsers
  <1>3. r \in OwnRoutes(s) \/ r \in UserRoutes(s) \/ r \in KeyRoutes(s)
    BY <1>1 DEF Routes
  <1>. QED
    BY <1>2, <1>3 DEF OwnRoutes, UserRoutes, KeyRoutes, For, Admitted, OnUserRow

\* The first administrator: nobody who existed before can have signed in as one.
LEMMA BootstrapKeeps ==
  ASSUME AccountRowsKept, NEW u \in Users, Bootstrap(u)
  PROVE  AccountRowsKept'
  <1>1. /\ account' \in [Users -> UserRows]
        /\ account'[u].status = "ACTIVE" /\ account'[u].role = "ADMIN"
        /\ \A v \in Users : v # u => account'[v] = account[v]
    <2>1. 1 \in 0..MaxRowVersion
      OBVIOUS
    <2>. QED
      BY <2>1 DEF AccountRowsKept, AccountTypeOK, UserRows, Bootstrap, NoAccount
  <1>2. ticket' = ticket /\ account[u].status = "none"
    BY DEF Bootstrap
  <1>. QED
    BY <1>1, <1>2, NewUserRow

\* A login copies the role its user has now.
LEMMA LoginKeeps ==
  ASSUME AccountRowsKept, NEW u \in Users, NEW s \in Sessions, Login(u, s)
  PROVE  AccountRowsKept'
  <1> DEFINE row == [state |-> "live", user |-> u, role |-> account[u].role, key |-> FALSE]
  <1>1. /\ ticket' = [ticket EXCEPT ![s] = row] /\ UNCHANGED account
        /\ account[u].status = "ACTIVE"
    BY DEF Login
  <1>2. row \in SessionRows /\ row.user = u /\ row.role = account[u].role
    BY DEF AccountRowsKept, AccountTypeOK, SessionRows
  <1>. HIDE DEF row
  <1>. QED
    BY <1>1, <1>2, SessionRowIsWritten

\* A session that expires or is left is not live any more.
LEMMA SessionEndKeeps ==
  ASSUME AccountRowsKept, NEW s \in Sessions, SessionExpires(s) \/ Logout(s)
  PROVE  AccountRowsKept'
  <1>1. PICK end \in {"expired", "revoked"} : ticket' = [ticket EXCEPT ![s].state = end]
    BY DEF SessionExpires, Logout
  <1> DEFINE row == [ticket[s] EXCEPT !.state = end]
  <1>2. ticket' = [ticket EXCEPT ![s] = row] /\ UNCHANGED account
    BY <1>1 DEF SessionExpires, Logout
  <1>3. row \in SessionRows /\ row.state # "live"
    BY DEF AccountRowsKept, AccountTypeOK, SessionRows
  <1>. HIDE DEF row
  <1>. QED
    BY <1>2, <1>3, SessionRowIsWritten

\* A request is answered by one transaction and is then gone.
LEMMA RequestKeeps ==
  ASSUME AccountsKept, NEW q \in HttpRequests, Admit(q) \/ Serve(q) \/ Refuse(q)
  PROVE  AccountRowsKept'
  <1>1. CASE Serve(q)
    <2>1. Service(http[q])
      BY <1>1 DEF Serve
    <2>4. UpdateUser(http[q]) => http[q].op # "none"
      BY DEF UpdateUser
    <2>2. http[q] # NoRequestYet
      BY <2>1, <2>4 DEF Service, CreateUser, ChangePassword, RevokeSessions, CreateKey,
                  RevokeKey, NoRequestYet
    <2>3. Admitted(http[q])
      BY <2>2 DEF AccountsKept, RequestsAreAdmitted
    <2>. QED
      BY <2>1, <2>3, ServiceKeeps DEF AccountsKept
  <1>2. CASE Admit(q) \/ Refuse(q)
    <2>1. UNCHANGED <<account, ticket>>
      BY <1>2 DEF Admit, Refuse
    <2>. QED
      BY <2>1 DEF AccountsKept, AccountRowsKept, AccountTypeOK, LiveSessionsHaveUsers, AccountsAreSafe,
                  AdminRemains, ActiveAdmins, LiveSessionsCurrent
  <1>. QED
    BY <1>1, <1>2

\* A step forgets a request or puts one there that its route has let through.
LEMMA RequestsStayAdmitted ==
  ASSUME AccountsKept, AccountNext
  PROVE  RequestsAreAdmitted'
  <1>1. ASSUME NEW q \in HttpRequests, NEW r, http' = [http EXCEPT ![q] = r],
               r = NoRequestYet \/ Admitted(r)
        PROVE  RequestsAreAdmitted'
    <2>1. \A p \in HttpRequests : http'[p] \in {http[p], r}
      BY <1>1
    <2>. QED
      BY <1>1, <2>1 DEF AccountsKept, RequestsAreAdmitted, Admitted
  <1>2. CASE UNCHANGED http
    BY <1>2 DEF AccountsKept, RequestsAreAdmitted, Admitted
  <1>3. CASE \E q \in HttpRequests : Admit(q)
    <2>1. PICK q \in HttpRequests, s \in Sessions : \E r \in Routes(s) :
            http' = [http EXCEPT ![q] = r]
      BY <1>3 DEF Admit
    <2>2. PICK r \in Routes(s) : http' = [http EXCEPT ![q] = r]
      BY <2>1
    <2>. QED
      BY <1>1, <2>2, RoutesAdmit DEF AccountsKept
  <1>4. CASE \E q \in HttpRequests : Serve(q) \/ Refuse(q)
    BY <1>1, <1>4 DEF Serve, Refuse
  <1>. QED
    BY <1>2, <1>3, <1>4 DEF AccountNext, Bootstrap, Login, SessionExpires, Logout, ServeAtOnce

\* No step of the accounts breaks the invariant.
LEMMA AccountsNext ==
  ASSUME AccountsKept, [AccountNext]_accountVars
  PROVE  AccountsKept'
  <1>1. CASE AccountNext
    <2>1. AccountRowsKept
      BY DEF AccountsKept
    <2>2. AccountRowsKept'
      <3>1. CASE \E u \in Users : Bootstrap(u)
        BY <2>1, <3>1, BootstrapKeeps
      <3>2. CASE \E u \in Users, s \in Sessions : Login(u, s)
        BY <2>1, <3>2, LoginKeeps
      <3>3. CASE \E s \in Sessions : SessionExpires(s) \/ Logout(s)
        BY <2>1, <3>3, SessionEndKeeps
      <3>4. CASE \E q \in HttpRequests : Admit(q) \/ Serve(q) \/ Refuse(q)
        BY <3>4, RequestKeeps
      <3>5. CASE ServeAtOnce
        <4>1. PICK s \in Sessions : \E r \in Routes(s) : Service(r)
          BY <3>5 DEF ServeAtOnce
        <4>2. PICK r \in Routes(s) : Service(r)
          BY <4>1
        <4>. QED
          BY <2>1, <4>2, RoutesAdmit, ServiceKeeps
      <3>. QED
        BY <1>1, <3>1, <3>2, <3>3, <3>4, <3>5 DEF AccountNext
    <2>. QED
      BY <1>1, <2>2, RequestsStayAdmitted DEF AccountsKept
  <1>2. CASE UNCHANGED accountVars
    BY <1>2 DEF accountVars, AccountsKept, AccountRowsKept, AccountTypeOK, LiveSessionsHaveUsers,
                AccountsAreSafe, AdminRemains, ActiveAdmins, LiveSessionsCurrent,
                RequestsAreAdmitted, Admitted
  <1>. QED
    BY <1>1, <1>2

\* Before the first account there is no session to be wrong about.
LEMMA AccountsInitial ==
  ASSUME AccountInit
  PROVE  AccountsKept
  BY DEF AccountInit, NoAccount, NoTicket, AccountsKept, AccountRowsKept, AccountTypeOK,
         LiveSessionsHaveUsers, AccountsAreSafe, AdminRemains, LiveSessionsCurrent,
         RequestsAreAdmitted
-----------------------------------------------------------------------------
\* Whatever overtakes a request between its route and its service, the invariant
\* above holds (users/service.py, auth/service.py).
THEOREM AccountsInductive == AccountSpec => []AccountsKept
  <1>1. AccountInit => AccountsKept
    BY AccountsInitial
  <1>2. AccountsKept /\ [AccountNext]_accountVars => AccountsKept'
    BY AccountsNext
  <1>. QED
    BY <1>1, <1>2, PTL DEF AccountSpec

\* The organisation is never without an active administrator, and no live session
\* or API key carries a right its user has lost (update_user, _finish, login).
THEOREM AccountsStaySafe == AccountSpec => []AccountsAreSafe
  <1>1. AccountsKept => AccountsAreSafe
    BY DEF AccountsKept, AccountRowsKept
  <1>. QED
    BY <1>1, AccountsInductive, PTL
=============================================================================
