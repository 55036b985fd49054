------------------------ MODULE ScheduleOccurrences ------------------------
(***************************************************************************)
(* A task schedule and the occurrences that scheduler workers claim, turn    *)
(* into Runs and settle (skillmind/schedules).                               *)
(*                                                                         *)
(* Workers tick concurrently. Each claim is one transaction that writes the  *)
(* occurrence with a lease; firing it takes several more transactions, each  *)
(* of which locks the schedule and re-checks the fence (worker, generation,  *)
(* expiry). A worker may stop at any point, a commit whose answer is lost    *)
(* included. Users edit, pause, resume and archive the schedule meanwhile.   *)
(*                                                                         *)
(* Abstracted: an occurrence is named by its instant, so the idempotency key *)
(* (schedule, instant) of its Run is the instant too; the checksummed        *)
(* snapshot is immutable and is the claim fields of the occurrence record;   *)
(* owner and task say whether the creator still has access and whether the   *)
(* task, its input and its sources still resolve.                            *)
(***************************************************************************)
EXTENDS Cron, FiniteSets

CONSTANTS
  Workers,       \* scheduler processes
  NoWorker,
  Definitions,   \* definitions a user may give: [kind, cron, runAt, endAt, maxRuns]
  MaxTime,       \* last instant of the clock
  Lease,         \* lease length, in minutes
  MaxAttempts,   \* DEFAULT_SCHEDULE_MAX_ATTEMPTS
  MissedLimit,   \* missed instants that one claim counts at most: 1000 in the code
  MaxVersion     \* largest row_version: 2147483647 in the code

ASSUME ScheduleAssumption ==
  /\ NoWorker \notin Workers
  /\ {Lease, MaxAttempts, MissedLimit, MaxVersion, MaxTime} \subseteq Nat \ {0}
  /\ MaxTime < Horizon

\* build_definition stores nothing that did not parse.
ASSUME DefinitionAssumption ==
  Definitions \subseteq
    [kind : {"CRON", "ONCE"}, cron : CronExpressions, runAt : Nat, endAt : Nat, maxRuns : Nat]

Times == 1..MaxTime
Outcomes == {"RUN_CREATED", "SKIPPED_OVERLAP", "FAILED_PRECONDITION"}

VARIABLES
  now,      \* the clock
  sched,    \* the TaskSchedule row
  occ,      \* the TaskScheduleOccurrence row of each instant
  runs,     \* status of the Run created for each instant
  worker,   \* what each scheduler process is doing
  edit,     \* an edit between its first read and its transaction
  owner,    \* the creator has write access to an active project
  task      \* the task resolves and its input and sources are valid

schedVars == <<now, sched, occ, runs, worker, edit, owner, task>>

(***************************************************************************)
(* Definitions and plans (schedules/planning.py). endAt, runAt and maxRuns   *)
(* are None when the definition does not give them.                          *)
(***************************************************************************)
Within(def, t) == def.endAt = None \/ t <= def.endAt

NextFromDefinition(def, after) ==
  LET t == IF def.kind = "ONCE" THEN def.runAt ELSE NextOccurrence(def.cron, after)
  IN IF t # None /\ t > after /\ Within(def, t) THEN t ELSE None

\* Instants that pass unfired between a claimed instant and the claim; the count is
\* bounded, and stops at its limit.
UpToLimit(n) == IF n > MissedLimit THEN MissedLimit ELSE n
CountMissedFromStart(def, start, until) ==
  IF def.kind = "ONCE" THEN 0
  ELSE UpToLimit(Cardinality({t \in start..until :
         NextOccurrence(def.cron, t - 1) = t /\ Within(def, t)}))

CountMissed(def, start, until) ==
  IF def.kind = "ONCE" THEN 0
  ELSE UpToLimit(Cardinality({t \in start..until :
         t > start /\ NextOccurrence(def.cron, t - 1) = t /\ Within(def, t)}))

PlanOccurrence(def, at) ==
  LET following == NextFromDefinition(def, now)
  IN [next |-> following,
      missed |-> CountMissed(def, at, now),
      exhausted |-> def.kind = "ONCE" \/ following = None]

\* What POST and PUT accept (build_definition, first_occurrence).
Acceptable(def) ==
  /\ def.kind = "ONCE" => def.runAt >= now - 1
  /\ def.endAt # None => def.endAt > now
  /\ NextFromDefinition(def, now) # None

AllowedTransitions ==
  [ACTIVE |-> {"PAUSED", "COMPLETED", "ERROR", "ARCHIVED"},
   PAUSED |-> {"ACTIVE", "COMPLETED", "ARCHIVED"},
   ERROR |-> {"ACTIVE", "ARCHIVED"},
   COMPLETED |-> {"ARCHIVED"},
   ARCHIVED |-> {}]
Terminal == {"COMPLETED", "ARCHIVED"}

(***************************************************************************)
(* Rows and claims.                                                         *)
(***************************************************************************)
NoDefinition == [kind |-> "NONE", cron |-> ParseCron([f \in CronFields |-> {Star}]),
                 runAt |-> None, endAt |-> None, maxRuns |-> None]
NoOcc == [status |-> "NONE", worker |-> NoWorker, gen |-> 0, attempts |-> 0,
          expires |-> 0, outcome |-> "NONE", version |-> 0, exhausted |-> FALSE]
Absent == [status |-> "ABSENT", protocol |-> 1, def |-> NoDefinition, next |-> None,
           version |-> 0, runCount |-> 0, missed |-> 0, created |-> 0, last |-> 0]
IdleWorker == [pc |-> "idle", at |-> None, gen |-> 0, expires |-> 0, version |-> 0,
               outcome |-> "NONE"]
NoEdit == [version |-> 0, def |-> NoDefinition, first |-> None]

OccRows ==
  [status : {"NONE", "PENDING", "SETTLED"}, worker : Workers \cup {NoWorker},
   gen : 0..MaxAttempts, attempts : 0..MaxAttempts, expires : 0..MaxTime + Lease,
   outcome : Outcomes \cup {"NONE"}, version : 0..MaxVersion, exhausted : BOOLEAN]
SchedRows ==
  [status : DOMAIN AllowedTransitions \cup {"ABSENT"}, protocol : {0, 1},
   def : Definitions \cup {NoDefinition}, next : 0..Horizon, version : 0..MaxVersion,
   runCount : 0..MaxTime, missed : 0..MaxTime, created : 0..MaxTime, last : 0..MaxTime]

Pending == {t \in Times : occ[t].status = "PENDING"}
Settled == {t \in Times : occ[t].status = "SETTLED"}
CreatedRuns == {t \in Times : runs[t] # "none"}
CanBump == sched.version < MaxVersion
LimitReached(count) == sched.def.maxRuns # None /\ count >= sched.def.maxRuns

\* lock_claim, _match_claim and _require_fence: the claim a worker still holds.
Fenced(w) ==
  LET o == occ[worker[w].at]
  IN /\ o.worker = w
     /\ o.gen = worker[w].gen
     /\ o.expires = worker[w].expires
     /\ o.status = "PENDING" => o.expires > now

OverlapsLaterRun(at) ==
  \E t \in Settled : t > at /\ occ[t].outcome = "RUN_CREATED" /\ runs[t] = "active"

\* The Run of another occurrence of this schedule has not ended.
HasOverlappingRun(at) ==
  \E t \in Settled \ {at} : occ[t].outcome = "RUN_CREATED" /\ runs[t] = "active"

SetWorker(w, rec) == worker' = [worker EXCEPT ![w] = rec]
GiveUp(w) == SetWorker(w, IdleWorker)

ClaimBy(w, at, gen, version) ==
  SetWorker(w, [IdleWorker EXCEPT !.pc = "claimed", !.at = at, !.gen = gen,
                                  !.expires = now + Lease, !.version = version])

(***************************************************************************)
(* The user's operations. Create and edit compute the first instant before   *)
(* the transaction; an edit carries the row_version its author saw.          *)
(***************************************************************************)
CreateSchedule ==
  /\ sched.status = "ABSENT" /\ owner /\ task
  /\ \E def \in Definitions, protocol \in {0, 1} :
       /\ Acceptable(def)
       /\ sched' = [Absent EXCEPT !.status = "ACTIVE", !.protocol = protocol, !.def = def,
                                  !.next = NextFromDefinition(def, now),
                                  !.version = 1, !.created = now]
  /\ UNCHANGED <<now, occ, runs, worker, edit, owner, task>>

BeginUpdate ==
  /\ edit = NoEdit /\ task
  /\ sched.status \notin Terminal \cup {"ABSENT"}
  /\ \E def \in Definitions :
       /\ def # sched.def /\ Acceptable(def)
       /\ edit' = [version |-> sched.version, def |-> def,
                   first |-> NextFromDefinition(def, now)]
  /\ UNCHANGED <<now, sched, occ, runs, worker, owner, task>>

UpdateUnversioned ==
  /\ owner /\ task /\ CanBump
  /\ sched.status \notin Terminal
  /\ edit.def.maxRuns # None =>
       edit.def.maxRuns >= sched.runCount + Cardinality(Pending)
UpdateUncounted ==
  /\ owner /\ task /\ CanBump
  /\ sched.version = edit.version
  /\ sched.status \notin Terminal
  /\ edit.def.maxRuns # None => edit.def.maxRuns >= sched.runCount

UpdateAccepted ==
  /\ owner /\ task /\ CanBump
  /\ sched.version = edit.version
  /\ sched.status \notin Terminal
  /\ edit.def.maxRuns # None =>
       edit.def.maxRuns >= sched.runCount + Cardinality(Pending)

UpdateKeepingNext ==
  /\ edit # NoEdit
  /\ edit' = NoEdit
  /\ sched' = IF UpdateAccepted
              THEN [sched EXCEPT !.def = edit.def, !.version = @ + 1]
              ELSE sched
  /\ UNCHANGED <<now, occ, runs, worker, owner, task>>

UpdateSchedule ==
  /\ edit # NoEdit
  /\ edit' = NoEdit
  /\ sched' = IF UpdateAccepted
              THEN [sched EXCEPT !.def = edit.def, !.version = @ + 1,
                      !.next = IF sched.status = "ACTIVE" THEN edit.first ELSE None]
              ELSE sched
  /\ UNCHANGED <<now, occ, runs, worker, owner, task>>

\* set_status, with the version its author saw checked under the row lock.
ChangeStatus ==
  /\ sched.status # "ABSENT" /\ owner /\ CanBump
  /\ \E target \in AllowedTransitions[sched.status] :
       /\ target = "ACTIVE" =>
            /\ sched.protocol = 1 /\ task
            /\ NextFromDefinition(sched.def, now) # None
            /\ ~LimitReached(sched.runCount)
            /\ ~LimitReached(sched.runCount + (Cardinality(Pending) - 1))
       /\ sched' = [sched EXCEPT !.status = target, !.version = @ + 1,
                      !.next = IF target = "ACTIVE"
                               THEN NextFromDefinition(sched.def, now) ELSE None]
  /\ UNCHANGED <<now, occ, runs, worker, edit, owner, task>>

(***************************************************************************)
(* The scheduler tick: recover expired claims, then claim what is due.       *)
(***************************************************************************)
RecoverForever(w) ==
  /\ worker[w].pc = "idle"
  /\ sched.protocol = 1
  /\ \E t \in Pending :
       /\ occ[t].expires <= now
       /\ occ' = [occ EXCEPT ![t].worker = w, ![t].gen = @ + 1, ![t].attempts = @ + 1,
                             ![t].expires = now + Lease]
       /\ ClaimBy(w, t, occ[t].gen + 1, occ[t].version)
  /\ UNCHANGED <<now, sched, runs, edit, owner, task>>

ClaimRecoverable(w) ==
  /\ worker[w].pc = "idle"
  /\ sched.protocol = 1
  /\ \E t \in Pending :
       /\ occ[t].expires <= now /\ occ[t].attempts < MaxAttempts
       /\ occ' = [occ EXCEPT ![t].worker = w, ![t].gen = @ + 1, ![t].attempts = @ + 1,
                             ![t].expires = now + Lease]
       /\ ClaimBy(w, t, occ[t].gen + 1, occ[t].version)
  /\ UNCHANGED <<now, sched, runs, edit, owner, task>>

\* list_due: read without a lock, used by a later transaction.
ListDue(w) ==
  /\ worker[w].pc = "idle"
  /\ sched.status = "ACTIVE" /\ sched.next # None /\ sched.next <= now
  /\ Pending = {}
  /\ SetWorker(w, [IdleWorker EXCEPT !.pc = "due", !.at = sched.next,
                                     !.version = sched.version])
  /\ UNCHANGED <<now, sched, occ, runs, edit, owner, task>>

StillDue(w) ==
  /\ sched.status = "ACTIVE"
  /\ sched.version = worker[w].version
  /\ sched.next = worker[w].at

CloseDue(status) ==
  sched' = [sched EXCEPT !.status = status, !.next = None, !.version = @ + 1]

OccurrenceRow(w, plan) ==
  [status |-> "PENDING", worker |-> w, gen |-> 1, attempts |-> 1,
   expires |-> now + Lease, outcome |-> "NONE", version |-> sched.version + 1,
   exhausted |-> plan.exhausted]

ClaimDue(w) ==
  /\ worker[w].pc = "due" /\ StillDue(w) /\ CanBump
  /\ IF sched.protocol # 1
     THEN CloseDue("ERROR") /\ GiveUp(w) /\ UNCHANGED occ
     ELSE IF Pending # {}
     THEN GiveUp(w) /\ UNCHANGED <<sched, occ>>
     ELSE IF LimitReached(sched.runCount)
     THEN CloseDue("COMPLETED") /\ GiveUp(w) /\ UNCHANGED occ
     ELSE LET plan == PlanOccurrence(sched.def, sched.next)
          IN /\ occ' = [occ EXCEPT ![sched.next] = OccurrenceRow(w, plan)]
             /\ sched' = [sched EXCEPT !.next = plan.next, !.missed = @ + plan.missed,
                                       !.version = @ + 1]
             /\ ClaimBy(w, sched.next, 1, sched.version + 1)
  /\ UNCHANGED <<now, runs, edit, owner, task>>

NoLongerDue(w) ==
  /\ worker[w].pc = "due" /\ ~StillDue(w)
  /\ GiveUp(w)
  /\ UNCHANGED <<now, sched, occ, runs, edit, owner, task>>

(***************************************************************************)
(* Firing a claim. record_outcome is part of the transaction that creates    *)
(* the Run, and a transaction of its own for the other outcomes.             *)
(***************************************************************************)
Conclude(w, outcome) ==
  SetWorker(w, [worker[w] EXCEPT !.pc = "settle", !.outcome = outcome])
Proceed(w, pc) == SetWorker(w, [worker[w] EXCEPT !.pc = pc])

SettledUnlessLimited(at, outcome) ==
  LET count == sched.runCount + (IF outcome = "RUN_CREATED" THEN 1 ELSE 0)
      ended == CASE outcome = "FAILED_PRECONDITION" -> "ERROR"
                 [] LimitReached(count) -> "COMPLETED"
                 [] OTHER -> "ACTIVE"
      status == IF sched.version = occ[at].version /\ sched.status = "ACTIVE"
                THEN ended ELSE sched.status
  IN [sched EXCEPT !.runCount = count, !.status = status, !.version = @ + 1,
        !.last = IF at > @ THEN at ELSE @,
        !.next = IF status = sched.status THEN @ ELSE None]

SettledSchedule(at, outcome) ==
  LET o == occ[at]
      count == sched.runCount + (IF outcome = "RUN_CREATED" THEN 1 ELSE 0)
      ended == CASE outcome = "FAILED_PRECONDITION" -> "ERROR"
                 [] o.exhausted \/ LimitReached(count) -> "COMPLETED"
                 [] OTHER -> "ACTIVE"
      status == IF sched.version = o.version /\ sched.status = "ACTIVE"
                THEN ended ELSE sched.status
  IN [sched EXCEPT !.runCount = count, !.status = status, !.version = @ + 1,
        !.last = IF at > @ THEN at ELSE @,
        !.next = IF status = sched.status THEN @ ELSE None]

Settle(at, outcome) ==
  /\ occ' = [occ EXCEPT ![at].status = "SETTLED", ![at].outcome = outcome]
  /\ sched' = SettledSchedule(at, outcome)

\* _authorize_creator, then find_task_run_replay in its transaction. A Run that
\* exists is settled already, by the transaction that created it.
FindReplay(w) ==
  /\ worker[w].pc = "claimed"
  /\ IF ~owner THEN Conclude(w, "FAILED_PRECONDITION")
     ELSE IF ~Fenced(w) \/ runs[worker[w].at] # "none" THEN GiveUp(w)
     ELSE Proceed(w, "unreplayed")
  /\ UNCHANGED <<now, sched, occ, runs, edit, owner, task>>

CheckOverlap(w) ==
  /\ worker[w].pc = "unreplayed"
  /\ IF ~Fenced(w) THEN GiveUp(w)
     ELSE IF HasOverlappingRun(worker[w].at) THEN Conclude(w, "SKIPPED_OVERLAP")
     ELSE Proceed(w, "clear")
  /\ UNCHANGED <<now, sched, occ, runs, edit, owner, task>>

ResolveTask(w) ==
  /\ worker[w].pc = "clear"
  /\ IF task THEN Proceed(w, "resolved") ELSE Conclude(w, "FAILED_PRECONDITION")
  /\ UNCHANGED <<now, sched, occ, runs, edit, owner, task>>

\* create_task_run with the schedule as participant: authorize, before_create,
\* the Run, record_outcome; one transaction.
CreateRun(w) ==
  LET at == worker[w].at
  IN /\ worker[w].pc = "resolved"
     /\ IF ~owner THEN Conclude(w, "FAILED_PRECONDITION") /\ UNCHANGED <<sched, occ, runs>>
        ELSE IF ~Fenced(w) \/ occ[at].status # "PENDING" \/ ~CanBump
        THEN GiveUp(w) /\ UNCHANGED <<sched, occ, runs>>
        ELSE IF HasOverlappingRun(at)
        THEN Conclude(w, "SKIPPED_OVERLAP") /\ UNCHANGED <<sched, occ, runs>>
        ELSE IF ~task
        THEN Conclude(w, "FAILED_PRECONDITION") /\ UNCHANGED <<sched, occ, runs>>
        ELSE /\ runs' = [runs EXCEPT ![at] = "active"]
             /\ Settle(at, "RUN_CREATED")
             /\ GiveUp(w)
     /\ UNCHANGED <<now, edit, owner, task>>

RecordOutcome(w) ==
  LET at == worker[w].at
  IN /\ worker[w].pc = "settle"
     /\ IF Fenced(w) /\ occ[at].status = "PENDING" /\ CanBump
        THEN Settle(at, worker[w].outcome)
        ELSE UNCHANGED <<sched, occ>>
     /\ GiveUp(w)
     /\ UNCHANGED <<now, runs, edit, owner, task>>

\* The process stops, or the answer to a commit is lost: the claim is dropped.
LoseWorker(w) ==
  /\ worker[w].pc # "idle"
  /\ GiveUp(w)
  /\ UNCHANGED <<now, sched, occ, runs, edit, owner, task>>

(***************************************************************************)
(* The surroundings: time, the Runs, access rights and the task.             *)
(***************************************************************************)
AdvanceClock ==
  /\ now < MaxTime
  /\ now' = now + 1
  /\ UNCHANGED <<sched, occ, runs, worker, edit, owner, task>>

EndRun(t) ==
  /\ runs[t] = "active"
  /\ runs' = [runs EXCEPT ![t] = "ended"]
  /\ UNCHANGED <<now, sched, occ, worker, edit, owner, task>>

Withdraw ==
  /\ \/ owner /\ owner' = FALSE /\ UNCHANGED task
     \/ task /\ task' = FALSE /\ UNCHANGED owner
  /\ UNCHANGED <<now, sched, occ, runs, worker, edit>>

SchedInit ==
  /\ now = 1 /\ sched = Absent /\ edit = NoEdit
  /\ occ = [t \in Times |-> NoOcc]
  /\ runs = [t \in Times |-> "none"]
  /\ worker = [w \in Workers |-> IdleWorker]
  /\ owner = TRUE /\ task = TRUE

UserStep == CreateSchedule \/ BeginUpdate \/ UpdateSchedule \/ ChangeStatus
FireStep(w) ==
  \/ FindReplay(w) \/ CheckOverlap(w) \/ ResolveTask(w) \/ CreateRun(w)
  \/ RecordOutcome(w)
TickStep(w) ==
  \/ ClaimRecoverable(w) \/ ListDue(w) \/ ClaimDue(w) \/ NoLongerDue(w)

SchedNext ==
  \/ UserStep
  \/ \E w \in Workers : TickStep(w) \/ FireStep(w) \/ LoseWorker(w)
  \/ AdvanceClock
  \/ \E t \in Times : EndRun(t)
  \/ Withdraw

SchedSpec == SchedInit /\ [][SchedNext]_schedVars

(***************************************************************************)
(* Properties.                                                              *)
(***************************************************************************)

\* Every column holds a value of its type.
SchedTypeOK ==
  /\ now \in Times
  /\ sched \in SchedRows
  /\ occ \in [Times -> OccRows]
  /\ runs \in [Times -> {"none", "active", "ended"}]
  /\ \A w \in Workers :
       /\ worker[w].at \in Times \cup {None}
       /\ worker[w].outcome \in Outcomes \cup {"NONE"}
  /\ owner \in BOOLEAN /\ task \in BOOLEAN

\* The Runs a schedule has created, with the one its pending occurrence may still
\* create, never exceed max_runs, through edits of the limit, pauses and recovered
\* claims; and run_count counts exactly the Runs that exist.
RunLimitKept ==
  /\ sched.runCount = Cardinality(CreatedRuns)
  /\ sched.status # "ABSENT" /\ sched.def.maxRuns # None =>
       sched.runCount + Cardinality(Pending) <= sched.def.maxRuns

\* Two Runs of one schedule never run at the same time, whichever workers created
\* them and however stale their overlap check was.
OneRunAtATime == Cardinality({t \in Times : runs[t] = "active"}) <= 1

\* A schedule that is ACTIVE either has a next instant or an occurrence that is still
\* pending: it is never active with nothing left to wake it.
ActiveScheduleGoesOn ==
  sched.status = "ACTIVE" /\ sched.next = None => Pending # {}

\* The next instant is one the current definition fires at: otherwise claim_due raises
\* outside of the handler that isolates schedules, and the whole tick stops.
CandidateMatchesDefinition ==
  sched.next # None => NextFromDefinition(sched.def, sched.next - 1) = sched.next

\* As long as nobody edits or pauses the schedule, each instant at which the clock
\* matches is an occurrence, or still waits to be claimed, or was skipped; and the
\* skipped ones are counted as missed, each of them unless more than MissedLimit were
\* skipped in a row behind one occurrence, where the count falls short of them.
FiredUpTo(t) ==
  IF sched.def.kind = "ONCE" THEN {u \in {sched.def.runAt} : u > sched.created /\ u <= t}
  ELSE {u \in sched.created + 1..t : FiresAt(sched.def.cron, u) /\ Within(sched.def, u)}
Undisturbed == sched.version = 1 + Cardinality(Pending) + 2 * Cardinality(Settled)
Claimed == Pending \cup Settled
Passed == {u \in FiredUpTo(now) : sched.next = None \/ u < sched.next}
Skipped == Passed \ Claimed
SkippedBehind(t) == {u \in Skipped : u > t /\ \A v \in Claimed : v > t => v > u}
NoInstantLost ==
  sched.status = "ACTIVE" /\ Undisturbed =>
    /\ Claimed \subseteq Passed
    /\ sched.missed <= Cardinality(Skipped)
    /\ sched.missed < Cardinality(Skipped) =>
         /\ sched.missed >= MissedLimit
         /\ \E t \in Claimed : Cardinality(SkippedBehind(t)) > MissedLimit

\* Occurrences are claimed in the order of their instants and each at most once, and a
\* settled one never changes again.
OccurrenceAdvances ==
  \A t \in Times :
    /\ occ[t].status = "NONE" /\ occ'[t].status # "NONE" =>
         \A u \in Times : occ[u].status # "NONE" => u < t
    /\ occ[t].status # "NONE" => occ'[t].version = occ[t].version
    /\ occ[t].status = "SETTLED" => occ'[t] = occ[t]
OccurrencesAdvance == [][OccurrenceAdvances]_schedVars

\* The calendar on which CandidateMatchesDefinition and NoInstantLost depend: expressions
\* are searched far enough, and the clock shows local minutes in order.
SearchIsExact == ClockRunsOn /\ \A def \in Definitions : SearchReaches(def.cron)

(* However claims, recoveries, edits and finished Runs interleave, the run      *)
(* limit and the ban on overlap hold, no due instant is lost, and a schedule    *)
(* that can still fire has its next instant set.                                *)
SchedulesAreKept ==
  /\ RunLimitKept
  /\ OneRunAtATime
  /\ ActiveScheduleGoesOn
  /\ CandidateMatchesDefinition
  /\ NoInstantLost
=============================================================================
