---------------------------- MODULE RunLifecycle ----------------------------
(***************************************************************************)
(* A Run as PostgreSQL holds it: the Run row, its Segments, the Attempts   *)
(* Workers make on a Segment under a lease, the PRIMARY AgentSession of an  *)
(* Attempt, the question or effect approval a Segment waits for, and the   *)
(* dispatch messages that wake a Worker.                                    *)
(*                                                                         *)
(* Every service method of the backend is one transaction that first locks *)
(* the Run row (Run -> Segment -> Attempt), so every action below is one    *)
(* transaction, or a step of the environment: time passing, a Worker        *)
(* process dying, the outbox relay, the agent's free choices.               *)
(*                                                                         *)
(* The effect behind an approval is kept to the four states the Run looks  *)
(* at; EffectLifecycle models it in full.                                  *)
(***************************************************************************)
EXTENDS Naturals

CONSTANTS
  Runs,          \* the Run ids
  Workers,       \* business Worker processes (one job at a time each)
  Idle,          \* a Worker without a claim
  MaxSegments,   \* bound: Segments per Run (the code has no limit)
  MaxAttempts,   \* settings.run_max_attempts, Attempts per Segment
  LeaseTTL       \* lease length, in heartbeat intervals

ASSUME BoundsAssumption ==
  /\ MaxSegments \in Nat \ {0}
  /\ MaxAttempts \in Nat \ {0}
  /\ LeaseTTL \in Nat \ {0}

SegmentNos == 1..MaxSegments
AttemptNos == 1..MaxAttempts
Segments   == Runs \X SegmentNos
Attempts   == Runs \X SegmentNos \X AttemptNos

\* A dispatch message is named by the Attempt it asks for; the one after the
\* last permitted Attempt makes the claim give up.
Dispatches == Runs \X SegmentNos \X (1..(MaxAttempts + 1))

ASSUME IdleAssumption == Idle \notin Attempts

CapacityMaxAttempts == 3

VARIABLES
  status,       \* Run.status, "ABSENT" before creation
  cancel,       \* a RUN_CANCEL_REQUESTED event of the Run exists
  retry,        \* capacity retry_at in Run.error_json: none, in the future, past
  inline,       \* the active Attempt has an inline_proposal_id
  segno,        \* segment_no of the latest Segment
  segment,      \* RunSegment.status
  interaction,  \* status of the Segment's UserInteraction
  approval,     \* ChangeProposal/EffectExecution of the Segment, coarsely
  overdue,      \* Segments whose question or proposal is past expires_at
  tries,        \* max(attempt_no) of the Segment
  attempt,      \* RunAttempt.status
  lease,        \* intervals until lease_expires_at; 0 is expired or cleared
  session,      \* AgentSession.status of the Attempt's PRIMARY session
  worker,       \* the Attempt a Worker has claimed and still executes
  outbox,       \* run.dispatch.requested messages not yet published
  queue         \* execute_run jobs in Redis

runVars     == <<status, cancel, retry, inline, segno>>
segmentVars == <<segment, interaction, approval, overdue, tries>>
attemptVars == <<attempt, lease, session>>
vars == <<runVars, segmentVars, attemptVars, worker, outbox, queue>>

TerminalRunStatuses == {"SUCCEEDED", "FAILED", "CANCELLED"}
Active == {"LEASED", "RUNNING"}

RunStatuses ==
  {"ABSENT", "QUEUED", "PREPARING", "RUNNING", "RETRY_PENDING",
   "WAITING_FOR_INPUT", "WAITING_FOR_APPROVAL", "WAITING_PERMISSION",
   "SUCCEEDED", "FAILED", "CANCELLED"}
SegmentStatuses ==
  {"ABSENT", "CREATED", "RUNNING", "WAITING", "COMPLETED", "FAILED",
   "CANCELLED"}
InteractionStatuses == {"ABSENT", "OPEN", "RESPONDED", "EXPIRED", "CANCELLED"}
ApprovalStatuses ==
  {"ABSENT", "PENDING_APPROVAL", "REQUESTED", "APPLYING", "APPLIED", "CLOSED"}
AttemptStatuses ==
  {"ABSENT", "LEASED", "RUNNING", "DEFERRED", "SUCCEEDED", "FAILED",
   "CANCELLED", "LEASE_EXPIRED"}
SessionStatuses ==
  {"ABSENT", "ACTIVE", "IDLE", "CLOSED", "FAILED", "INTERRUPTED"}

TypeOK ==
  /\ status \in [Runs -> RunStatuses]
  /\ cancel \in [Runs -> BOOLEAN]
  /\ retry \in [Runs -> {"none", "waiting", "due"}]
  /\ inline \in [Runs -> BOOLEAN]
  /\ segno \in [Runs -> 0..MaxSegments]
  /\ segment \in [Segments -> SegmentStatuses]
  /\ interaction \in [Segments -> InteractionStatuses]
  /\ approval \in [Segments -> ApprovalStatuses]
  /\ overdue \in SUBSET Segments
  /\ tries \in [Segments -> 0..MaxAttempts]
  /\ attempt \in [Attempts -> AttemptStatuses]
  /\ lease \in [Attempts -> 0..LeaseTTL]
  /\ session \in [Attempts -> SessionStatuses]
  /\ worker \in [Workers -> Attempts \cup {Idle}]
  /\ outbox \in SUBSET Dispatches
  /\ queue \in SUBSET Dispatches

Init ==
  /\ status = [r \in Runs |-> "ABSENT"]
  /\ cancel = [r \in Runs |-> FALSE]
  /\ retry = [r \in Runs |-> "none"]
  /\ inline = [r \in Runs |-> FALSE]
  /\ segno = [r \in Runs |-> 0]
  /\ segment = [s \in Segments |-> "ABSENT"]
  /\ interaction = [s \in Segments |-> "ABSENT"]
  /\ approval = [s \in Segments |-> "ABSENT"]
  /\ overdue = {}
  /\ tries = [s \in Segments |-> 0]
  /\ attempt = [a \in Attempts |-> "ABSENT"]
  /\ lease = [a \in Attempts |-> 0]
  /\ session = [a \in Attempts |-> "ABSENT"]
  /\ worker = [w \in Workers |-> Idle]
  /\ outbox = {}
  /\ queue = {}

-----------------------------------------------------------------------------
\* The latest Segment of a Run, and the Attempt number a claim would create.
Latest(r) == <<r, segno[r]>>
NextNo(r) == tries[Latest(r)] + 1

SegmentOf(a) == <<a[1], a[2]>>

SetStatus(r, s) == status' = [status EXCEPT ![r] = s]

\* What _validate_claimed_lease accepts: the Attempt is still active, its token
\* is not cleared and its lease is not past.
HoldsLease(w) ==
  /\ worker[w] # Idle
  /\ attempt[worker[w]] \in Active
  /\ lease[worker[w]] > 0

\* Mutant of Continue: the Segment that waited is not closed.
ContinueLeavingSegmentOpen(r) ==
  /\ segment' = [segment EXCEPT ![<<r, segno[r] + 1>>] = "CREATED"]
  /\ segno' = [segno EXCEPT ![r] = segno[r] + 1]
  /\ SetStatus(r, "QUEUED")
  /\ outbox' = outbox \cup {<<r, segno[r] + 1, 1>>}

\* The Run continues in a new Segment: the waiting one is COMPLETED, the next
\* one CREATED, the Run QUEUED with a dispatch message in the same commit.
Continue(r) ==
  /\ segment' = [segment EXCEPT ![Latest(r)] = "COMPLETED",
                                ![<<r, segno[r] + 1>>] = "CREATED"]
  /\ segno' = [segno EXCEPT ![r] = segno[r] + 1]
  /\ SetStatus(r, "QUEUED")
  /\ outbox' = outbox \cup {<<r, segno[r] + 1, 1>>}

\* The Run ends together with its latest Segment.
Close(r, s) ==
  /\ SetStatus(r, s)
  /\ segment' = [segment EXCEPT ![Latest(r)] = s]

-----------------------------------------------------------------------------
(* API: create and cancel.                                                 *)

CreateIdempotent(r) ==
  /\ status[r] = "ABSENT"
  /\ SetStatus(r, "QUEUED")
  /\ segno' = [segno EXCEPT ![r] = 1]
  /\ segment' = [segment EXCEPT ![<<r, 1>>] = "CREATED"]
  /\ outbox' = outbox \cup {<<r, 1, 1>>}
  /\ UNCHANGED <<cancel, retry, inline, interaction, approval, overdue, tries,
                 attemptVars, worker, queue>>

\* A Worker or an effect is active: only the intent is recorded.
RequestCancellation(r) ==
  /\ \/ status[r] \in {"PREPARING", "RUNNING"}
     \/ /\ status[r] = "WAITING_FOR_APPROVAL"
        /\ approval[Latest(r)] = "APPLYING"
  /\ cancel' = [cancel EXCEPT ![r] = TRUE]
  /\ UNCHANGED <<status, retry, inline, segno, segmentVars, attemptVars, worker,
                 outbox, queue>>

\* Mutant of CancelQueued: a finished Run can be cancelled.
CancelAny(r) ==
  /\ status[r] \in {"QUEUED", "RETRY_PENDING", "SUCCEEDED"}
  /\ Close(r, "CANCELLED")
  /\ retry' = [retry EXCEPT ![r] = "none"]
  /\ UNCHANGED <<cancel, inline, segno, interaction, approval, overdue, tries,
                 attemptVars, worker, outbox, queue>>

CancelQueued(r) ==
  /\ status[r] \in {"QUEUED", "RETRY_PENDING"}
  /\ Close(r, "CANCELLED")
  /\ retry' = [retry EXCEPT ![r] = "none"]
  /\ UNCHANGED <<cancel, inline, segno, interaction, approval, overdue, tries,
                 attemptVars, worker, outbox, queue>>

\* Mutant of CancelWaiting: the open question is forgotten.
CancelLeavingQuestion(r) ==
  LET c == Latest(r) IN
  /\ status[r] \in {"WAITING_FOR_INPUT", "WAITING_FOR_APPROVAL",
                    "WAITING_PERMISSION"}
  /\ ~ (status[r] = "WAITING_FOR_APPROVAL" /\ approval[c] = "APPLYING")
  /\ Close(r, "CANCELLED")
  /\ UNCHANGED <<cancel, retry, inline, segno, interaction, approval, overdue,
                 tries, attemptVars, worker, outbox, queue>>

CancelWaiting(r) ==
  LET c == Latest(r) IN
  /\ status[r] \in {"WAITING_FOR_INPUT", "WAITING_FOR_APPROVAL",
                    "WAITING_PERMISSION"}
  /\ ~ (status[r] = "WAITING_FOR_APPROVAL" /\ approval[c] = "APPLYING")
  /\ Close(r, "CANCELLED")
  /\ attempt' = [a \in Attempts |->
                   IF SegmentOf(a) = c /\ attempt[a] = "DEFERRED"
                     THEN "CANCELLED" ELSE attempt[a]]
  /\ interaction' = [s \in Segments |->
                       IF s[1] = r /\ interaction[s] = "OPEN"
                         THEN "CANCELLED" ELSE interaction[s]]
  /\ approval' = [s \in Segments |->
                    IF s[1] = r /\ approval[s] = "REQUESTED"
                      THEN "CLOSED" ELSE approval[s]]
  /\ UNCHANGED <<cancel, retry, inline, segno, overdue, tries, lease, session, worker,
                 outbox, queue>>

-----------------------------------------------------------------------------
(* Outbox relay and Queue.                                                 *)

\* A message is published and then marked as such; the job id is derived from the
\* message, so a job still in the Queue is not doubled.
RelayOutbox(d) ==
  /\ d \in outbox
  /\ queue' = queue \cup {d}
  /\ outbox' = outbox \ {d}
  /\ UNCHANGED <<runVars, segmentVars, attemptVars, worker>>

\* The relay dies between the two: the message will be published again.
RelayCrash(d) ==
  /\ d \in outbox
  /\ queue' = queue \cup {d}
  /\ UNCHANGED <<runVars, segmentVars, attemptVars, worker, outbox>>

\* Mutant of Deferred: retry_at is not passed to the Queue.
DeliveredAtOnce(d) == FALSE

\* The dispatch of a capacity retry carries retry_at and is not delivered before.
Deferred(d) ==
  LET r == d[1] IN retry[r] = "waiting" /\ d = <<r, segno[r], NextNo(r)>>

\* Mutant of Claimable: any Run that is not finished is claimed.
ClaimableUnlessTerminal(r) ==
  /\ status[r] \notin TerminalRunStatuses \cup {"ABSENT"}
  /\ retry[r] # "waiting"
  /\ segment[Latest(r)] \in {"CREATED", "RUNNING"}

Claimable(r) ==
  /\ status[r] \in {"QUEUED", "RETRY_PENDING"}
  /\ retry[r] # "waiting"
  /\ segment[Latest(r)] \in {"CREATED", "RUNNING"}
  /\ \A n \in AttemptNos :
       attempt[<<r, segno[r], n>>] \notin Active \cup {"DEFERRED"}

\* A capacity retry resumes the session of the Attempt that was refused.
CapacitySessionKept(r) ==
  retry[r] = "due" =>
    /\ tries[Latest(r)] > 0
    /\ attempt[<<r, segno[r], tries[Latest(r)]>>] = "FAILED"
    /\ session[<<r, segno[r], tries[Latest(r)]>>] = "FAILED"

\* Mutant of NewAttempt: max_attempts is not compared.
NewAttemptUnlimited(w, r) ==
  LET a == <<r, segno[r], NextNo(r)>> IN
  /\ Claimable(r)
  /\ SetStatus(r, "PREPARING")
  /\ retry' = [retry EXCEPT ![r] = "none"]
  /\ segment' = [segment EXCEPT ![Latest(r)] = "RUNNING"]
  /\ tries' = [tries EXCEPT ![Latest(r)] = NextNo(r)]
  /\ attempt' = [attempt EXCEPT ![a] = "LEASED"]
  /\ lease' = [lease EXCEPT ![a] = LeaseTTL]
  /\ worker' = [worker EXCEPT ![w] = a]
  /\ UNCHANGED <<cancel, inline, segno, interaction, approval, overdue, session>>

NewAttempt(w, r) ==
  LET a == <<r, segno[r], NextNo(r)>> IN
  /\ Claimable(r)
  /\ NextNo(r) <= MaxAttempts
  /\ CapacitySessionKept(r)
  /\ SetStatus(r, "PREPARING")
  /\ retry' = [retry EXCEPT ![r] = "none"]
  /\ segment' = [segment EXCEPT ![Latest(r)] = "RUNNING"]
  /\ tries' = [tries EXCEPT ![Latest(r)] = NextNo(r)]
  /\ attempt' = [attempt EXCEPT ![a] = "LEASED"]
  /\ lease' = [lease EXCEPT ![a] = LeaseTTL]
  /\ worker' = [worker EXCEPT ![w] = a]
  /\ UNCHANGED <<cancel, inline, segno, interaction, approval, overdue, session>>

TakeJob(w, d) ==
  /\ worker[w] = Idle
  /\ d \in queue
  /\ ~ Deferred(d)
  /\ queue' = queue \ {d}

ClaimForExecution(w, d) ==
  /\ TakeJob(w, d)
  /\ NewAttempt(w, d[1])
  /\ UNCHANGED outbox

ExhaustRetries(w, d) ==
  LET r == d[1] IN
  /\ TakeJob(w, d)
  /\ Claimable(r)
  /\ NextNo(r) > MaxAttempts
  /\ Close(r, "FAILED")
  /\ retry' = [retry EXCEPT ![r] = "none"]
  /\ UNCHANGED <<cancel, inline, segno, interaction, approval, overdue, tries,
                 attemptVars, worker, outbox>>

\* The claim returns None or raises: the job is over and nothing was written.
IgnoreDispatch(w, d) ==
  LET r == d[1] IN
  /\ TakeJob(w, d)
  /\ ~ (Claimable(r) /\ (NextNo(r) <= MaxAttempts => CapacitySessionKept(r)))
  /\ UNCHANGED <<runVars, segmentVars, attemptVars, worker, outbox>>

\* After the job itself applied an automatically approved effect it goes on with
\* the next Segment; the dispatch message of that Segment stays behind.
WarmContinuation(w) ==
  LET a == worker[w]
      r == a[1]
  IN
  /\ a # Idle
  /\ attempt[a] = "DEFERRED"
  /\ status[r] = "QUEUED"
  /\ segno[r] = a[2] + 1
  /\ approval[SegmentOf(a)] = "APPLIED"
  /\ interaction[SegmentOf(a)] = "ABSENT"
  /\ NewAttempt(w, r)
  /\ UNCHANGED <<outbox, queue>>

-----------------------------------------------------------------------------
(* The Worker that holds the lease.                                        *)

Executing(w, s) == HoldsLease(w) /\ status[worker[w][1]] = s

\* The Worker's Attempt leaves the active states: its lease is given up.
Release(a, s) ==
  /\ attempt' = [attempt EXCEPT ![a] = s]
  /\ lease' = [lease EXCEPT ![a] = 0]

SetWorker(w, a) == worker' = [worker EXCEPT ![w] = a]

\* Mutant of PrepareExecution: the Attempt stays LEASED.
PrepareRunOnly(w) ==
  LET a == worker[w] IN
  /\ Executing(w, "PREPARING")
  /\ SetStatus(a[1], "RUNNING")
  /\ segment' = [segment EXCEPT ![SegmentOf(a)] = "RUNNING"]
  /\ UNCHANGED <<cancel, retry, inline, segno, interaction, approval, overdue,
                 tries, attemptVars, worker, outbox, queue>>

PrepareExecution(w) ==
  LET a == worker[w] IN
  /\ Executing(w, "PREPARING")
  /\ SetStatus(a[1], "RUNNING")
  /\ attempt' = [attempt EXCEPT ![a] = "RUNNING"]
  /\ segment' = [segment EXCEPT ![SegmentOf(a)] = "RUNNING"]
  /\ UNCHANGED <<cancel, retry, inline, segno, interaction, approval, overdue,
                 tries, lease, session, worker, outbox, queue>>

\* The first stored event of an Attempt creates its PRIMARY AgentSession; later
\* events change nothing modelled here.
AppendAgentEvent(w) ==
  LET a == worker[w] IN
  /\ Executing(w, "RUNNING")
  /\ ~ cancel[a[1]]
  /\ session[a] = "ABSENT"
  /\ session' = [session EXCEPT ![a] = "ACTIVE"]
  /\ UNCHANGED <<runVars, segmentVars, attempt, lease, worker, outbox, queue>>

\* What every suspension checks: no cancellation intent, no question still open.
\* While an inline effect is unresolved the agent is inside its tool call and can
\* neither ask nor propose; a second inline proposal is refused. The room for a
\* further Segment is a bound of the model.
MaySuspend(w) ==
  LET r == worker[w][1] IN
  /\ Executing(w, "RUNNING")
  /\ ~ cancel[r]
  /\ ~ inline[r]
  /\ \A n \in SegmentNos : interaction[<<r, n>>] # "OPEN"
  /\ segno[r] < MaxSegments

Suspend(a, s) ==
  /\ SetStatus(a[1], s)
  /\ segment' = [segment EXCEPT ![SegmentOf(a)] = "WAITING"]
  /\ Release(a, "DEFERRED")
  /\ session' = [session EXCEPT ![a] = "IDLE"]

SuspendForInteraction(w) ==
  LET a == worker[w] IN
  /\ MaySuspend(w)
  /\ Suspend(a, "WAITING_FOR_INPUT")
  /\ interaction' = [interaction EXCEPT ![SegmentOf(a)] = "OPEN"]
  /\ SetWorker(w, Idle)
  /\ UNCHANGED <<cancel, retry, inline, segno, approval, overdue, tries, outbox,
                 queue>>

\* The change needs a human decision.
SuspendForProposal(w) ==
  LET a == worker[w] IN
  /\ MaySuspend(w)
  /\ Suspend(a, "WAITING_FOR_APPROVAL")
  /\ interaction' = [interaction EXCEPT ![SegmentOf(a)] = "OPEN"]
  /\ approval' = [approval EXCEPT ![SegmentOf(a)] = "PENDING_APPROVAL"]
  /\ SetWorker(w, Idle)
  /\ UNCHANGED <<cancel, retry, inline, segno, overdue, tries, outbox, queue>>

\* The change is approved by policy: the effect is requested at once and the job
\* stays to execute it.
SuspendForApprovedProposal(w) ==
  LET a == worker[w] IN
  /\ MaySuspend(w)
  /\ Suspend(a, "WAITING_FOR_APPROVAL")
  /\ approval' = [approval EXCEPT ![SegmentOf(a)] = "REQUESTED"]
  /\ UNCHANGED <<cancel, retry, inline, segno, interaction, overdue, tries,
                 worker, outbox, queue>>

\* The approved change is carried out inside the live tool call.
BeginInlineEffect(w) ==
  LET a == worker[w] IN
  /\ MaySuspend(w)
  /\ session[a] = "ACTIVE"
  /\ inline' = [inline EXCEPT ![a[1]] = TRUE]
  /\ approval' = [approval EXCEPT ![SegmentOf(a)] = "REQUESTED"]
  /\ UNCHANGED <<status, cancel, retry, segno, segment, interaction, overdue,
                 tries, attemptVars, worker, outbox, queue>>

\* The receipt of an applied inline effect goes back to the tool call.
InlineReceipt(w) ==
  LET a == worker[w] IN
  /\ Executing(w, "RUNNING")
  /\ inline[a[1]]
  /\ ~ cancel[a[1]]
  /\ approval[SegmentOf(a)] = "APPLIED"
  /\ inline' = [inline EXCEPT ![a[1]] = FALSE]
  /\ UNCHANGED <<status, cancel, retry, segno, segmentVars, attemptVars, worker,
                 outbox, queue>>

\* The end of an effect moves its Run: CANCELLED if that was requested, FAILED if
\* the outcome of the external write is unknown, else on to the next Segment.
FinishEffectContinuation(r, unknown) ==
  IF ~ cancel[r] /\ ~ unknown
    THEN Continue(r)
    ELSE /\ Close(r, IF cancel[r] THEN "CANCELLED" ELSE "FAILED")
         /\ UNCHANGED <<segno, outbox>>

\* An inline effect outlives its tool call: the Run waits for the same effect, or,
\* if that is over, goes on in the same transaction. A retryable failure is
\* requested again.
DetachInlineEffect(a) ==
  LET r == a[1]
      c == SegmentOf(a)
  IN
  /\ Release(a, "DEFERRED")
  /\ session' = [session EXCEPT ![a] = "IDLE"]
  /\ inline' = [inline EXCEPT ![r] = FALSE]
  /\ \/ /\ approval[c] \in {"REQUESTED", "APPLYING"}
        /\ SetStatus(r, "WAITING_FOR_APPROVAL")
        /\ segment' = [segment EXCEPT ![c] = "WAITING"]
        /\ UNCHANGED <<segno, outbox, approval>>
     \/ /\ approval[c] = "CLOSED"
        /\ ~ cancel[r]
        /\ SetStatus(r, "WAITING_FOR_APPROVAL")
        /\ segment' = [segment EXCEPT ![c] = "WAITING"]
        /\ approval' = [approval EXCEPT ![c] = "REQUESTED"]
        /\ UNCHANGED <<segno, outbox>>
     \/ /\ approval[c] \in {"APPLIED", "CLOSED"}
        /\ \E unknown \in BOOLEAN :
             /\ unknown => approval[c] = "CLOSED"
             /\ FinishEffectContinuation(r, unknown)
        /\ UNCHANGED approval
  /\ UNCHANGED <<cancel, retry, interaction, overdue, tries, queue>>

\* finalize_execution or suspend_inline_effect with an unresolved inline effect.
DetachInline(w) ==
  LET a == worker[w] IN
  /\ Executing(w, "RUNNING")
  /\ inline[a[1]]
  /\ DetachInlineEffect(a)
  /\ worker' = IF status'[a[1]] = "WAITING_FOR_APPROVAL"
                 THEN worker ELSE [worker EXCEPT ![w] = Idle]

\* How finalize_execution closes the rows below the Run, by Run status.
AttemptStatusFor(t) ==
  CASE t = "SUCCEEDED"          -> "SUCCEEDED"
    [] t = "CANCELLED"          -> "CANCELLED"
    [] t = "WAITING_PERMISSION" -> "DEFERRED"
    [] OTHER                    -> "FAILED"

\* Mutant of SessionStatusFor: a refused session counts as waiting.
SessionIdleOnRetry(t) ==
  CASE t = "SUCCEEDED" -> "CLOSED"
    [] t = "CANCELLED" -> "INTERRUPTED"
    [] t = "FAILED"    -> "FAILED"
    [] OTHER           -> "IDLE"

SessionStatusFor(t) ==
  CASE t = "SUCCEEDED"          -> "CLOSED"
    [] t = "CANCELLED"          -> "INTERRUPTED"
    [] t = "WAITING_PERMISSION" -> "IDLE"
    [] OTHER                    -> "FAILED"

SegmentStatusFor(t) ==
  CASE t = "SUCCEEDED"          -> "COMPLETED"
    [] t = "CANCELLED"          -> "CANCELLED"
    [] t = "WAITING_PERMISSION" -> "WAITING"
    [] t = "RETRY_PENDING"      -> "RUNNING"
    [] OTHER                    -> "FAILED"

\* Capacity refusals are retried while an Attempt is left, at most twice.
CapacityRetryLeft(a) == a[3] < MaxAttempts /\ a[3] < CapacityMaxAttempts

\* The target the Worker asks for. A result, a deferral and a capacity refusal
\* come with an agent event; CANCELLED needs the recorded intent.
FinalizeTarget(a, target, withEvent) ==
  /\ target \in {"SUCCEEDED", "WAITING_PERMISSION", "RETRY_PENDING"} => withEvent
  /\ target = "RETRY_PENDING" => CapacityRetryLeft(a)
  /\ target = "CANCELLED" => cancel[a[1]]

\* Mutant of WinningTarget: the intent is not looked up again.
WorkerTarget(r, target) == target

\* A cancellation intent committed before the lock wins over the target.
WinningTarget(r, target) == IF cancel[r] THEN "CANCELLED" ELSE target

FinalizeExecution(w, target, withEvent) ==
  LET a == worker[w]
      r == a[1]
      t == WinningTarget(r, target)
  IN
  /\ Executing(w, "RUNNING")
  /\ ~ inline[r]
  /\ FinalizeTarget(a, target, withEvent)
  /\ SetStatus(r, t)
  /\ retry' = [retry EXCEPT ![r] = IF t = "RETRY_PENDING"
                                     THEN "waiting" ELSE "none"]
  /\ Release(a, AttemptStatusFor(t))
  /\ segment' = [segment EXCEPT ![SegmentOf(a)] = SegmentStatusFor(t)]
  /\ session' = IF withEvent \/ session[a] # "ABSENT"
                  THEN [session EXCEPT ![a] = SessionStatusFor(t)]
                  ELSE session
  /\ outbox' = IF t = "RETRY_PENDING"
                 THEN outbox \cup {<<r, a[2], a[3] + 1>>} ELSE outbox
  /\ SetWorker(w, Idle)
  /\ UNCHANGED <<cancel, inline, segno, interaction, approval, overdue, tries,
                 queue>>

HeartbeatAttempt(w) ==
  /\ HoldsLease(w)
  /\ lease' = [lease EXCEPT ![worker[w]] = LeaseTTL]
  /\ UNCHANGED <<runVars, segmentVars, attempt, session, worker, outbox, queue>>

\* The job ends after its work is done, or because its lease is gone.
EndJob(w) ==
  /\ worker[w] # Idle
  /\ ~ HoldsLease(w)
  /\ SetWorker(w, Idle)
  /\ UNCHANGED <<runVars, segmentVars, attemptVars, outbox, queue>>

\* The process dies with its lease; the Queue may deliver the job again.
LoseWorker(w) ==
  /\ HoldsLease(w)
  /\ SetWorker(w, Idle)
  /\ queue' \in {queue, queue \cup {worker[w]}}
  /\ UNCHANGED <<runVars, segmentVars, attemptVars, outbox>>

-----------------------------------------------------------------------------
(* Time, and the maintenance sweep that acts on it.                        *)

ElapseLease(a) ==
  /\ attempt[a] \in Active
  /\ lease[a] > 0
  /\ lease' = [lease EXCEPT ![a] = lease[a] - 1]
  /\ UNCHANGED <<runVars, segmentVars, attempt, session, worker, outbox, queue>>

RetryDue(r) ==
  /\ retry[r] = "waiting"
  /\ retry' = [retry EXCEPT ![r] = "due"]
  /\ UNCHANGED <<status, cancel, inline, segno, segmentVars, attemptVars, worker,
                 outbox, queue>>

DeadlinePasses(s) ==
  /\ interaction[s] = "OPEN" \/ approval[s] = "PENDING_APPROVAL"
  /\ s \notin overdue
  /\ overdue' = overdue \cup {s}
  /\ UNCHANGED <<runVars, segment, interaction, approval, tries, attemptVars,
                 worker, outbox, queue>>

\* Mutant of LeaseExpired: closed Attempts are selected again.
LeaseOver(a) == attempt[a] # "ABSENT" /\ lease[a] = 0

LeaseExpired(a) == attempt[a] \in Active /\ lease[a] = 0

\* Mutant of CloseSession: the dead Worker's session stays ACTIVE.
KeepSession(a, s) == UNCHANGED session

CloseSession(a, s) ==
  session' = [session EXCEPT ![a] = IF session[a] = "ACTIVE" THEN s ELSE @]

RecoverInline(a) ==
  /\ LeaseExpired(a)
  /\ status[a[1]] = "RUNNING"
  /\ inline[a[1]]
  /\ DetachInlineEffect(a)
  /\ UNCHANGED worker

\* Mutant of ReclaimRun: the Run goes back without a dispatch message.
ReclaimSilently(a) ==
  LET r == a[1]
      t == IF cancel[r] THEN "CANCELLED" ELSE "RETRY_PENDING"
  IN
  /\ SetStatus(r, t)
  /\ attempt' = [attempt EXCEPT ![a] = IF cancel[r] THEN "CANCELLED"
                                                    ELSE "LEASE_EXPIRED"]
  /\ retry' = [retry EXCEPT ![r] = "none"]
  /\ segment' = [segment EXCEPT ![SegmentOf(a)] = SegmentStatusFor(t)]
  /\ CloseSession(a, IF cancel[r] THEN "INTERRUPTED" ELSE "FAILED")
  /\ UNCHANGED <<cancel, inline, segno, interaction, approval, overdue, tries,
                 lease, worker, outbox, queue>>

\* The lease of a dead Worker is reclaimed: the Run is cancelled if that was
\* asked for, else it goes back to the Queue.
ReclaimRun(a) ==
  LET r == a[1]
      t == IF cancel[r] THEN "CANCELLED" ELSE "RETRY_PENDING"
  IN
  /\ SetStatus(r, t)
  /\ attempt' = [attempt EXCEPT ![a] = IF cancel[r] THEN "CANCELLED"
                                                    ELSE "LEASE_EXPIRED"]
  /\ retry' = [retry EXCEPT ![r] = "none"]
  /\ segment' = [segment EXCEPT ![SegmentOf(a)] = SegmentStatusFor(t)]
  /\ CloseSession(a, IF cancel[r] THEN "INTERRUPTED" ELSE "FAILED")
  /\ outbox' = IF cancel[r] THEN outbox
                            ELSE outbox \cup {<<r, a[2], a[3] + 1>>}
  /\ UNCHANGED <<cancel, inline, segno, interaction, approval, overdue, tries,
                 lease, worker, queue>>

\* Mutant of RecoverExpiredAttempt: Runs with a cancellation are left to their
\* Worker.
RecoverUncancelled(a) ==
  /\ LeaseExpired(a)
  /\ status[a[1]] \in {"PREPARING", "RUNNING"}
  /\ ~ inline[a[1]]
  /\ ~ cancel[a[1]]
  /\ ReclaimRun(a)

RecoverExpiredAttempt(a) ==
  /\ LeaseExpired(a)
  /\ status[a[1]] \in {"PREPARING", "RUNNING"}
  /\ ~ inline[a[1]]
  /\ ReclaimRun(a)

-----------------------------------------------------------------------------
(* The answer a waiting Run gets: a person, a deadline or the effect.      *)

RespondToInteraction(r) ==
  /\ status[r] = "WAITING_FOR_INPUT"
  /\ segment[Latest(r)] = "WAITING"
  /\ interaction[Latest(r)] = "OPEN"
  /\ Latest(r) \notin overdue
  /\ interaction' = [interaction EXCEPT ![Latest(r)] = "RESPONDED"]
  /\ Continue(r)
  /\ UNCHANGED <<cancel, retry, inline, approval, overdue, tries, attemptVars,
                 worker, queue>>

\* By the sweep or by an answer that comes too late.
ExpireInteraction(r) ==
  /\ status[r] = "WAITING_FOR_INPUT"
  /\ segment[Latest(r)] = "WAITING"
  /\ interaction[Latest(r)] = "OPEN"
  /\ Latest(r) \in overdue
  /\ interaction' = [interaction EXCEPT ![Latest(r)] = "EXPIRED"]
  /\ Continue(r)
  /\ UNCHANGED <<cancel, retry, inline, approval, overdue, tries, attemptVars,
                 worker, queue>>

AwaitsDecision(r) ==
  /\ status[r] = "WAITING_FOR_APPROVAL"
  /\ approval[Latest(r)] = "PENDING_APPROVAL"
  /\ interaction[Latest(r)] = "OPEN"

ApproveProposal(r) ==
  /\ AwaitsDecision(r)
  /\ Latest(r) \notin overdue
  /\ interaction' = [interaction EXCEPT ![Latest(r)] = "RESPONDED"]
  /\ approval' = [approval EXCEPT ![Latest(r)] = "REQUESTED"]
  /\ UNCHANGED <<runVars, segment, overdue, tries, attemptVars, worker, outbox,
                 queue>>

RejectProposal(r) ==
  /\ AwaitsDecision(r)
  /\ Latest(r) \notin overdue
  /\ interaction' = [interaction EXCEPT ![Latest(r)] = "RESPONDED"]
  /\ approval' = [approval EXCEPT ![Latest(r)] = "CLOSED"]
  /\ Continue(r)
  /\ UNCHANGED <<cancel, retry, inline, overdue, tries, attemptVars, worker,
                 queue>>

\* Mutant of ExpireProposal: the Run is not told.
ExpireProposalOnly(r) ==
  /\ AwaitsDecision(r)
  /\ Latest(r) \in overdue
  /\ interaction' = [interaction EXCEPT ![Latest(r)] = "EXPIRED"]
  /\ approval' = [approval EXCEPT ![Latest(r)] = "CLOSED"]
  /\ UNCHANGED <<runVars, segment, overdue, tries, attemptVars, worker, outbox,
                 queue>>

ExpireProposal(r) ==
  /\ AwaitsDecision(r)
  /\ Latest(r) \in overdue
  /\ interaction' = [interaction EXCEPT ![Latest(r)] = "EXPIRED"]
  /\ approval' = [approval EXCEPT ![Latest(r)] = "CLOSED"]
  /\ Continue(r)
  /\ UNCHANGED <<cancel, retry, inline, overdue, tries, attemptVars, worker,
                 queue>>

\* Mutant of CloseStaleProposal: every overdue proposal continues its Run.
ContinueStaleProposal(s) ==
  /\ approval[s] = "PENDING_APPROVAL"
  /\ s \in overdue
  /\ ~ AwaitsDecision(s[1])
  /\ approval' = [approval EXCEPT ![s] = "CLOSED"]
  /\ Continue(s[1])
  /\ UNCHANGED <<cancel, retry, inline, interaction, overdue, tries, attemptVars,
                 worker, queue>>

\* A proposal whose Run was cancelled stays pending until its deadline.
CloseStaleProposal(s) ==
  /\ approval[s] = "PENDING_APPROVAL"
  /\ s \in overdue
  /\ ~ (status[s[1]] = "WAITING_FOR_APPROVAL" /\ interaction[s] = "OPEN")
  /\ approval' = [approval EXCEPT ![s] = "CLOSED"]
  /\ interaction' = [interaction EXCEPT
                       ![s] = IF @ = "OPEN" THEN "EXPIRED" ELSE @]
  /\ UNCHANGED <<runVars, segment, overdue, tries, attemptVars, worker, outbox,
                 queue>>

\* The inline effect's parent Attempt still owns the Run.
InlineParentActive(r) ==
  /\ inline[r]
  /\ status[r] = "RUNNING"
  /\ lease[<<r, segno[r], tries[Latest(r)]>>] > 0

ClaimEffect(r) ==
  /\ status[r] = "WAITING_FOR_APPROVAL" \/ InlineParentActive(r)
  /\ approval[Latest(r)] = "REQUESTED"
  /\ ~ cancel[r]
  /\ approval' = [approval EXCEPT ![Latest(r)] = "APPLYING"]
  /\ UNCHANGED <<runVars, segment, interaction, overdue, tries, attemptVars,
                 worker, outbox, queue>>

\* A retryable failure or an expired effect lease.
RequeueEffect(r) ==
  /\ status[r] = "WAITING_FOR_APPROVAL"
  /\ approval[Latest(r)] = "APPLYING"
  /\ ~ cancel[r]
  /\ approval' = [approval EXCEPT ![Latest(r)] = "REQUESTED"]
  /\ UNCHANGED <<runVars, segment, interaction, overdue, tries, attemptVars,
                 worker, outbox, queue>>

\* The effect is applied, or closed without the change: before the Provider was
\* called (cancellation, deadline, attempts used up) or by its answer.
SettleEffect(r, outcome, unknown) ==
  /\ status[r] = "WAITING_FOR_APPROVAL"
  /\ \/ approval[Latest(r)] = "APPLYING"
     \/ approval[Latest(r)] = "REQUESTED" /\ outcome = "CLOSED"
  /\ unknown => outcome = "CLOSED"
  /\ approval' = [approval EXCEPT ![Latest(r)] = outcome]
  /\ FinishEffectContinuation(r, unknown)
  /\ UNCHANGED <<cancel, retry, inline, interaction, overdue, tries, attemptVars,
                 worker, queue>>

\* The same for an inline effect: its Run is not touched.
SettleInlineEffect(r, outcome) ==
  /\ inline[r]
  /\ status[r] = "RUNNING"
  /\ \/ approval[Latest(r)] = "APPLYING"
     \/ approval[Latest(r)] = "REQUESTED" /\ outcome = "CLOSED"
  /\ outcome = "APPLIED" => InlineParentActive(r)
  /\ approval' = [approval EXCEPT ![Latest(r)] = outcome]
  /\ UNCHANGED <<runVars, segment, interaction, overdue, tries, attemptVars,
                 worker, outbox, queue>>

-----------------------------------------------------------------------------
FinalTargets ==
  {"SUCCEEDED", "FAILED", "CANCELLED", "WAITING_PERMISSION", "RETRY_PENDING"}

ApiStep(r) ==
  \/ CreateIdempotent(r) \/ RequestCancellation(r)
  \/ CancelQueued(r) \/ CancelWaiting(r)
  \/ RespondToInteraction(r) \/ ApproveProposal(r) \/ RejectProposal(r)

TakeDispatch(w, d) ==
  ClaimForExecution(w, d) \/ ExhaustRetries(w, d) \/ IgnoreDispatch(w, d)

FinishExecution(w) ==
  \/ DetachInline(w)
  \/ \E target \in FinalTargets, withEvent \in BOOLEAN :
       FinalizeExecution(w, target, withEvent)

WorkerStep(w) ==
  \/ WarmContinuation(w) \/ PrepareExecution(w) \/ AppendAgentEvent(w)
  \/ SuspendForInteraction(w) \/ SuspendForProposal(w)
  \/ SuspendForApprovedProposal(w)
  \/ BeginInlineEffect(w) \/ InlineReceipt(w)
  \/ FinishExecution(w)
  \/ HeartbeatAttempt(w) \/ EndJob(w) \/ LoseWorker(w)

EffectSettles(r) ==
  \E outcome \in {"APPLIED", "CLOSED"}, unknown \in BOOLEAN :
    SettleEffect(r, outcome, unknown)

EffectStep(r) ==
  \/ ClaimEffect(r) \/ RequeueEffect(r) \/ EffectSettles(r)
  \/ \E outcome \in {"APPLIED", "CLOSED"} : SettleInlineEffect(r, outcome)

SweepStep ==
  \/ \E a \in Attempts : RecoverExpiredAttempt(a) \/ RecoverInline(a)
  \/ \E r \in Runs : ExpireInteraction(r) \/ ExpireProposal(r)
  \/ \E s \in Segments : CloseStaleProposal(s)

TimeStep ==
  \/ \E a \in Attempts : ElapseLease(a)
  \/ \E r \in Runs : RetryDue(r)
  \/ \E s \in Segments : DeadlinePasses(s)

Next ==
  \/ \E r \in Runs : ApiStep(r) \/ EffectStep(r)
  \/ \E d \in Dispatches : RelayOutbox(d) \/ RelayCrash(d)
  \/ \E w \in Workers, d \in Dispatches : TakeDispatch(w, d)
  \/ \E w \in Workers : WorkerStep(w)
  \/ SweepStep
  \/ TimeStep

Spec == Init /\ [][Next]_vars

\* Time passes, the relay and the sweep run as cron jobs, a live Worker process
\* goes on (the engine has a wall clock limit) and the Queue is first in, first
\* out, so no job is passed over for ever. An effect ends because its attempts
\* are limited (EffectEnds of EffectLifecycle). Nobody has to answer, approve or
\* cancel.
Fairness ==
  /\ \A d \in Dispatches :
       /\ WF_vars(RelayOutbox(d))
       /\ SF_vars(\E w \in Workers : TakeDispatch(w, d))
  /\ \A w \in Workers :
       /\ WF_vars(PrepareExecution(w))
       /\ WF_vars(FinishExecution(w))
       /\ WF_vars(EndJob(w))
  /\ \A a \in Attempts :
       /\ WF_vars(ElapseLease(a))
       /\ WF_vars(RecoverExpiredAttempt(a))
       /\ WF_vars(RecoverInline(a))
  /\ \A r \in Runs :
       /\ WF_vars(RetryDue(r))
       /\ WF_vars(EffectSettles(r))
       /\ WF_vars(ExpireInteraction(r))
       /\ WF_vars(ExpireProposal(r))
  /\ \A s \in Segments : WF_vars(DeadlinePasses(s))

FairSpec == Spec /\ Fairness

-----------------------------------------------------------------------------
(* Safety.                                                                 *)

\* At most one Worker can write for a Run: two Workers that both pass the lease
\* check of _validate_claimed_lease never hold Attempts of the same Run, however
\* often jobs are delivered twice and leases are taken back.
AtMostOneExecutor ==
  \A v, w \in Workers :
    HoldsLease(v) /\ HoldsLease(w) /\ worker[v][1] = worker[w][1] => v = w

\* The Run row and its Attempts agree on who executes: an active Attempt is the
\* newest one of the newest Segment and its status is that of the Run, and a Run
\* that claims to be executed has such an Attempt for the sweep to find.
ExecutionOwnership ==
  /\ \A a \in Attempts :
       attempt[a] \in Active =>
         /\ a[2] = segno[a[1]]
         /\ a[3] = tries[SegmentOf(a)]
         /\ status[a[1]] =
              IF attempt[a] = "LEASED" THEN "PREPARING" ELSE "RUNNING"
  /\ \A r \in Runs :
       status[r] \in {"PREPARING", "RUNNING"} =>
         /\ segno[r] > 0
         /\ tries[Latest(r)] > 0
         /\ attempt[<<r, segno[r], tries[Latest(r)]>>] \in Active

\* Segments and Attempts are numbered without gaps and without reuse, a wait
\* leaves room for the Segment that follows it, and an Attempt has been claimed by
\* one Worker only. With ExecutionOwnership this is inductive.
Numbering ==
  /\ \A r \in Runs :
       /\ status[r] = "ABSENT" => segno[r] = 0
       /\ status[r] # "ABSENT" => segno[r] > 0
       /\ status[r] = "QUEUED" => tries[Latest(r)] = 0
       /\ status[r] \in {"WAITING_FOR_INPUT", "WAITING_FOR_APPROVAL"} \/ inline[r]
            => segno[r] < MaxSegments
       /\ inline[r] => status[r] = "RUNNING"
  /\ \A s \in Segments : s[2] > segno[s[1]] => tries[s] = 0
  /\ \A a \in Attempts : a[3] > tries[SegmentOf(a)] => attempt[a] = "ABSENT"
  /\ \A w \in Workers : worker[w] # Idle => attempt[worker[w]] # "ABSENT"
  /\ \A v, w \in Workers : worker[v] # Idle /\ worker[v] = worker[w] => v = w

\* A Run that needs a Worker has a message that will fetch one: the dispatch of
\* its next Attempt is in the outbox or in the Queue. No other sweep looks for
\* QUEUED or RETRY_PENDING Runs.
WakeupPending ==
  \A r \in Runs :
    status[r] \in {"QUEUED", "RETRY_PENDING"} =>
      <<r, segno[r], NextNo(r)>> \in outbox \cup queue

\* The status of the newest Segment follows the Run through every operation.
SegmentFor(s) ==
  CASE s = "QUEUED" -> "CREATED"
    [] s \in {"PREPARING", "RUNNING", "RETRY_PENDING"} -> "RUNNING"
    [] s \in {"WAITING_FOR_INPUT", "WAITING_FOR_APPROVAL",
              "WAITING_PERMISSION"} -> "WAITING"
    [] s = "SUCCEEDED" -> "COMPLETED"
    [] OTHER -> s

SegmentFollowsRun ==
  \A r \in Runs :
    status[r] # "ABSENT" =>
      /\ segment[Latest(r)] = SegmentFor(status[r])
      /\ \A n \in SegmentNos :
           n < segno[r] => segment[<<r, n>>] = "COMPLETED"

\* What a Run waits for exists, and exists only while the Run waits for it: an
\* open question belongs to the newest Segment of a waiting Run, an authorised
\* effect always has a Run that will take its outcome, and a waiting Run has
\* something that can end the wait.
WaitIsBacked ==
  /\ \A s \in Segments :
       /\ interaction[s] = "OPEN" =>
            /\ s = Latest(s[1])
            /\ status[s[1]] \in {"WAITING_FOR_INPUT", "WAITING_FOR_APPROVAL"}
       /\ approval[s] \in {"REQUESTED", "APPLYING"} =>
            /\ s = Latest(s[1])
            /\ status[s[1]] = "WAITING_FOR_APPROVAL" \/ inline[s[1]]
  /\ \A r \in Runs :
       /\ inline[r] => status[r] = "RUNNING"
       /\ status[r] = "WAITING_FOR_INPUT" => interaction[Latest(r)] = "OPEN"
       /\ status[r] = "WAITING_FOR_APPROVAL" =>
            \/ AwaitsDecision(r)
            \/ approval[Latest(r)] \in {"REQUESTED", "APPLYING"}

\* The newest Segment and the rows a Run waits for follow the Run through every
\* operation: what it waits for can end the wait, and ends with it.
WaitsFollowRun == SegmentFollowsRun /\ WaitIsBacked

\* Once a cancellation is recorded the Run is never queued, retried, asked about
\* or finished in any other way: it can only be executing, finishing an effect,
\* or CANCELLED.
CancellationWins ==
  \A r \in Runs :
    cancel[r] => status[r] \in {"PREPARING", "RUNNING", "WAITING_FOR_APPROVAL",
                                "CANCELLED"}

\* The unique index of ACTIVE PRIMARY sessions is never hit: an ACTIVE session
\* belongs to the running Attempt, so a new Attempt can always open its own.
ActiveSessionIsLive ==
  \A a \in Attempts : session[a] = "ACTIVE" => attempt[a] = "RUNNING"

\* A claim never fails with "Capacity retry lost its original AgentSession": while
\* retry_at is kept the refused Attempt and its session are as it left them.
CapacityRetryResumable ==
  \A r \in Runs :
    retry[r] # "none" =>
      /\ status[r] = "RETRY_PENDING"
      /\ tries[Latest(r)] > 0
      /\ attempt[<<r, segno[r], tries[Latest(r)]>>] = "FAILED"
      /\ session[<<r, segno[r], tries[Latest(r)]>>] = "FAILED"

\* A claim finds the sessions as it needs them: no ACTIVE one left behind by an
\* Attempt that ended, and after a capacity refusal the one to resume.
SessionsResume == ActiveSessionIsLive /\ CapacityRetryResumable

\* A finished Attempt keeps its outcome and its session's, with one exception:
\* cancelling a waiting Run turns the suspended Attempt into a CANCELLED one.
OutcomeIsFinal ==
  [][\A a \in Attempts :
       attempt[a] \notin {"ABSENT", "LEASED", "RUNNING"} =>
         /\ session'[a] = session[a]
         /\ \/ attempt'[a] = attempt[a]
            \/ attempt[a] = "DEFERRED" /\ attempt'[a] = "CANCELLED"]_vars

\* A terminal Run is never reopened, whatever late job, answer, effect or sweep
\* still arrives for it: no row below it changes, except that a left-over
\* proposal is closed.
TerminalRunFrozen ==
  [][\A r \in Runs :
       status[r] \in TerminalRunStatuses =>
         /\ status'[r] = status[r]
         /\ segno'[r] = segno[r]
         /\ \A n \in SegmentNos :
              /\ segment'[<<r, n>>] = segment[<<r, n>>]
              /\ interaction'[<<r, n>>] = interaction[<<r, n>>]
              /\ \A k \in AttemptNos :
                   /\ attempt'[<<r, n, k>>] = attempt[<<r, n, k>>]
                   /\ session'[<<r, n, k>>] = session[<<r, n, k>>]]_vars

\* What is over stays over: neither a late job nor a sweep changes a finished
\* Attempt, or anything below a terminal Run.
HistoryIsFinal == OutcomeIsFinal /\ TerminalRunFrozen

\* The public status moves only along ALLOWED_RUN_TRANSITIONS.
Abstract == INSTANCE AbstractRun WITH Runs <- Runs, status <- status

ImplementsAbstractRun == Abstract!Spec

-----------------------------------------------------------------------------
(* Liveness, under FairSpec.                                               *)

\* A Run handed to the Workers does not stay there: lost messages, dead Workers
\* and capacity refusals all lead to an end or to a wait.
ExecutionEnds ==
  \A r \in Runs :
    status[r] \in {"QUEUED", "PREPARING", "RUNNING", "RETRY_PENDING"} ~>
      status[r] \notin {"QUEUED", "PREPARING", "RUNNING", "RETRY_PENDING"}

\* A question or an approval nobody reacts to does not hold its Run for ever.
WaitsEnd ==
  \A r \in Runs :
    status[r] \in {"WAITING_FOR_INPUT", "WAITING_FOR_APPROVAL"} ~>
      status[r] \notin {"WAITING_FOR_INPUT", "WAITING_FOR_APPROVAL"}

\* A recorded cancellation takes effect, even if the Worker or the effect it was
\* meant for died.
CancellationCompletes ==
  \A r \in Runs : cancel[r] ~> status[r] = "CANCELLED"

\* No question, approval or cancellation holds a Run for ever.
EveryWaitEnds == WaitsEnd /\ CancellationCompletes

=============================================================================
