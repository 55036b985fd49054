--------------------------- MODULE EffectLifecycle ---------------------------
(***************************************************************************)
(* One controlled effect of a Run: a ChangeProposal, the approval it needs, *)
(* the EffectExecution row that carries the external write, the jobs that  *)
(* claim it under a lease, and the remote system itself.                   *)
(*                                                                         *)
(* Each repository method is one transaction under the Run row's lock and  *)
(* one action below.  What the remote system does with a request, when a   *)
(* job dies and when a deadline passes are steps of the environment.  The  *)
(* Run is kept to what the effect decides about it: which status the Run   *)
(* takes when the effect ends.                                             *)
(***************************************************************************)
EXTENDS Naturals

CONSTANTS
  Jobs,         \* execute_effect jobs and in-process calls of an effect
  NoJob,        \* no job holds the effect's lease
  MaxAttempts,  \* settings.run_max_attempts, also the limit for effects
  LeaseTTL      \* effect lease length, in heartbeat intervals

ASSUME EffectAssumption ==
  /\ NoJob \notin Jobs
  /\ MaxAttempts \in Nat \ {0}
  /\ LeaseTTL \in Nat \ {0}

VARIABLES
  supervised,  \* the capability's provider supports staged supervision
  bound,       \* the Integration still has the revision the Run was bound to
  run,         \* Run.status, as far as this effect is concerned
  cancel,      \* a RUN_CANCEL_REQUESTED event exists
  proposal,    \* ChangeProposal.status
  expired,     \* the proposal is past expires_at
  phase,       \* inline_owner_json.phase, "NONE" for a deferred proposal
  parent,      \* the Attempt that called inline still holds its lease
  effect,      \* EffectExecution.status
  error,       \* EffectExecution.error_json: none, a known cause, unknown
  retryable,   \* error_json.retryable
  toolCall,    \* status of the effect's ToolCall
  tries,       \* EffectExecution.attempt_no
  holder,      \* the job whose token hash is stored
  lease,       \* intervals until lease_expires_at; 0 is expired or cleared
  job,         \* how far each job is
  call,        \* the direct execution the Attempt's own Worker still owes
  dispatch,    \* an effect.dispatch message is in the outbox or in Redis
  inflight,    \* jobs whose write request may still reach the remote system
  remote       \* the remote system has performed the write

target     == <<supervised, bound>>
runVars    == <<run, cancel, phase, parent>>
rowVars    == <<proposal, effect, error, retryable, toolCall>>
leaseVars  == <<tries, holder, lease>>
remoteVars == <<inflight, remote>>
vars == <<target, runVars, expired, rowVars, leaseVars, job, call,
          dispatch, remoteVars>>

FinalEffects == {"APPLIED", "STALE", "FAILED", "VERIFICATION_FAILED"}
\* LEASED, also in the enumeration, is accepted by the checks and never written.
EffectStatuses == {"ABSENT", "REQUESTED", "APPLYING"} \cup FinalEffects
ProposalStatuses ==
  {"ABSENT", "PENDING_APPROVAL", "APPROVED", "APPLYING", "APPLIED",
   "REJECTED", "STALE", "FAILED"}
RunEnds == {"QUEUED", "FAILED", "CANCELLED"}

TypeOK ==
  /\ supervised \in BOOLEAN
  /\ bound \in BOOLEAN
  /\ run \in {"RUNNING", "WAITING_FOR_APPROVAL"} \cup RunEnds
  /\ cancel \in BOOLEAN
  /\ proposal \in ProposalStatuses
  /\ expired \in BOOLEAN
  /\ phase \in {"NONE", "ACTIVE", "DELIVERED", "DETACHED"}
  /\ parent \in BOOLEAN
  /\ effect \in EffectStatuses
  /\ error \in {"none", "known", "unknown"}
  /\ retryable \in BOOLEAN
  /\ toolCall \in {"ABSENT", "RUNNING", "SUCCEEDED", "FAILED"}
  /\ tries \in 0..MaxAttempts
  /\ holder \in Jobs \cup {NoJob}
  /\ lease \in 0..LeaseTTL
  /\ job \in [Jobs -> {"idle", "claimed", "authorized", "sent"}]
  /\ call \in {"none", "due", "found", "inline"}
  /\ dispatch \in BOOLEAN
  /\ inflight \in SUBSET Jobs
  /\ remote \in BOOLEAN

\* The Run executes an Attempt and has proposed nothing yet.
Init ==
  /\ supervised \in BOOLEAN
  /\ bound = TRUE
  /\ run = "RUNNING"
  /\ cancel = FALSE
  /\ proposal = "ABSENT"
  /\ expired = FALSE
  /\ phase = "NONE"
  /\ parent = TRUE
  /\ effect = "ABSENT"
  /\ error = "none"
  /\ retryable = FALSE
  /\ toolCall = "ABSENT"
  /\ tries = 0
  /\ holder = NoJob
  /\ lease = 0
  /\ job = [j \in Jobs |-> "idle"]
  /\ call = "none"
  /\ dispatch = FALSE
  /\ inflight = {}
  /\ remote = FALSE

-----------------------------------------------------------------------------
(* Proposing and deciding.                                                 *)

MayPropose ==
  proposal = "ABSENT" /\ run = "RUNNING" /\ ~cancel /\ parent /\ bound

\* suspend_for_proposal without an automatic approval: the user decides.
ProposeForUser ==
  /\ MayPropose
  /\ run' = "WAITING_FOR_APPROVAL"
  /\ proposal' = "PENDING_APPROVAL"
  /\ parent' = FALSE
  /\ UNCHANGED <<target, cancel, phase, expired, effect, error,
                 retryable, toolCall, leaseVars, job, call, dispatch,
                 remoteVars>>

\* suspend_for_proposal with a preauthorization or the consent given when
\* the Run started: the effect is dispatched, and the Worker of the Attempt
\* also tries it directly once the Attempt is over.
ProposeApproved ==
  /\ MayPropose
  /\ run' = "WAITING_FOR_APPROVAL"
  /\ proposal' = "APPROVED"
  /\ parent' = FALSE
  /\ effect' = "REQUESTED"
  /\ dispatch' = TRUE
  /\ call' = "due"
  /\ UNCHANGED <<target, cancel, phase, expired, error, retryable,
                 toolCall, leaseVars, job, remoteVars>>

\* begin_inline_effect: only consent given when the Run started, which only
\* supervised providers take.  The Attempt keeps running, nothing is queued.
ProposeInline ==
  /\ MayPropose
  /\ supervised
  /\ proposal' = "APPROVED"
  /\ effect' = "REQUESTED"
  /\ phase' = "ACTIVE"
  /\ call' = "inline"
  /\ UNCHANGED <<target, run, cancel, parent, expired, error, retryable,
                 toolCall, leaseVars, job, dispatch, remoteVars>>

Pending == proposal = "PENDING_APPROVAL" /\ run = "WAITING_FOR_APPROVAL"

\* Both decisions are validated against the Integration.
Approve ==
  /\ Pending /\ ~expired /\ bound
  /\ proposal' = "APPROVED"
  /\ effect' = "REQUESTED"
  /\ dispatch' = TRUE
  /\ UNCHANGED <<target, runVars, expired, error, retryable, toolCall,
                 leaseVars, job, call, remoteVars>>

\* A refusal, or the deadline, continues the Run in a new Segment.
DecideWithoutEffect(verdict) ==
  /\ proposal' = verdict
  /\ run' = "QUEUED"
  /\ UNCHANGED <<target, cancel, phase, parent, expired, effect, error,
                 retryable, toolCall, leaseVars, job, call, dispatch,
                 remoteVars>>

Reject == Pending /\ ~expired /\ bound /\ DecideWithoutEffect("REJECTED")
ExpireProposal == Pending /\ expired /\ DecideWithoutEffect("STALE")

\* recover_expired_proposals for a Run that was cancelled meanwhile.
CloseStaleProposal ==
  /\ proposal = "PENDING_APPROVAL" /\ expired
  /\ run # "WAITING_FOR_APPROVAL"
  /\ proposal' = "STALE"
  /\ UNCHANGED <<target, runVars, expired, effect, error, retryable,
                 toolCall, leaseVars, job, call, dispatch, remoteVars>>

-----------------------------------------------------------------------------
(* What the ledger says about a failure, and where the Run goes.           *)

\* Mutant: a definite answer to a later attempt speaks for earlier ones too.
FailureRecordAnyTry(proven) ==
  IF ~supervised \/ tries = 0 \/ proven THEN "known" ELSE "unknown"

\* effect_failure_record.  Once a supervised write was claimed, only an
\* answer of the provider on the first attempt shows that nothing happened.
FailureRecord(proven) ==
  IF ~supervised \/ tries = 0 \/ (proven /\ tries = 1 /\ error = "none")
  THEN "known" ELSE "unknown"

ProposalFor(outcome) ==
  CASE outcome = "APPLIED" -> "APPLIED"
    [] outcome = "STALE"   -> "STALE"
    [] OTHER               -> "FAILED"

Settle(outcome) == effect' = outcome /\ proposal' = ProposalFor(outcome)

\* _finish_effect_continuation, shared by a finalize and an inline detach.
FinishContinuation(outcome, retry, cause) ==
  LET failed == outcome # "APPLIED" IN
  \/ /\ cancel
     /\ Settle(outcome)
     /\ run' = "CANCELLED"
     /\ UNCHANGED dispatch
  \/ /\ ~cancel /\ failed /\ retry
     /\ effect' = "REQUESTED"
     /\ proposal' = "APPROVED"
     /\ run' = "WAITING_FOR_APPROVAL"
     /\ dispatch' = TRUE
  \/ /\ ~cancel /\ ~(failed /\ retry)
     /\ Settle(outcome)
     /\ run' = IF failed /\ cause = "unknown" THEN "FAILED" ELSE "QUEUED"
     /\ UNCHANGED dispatch

\* _close_effect_before_provider.
CloseBeforeProvider(outcome) ==
  LET cause == FailureRecord(FALSE) IN
  /\ Settle(outcome)
  /\ error' = cause
  /\ retryable' = FALSE
  /\ toolCall' = IF toolCall = "ABSENT" THEN "ABSENT" ELSE "FAILED"
  /\ holder' = NoJob
  /\ lease' = 0
  /\ run' = IF phase = "ACTIVE" THEN run
            ELSE IF cancel THEN "CANCELLED"
            ELSE IF cause = "unknown" THEN "FAILED" ELSE "QUEUED"

-----------------------------------------------------------------------------
(* Claiming.                                                               *)

LeaseLive == effect = "APPLYING" /\ lease > 0

\* Mutant: the claim forgets to look at the lease of an APPLYING effect.
ClaimRefusedIfFinal(inline) ==
  \/ effect \in FinalEffects
  \/ phase = "ACTIVE" /\ ~(inline /\ parent)
  \/ phase # "ACTIVE" /\ run # "WAITING_FOR_APPROVAL"
  \/ proposal \notin {"APPROVED", "APPLYING"}

\* The early returns and errors of claim_effect_execution.
ClaimRefused(inline) ==
  \/ effect \in FinalEffects
  \/ LeaseLive
  \/ phase = "ACTIVE" /\ ~(inline /\ parent)
  \/ phase # "ACTIVE" /\ run # "WAITING_FOR_APPROVAL"
  \/ proposal \notin {"APPROVED", "APPLYING"}

\* Mutant: the ToolCall of a second attempt keeps its old status.
GrantKeepingToolCall(j) ==
  /\ effect' = "APPLYING"
  /\ proposal' = "APPLYING"
  /\ toolCall' = IF toolCall = "ABSENT" THEN "RUNNING" ELSE toolCall
  /\ tries' = tries + 1
  /\ holder' = j
  /\ lease' = LeaseTTL
  /\ job' = [job EXCEPT ![j] = "claimed"]
  /\ UNCHANGED <<run, error, retryable>>

\* Mutant: attempt_no is counted twice.
GrantCountingTwice(j) ==
  /\ effect' = "APPLYING"
  /\ proposal' = "APPLYING"
  /\ toolCall' = "RUNNING"
  /\ tries' = tries + 2
  /\ holder' = j
  /\ lease' = LeaseTTL
  /\ job' = [job EXCEPT ![j] = "claimed"]
  /\ UNCHANGED <<run, error, retryable>>

Grant(j) ==
  /\ effect' = "APPLYING"
  /\ proposal' = "APPLYING"
  /\ toolCall' = "RUNNING"
  /\ tries' = tries + 1
  /\ holder' = j
  /\ lease' = LeaseTTL
  /\ job' = [job EXCEPT ![j] = "claimed"]
  /\ UNCHANGED <<run, error, retryable>>

\* claim_effect_execution: ignored, closed without the provider, or granted.
\* An Integration that changed since the Run was bound makes the claim raise: the
\* transaction and the job are over and nothing is written.
ClaimEffect(j, inline) ==
  /\ job[j] = "idle"
  /\ \/ /\ ClaimRefused(inline) \/ (~cancel /\ ~expired /\ ~bound)
        /\ UNCHANGED <<run, rowVars, leaseVars, job>>
     \/ /\ ~ClaimRefused(inline)
        /\ cancel \/ expired \/ (bound /\ tries + 1 > MaxAttempts)
        /\ CloseBeforeProvider(IF ~cancel /\ expired THEN "STALE"
                               ELSE "FAILED")
        /\ UNCHANGED <<tries, job>>
     \/ /\ ~ClaimRefused(inline)
        /\ ~cancel /\ ~expired /\ bound /\ tries + 1 <= MaxAttempts
        /\ Grant(j)
  /\ UNCHANGED <<target, cancel, phase, parent, expired, remoteVars>>

\* execute_effect from the queue; the broker may deliver the job again.
DeliverEffect(j) ==
  /\ dispatch
  /\ ClaimEffect(j, FALSE)
  /\ dispatch' \in BOOLEAN
  /\ UNCHANGED call

\* execute_pending_for_attempt looks for a REQUESTED effect of the Attempt
\* in a transaction of its own, then claims like anyone else.
FindPending ==
  /\ call = "due"
  /\ call' = IF proposal = "APPROVED" /\ effect = "REQUESTED"
             THEN "found" ELSE "none"
  /\ UNCHANGED <<target, runVars, expired, rowVars, leaseVars, job,
                 dispatch, remoteVars>>

ExecuteDirectly(j) ==
  /\ call \in {"found", "inline"}
  /\ ClaimEffect(j, call = "inline")
  /\ call' = "none"
  /\ UNCHANGED dispatch

-----------------------------------------------------------------------------
(* The claimed job and the remote system.                                  *)

\* Mutant: a job with an expired or superseded token may still finalize.
HeldOnce(j) == job[j] # "idle"

\* _validate_effect_lease.
HoldsEffectLease(j) == effect = "APPLYING" /\ holder = j /\ lease > 0

\* _inline_parent_active, or the Run that waits for the effect.
OwnerAlive ==
  IF phase \in {"ACTIVE", "DELIVERED"} THEN run = "RUNNING" /\ parent
                                       ELSE run = "WAITING_FOR_APPROVAL"

\* authorize_effect_step, also the first half of a heartbeat.
AuthorityHolds(j) ==
  /\ HoldsEffectLease(j)
  /\ OwnerAlive
  /\ proposal = "APPLYING"
  /\ ~expired
  /\ ~cancel
  /\ bound

Authorize(j) ==
  /\ supervised
  /\ job[j] = "claimed"
  /\ AuthorityHolds(j)
  /\ job' = [job EXCEPT ![j] = "authorized"]
  /\ UNCHANGED <<target, runVars, expired, rowVars, leaseVars, call,
                 dispatch, remoteVars>>

\* The request leaves.  Nothing ties the send to the lease any more.
SendWrite(j) ==
  /\ job[j] = IF supervised THEN "authorized" ELSE "claimed"
  /\ job' = [job EXCEPT ![j] = "sent"]
  /\ inflight' = inflight \cup {j}
  /\ UNCHANGED <<target, runVars, expired, rowVars, leaseVars, call,
                 dispatch, remote>>

\* The remote system performs the write (at most once per idempotency key),
\* or the request is lost or refused.
RemoteAnswers(j) ==
  /\ j \in inflight
  /\ inflight' = inflight \ {j}
  /\ remote' \in {TRUE, remote}
  /\ UNCHANGED <<target, runVars, expired, rowVars, leaseVars, job, call,
                 dispatch>>

HeartbeatEffect(j) ==
  /\ supervised
  /\ job[j] # "idle"
  /\ AuthorityHolds(j)
  /\ lease' = LeaseTTL
  /\ UNCHANGED <<target, runVars, expired, rowVars, tries, holder, job,
                 call, dispatch, remoteVars>>

\* The answers a provider can give: a success it has read back, a definite
\* answer that nothing was written (a request never sent, a statement rolled
\* back, a response other than 2xx, taken as a refusal), or a failure that
\* leaves it open.
ProviderReports(j, outcome, retry, proven) ==
  /\ outcome = "APPLIED" => remote /\ j \notin inflight
  /\ supervised /\ job[j] = "claimed" => outcome \in {"STALE", "FAILED"}
  /\ retry => outcome = "FAILED"
  /\ proven => outcome = "FAILED" /\ ~remote /\ j \notin inflight

\* finalize_effect_execution under a valid lease.
FinalizeEffect(j, outcome, retry, proven) ==
  LET cause == IF outcome = "APPLIED" THEN "none" ELSE FailureRecord(proven)
  IN
  /\ job[j] # "idle"
  /\ HoldsEffectLease(j)
  /\ OwnerAlive
  /\ ProviderReports(j, outcome, retry, proven)
  /\ error' = cause
  /\ retryable' = (retry /\ ~(supervised /\ cause = "known"))
  /\ toolCall' = IF outcome = "APPLIED" THEN "SUCCEEDED" ELSE "FAILED"
  /\ holder' = NoJob
  /\ lease' = 0
  /\ job' = [job EXCEPT ![j] = "idle"]
  /\ IF phase = "ACTIVE"
     THEN Settle(outcome) /\ UNCHANGED <<run, dispatch>>
     ELSE FinishContinuation(outcome, retry, cause)
  /\ UNCHANGED <<target, cancel, phase, parent, expired, tries, call,
                 remoteVars>>

\* The job ends without a result: the process dies, the supervisor loses the
\* authority or times out, or finalize refuses what the job brings.
AbandonJob(j) ==
  /\ job[j] # "idle"
  /\ job' = [job EXCEPT ![j] = "idle"]
  /\ UNCHANGED <<target, runVars, expired, rowVars, leaseVars, call,
                 dispatch, remoteVars>>

-----------------------------------------------------------------------------
(* The inline call and its parent.                                         *)

\* inline_receipt hands a proven result to the running Agent.
InlineReceipt ==
  /\ phase = "ACTIVE"
  /\ OwnerAlive
  /\ ~cancel
  /\ effect = "APPLIED"
  /\ phase' = "DELIVERED"
  /\ UNCHANGED <<target, run, cancel, parent, expired, rowVars, leaseVars,
                 job, call, dispatch, remoteVars>>

\* detach_inline_effect: the Agent has stopped or its lease is lost, and the
\* same operation goes on as a deferred one.
DetachInline ==
  /\ phase = "ACTIVE"
  /\ run = "RUNNING"
  /\ phase' = "DETACHED"
  /\ parent' = FALSE
  /\ IF effect \in FinalEffects
     THEN FinishContinuation(effect, retryable, error)
     ELSE /\ run' = "WAITING_FOR_APPROVAL"
          /\ dispatch' = TRUE
          /\ UNCHANGED <<effect, proposal>>
  /\ UNCHANGED <<target, cancel, expired, error, retryable, toolCall,
                 leaseVars, job, call, remoteVars>>

\* The parent Attempt's lease runs out.
LoseParent ==
  /\ parent
  /\ parent' = FALSE
  /\ UNCHANGED <<target, run, cancel, phase, expired, rowVars, leaseVars,
                 job, call, dispatch, remoteVars>>

-----------------------------------------------------------------------------
(* Cancelling, recovering, time.                                           *)

\* request_cancellation of a running Attempt or a running effect.
RequestCancellation ==
  /\ ~cancel
  /\ run = "RUNNING" \/ (run = "WAITING_FOR_APPROVAL" /\ effect = "APPLYING")
  /\ cancel' = TRUE
  /\ UNCHANGED <<target, run, phase, parent, expired, rowVars, leaseVars,
                 job, call, dispatch, remoteVars>>

\* request_cancellation while nobody applies: the Run ends here and a
\* REQUESTED effect is failed with a record of its own.
CancelWaiting ==
  /\ run = "WAITING_FOR_APPROVAL"
  /\ effect # "APPLYING"
  /\ run' = "CANCELLED"
  /\ IF effect = "REQUESTED"
     THEN /\ Settle("FAILED")
          /\ error' = "known"
          /\ retryable' = FALSE
     ELSE UNCHANGED <<effect, proposal, error, retryable>>
  /\ UNCHANGED <<target, cancel, phase, parent, expired, toolCall,
                 leaseVars, job, call, dispatch, remoteVars>>

\* Mutant: the expired effect is put back without a dispatch.
RequeueSilently ==
  /\ effect' = "REQUESTED"
  /\ proposal' = "APPROVED"
  /\ error' = FailureRecord(FALSE)
  /\ retryable' = TRUE
  /\ toolCall' = "FAILED"
  /\ holder' = NoJob
  /\ lease' = 0
  /\ UNCHANGED <<run, dispatch>>

\* recover_expired_effects puts an abandoned effect back under the same
\* identity.
RequeueExpired ==
  /\ effect' = "REQUESTED"
  /\ proposal' = "APPROVED"
  /\ error' = FailureRecord(FALSE)
  /\ retryable' = TRUE
  /\ toolCall' = "FAILED"
  /\ holder' = NoJob
  /\ lease' = 0
  /\ dispatch' = TRUE
  /\ UNCHANGED run

\* The same sweep when the Run is not waiting: an inline effect whose job
\* is gone, settled without touching the Run.
FailUnowned ==
  /\ Settle("FAILED")
  /\ error' = FailureRecord(FALSE)
  /\ retryable' = FALSE
  /\ toolCall' = IF FailureRecord(FALSE) = "unknown" THEN "FAILED"
                 ELSE toolCall
  /\ holder' = NoJob
  /\ lease' = 0
  /\ UNCHANGED <<run, dispatch>>

\* Mutant: the sweep only looks at effects of Runs that still wait, and of
\* those only at the ones that may be tried again.
RecoverRetriable ==
  /\ effect = "APPLYING" /\ lease = 0
  /\ run = "WAITING_FOR_APPROVAL"
  /\ ~cancel /\ ~expired /\ tries < MaxAttempts
  /\ RequeueExpired
  /\ UNCHANGED <<target, cancel, phase, parent, expired, tries, job, call,
                 remoteVars>>

RecoverExpiredEffect ==
  /\ effect = "APPLYING" /\ lease = 0
  /\ \/ /\ run # "WAITING_FOR_APPROVAL"
        /\ FailUnowned
     \/ /\ run = "WAITING_FOR_APPROVAL"
        /\ cancel \/ expired \/ tries >= MaxAttempts
        /\ CloseBeforeProvider(IF ~cancel /\ expired THEN "STALE"
                               ELSE "FAILED")
        /\ UNCHANGED dispatch
     \/ /\ run = "WAITING_FOR_APPROVAL"
        /\ ~cancel /\ ~expired /\ tries < MaxAttempts
        /\ RequeueExpired
  /\ UNCHANGED <<target, cancel, phase, parent, expired, tries, job, call,
                 remoteVars>>

\* Any edit of the Integration, or disabling it, raises its revision for good.
UpdateIntegration ==
  /\ bound
  /\ bound' = FALSE
  /\ UNCHANGED <<supervised, runVars, expired, rowVars, leaseVars, job, call,
                 dispatch, remoteVars>>

\* A lease never outlives its proposal: both end together.
ProposalExpires ==
  /\ proposal # "ABSENT" /\ ~expired
  /\ expired' = TRUE
  /\ lease' = 0
  /\ UNCHANGED <<target, runVars, rowVars, tries, holder, job, call,
                 dispatch, remoteVars>>

ElapseLease ==
  /\ lease > 0
  /\ lease' = lease - 1
  /\ UNCHANGED <<target, runVars, expired, rowVars, tries, holder, job,
                 call, dispatch, remoteVars>>

-----------------------------------------------------------------------------
JobStep(j) ==
  \/ DeliverEffect(j)
  \/ ExecuteDirectly(j)
  \/ Authorize(j)
  \/ SendWrite(j)
  \/ HeartbeatEffect(j)
  \/ \E outcome \in FinalEffects, retry, proven \in BOOLEAN :
       FinalizeEffect(j, outcome, retry, proven)
  \/ AbandonJob(j)

Next ==
  \/ ProposeForUser \/ ProposeApproved \/ ProposeInline
  \/ Approve \/ Reject \/ ExpireProposal \/ CloseStaleProposal
  \/ FindPending
  \/ \E j \in Jobs : JobStep(j)
  \/ \E j \in Jobs : RemoteAnswers(j)
  \/ InlineReceipt \/ DetachInline \/ LoseParent
  \/ RequestCancellation \/ CancelWaiting
  \/ RecoverExpiredEffect \/ UpdateIntegration \/ ProposalExpires
  \/ ElapseLease

Spec == Init /\ [][Next]_vars

\* Time passes, the maintenance cron sweeps expired leases, Redis hands out
\* a published job, and no job outlives its wall timeout (the supervisor's
\* 300 s, the queue's job_timeout).
FairSpec ==
  /\ Spec
  /\ WF_vars(ElapseLease)
  /\ WF_vars(ProposalExpires)
  /\ WF_vars(RecoverExpiredEffect)
  /\ WF_vars(\E j \in Jobs : DeliverEffect(j))
  /\ \A j \in Jobs : WF_vars(AbandonJob(j))

-----------------------------------------------------------------------------
(* Properties.                                                             *)

\* The three rows of an effect that separate transactions write agree: the
\* ToolCall runs exactly while the effect is being applied, a proposal is
\* approved exactly while its effect waits, a stored lease belongs to an
\* effect that is applied, a success leaves no error.
\* (claim_effect_execution, finalize_effect_execution, detach, recovery)
RowsAgree ==
  /\ (toolCall = "RUNNING") <=> (effect = "APPLYING")
  /\ (proposal = "APPROVED") <=> (effect = "REQUESTED")
  /\ (proposal = "APPLYING") <=> (effect = "APPLYING")
  /\ (holder # NoJob) <=> (effect = "APPLYING")
  /\ effect = "APPLIED" => error = "none" /\ remote
  /\ effect \in FinalEffects \ {"APPLIED"} => error # "none"

\* The Agent is never told to go on after a failed supervised write that may
\* have happened or may still happen: the Run continues in a new Segment
\* only with the write proven, or with no request sent that can still land.
\* (effect_failure_record, _stop_run_for_unknown_effect)
HonestContinuation ==
  supervised /\ run = "QUEUED" /\ effect # "APPLIED"
    => ~remote /\ inflight = {}

\* An effect that waits for a Worker has a message that will bring one, or
\* an inline parent that must still be detached, as long as its target stays
\* as the Run was bound to it.  No sweep looks for REQUESTED effects, so a
\* lost dispatch would leave the Run waiting.
\* (_effect_dispatch_outbox in every path that leaves REQUESTED)
EffectWakeup ==
  effect = "REQUESTED" /\ bound => dispatch \/ phase = "ACTIVE"

\* The outcome of an effect is written once: only an inline effect whose
\* failure is retryable becomes REQUESTED again, when it is detached.
\* (the status check at the top of claim and finalize)
OutcomeWrittenOnce ==
  [][(effect \in FinalEffects /\ effect' # effect)
       => (phase = "ACTIVE" /\ phase' = "DETACHED" /\ retryable
           /\ effect = "FAILED" /\ effect' = "REQUESTED")]_vars

\* What keeps the rows together from one transaction to the next: an effect
\* exists from the approval on, is claimed before it is applied, and belongs to
\* the Run that waits for it or to the running Attempt that called inline.
EffectOwnership ==
  /\ proposal \in {"ABSENT", "PENDING_APPROVAL", "REJECTED"} => effect = "ABSENT"
  /\ proposal = "ABSENT" => run = "RUNNING" /\ phase = "NONE"
  /\ effect = "ABSENT" => tries = 0 /\ toolCall = "ABSENT"
  /\ effect = "APPLYING" => tries > 0
  /\ phase = "ACTIVE" => supervised /\ run = "RUNNING"
  /\ effect \in {"REQUESTED", "APPLYING"} /\ phase # "ACTIVE"
       => run = "WAITING_FOR_APPROVAL"
  /\ effect \in FinalEffects /\ retryable => effect = "FAILED"

\* Nothing was written and nothing can be any more.
Untouched == ~remote /\ inflight = {} /\ \A j \in Jobs : job[j] = "idle"

\* What the ledger knows of a supervised write: before the first claim nothing was
\* sent, during the first attempt only its holder can have sent something, and a
\* failure with a known cause means that nothing was written.
LedgerKnows ==
  supervised =>
    /\ tries = 0 => Untouched
    /\ effect = "APPLYING" /\ tries = 1 =>
         \A j \in Jobs : j # holder => job[j] = "idle" /\ j \notin inflight
    /\ effect \in FinalEffects \ {"APPLIED"} /\ error = "known"
         /\ run # "CANCELLED" => Untouched
    /\ run = "QUEUED" /\ effect # "APPLIED" => Untouched

\* While a job's lease is live nobody else takes or requeues the effect: the
\* stored token changes only when that job finishes.
\* (the live-lease return of claim_effect_execution, detach_inline_effect)
LeaseNotStolen ==
  [][LeaseLive /\ holder' # holder
       => (job[holder] # "idle" /\ job'[holder] = "idle")]_vars

\* A Run that waits for an approved effect does not wait forever: crashes,
\* lost leases and retries end in a new Segment, a failure or a
\* cancellation, unless the Integration is edited meanwhile.
\* (recover_expired_effects, claim_effect_execution, AbandonJob's timeout)
EffectEnds ==
  run = "WAITING_FOR_APPROVAL" /\ effect # "ABSENT"
    ~> run \in RunEnds \/ ~bound

\* What execute_run says of the direct execution of an approved effect: the
\* Queue's outbox remains as the recovery when it fails.  An effect whose
\* claim raises is REQUESTED with its message used up, and neither the Queue
\* nor a sweep comes back to it, not even after the proposal's deadline.
ApprovedEffectEnds ==
  run = "WAITING_FOR_APPROVAL" /\ effect # "ABSENT" ~> run \in RunEnds

=============================================================================
