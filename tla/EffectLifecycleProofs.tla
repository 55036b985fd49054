------------------------ MODULE EffectLifecycleProofs ------------------------
(***************************************************************************)
(* Proofs about EffectLifecycle, for any set of jobs, any attempt limit and *)
(* any lease length. The inductive invariant is                             *)
(*                                                                         *)
(*   IInv == TypeOK /\ RowsAgree /\ EffectOwnership /\ LedgerKnows          *)
(*           /\ EffectWakeup                                                *)
(*                                                                         *)
(* RowsAgree needs EffectOwnership: the sweep leaves the ToolCall alone when *)
(* the cause of a failure is known, which never happens to an effect that is *)
(* applied for a Run that does not wait.  HonestContinuation follows from    *)
(* LedgerKnows, which says who can have sent something.                      *)
(***************************************************************************)
EXTENDS EffectLifecycle, TLAPS

IInv == TypeOK /\ RowsAgree /\ EffectOwnership /\ LedgerKnows /\ EffectWakeup

USE EffectAssumption
USE DEF FinalEffects, EffectStatuses, ProposalStatuses, RunEnds, target, runVars,
        rowVars, leaseVars, remoteVars

-----------------------------------------------------------------------------
(* Steps that leave the rows alone.                                        *)

\* Deadlines, leases and the direct call are not looked at by the invariant, and
\* an Integration that is edited only frees EffectWakeup of its duty.
LEMMA RowsFrame ==
  ASSUME IInv, TypeOK', bound' => bound,
         UNCHANGED <<supervised, run, phase, rowVars, tries, holder, job,
                     dispatch, remoteVars>>
  PROVE  IInv'
  BY DEF IInv, RowsAgree, EffectOwnership, LedgerKnows, Untouched, EffectWakeup

\* The job that loses its process, or that stops by itself, sends nothing more.
LEMMA FewerSenders ==
  ASSUME IInv, TypeOK', NEW j \in Jobs,
         \/ /\ job' = [job EXCEPT ![j] = "idle"]
            /\ UNCHANGED inflight
         \/ /\ job' = [job EXCEPT ![j] = "authorized"]
            /\ job[j] # "idle"
            /\ UNCHANGED inflight
         \/ /\ job' = [job EXCEPT ![j] = "sent"]
            /\ job[j] # "idle"
            /\ inflight' = inflight \cup {j},
         UNCHANGED <<target, run, phase, rowVars, tries, holder, dispatch, remote>>
  PROVE  IInv'
  <1>1. RowsAgree' /\ EffectOwnership' /\ EffectWakeup'
    BY DEF IInv, RowsAgree, EffectOwnership, EffectWakeup
  <1>2. LedgerKnows'
    BY DEF IInv, TypeOK, LedgerKnows, Untouched
  <1>. QED
    BY <1>1, <1>2 DEF IInv

-----------------------------------------------------------------------------
(* Proposing and deciding.                                                 *)

\* The proposal is the first thing the Run says of its effect.
LEMMA ProposeKeeps ==
  ASSUME IInv, ProposeForUser \/ ProposeApproved \/ ProposeInline
  PROVE  IInv'
  <1>1. CASE ProposeForUser
    BY <1>1, ZenonT(60) DEF IInv, TypeOK, RowsAgree, EffectOwnership, LedgerKnows, Untouched,
                EffectWakeup, ProposeForUser, MayPropose
  <1>2. CASE ProposeApproved
    BY <1>2 DEF IInv, TypeOK, RowsAgree, EffectOwnership, LedgerKnows, Untouched,
                EffectWakeup, ProposeApproved, MayPropose
  <1>3. CASE ProposeInline
    BY <1>3 DEF IInv, TypeOK, RowsAgree, EffectOwnership, LedgerKnows, Untouched,
                EffectWakeup, ProposeInline, MayPropose
  <1>. QED
    BY <1>1, <1>2, <1>3

\* A decision without an effect continues a Run for which nothing was ever sent.
LEMMA DecideKeeps ==
  ASSUME IInv,
         Approve \/ Reject \/ ExpireProposal \/ CloseStaleProposal
  PROVE  IInv'
  <1>1. CASE Approve
    BY <1>1 DEF IInv, TypeOK, RowsAgree, EffectOwnership, LedgerKnows, Untouched,
                EffectWakeup, Approve, Pending
  <1>2. CASE Reject \/ ExpireProposal
    <2>1. /\ proposal = "PENDING_APPROVAL" /\ run = "WAITING_FOR_APPROVAL"
          /\ proposal' \in {"REJECTED", "STALE"}
          /\ run' = "QUEUED"
          /\ UNCHANGED <<target, cancel, phase, parent, expired, effect, error,
                         retryable, toolCall, leaseVars, job, call, dispatch,
                         remoteVars>>
      BY <1>2 DEF Reject, ExpireProposal, Pending, DecideWithoutEffect
    <2>2. TypeOK' /\ RowsAgree' /\ EffectOwnership' /\ EffectWakeup'
      BY <2>1 DEF IInv, TypeOK, RowsAgree, EffectOwnership, EffectWakeup
    <2>3. LedgerKnows'
      BY <2>1 DEF IInv, EffectOwnership, LedgerKnows, Untouched
    <2>. QED
      BY <2>2, <2>3 DEF IInv
  <1>3. CASE CloseStaleProposal
    BY <1>3 DEF IInv, TypeOK, RowsAgree, EffectOwnership, LedgerKnows, Untouched,
                EffectWakeup, CloseStaleProposal
  <1>. QED
    BY <1>1, <1>2, <1>3

-----------------------------------------------------------------------------
(* Claiming.                                                               *)

\* An effect that is open has an approved proposal and, unless it is called
\* inline, a Run that waits.
LEMMA OpenEffect ==
  ASSUME IInv, NEW inline \in BOOLEAN, ~ ClaimRefused(inline)
  PROVE  /\ effect \in {"REQUESTED", "APPLYING"}
         /\ phase # "ACTIVE" => run = "WAITING_FOR_APPROVAL"
  BY DEF IInv, TypeOK, RowsAgree, ClaimRefused

\* An open effect is closed without calling the provider.
LEMMA CloseKeeps ==
  ASSUME IInv, NEW outcome \in {"STALE", "FAILED"},
         CloseBeforeProvider(outcome),
         effect \in {"REQUESTED", "APPLYING"},
         dispatch' \in BOOLEAN, call' \in {"none", "due", "found", "inline"},
         UNCHANGED <<target, cancel, phase, parent, expired, tries, job,
                     remoteVars>>
  PROVE  IInv'
  <1>1. /\ effect' \in {"STALE", "FAILED"} /\ proposal' = effect'
        /\ error' \in {"known", "unknown"}
        /\ supervised /\ error' = "known" => tries = 0
    BY DEF CloseBeforeProvider, Settle, ProposalFor, FailureRecord, IInv, TypeOK
  <1>2. TypeOK'
    <2>1. /\ run' = run \/ run' \in RunEnds
          /\ toolCall' \in {"ABSENT", "FAILED"}
          /\ retryable' = FALSE /\ holder' = NoJob /\ lease' = 0
      BY DEF CloseBeforeProvider
    <2>2. /\ effect' \in EffectStatuses /\ proposal' \in ProposalStatuses
          /\ error' \in {"none", "known", "unknown"}
          /\ run' \in {"RUNNING", "WAITING_FOR_APPROVAL"} \cup RunEnds
          /\ holder' \in Jobs \cup {NoJob} /\ lease' \in 0..LeaseTTL
          /\ job' \in [Jobs -> {"idle", "claimed", "authorized", "sent"}]
      BY <1>1, <2>1 DEF IInv, TypeOK
    <2>. QED
      BY <2>1, <2>2, ZenonT(60) DEF IInv, TypeOK
  <1>3. RowsAgree'
    BY <1>1 DEF IInv, TypeOK, RowsAgree, CloseBeforeProvider
  <1>4. EffectOwnership' /\ EffectWakeup'
    BY <1>1 DEF IInv, RowsAgree, EffectOwnership, EffectWakeup, CloseBeforeProvider
  <1>5. LedgerKnows'
    <2>1. run' = "QUEUED" => run = "QUEUED" \/ error' # "unknown"
      BY DEF CloseBeforeProvider
    <2>2. run # "QUEUED"
      BY DEF IInv, EffectOwnership
    <2>. QED
      BY <1>1, <2>1, <2>2 DEF IInv, LedgerKnows, Untouched
  <1>. QED
    BY <1>2, <1>3, <1>4, <1>5 DEF IInv

\* A granted claim: the second one of an effect says nothing about the first.
LEMMA GrantKeeps ==
  ASSUME IInv, NEW j \in Jobs, Grant(j), job[j] = "idle",
         effect \in {"REQUESTED", "APPLYING"}, tries + 1 <= MaxAttempts,
         dispatch' \in BOOLEAN, call' \in {"none", "due", "found", "inline"},
         UNCHANGED <<target, cancel, phase, parent, expired, remoteVars>>
  PROVE  IInv'
  <1>1. TypeOK'
    BY DEF IInv, TypeOK, Grant
  <1>2. RowsAgree' /\ EffectOwnership' /\ EffectWakeup'
    BY DEF IInv, TypeOK, RowsAgree, EffectOwnership, EffectWakeup, Grant
  <1>3. LedgerKnows'
    BY DEF IInv, TypeOK, EffectOwnership, LedgerKnows, Untouched, Grant
  <1>. QED
    BY <1>1, <1>2, <1>3 DEF IInv

\* A claim may use up its message: one that is refused was not for an effect that
\* still needs it.
LEMMA ClaimKeeps ==
  ASSUME IInv, NEW j \in Jobs, NEW inline \in BOOLEAN, ClaimEffect(j, inline),
         dispatch' \in BOOLEAN, call' \in {"none", "due", "found", "inline"}
  PROVE  IInv'
  <1>1. CASE /\ ClaimRefused(inline) \/ (~cancel /\ ~expired /\ ~bound)
             /\ UNCHANGED <<run, rowVars, leaseVars, job>>
    <2>1. TypeOK'
      BY <1>1 DEF IInv, TypeOK, ClaimEffect
    <2>2. RowsAgree' /\ EffectOwnership' /\ LedgerKnows'
      BY <1>1 DEF IInv, RowsAgree, EffectOwnership, LedgerKnows, Untouched,
                  ClaimEffect
    <2>3. EffectWakeup'
      BY <1>1 DEF IInv, TypeOK, RowsAgree, EffectOwnership, EffectWakeup,
                  ClaimEffect, ClaimRefused, LeaseLive
    <2>. QED
      BY <2>1, <2>2, <2>3 DEF IInv
  <1>2. CASE /\ ~ ClaimRefused(inline)
             /\ CloseBeforeProvider(IF ~cancel /\ expired THEN "STALE"
                                    ELSE "FAILED")
             /\ UNCHANGED <<tries, job>>
    BY <1>2, OpenEffect, CloseKeeps DEF ClaimEffect
  <1>3. CASE /\ ~ ClaimRefused(inline)
             /\ tries + 1 <= MaxAttempts
             /\ Grant(j)
    BY <1>3, OpenEffect, GrantKeeps DEF ClaimEffect
  <1>. QED
    BY <1>1, <1>2, <1>3 DEF ClaimEffect

-----------------------------------------------------------------------------
(* The claimed job and the remote system.                                  *)

\* Only a finished failure is given a known cause, and for a supervised write only
\* when the provider proved it on the first attempt.
LEMMA KnownCause ==
  ASSUME IInv, NEW proven \in BOOLEAN, effect = "APPLYING"
  PROVE  /\ FailureRecord(proven) \in {"known", "unknown"}
         /\ supervised /\ FailureRecord(proven) = "known" => proven /\ tries = 1
  BY DEF IInv, TypeOK, EffectOwnership, FailureRecord

\* finalize_effect_execution, up to the Run: the rows are settled or the effect
\* waits for its next attempt, and a known failure was proven by the holder.
LEMMA FinalizeFacts ==
  ASSUME IInv, NEW j \in Jobs, NEW outcome \in FinalEffects,
         NEW retry \in BOOLEAN, NEW proven \in BOOLEAN,
         FinalizeEffect(j, outcome, retry, proven)
  PROVE  /\ effect = "APPLYING" /\ holder = j
         /\ outcome = "APPLIED" => error' = "none" /\ remote
         /\ outcome # "APPLIED" => error' \in {"known", "unknown"}
         /\ supervised /\ error' = "known"
              => ~remote /\ j \notin inflight /\ tries = 1
         /\ retryable' \in BOOLEAN
         /\ retryable' => outcome = "FAILED"
         /\ \/ effect' = outcome /\ proposal' = ProposalFor(outcome)
            \/ /\ effect' = "REQUESTED" /\ proposal' = "APPROVED"
               /\ run' = "WAITING_FOR_APPROVAL" /\ dispatch' = TRUE
  <1>1. /\ effect = "APPLYING" /\ holder = j
        /\ ProviderReports(j, outcome, retry, proven)
    BY DEF FinalizeEffect, HoldsEffectLease
  <1>2. /\ outcome = "APPLIED" => error' = "none"
        /\ outcome # "APPLIED" => error' = FailureRecord(proven)
    BY DEF FinalizeEffect
  <1>3. /\ outcome = "APPLIED" => remote
        /\ proven => ~remote /\ j \notin inflight
        /\ retry => outcome = "FAILED"
    BY <1>1 DEF ProviderReports
  <1>4. /\ retryable' \in BOOLEAN
        /\ retryable' => retry
    BY DEF FinalizeEffect
  <1>5. \/ effect' = outcome /\ proposal' = ProposalFor(outcome)
        \/ /\ effect' = "REQUESTED" /\ proposal' = "APPROVED"
           /\ run' = "WAITING_FOR_APPROVAL" /\ dispatch' = TRUE
    BY DEF FinalizeEffect, FinishContinuation, Settle
  <1>. QED
    BY <1>1, <1>2, <1>3, <1>4, <1>5, KnownCause

\* Settling an effect under a valid lease.
LEMMA FinalizeKeeps ==
  ASSUME IInv, NEW j \in Jobs, NEW outcome \in FinalEffects,
         NEW retry \in BOOLEAN, NEW proven \in BOOLEAN,
         FinalizeEffect(j, outcome, retry, proven)
  PROVE  IInv'
  <1>1. /\ effect = "APPLYING" /\ holder = j
        /\ outcome = "APPLIED" => error' = "none" /\ remote
        /\ outcome # "APPLIED" => error' \in {"known", "unknown"}
        /\ supervised /\ error' = "known"
             => ~remote /\ j \notin inflight /\ tries = 1
        /\ retryable' \in BOOLEAN
        /\ retryable' => outcome = "FAILED"
        /\ \/ effect' = outcome /\ proposal' = ProposalFor(outcome)
           \/ /\ effect' = "REQUESTED" /\ proposal' = "APPROVED"
              /\ run' = "WAITING_FOR_APPROVAL" /\ dispatch' = TRUE
    BY FinalizeFacts
  <1>2. /\ toolCall' \in {"SUCCEEDED", "FAILED"}
        /\ holder' = NoJob /\ lease' = 0
        /\ job' = [job EXCEPT ![j] = "idle"]
        /\ UNCHANGED <<target, cancel, phase, parent, expired, tries, call,
                       remoteVars>>
    BY DEF FinalizeEffect
  <1>3. /\ dispatch' \in BOOLEAN
        /\ phase = "ACTIVE" => run' = run /\ effect' = outcome
        /\ phase # "ACTIVE" => run' \in RunEnds \cup {"WAITING_FOR_APPROVAL"}
        /\ phase # "ACTIVE" /\ run' = "QUEUED" /\ outcome # "APPLIED"
             => error' # "unknown" /\ effect' = outcome
    BY <1>1 DEF FinalizeEffect, FinishContinuation, Settle, IInv, TypeOK
  <1>4. ProposalFor(outcome) \in {"APPLIED", "STALE", "FAILED"}
    BY DEF ProposalFor
  <1>5. TypeOK'
    <2>1. /\ effect' \in EffectStatuses /\ proposal' \in ProposalStatuses
          /\ error' \in {"none", "known", "unknown"}
      BY <1>1, <1>4
    <2>2. /\ run' \in {"RUNNING", "WAITING_FOR_APPROVAL"} \cup RunEnds
          /\ retryable' \in BOOLEAN /\ dispatch' \in BOOLEAN
      BY <1>1, <1>3 DEF IInv, TypeOK
    <2>3. /\ job' \in [Jobs -> {"idle", "claimed", "authorized", "sent"}]
          /\ toolCall' \in {"ABSENT", "RUNNING", "SUCCEEDED", "FAILED"}
          /\ holder' \in Jobs \cup {NoJob} /\ lease' \in 0..LeaseTTL
      BY <1>2 DEF IInv, TypeOK
    <2>. QED
      BY <1>2, <2>1, <2>2, <2>3 DEF IInv, TypeOK
  <1>6. RowsAgree'
    BY <1>1, <1>2, <1>4 DEF RowsAgree
  <1>7. EffectOwnership'
    BY <1>1, <1>2, <1>3, <1>4 DEF IInv, EffectOwnership
  <1>8. LedgerKnows'
    <2>1. supervised /\ error' = "known" => Untouched'
      <3>. SUFFICES ASSUME supervised, error' = "known" PROVE Untouched'
        OBVIOUS
      <3>1. \A i \in Jobs : i # j => job[i] = "idle" /\ i \notin inflight
        BY <1>1 DEF IInv, LedgerKnows
      <3>2. inflight = {}
        BY <1>1, <3>1 DEF IInv, TypeOK
      <3>. QED
        BY <1>1, <1>2, <3>1, <3>2 DEF IInv, TypeOK, Untouched
    <2>2. tries' > 0 /\ effect' # "APPLYING"
      BY <1>1, <1>2 DEF IInv, TypeOK, EffectOwnership
    <2>3. run' = "QUEUED" /\ effect' # "APPLIED" => error' = "known"
      BY <1>1, <1>3 DEF IInv, EffectOwnership
    <2>. QED
      BY <1>2, <2>1, <2>2, <2>3 DEF LedgerKnows, IInv, TypeOK
  <1>9. EffectWakeup'
    BY <1>1 DEF EffectWakeup
  <1>. QED
    BY <1>5, <1>6, <1>7, <1>8, <1>9 DEF IInv

\* The other steps of a job. A request that leaves was counted when its job was
\* claimed.
LEMMA JobKeeps ==
  ASSUME IInv, NEW j \in Jobs, JobStep(j)
  PROVE  IInv'
  <1>1. CASE DeliverEffect(j)
    BY <1>1, ClaimKeeps DEF DeliverEffect, IInv, TypeOK
  <1>2. CASE ExecuteDirectly(j)
    <2>1. PICK inline \in BOOLEAN : ClaimEffect(j, inline)
      BY <1>2 DEF ExecuteDirectly
    <2>. QED
      BY <1>2, <2>1, ClaimKeeps DEF ExecuteDirectly, IInv, TypeOK
  <1>3. CASE Authorize(j)
    <2>1. TypeOK'
      BY <1>3 DEF Authorize, IInv, TypeOK
    <2>. QED
      BY <1>3, <2>1, FewerSenders DEF Authorize
  <1>4. CASE SendWrite(j)
    <2>1. TypeOK'
      BY <1>4 DEF SendWrite, IInv, TypeOK
    <2>. QED
      BY <1>4, <2>1, FewerSenders DEF SendWrite
  <1>5. CASE HeartbeatEffect(j)
    <2>1. TypeOK'
      BY <1>5 DEF HeartbeatEffect, IInv, TypeOK
    <2>. QED
      BY <1>5, <2>1, RowsFrame DEF HeartbeatEffect
  <1>6. CASE AbandonJob(j)
    <2>1. TypeOK'
      BY <1>6 DEF AbandonJob, IInv, TypeOK
    <2>. QED
      BY <1>6, <2>1, FewerSenders DEF AbandonJob
  <1>. QED
    BY <1>1, <1>2, <1>3, <1>4, <1>5, <1>6, FinalizeKeeps DEF JobStep

\* The remote system acts on requests that are in flight only.
LEMMA RemoteKeeps ==
  ASSUME IInv, NEW j \in Jobs, RemoteAnswers(j)
  PROVE  IInv'
  <1>. remote' = TRUE \/ remote' = remote
    BY DEF RemoteAnswers
  <1>1. TypeOK'
    <2>1. remote' \in BOOLEAN /\ inflight' \in SUBSET Jobs
      BY DEF RemoteAnswers, IInv, TypeOK
    <2>. QED
      BY <2>1 DEF RemoteAnswers, IInv, TypeOK
  <1>2. RowsAgree' /\ EffectOwnership' /\ EffectWakeup'
    BY DEF RemoteAnswers, IInv, RowsAgree, EffectOwnership, EffectWakeup
  <1>3. LedgerKnows'
    BY DEF RemoteAnswers, IInv, LedgerKnows, Untouched
  <1>. QED
    BY <1>1, <1>2, <1>3 DEF IInv

-----------------------------------------------------------------------------
(* Inline calls, cancelling, recovering, time.                             *)

\* What the transactions below have to show to be typed: leases and jobs are not
\* theirs.
LEMMA TypedWithoutJob ==
  ASSUME IInv,
         run' \in {"RUNNING", "WAITING_FOR_APPROVAL"} \cup RunEnds,
         proposal' \in ProposalStatuses, effect' \in EffectStatuses,
         error' \in {"none", "known", "unknown"}, retryable' \in BOOLEAN,
         phase' \in {"NONE", "ACTIVE", "DELIVERED", "DETACHED"},
         parent' \in BOOLEAN, dispatch' \in BOOLEAN,
         UNCHANGED <<target, cancel, expired, toolCall, leaseVars, job, call,
                     remoteVars>>
  PROVE  TypeOK'
  BY DEF IInv, TypeOK

\* A delivered receipt is that of an applied effect; a detached effect is open, is
\* put back, or moves the Run with what the ledger knows of it.
LEMMA InlineKeeps ==
  ASSUME IInv, InlineReceipt \/ DetachInline
  PROVE  IInv'
  <1>1. CASE InlineReceipt
    BY <1>1 DEF IInv, TypeOK, RowsAgree, EffectOwnership, LedgerKnows, Untouched,
                EffectWakeup, InlineReceipt
  <1>2. CASE DetachInline
    <2>. USE <1>2
    <2>1. /\ phase = "ACTIVE" /\ run = "RUNNING" /\ phase' = "DETACHED"
          /\ parent' = FALSE
          /\ UNCHANGED <<target, cancel, expired, error, retryable, toolCall,
                         leaseVars, job, call, remoteVars>>
      BY DEF DetachInline
    <2>2. effect \notin FinalEffects =>
            /\ run' = "WAITING_FOR_APPROVAL" /\ dispatch' = TRUE
            /\ UNCHANGED <<effect, proposal>>
      BY DEF DetachInline
    <2>3. effect \in FinalEffects =>
            \/ /\ effect # "APPLIED" /\ retryable
               /\ effect' = "REQUESTED" /\ proposal' = "APPROVED"
               /\ run' = "WAITING_FOR_APPROVAL" /\ dispatch' = TRUE
            \/ /\ effect' = effect /\ proposal' = ProposalFor(effect)
               /\ UNCHANGED dispatch
               /\ run' \in RunEnds
               /\ run' = "QUEUED" /\ effect # "APPLIED" => error # "unknown"
      BY DEF DetachInline, FinishContinuation, Settle
    <2>4. effect \in FinalEffects =>
            ProposalFor(effect) \in {"APPLIED", "STALE", "FAILED"}
      BY DEF ProposalFor
    <2>5. TypeOK'
      <3>1. /\ effect' \in EffectStatuses /\ proposal' \in ProposalStatuses
            /\ run' \in {"RUNNING", "WAITING_FOR_APPROVAL"} \cup RunEnds
            /\ dispatch' \in BOOLEAN
        BY <2>2, <2>3, <2>4 DEF IInv, TypeOK
      <3>2. /\ error' \in {"none", "known", "unknown"}
            /\ retryable' \in BOOLEAN
        BY <2>1 DEF IInv, TypeOK
      <3>. QED
        BY <2>1, <3>1, <3>2, TypedWithoutJob
    <2>6. RowsAgree' /\ EffectWakeup'
      BY <2>1, <2>2, <2>3, <2>4 DEF IInv, RowsAgree, EffectWakeup
    <2>7. EffectOwnership'
      BY <2>1, <2>2, <2>3, <2>4 DEF IInv, EffectOwnership
    <2>8. LedgerKnows'
      BY <2>1, <2>2, <2>3 DEF IInv, TypeOK, RowsAgree, LedgerKnows, Untouched
    <2>. QED
      BY <2>5, <2>6, <2>7, <2>8 DEF IInv
  <1>. QED
    BY <1>1, <1>2

\* A Run is cancelled on the spot only while nobody applies its effect.
LEMMA CancelKeeps ==
  ASSUME IInv, CancelWaiting
  PROVE  IInv'
  <1>1. /\ run = "WAITING_FOR_APPROVAL" /\ effect # "APPLYING"
        /\ run' = "CANCELLED"
        /\ UNCHANGED <<target, cancel, phase, parent, expired, toolCall,
                       leaseVars, job, call, dispatch, remoteVars>>
        /\ \/ /\ effect = "REQUESTED" /\ effect' = "FAILED"
              /\ proposal' = "FAILED" /\ error' = "known" /\ retryable' = FALSE
           \/ /\ effect # "REQUESTED"
              /\ UNCHANGED <<effect, proposal, error, retryable>>
    BY DEF CancelWaiting, Settle, ProposalFor
  <1>2. TypeOK'
    <2>1. /\ effect' \in EffectStatuses /\ proposal' \in ProposalStatuses
          /\ error' \in {"none", "known", "unknown"}
          /\ retryable' \in BOOLEAN
      BY <1>1 DEF IInv, TypeOK
    <2>2. /\ phase' \in {"NONE", "ACTIVE", "DELIVERED", "DETACHED"}
          /\ parent' \in BOOLEAN /\ dispatch' \in BOOLEAN
      BY <1>1 DEF IInv, TypeOK
    <2>. QED
      BY <1>1, <2>1, <2>2, TypedWithoutJob
  <1>3. RowsAgree' /\ EffectWakeup'
    BY <1>1 DEF IInv, RowsAgree, EffectWakeup
  <1>4. EffectOwnership'
    BY <1>1 DEF IInv, EffectOwnership
  <1>5. LedgerKnows'
    BY <1>1 DEF IInv, LedgerKnows, Untouched
  <1>. QED
    BY <1>2, <1>3, <1>4, <1>5 DEF IInv

\* The sweep: an inline effect without a job has an unknown outcome, because its
\* provider is supervised and the effect was claimed.
LEMMA RecoverKeeps ==
  ASSUME IInv, RecoverExpiredEffect
  PROVE  IInv'
  <1>1. /\ effect = "APPLYING" /\ tries > 0
        /\ UNCHANGED <<target, cancel, phase, parent, expired, tries, job, call,
                       remoteVars>>
    BY DEF RecoverExpiredEffect, IInv, EffectOwnership
  <1>2. /\ FailureRecord(FALSE) \in {"known", "unknown"}
        /\ supervised => FailureRecord(FALSE) = "unknown"
    BY <1>1, KnownCause
  <1>3. CASE run # "WAITING_FOR_APPROVAL" /\ FailUnowned
    <2>1. supervised /\ phase = "ACTIVE" /\ run = "RUNNING"
      BY <1>1, <1>3 DEF IInv, EffectOwnership
    <2>2. /\ effect' = "FAILED" /\ proposal' = "FAILED" /\ error' = "unknown"
          /\ retryable' = FALSE /\ toolCall' = "FAILED" /\ holder' = NoJob
          /\ lease' = 0 /\ UNCHANGED <<run, dispatch>>
      BY <1>2, <1>3, <2>1 DEF FailUnowned, Settle, ProposalFor
    <2>3. TypeOK'
      <3>1. /\ effect' \in EffectStatuses /\ proposal' \in ProposalStatuses
            /\ error' \in {"none", "known", "unknown"}
            /\ toolCall' \in {"ABSENT", "RUNNING", "SUCCEEDED", "FAILED"}
            /\ holder' \in Jobs \cup {NoJob} /\ lease' \in 0..LeaseTTL
        BY <2>2
      <3>2. retryable' \in BOOLEAN
        BY <2>2
      <3>. QED
        BY <1>1, <2>2, <3>1, <3>2 DEF IInv, TypeOK
    <2>4. RowsAgree' /\ EffectOwnership' /\ EffectWakeup'
      BY <1>1, <2>1, <2>2 DEF IInv, RowsAgree, EffectOwnership, EffectWakeup
    <2>5. LedgerKnows'
      BY <1>1, <2>1, <2>2 DEF IInv, TypeOK, LedgerKnows
    <2>. QED
      BY <2>3, <2>4, <2>5 DEF IInv
  <1>4. CASE /\ run = "WAITING_FOR_APPROVAL"
             /\ CloseBeforeProvider(IF ~cancel /\ expired THEN "STALE"
                                    ELSE "FAILED")
             /\ UNCHANGED dispatch
    <2>1. dispatch' \in BOOLEAN /\ call' \in {"none", "due", "found", "inline"}
      BY <1>1, <1>4 DEF IInv, TypeOK
    <2>. QED
      BY <1>1, <1>4, <2>1, CloseKeeps
  <1>5. CASE run = "WAITING_FOR_APPROVAL" /\ RequeueExpired
    <2>1. /\ effect' = "REQUESTED" /\ proposal' = "APPROVED"
          /\ error' \in {"known", "unknown"} /\ retryable' = TRUE
          /\ toolCall' = "FAILED" /\ holder' = NoJob /\ lease' = 0
          /\ dispatch' = TRUE /\ UNCHANGED run
      BY <1>2, <1>5 DEF RequeueExpired
    <2>2. TypeOK'
      <3>1. /\ effect' \in EffectStatuses /\ proposal' \in ProposalStatuses
            /\ error' \in {"none", "known", "unknown"}
            /\ retryable' \in BOOLEAN /\ dispatch' \in BOOLEAN
            /\ toolCall' \in {"ABSENT", "RUNNING", "SUCCEEDED", "FAILED"}
            /\ holder' \in Jobs \cup {NoJob} /\ lease' \in 0..LeaseTTL
        BY <2>1
      <3>. QED
        BY <1>1, <2>1, <3>1 DEF IInv, TypeOK
    <2>3. RowsAgree' /\ EffectOwnership' /\ EffectWakeup'
      BY <1>1, <1>5, <2>1 DEF IInv, RowsAgree, EffectOwnership, EffectWakeup
    <2>4. LedgerKnows'
      BY <1>1, <1>5, <2>1 DEF IInv, TypeOK, LedgerKnows
    <2>. QED
      BY <2>2, <2>3, <2>4 DEF IInv
  <1>. QED
    BY <1>3, <1>4, <1>5 DEF RecoverExpiredEffect

\* Time, the Integration, the intent to cancel and the direct call's search.
LEMMA EnvironmentKeeps ==
  ASSUME IInv,
         \/ FindPending \/ LoseParent \/ RequestCancellation
         \/ UpdateIntegration \/ ProposalExpires \/ ElapseLease
  PROVE  IInv'
  <1>1. CASE FindPending
    <2>1. TypeOK'
      BY <1>1 DEF FindPending, IInv, TypeOK
    <2>. QED
      BY <1>1, <2>1, RowsFrame DEF FindPending
  <1>2. CASE LoseParent
    <2>1. TypeOK'
      <3>1. parent' \in BOOLEAN
        BY <1>2 DEF LoseParent
      <3>. QED
        BY <1>2, <3>1 DEF LoseParent, IInv, TypeOK
    <2>. QED
      BY <1>2, <2>1, RowsFrame DEF LoseParent
  <1>3. CASE RequestCancellation
    <2>1. TypeOK'
      BY <1>3 DEF RequestCancellation, IInv, TypeOK
    <2>. QED
      BY <1>3, <2>1, RowsFrame DEF RequestCancellation
  <1>4. CASE UpdateIntegration
    <2>1. TypeOK'
      <3>1. bound' \in BOOLEAN
        BY <1>4 DEF UpdateIntegration
      <3>. QED
        BY <1>4, <3>1 DEF UpdateIntegration, IInv, TypeOK
    <2>. QED
      BY <1>4, <2>1, RowsFrame DEF UpdateIntegration
  <1>5. CASE ProposalExpires
    <2>1. TypeOK'
      BY <1>5 DEF ProposalExpires, IInv, TypeOK
    <2>. QED
      BY <1>5, <2>1, RowsFrame DEF ProposalExpires
  <1>6. CASE ElapseLease
    <2>1. TypeOK'
      BY <1>6 DEF ElapseLease, IInv, TypeOK
    <2>. QED
      BY <1>6, <2>1, RowsFrame DEF ElapseLease
  <1>. QED
    BY <1>1, <1>2, <1>3, <1>4, <1>5, <1>6

-----------------------------------------------------------------------------
(* The theorems.                                                           *)

\* The invariant holds before anything is proposed.
LEMMA InitInductive == Init => IInv
  <1>. SUFFICES ASSUME Init PROVE IInv
    OBVIOUS
  <1>1. TypeOK
    <2>1. /\ job \in [Jobs -> {"idle", "claimed", "authorized", "sent"}]
          /\ tries \in 0..MaxAttempts /\ lease \in 0..LeaseTTL
          /\ inflight \in SUBSET Jobs /\ holder \in Jobs \cup {NoJob}
      BY DEF Init
    <2>2. /\ supervised \in BOOLEAN /\ bound \in BOOLEAN /\ cancel \in BOOLEAN
          /\ expired \in BOOLEAN /\ parent \in BOOLEAN /\ remote \in BOOLEAN
          /\ retryable \in BOOLEAN /\ dispatch \in BOOLEAN
      BY DEF Init
    <2>. QED
      BY <2>1, <2>2 DEF Init, TypeOK
  <1>2. RowsAgree /\ EffectOwnership /\ EffectWakeup
    BY DEF Init, RowsAgree, EffectOwnership, EffectWakeup
  <1>3. LedgerKnows
    BY DEF Init, LedgerKnows, Untouched
  <1>. QED
    BY <1>1, <1>2, <1>3 DEF IInv

\* Every step keeps it.
LEMMA NextInductive == IInv /\ [Next]_vars => IInv'
  <1>. SUFFICES ASSUME IInv, [Next]_vars PROVE IInv'
    OBVIOUS
  <1>1. CASE Next
    BY <1>1, ProposeKeeps, DecideKeeps, JobKeeps, RemoteKeeps, InlineKeeps,
       CancelKeeps, RecoverKeeps, EnvironmentKeeps DEF Next
  <1>2. CASE UNCHANGED vars
    <2>1. TypeOK'
      BY <1>2 DEF vars, IInv, TypeOK
    <2>. QED
      BY <1>2, <2>1, RowsFrame DEF vars
  <1>. QED
    BY <1>1, <1>2

\* Types, row agreement, ownership, what the ledger knows and the wake-up of an
\* open effect are together an invariant of the effect's transactions.
THEOREM EffectInductive == Spec => []IInv
  BY InitInductive, NextInductive, PTL DEF Spec

\* No effect is tried more often than run_max_attempts, and every column keeps to
\* its statuses.
THEOREM EffectTypeCorrect == Spec => []TypeOK
  <1>1. IInv => TypeOK
    BY DEF IInv
  <1>. QED
    BY <1>1, EffectInductive, PTL

\* Proposal, EffectExecution and ToolCall agree after every transaction that
\* claims, finalizes, detaches, cancels or recovers an effect.
THEOREM EffectRowsAgree == Spec => []RowsAgree
  <1>1. IInv => RowsAgree
    BY DEF IInv
  <1>. QED
    BY <1>1, EffectInductive, PTL

\* An effect left REQUESTED has a message that brings a job, as long as its
\* Integration is not edited.
THEOREM EffectIsFetched == Spec => []EffectWakeup
  <1>1. IInv => EffectWakeup
    BY DEF IInv
  <1>. QED
    BY <1>1, EffectInductive, PTL

\* After a supervised write that may have happened, or may still happen, the Run
\* is never continued as if it had not (effect_failure_record).
THEOREM EffectHonest == Spec => []HonestContinuation
  <1>1. IInv => HonestContinuation
    BY DEF IInv, LedgerKnows, Untouched, HonestContinuation
  <1>. QED
    BY <1>1, EffectInductive, PTL

-----------------------------------------------------------------------------
(* What a step may never do.                                               *)

\* A claim touches neither a finished effect nor a live lease.
LEMMA ClaimIsFenced ==
  ASSUME IInv, NEW j \in Jobs, NEW inline \in BOOLEAN, ClaimEffect(j, inline)
  PROVE  /\ effect \in FinalEffects => effect' = effect
         /\ LeaseLive => holder' = holder
  BY DEF ClaimEffect, ClaimRefused

\* A job changes a finished effect never, and a live lease only to end its own.
LEMMA JobIsFenced ==
  ASSUME IInv, NEW j \in Jobs, JobStep(j)
  PROVE  /\ effect \in FinalEffects => effect' = effect
         /\ LeaseLive /\ holder' # holder
              => job[holder] # "idle" /\ job'[holder] = "idle"
  <1>1. CASE DeliverEffect(j)
    BY <1>1, ClaimIsFenced DEF DeliverEffect
  <1>2. CASE ExecuteDirectly(j)
    <2>1. PICK inline \in BOOLEAN : ClaimEffect(j, inline)
      BY <1>2 DEF ExecuteDirectly
    <2>. QED
      BY <2>1, ClaimIsFenced
  <1>3. ASSUME NEW outcome \in FinalEffects, NEW retry \in BOOLEAN,
               NEW proven \in BOOLEAN, FinalizeEffect(j, outcome, retry, proven)
        PROVE  /\ effect \notin FinalEffects
               /\ holder = j /\ job[j] # "idle" /\ job'[j] = "idle"
    BY <1>3 DEF FinalizeEffect, HoldsEffectLease, IInv, TypeOK
  <1>4. CASE Authorize(j) \/ SendWrite(j) \/ HeartbeatEffect(j) \/ AbandonJob(j)
    BY <1>4 DEF Authorize, SendWrite, HeartbeatEffect, AbandonJob
  <1>. QED
    BY <1>1, <1>2, <1>3, <1>4 DEF JobStep

\* Of the other steps only the detachment of a retryable failure reopens an effect,
\* and none takes a live lease.
LEMMA OthersAreFenced ==
  ASSUME IInv, Next, ~ \E j \in Jobs : JobStep(j)
  PROVE  /\ effect \in FinalEffects /\ effect' # effect =>
              /\ phase = "ACTIVE" /\ phase' = "DETACHED" /\ retryable
              /\ effect = "FAILED" /\ effect' = "REQUESTED"
         /\ LeaseLive => holder' = holder
  <1>1. CASE ProposeForUser \/ ProposeApproved \/ ProposeInline
    BY <1>1 DEF ProposeForUser, ProposeApproved, ProposeInline, MayPropose, IInv,
                EffectOwnership
  <1>2. CASE Approve \/ Reject \/ ExpireProposal \/ CloseStaleProposal
    BY <1>2 DEF Approve, Reject, ExpireProposal, CloseStaleProposal, Pending,
                DecideWithoutEffect, IInv, EffectOwnership
  <1>3. CASE \/ FindPending \/ LoseParent \/ RequestCancellation
             \/ UpdateIntegration \/ ProposalExpires \/ ElapseLease
             \/ InlineReceipt \/ \E j \in Jobs : RemoteAnswers(j)
    BY <1>3 DEF FindPending, LoseParent, RequestCancellation, UpdateIntegration,
                ProposalExpires, ElapseLease, InlineReceipt, RemoteAnswers
  <1>4. CASE CancelWaiting
    BY <1>4 DEF CancelWaiting
  <1>5. CASE RecoverExpiredEffect
    BY <1>5 DEF RecoverExpiredEffect, LeaseLive
  <1>6. CASE DetachInline
    <2>1. phase = "ACTIVE" /\ phase' = "DETACHED" /\ holder' = holder
      BY <1>6 DEF DetachInline
    <2>2. effect \in FinalEffects /\ effect' # effect =>
            retryable /\ effect' = "REQUESTED"
      BY <1>6 DEF DetachInline, FinishContinuation, Settle
    <2>. QED
      BY <2>1, <2>2 DEF IInv, EffectOwnership
  <1>. QED
    BY <1>1, <1>2, <1>3, <1>4, <1>5, <1>6 DEF Next

\* The outcome of an effect is written once, whatever late job or sweep comes back
\* with another one.
THEOREM EffectWrittenOnce == Spec => OutcomeWrittenOnce
  <1>1. IInv /\ [Next]_vars =>
          [(effect \in FinalEffects /\ effect' # effect)
             => (phase = "ACTIVE" /\ phase' = "DETACHED" /\ retryable
                 /\ effect = "FAILED" /\ effect' = "REQUESTED")]_vars
    BY JobIsFenced, OthersAreFenced
  <1>. QED
    BY <1>1, EffectInductive, PTL DEF Spec, OutcomeWrittenOnce

\* While a job's lease is live no other job, sweep or detachment takes the effect
\* from it, when the claim reads and writes in one step.
THEOREM EffectLeaseKept == Spec => LeaseNotStolen
  <1>1. IInv /\ [Next]_vars =>
          [LeaseLive /\ holder' # holder
             => (job[holder] # "idle" /\ job'[holder] = "idle")]_vars
    BY JobIsFenced, OthersAreFenced
  <1>. QED
    BY <1>1, EffectInductive, PTL DEF Spec, LeaseNotStolen

=============================================================================
