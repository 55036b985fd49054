------------------------- MODULE EffectClaimOverlap -------------------------
(***************************************************************************)
(* claim_effect_execution in its two halves.  The method reads the effect  *)
(* and its proposal with session.get, then waits for the Run's row lock and *)
(* selects both again FOR UPDATE.  The second select does not ask for       *)
(* populate_existing, so the ORM session hands back the objects it already  *)
(* holds: the checks after the lock see what was read before it.  The Run   *)
(* and its cancel event are read fresh.                                     *)
(***************************************************************************)
EXTENDS EffectLifecycle

VARIABLE seen   \* what a claiming job has read before the lock, or NoJob

overlapVars == <<vars, seen>>

OverlapInit == Init /\ seen = [j \in Jobs |-> NoJob]

\* The unlocked reads of a queue job.
Observe(j) ==
  /\ dispatch /\ job[j] = "idle" /\ seen[j] = NoJob
  /\ seen' = [seen EXCEPT ![j] =
       [effect |-> effect, live |-> LeaseLive, proposal |-> proposal,
        phase |-> phase, toolCall |-> toolCall, tries |-> tries]]
  /\ dispatch' \in BOOLEAN
  /\ UNCHANGED <<target, runVars, expired, rowVars, leaseVars, job, call,
                 remoteVars>>

\* The part behind the lock, for a claim that is granted: the checks read the
\* remembered rows, the writes go to the current ones.  A claim that saw no
\* ToolCall inserts one, and uq_tool_calls_run_sdk_use rejects the second: the
\* first attempt is safe, a later one is not.  The other alternative is a
\* claim that returns without a grant; Next has the ones that close the effect.
ClaimObserved(j) ==
  LET old == seen[j] IN
  /\ old # NoJob
  /\ seen' = [seen EXCEPT ![j] = NoJob]
  /\ \/ /\ old.effect \notin FinalEffects
        /\ ~old.live
        /\ old.phase # "ACTIVE" /\ run = "WAITING_FOR_APPROVAL"
        /\ old.proposal \in {"APPROVED", "APPLYING"}
        /\ old.toolCall = "ABSENT" => toolCall = "ABSENT"
        /\ ~cancel /\ ~expired /\ bound /\ old.tries + 1 <= MaxAttempts
        /\ effect' = "APPLYING"
        /\ proposal' = "APPLYING"
        /\ toolCall' = "RUNNING"
        /\ tries' = old.tries + 1
        /\ holder' = j
        /\ lease' = LeaseTTL
        /\ job' = [job EXCEPT ![j] = "claimed"]
     \/ UNCHANGED <<rowVars, leaseVars, job>>
  /\ UNCHANGED <<target, runVars, expired, error, retryable, call,
                 dispatch, remoteVars>>

OverlapNext ==
  \/ \E j \in Jobs : Observe(j) \/ ClaimObserved(j)
  \/ /\ Next
     /\ \A j \in Jobs : job'[j] # job[j] => seen[j] = NoJob
     /\ UNCHANGED seen

OverlapSpec == OverlapInit /\ [][OverlapNext]_overlapVars

=============================================================================
