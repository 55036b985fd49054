--------------------------- MODULE RunSweepOverlap ---------------------------
(***************************************************************************)
(* recover_expired_attempts in two steps, for a sweep that overlaps with    *)
(* another one (the maintenance cron starts every 15 s and may run for 30). *)
(*                                                                         *)
(* The sweep first selects the expired Attempts, without a lock, into the   *)
(* identity map of its session. It then locks the Run, the Segment and the  *)
(* Attempt. The second select of the Attempt lacks populate_existing, so    *)
(* SQLAlchemy returns the object as first read: the re-check of its status  *)
(* and of its lease passes whatever the row holds by now. The Run was not   *)
(* read before and is fresh.                                                *)
(*                                                                         *)
(* The atomic recovery steps of RunLifecycle stay: they are the other       *)
(* sweep. Inline effects are left out (MaxSegments = 1 has none).           *)
(***************************************************************************)
EXTENDS RunLifecycle

CONSTANT Sweepers    \* sweeps that may be interrupted between select and lock

VARIABLE sweep       \* the candidate a sweep has selected, or Idle

SweepSelect(x, a) ==
  /\ sweep[x] = Idle
  /\ LeaseExpired(a)
  /\ sweep' = [sweep EXCEPT ![x] = a]
  /\ UNCHANGED vars

\* The Run has left the executing states: only the Attempt is marked.
ExpireAttemptOnly(a) ==
  /\ attempt' = [attempt EXCEPT ![a] = "LEASE_EXPIRED"]
  /\ CloseSession(a, "FAILED")
  /\ UNCHANGED <<runVars, segmentVars, lease, worker, outbox, queue>>

SweepRecover(x) ==
  LET a == sweep[x] IN
  /\ a # Idle
  /\ sweep' = [sweep EXCEPT ![x] = Idle]
  /\ IF status[a[1]] \in {"PREPARING", "RUNNING"}
       THEN ReclaimRun(a)
       ELSE ExpireAttemptOnly(a)

OverlapInit == Init /\ sweep = [x \in Sweepers |-> Idle]

OverlapNext ==
  \/ Next /\ UNCHANGED sweep
  \/ \E x \in Sweepers :
       SweepRecover(x) \/ \E a \in Attempts : SweepSelect(x, a)

OverlapSpec == OverlapInit /\ [][OverlapNext]_<<vars, sweep>>

\* What the comment of recover_expired_attempts says of its re-check: if another
\* Worker recovered the candidate after it was selected, the Run is not moved a
\* second time.
NoDoubleTransition ==
  [][\A x \in Sweepers :
       /\ sweep[x] # Idle
       /\ sweep'[x] = Idle
       /\ attempt[sweep[x]] \notin Active
       => UNCHANGED status]_<<vars, sweep>>

=============================================================================
