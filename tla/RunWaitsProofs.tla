---------------------------- MODULE RunWaitsProofs ----------------------------
(***************************************************************************)
(* Further proofs about RunLifecycle: what a Run waits for, the message     *)
(* that wakes its next Attempt, the sessions a claim finds, the             *)
(* cancellation that wins and the history nobody rewrites, for any set of   *)
(* Runs and Workers and any bounds.                                         *)
(*                                                                         *)
(* Every operation locks one Run row and writes below it only, so the       *)
(* invariant is stated for one Run, and a step is shown to keep it for that *)
(* Run and to leave every other Run alone:                                  *)
(*                                                                         *)
(*   KInv == IInv /\ \A r \in Runs : RunKept(r)                             *)
(***************************************************************************)
EXTENDS RunLifecycleProofs

USE DEF SegmentNos, AttemptNos, Segments, Attempts, Dispatches

\* SegmentFollowsRun, for one Run.
SegmentsKept(r) ==
  status[r] # "ABSENT" =>
    /\ segment[Latest(r)] = SegmentFor(status[r])
    /\ \A n \in SegmentNos : n < segno[r] => segment[<<r, n>>] = "COMPLETED"

\* WaitIsBacked and CancellationWins for one Run. To be inductive they need that
\* an open question of a proposal means nobody has decided yet, that a proposal
\* stays pending only in a waiting or cancelled Run, and that an intent recorded
\* while the Run waits was recorded for an effect.
WaitsKept(r) ==
  /\ \A n \in SegmentNos :
       /\ interaction[<<r, n>>] = "OPEN" =>
            /\ n = segno[r]
            /\ status[r] \in {"WAITING_FOR_INPUT", "WAITING_FOR_APPROVAL"}
            /\ status[r] = "WAITING_FOR_APPROVAL" =>
                 approval[<<r, n>>] = "PENDING_APPROVAL"
       /\ approval[<<r, n>>] \in {"REQUESTED", "APPLYING"} =>
            /\ n = segno[r]
            /\ status[r] = "WAITING_FOR_APPROVAL" \/ inline[r]
       /\ approval[<<r, n>>] = "PENDING_APPROVAL" =>
            /\ n = segno[r]
            /\ status[r] \in {"WAITING_FOR_APPROVAL", "CANCELLED"}
  /\ status[r] = "WAITING_FOR_INPUT" => interaction[Latest(r)] = "OPEN"
  /\ status[r] = "WAITING_FOR_APPROVAL" =>
       \/ AwaitsDecision(r) /\ ~ cancel[r]
       \/ approval[Latest(r)] \in {"REQUESTED", "APPLYING"}
  /\ cancel[r] => status[r] \in {"PREPARING", "RUNNING", "WAITING_FOR_APPROVAL",
                                 "CANCELLED"}

\* SessionsResume for one Run, and that a claimable Run has no suspended Attempt
\* in its newest Segment.
AttemptsKept(r) ==
  /\ \A n \in SegmentNos, k \in AttemptNos :
       /\ session[<<r, n, k>>] = "ACTIVE" => attempt[<<r, n, k>>] = "RUNNING"
       /\ attempt[<<r, n, k>>] = "DEFERRED" /\ n = segno[r] =>
            status[r] \notin {"QUEUED", "PREPARING", "RUNNING", "RETRY_PENDING"}
  /\ retry[r] # "none" =>
       /\ status[r] = "RETRY_PENDING"
       /\ tries[Latest(r)] > 0
       /\ attempt[<<r, segno[r], tries[Latest(r)]>>] = "FAILED"
       /\ session[<<r, segno[r], tries[Latest(r)]>>] = "FAILED"

\* WakeupPending for one Run.
WakeupKept(r) ==
  status[r] \in {"QUEUED", "RETRY_PENDING"} =>
    <<r, segno[r], NextNo(r)>> \in outbox \cup queue

RunKept(r) ==
  SegmentsKept(r) /\ WaitsKept(r) /\ AttemptsKept(r) /\ WakeupKept(r)

KInv == IInv /\ \A r \in Runs : RunKept(r)

\* A step leaves a Run alone: no row below it changes, and no message that could
\* wake it is used up.
Untouched(q) ==
  /\ UNCHANGED <<status[q], cancel[q], retry[q], inline[q], segno[q]>>
  /\ \A n \in SegmentNos :
       /\ UNCHANGED <<segment[<<q, n>>], interaction[<<q, n>>],
                      approval[<<q, n>>], tries[<<q, n>>]>>
       /\ \A k \in AttemptNos :
            UNCHANGED <<attempt[<<q, n, k>>], session[<<q, n, k>>]>>
  /\ \A d \in Dispatches :
       d[1] = q /\ d \in outbox \cup queue => d \in outbox' \cup queue'

\* What a transaction on Run r does.
Serves(r) == RunKept(r)' /\ \A q \in Runs \ {r} : Untouched(q)

-----------------------------------------------------------------------------
(* Facts about the rows.                                                   *)

\* The numbers of an existing Run are in range.
LEMMA RunNumbers ==
  ASSUME IInv, NEW r \in Runs
  PROVE  /\ segno[r] \in 0..MaxSegments
         /\ segno[r] \in Nat
         /\ status[r] # "ABSENT" =>
              /\ segno[r] \in SegmentNos
              /\ Latest(r) \in Segments
              /\ tries[Latest(r)] \in 0..MaxAttempts
              /\ NextNo(r) \in 1..(MaxAttempts + 1)
              /\ <<r, segno[r], NextNo(r)>> \in Dispatches
  <1>1. segno[r] \in 0..MaxSegments /\ segno[r] \in Nat
    BY BoundsAssumption DEF IInv, TypeOK
  <1>2. ASSUME status[r] # "ABSENT"
        PROVE  /\ segno[r] \in SegmentNos
               /\ Latest(r) \in Segments
               /\ tries[Latest(r)] \in 0..MaxAttempts
    BY <1>1, <1>2, BoundsAssumption DEF IInv, TypeOK, Numbering, Latest
  <1>. QED
    BY <1>1, <1>2, BoundsAssumption DEF NextNo

\* A Run left alone keeps its part of the invariant.
LEMMA UntouchedKept ==
  ASSUME KInv, NEW q \in Runs, Untouched(q)
  PROVE  RunKept(q)'
  <1>1. RunKept(q) /\ IInv
    BY DEF KInv
  <1>2. UNCHANGED <<status[q], cancel[q], retry[q], inline[q], segno[q]>>
    BY DEF Untouched
  <1>3. ASSUME status[q] # "ABSENT"
        PROVE  UNCHANGED <<Latest(q), segment[Latest(q)], interaction[Latest(q)],
                           approval[Latest(q)], tries[Latest(q)], NextNo(q)>>
    <2>1. segno[q] \in SegmentNos /\ segno'[q] = segno[q]
      BY <1>1, <1>2, <1>3, RunNumbers
    <2>2. /\ segment'[<<q, segno[q]>>] = segment[<<q, segno[q]>>]
          /\ interaction'[<<q, segno[q]>>] = interaction[<<q, segno[q]>>]
          /\ approval'[<<q, segno[q]>>] = approval[<<q, segno[q]>>]
          /\ tries'[<<q, segno[q]>>] = tries[<<q, segno[q]>>]
      BY <2>1 DEF Untouched
    <2>. QED
      BY <2>1, <2>2 DEF Latest, NextNo
  <1>4. SegmentsKept(q)'
    BY <1>1, <1>2, <1>3 DEF Untouched, RunKept, SegmentsKept, SegmentFor
  <1>5. WaitsKept(q)'
    BY <1>1, <1>2, <1>3 DEF Untouched, RunKept, WaitsKept, AwaitsDecision
  <1>6. AttemptsKept(q)'
    <2>1. \A n \in SegmentNos, k \in AttemptNos :
            /\ session'[<<q, n, k>>] = "ACTIVE" => attempt'[<<q, n, k>>] = "RUNNING"
            /\ attempt'[<<q, n, k>>] = "DEFERRED" /\ n = segno'[q] =>
                 status'[q] \notin {"QUEUED", "PREPARING", "RUNNING",
                                    "RETRY_PENDING"}
      BY <1>1, <1>2, ZenonT(60) DEF Untouched, RunKept, AttemptsKept
    <2>2. ASSUME retry[q] # "none"
          PROVE  /\ segno[q] \in SegmentNos
                 /\ tries[Latest(q)] \in AttemptNos
      <3>1. status[q] = "RETRY_PENDING" /\ tries[Latest(q)] > 0
        BY <1>1, <2>2 DEF RunKept, AttemptsKept
      <3>2. segno[q] \in SegmentNos /\ tries[Latest(q)] \in 0..MaxAttempts
        BY <1>1, <3>1, RunNumbers
      <3>. QED
        BY <3>1, <3>2, BoundsAssumption
    <2>3. retry[q] # "none" =>
            /\ status'[q] = "RETRY_PENDING"
            /\ tries'[<<q, segno'[q]>>] > 0
            /\ attempt'[<<q, segno'[q], tries'[<<q, segno'[q]>>]>>] = "FAILED"
            /\ session'[<<q, segno'[q], tries'[<<q, segno'[q]>>]>>] = "FAILED"
      BY <1>1, <1>2, <2>2 DEF Untouched, RunKept, AttemptsKept, Latest
    <2>. QED
      BY <1>2, <2>1, <2>3 DEF AttemptsKept, Latest
  <1>7. WakeupKept(q)'
    BY <1>1, <1>2, <1>3, RunNumbers DEF Untouched, RunKept, WakeupKept
  <1>. QED
    BY <1>4, <1>5, <1>6, <1>7 DEF RunKept

-----------------------------------------------------------------------------
(* The requests of the API.                                                *)

\* A new Run is QUEUED with the message that starts its first Attempt.
LEMMA CreateServes ==
  ASSUME KInv, NEW r \in Runs, CreateIdempotent(r)
  PROVE  Serves(r)
  <1>1. /\ status[r] = "ABSENT" /\ segno[r] = 0 /\ 1 \in SegmentNos
        /\ IInv /\ RunKept(r)
    BY BoundsAssumption DEF CreateIdempotent, KInv, IInv, Numbering
  <1>2. /\ status' = [status EXCEPT ![r] = "QUEUED"]
        /\ segno' = [segno EXCEPT ![r] = 1]
        /\ segment' = [segment EXCEPT ![<<r, 1>>] = "CREATED"]
        /\ outbox' = outbox \cup {<<r, 1, 1>>}
        /\ UNCHANGED <<cancel, retry, inline, interaction, approval, overdue,
                       tries, attempt, lease, session, worker, queue>>
    BY DEF CreateIdempotent, SetStatus, attemptVars
  <1>3. /\ status'[r] = "QUEUED" /\ segno'[r] = 1
        /\ segment'[<<r, 1>>] = "CREATED" /\ tries[<<r, 1>>] = 0
    BY <1>1, <1>2 DEF IInv, TypeOK, Numbering
  <1>4. SegmentsKept(r)'
    BY <1>3 DEF SegmentsKept, SegmentFor, Latest
  <1>5. WaitsKept(r)'
    BY <1>1, <1>2, <1>3 DEF RunKept, WaitsKept, AwaitsDecision, Latest
  <1>6. AttemptsKept(r)'
    <2>1. \A k \in AttemptNos : attempt[<<r, 1, k>>] = "ABSENT"
      BY <1>1, <1>3 DEF IInv, Numbering, SegmentOf
    <2>. QED
      BY <1>1, <1>2, <1>3, <2>1 DEF RunKept, AttemptsKept
  <1>7. WakeupKept(r)'
    BY <1>2, <1>3 DEF WakeupKept, NextNo, Latest
  <1>8. ASSUME NEW q \in Runs \ {r}
        PROVE  Untouched(q)
    BY <1>1, <1>2 DEF Untouched, IInv, TypeOK
  <1>. QED
    BY <1>4, <1>5, <1>6, <1>7, <1>8 DEF Serves, RunKept

\* A cancellation request on an executing Run is an intent, and elsewhere it ends the Run.
LEMMA RequestCancellationServes ==
  ASSUME KInv, NEW r \in Runs, RequestCancellation(r)
  PROVE  Serves(r)
  <1>1. /\ IInv /\ RunKept(r)
        /\ \/ status[r] \in {"PREPARING", "RUNNING"}
           \/ /\ status[r] = "WAITING_FOR_APPROVAL"
              /\ approval[Latest(r)] = "APPLYING"
        /\ cancel' = [cancel EXCEPT ![r] = TRUE]
        /\ UNCHANGED <<status, retry, inline, segno, segment, interaction,
                       approval, tries, attempt, session, outbox, queue>>
    BY DEF KInv, RequestCancellation, segmentVars, attemptVars
  <1>2. WaitsKept(r)'
    BY <1>1 DEF RunKept, WaitsKept, AwaitsDecision, Latest
  <1>3. SegmentsKept(r)' /\ AttemptsKept(r)' /\ WakeupKept(r)'
    BY <1>1 DEF RunKept, SegmentsKept, AttemptsKept, WakeupKept, Latest, NextNo
  <1>4. ASSUME NEW q \in Runs \ {r}
        PROVE  Untouched(q)
    BY <1>1 DEF Untouched, IInv, TypeOK
  <1>. QED
    BY <1>2, <1>3, <1>4 DEF Serves, RunKept

-----------------------------------------------------------------------------
(* The two ways a wait ends: in the next Segment, or with the Run.          *)

\* The Run goes on in a new Segment: nothing of the old one is awaited any more.
LEMMA ContinueServes ==
  ASSUME KInv, NEW r \in Runs, Continue(r), ~ cancel[r],
         status[r] \in {"RUNNING", "WAITING_FOR_INPUT", "WAITING_FOR_APPROVAL"},
         segno[r] < MaxSegments,
         ~ inline'[r],
         UNCHANGED <<cancel, retry, tries, queue>>,
         \A n \in SegmentNos :
           /\ interaction'[<<r, n>>] # "OPEN"
           /\ approval'[<<r, n>>] \notin {"PENDING_APPROVAL", "REQUESTED",
                                          "APPLYING"}
           /\ n > segno[r] => \A k \in AttemptNos :
                                attempt'[<<r, n, k>>] = attempt[<<r, n, k>>]
           /\ \A k \in AttemptNos :
                session'[<<r, n, k>>] = "ACTIVE" => attempt'[<<r, n, k>>] = "RUNNING",
         \A q \in Runs \ {r} :
           /\ inline'[q] = inline[q]
           /\ \A n \in SegmentNos :
                /\ interaction'[<<q, n>>] = interaction[<<q, n>>]
                /\ approval'[<<q, n>>] = approval[<<q, n>>]
                /\ \A k \in AttemptNos :
                     /\ attempt'[<<q, n, k>>] = attempt[<<q, n, k>>]
                     /\ session'[<<q, n, k>>] = session[<<q, n, k>>]
  PROVE  Serves(r)
  <1>. DEFINE m == segno[r] + 1
  <1>1. /\ IInv /\ RunKept(r)
        /\ segno[r] \in SegmentNos /\ m \in SegmentNos /\ m # segno[r]
        /\ Latest(r) = <<r, segno[r]>> /\ retry[r] = "none"
    <2>1. IInv /\ RunKept(r)
      BY DEF KInv
    <2>2. segno[r] \in SegmentNos
      BY <2>1, RunNumbers
    <2>3. retry[r] = "none"
      BY <2>1 DEF RunKept, AttemptsKept
    <2>. QED
      BY <2>1, <2>2, <2>3, BoundsAssumption DEF Latest
  <1>2. /\ status' = [status EXCEPT ![r] = "QUEUED"]
        /\ segno' = [segno EXCEPT ![r] = m]
        /\ segment' = [segment EXCEPT ![<<r, segno[r]>>] = "COMPLETED",
                                      ![<<r, m>>] = "CREATED"]
        /\ outbox' = outbox \cup {<<r, m, 1>>}
    BY DEF Continue, SetStatus, Latest
  <1>. HIDE DEF m
  <1>3. /\ status'[r] = "QUEUED" /\ segno'[r] = m
        /\ segment'[<<r, m>>] = "CREATED" /\ tries[<<r, m>>] = 0
    <2>1. status'[r] = "QUEUED" /\ segno'[r] = m
      BY <1>1, <1>2 DEF IInv, TypeOK
    <2>2. segment'[<<r, m>>] = "CREATED"
      BY <1>1, <1>2 DEF IInv, TypeOK
    <2>3. tries[<<r, m>>] = 0
      BY <1>1 DEF IInv, Numbering, m
    <2>. QED
      BY <2>1, <2>2, <2>3
  <1>4. SegmentsKept(r)'
    <2>1. ASSUME NEW n \in SegmentNos, n < m
          PROVE  segment'[<<r, n>>] = "COMPLETED"
      <3>1. CASE n = segno[r]
        BY <1>1, <1>2, <3>1 DEF IInv, TypeOK
      <3>2. CASE n # segno[r]
        <4>1. n < segno[r] /\ n # m
          BY <1>1, <2>1, <3>2 DEF m
        <4>2. segment[<<r, n>>] = "COMPLETED"
          BY <1>1, <4>1 DEF RunKept, SegmentsKept
        <4>. QED
          BY <1>1, <1>2, <3>2, <4>1, <4>2 DEF IInv, TypeOK
      <3>. QED
        BY <3>1, <3>2
    <2>. QED
      BY <1>3, <2>1 DEF SegmentsKept, SegmentFor, Latest
  <1>5. WaitsKept(r)'
    BY <1>3 DEF WaitsKept
  <1>6. AttemptsKept(r)'
    <2>1. \A k \in AttemptNos : attempt[<<r, m, k>>] = "ABSENT"
      BY <1>1, <1>3 DEF IInv, Numbering, SegmentOf
    <2>2. m > segno[r]
      BY <1>1 DEF m
    <2>3. ASSUME NEW k \in AttemptNos PROVE attempt'[<<r, m, k>>] # "DEFERRED"
      <3>1. attempt'[<<r, m, k>>] = attempt[<<r, m, k>>]
        BY <1>1, <2>2
      <3>. QED
        BY <2>1, <3>1
    <2>4. retry'[r] = "none"
      BY <1>1
    <2>5. ASSUME NEW n \in SegmentNos, NEW k \in AttemptNos
          PROVE  /\ session'[<<r, n, k>>] = "ACTIVE" =>
                      attempt'[<<r, n, k>>] = "RUNNING"
                 /\ n = segno'[r] => attempt'[<<r, n, k>>] # "DEFERRED"
      <3>1. session'[<<r, n, k>>] = "ACTIVE" => attempt'[<<r, n, k>>] = "RUNNING"
        OBVIOUS
      <3>2. n = m => attempt'[<<r, n, k>>] # "DEFERRED"
        BY <2>3, Zenon
      <3>. QED
        BY <1>3, <3>1, <3>2
    <2>. QED
      BY <2>4, <2>5 DEF AttemptsKept
  <1>7. WakeupKept(r)'
    BY <1>2, <1>3 DEF WakeupKept, NextNo, Latest
  <1>8. ASSUME NEW q \in Runs \ {r}
        PROVE  Untouched(q)
    <2>1. status'[q] = status[q] /\ segno'[q] = segno[q]
      BY <1>2 DEF IInv, TypeOK, KInv
    <2>2. \A n \in SegmentNos : segment'[<<q, n>>] = segment[<<q, n>>]
      BY <1>1, <1>2 DEF IInv, TypeOK
    <2>3. outbox \cup queue \subseteq outbox' \cup queue'
      BY <1>2
    <2>. QED
      BY <2>1, <2>2, <2>3 DEF Untouched
  <1>. QED
    BY <1>4, <1>5, <1>6, <1>7, <1>8 DEF Serves, RunKept

\* The Run ends with its newest Segment: nothing is awaited, nobody is woken.
LEMMA CloseServes ==
  ASSUME KInv, NEW r \in Runs, NEW x \in {"CANCELLED", "FAILED"}, Close(r, x),
         status[r] # "ABSENT",
         cancel[r] => x = "CANCELLED",
         retry'[r] = "none",
         UNCHANGED <<cancel, segno, tries>>,
         \A n \in SegmentNos :
           /\ interaction'[<<r, n>>] # "OPEN"
           /\ approval'[<<r, n>>] \notin {"REQUESTED", "APPLYING"}
           /\ approval'[<<r, n>>] = "PENDING_APPROVAL" =>
                n = segno[r] /\ x = "CANCELLED"
           /\ \A k \in AttemptNos :
                session'[<<r, n, k>>] = "ACTIVE" => attempt'[<<r, n, k>>] = "RUNNING",
         \A q \in Runs \ {r} :
           /\ inline'[q] = inline[q] /\ retry'[q] = retry[q]
           /\ \A n \in SegmentNos :
                /\ interaction'[<<q, n>>] = interaction[<<q, n>>]
                /\ approval'[<<q, n>>] = approval[<<q, n>>]
                /\ \A k \in AttemptNos :
                     /\ attempt'[<<q, n, k>>] = attempt[<<q, n, k>>]
                     /\ session'[<<q, n, k>>] = session[<<q, n, k>>]
           /\ \A d \in Dispatches :
                d[1] = q /\ d \in outbox \cup queue => d \in outbox' \cup queue'
  PROVE  Serves(r)
  <1>1. /\ IInv /\ RunKept(r)
        /\ segno[r] \in SegmentNos
    BY RunNumbers DEF KInv
  <1>2. /\ status' = [status EXCEPT ![r] = x]
        /\ segment' = [segment EXCEPT ![<<r, segno[r]>>] = x]
        /\ status'[r] = x
        /\ segment'[<<r, segno[r]>>] = x
    BY <1>1 DEF Close, SetStatus, Latest, IInv, TypeOK
  <1>3. SegmentsKept(r)'
    <2>1. ASSUME NEW n \in SegmentNos, n < segno[r]
          PROVE  segment'[<<r, n>>] = "COMPLETED"
      <3>1. segment[<<r, n>>] = "COMPLETED" /\ n # segno[r]
        BY <1>1, <2>1 DEF RunKept, SegmentsKept
      <3>. QED
        BY <1>1, <1>2, <3>1 DEF IInv, TypeOK
    <2>. QED
      BY <1>2, <2>1 DEF SegmentsKept, SegmentFor, Latest
  <1>4. WaitsKept(r)'
    BY <1>2 DEF WaitsKept
  <1>5. AttemptsKept(r)' /\ WakeupKept(r)'
    BY <1>2 DEF AttemptsKept, WakeupKept
  <1>6. ASSUME NEW q \in Runs \ {r}
        PROVE  Untouched(q)
    <2>1. status'[q] = status[q]
      BY <1>2 DEF IInv, TypeOK, KInv
    <2>2. \A n \in SegmentNos : segment'[<<q, n>>] = segment[<<q, n>>]
      BY <1>1, <1>2 DEF IInv, TypeOK
    <2>. QED
      BY <2>1, <2>2 DEF Untouched
  <1>. QED
    BY <1>3, <1>4, <1>5, <1>6 DEF Serves, RunKept

\* A queued or retrying Run is cancelled at once, with its Segment.
LEMMA CancelQueuedServes ==
  ASSUME KInv, NEW r \in Runs, CancelQueued(r)
  PROVE  Serves(r)
  <1>1. /\ IInv /\ RunKept(r)
        /\ status[r] \in {"QUEUED", "RETRY_PENDING"}
        /\ Close(r, "CANCELLED")
        /\ retry' = [retry EXCEPT ![r] = "none"]
        /\ UNCHANGED <<cancel, inline, segno, interaction, approval, tries,
                       attempt, session, outbox, queue>>
    BY DEF KInv, CancelQueued, attemptVars
  <1>2. \A n \in SegmentNos :
          /\ interaction[<<r, n>>] # "OPEN"
          /\ approval[<<r, n>>] \notin {"PENDING_APPROVAL", "REQUESTED", "APPLYING"}
    BY <1>1 DEF IInv, Numbering, RunKept, WaitsKept
  <1>3. \A n \in SegmentNos, k \in AttemptNos :
          session[<<r, n, k>>] = "ACTIVE" => attempt[<<r, n, k>>] = "RUNNING"
    BY <1>1 DEF RunKept, AttemptsKept
  <1>4. retry'[r] = "none" /\ \A q \in Runs \ {r} : retry'[q] = retry[q]
    BY <1>1 DEF IInv, TypeOK
  <1>. QED
    BY <1>1, <1>2, <1>3, <1>4, CloseServes

\* The answer that is not awaited any more is closed with the wait.
LEMMA CancelWaitingServes ==
  ASSUME KInv, NEW r \in Runs, CancelWaiting(r)
  PROVE  Serves(r)
  <1>1. /\ IInv /\ RunKept(r)
        /\ status[r] \in {"WAITING_FOR_INPUT", "WAITING_FOR_APPROVAL",
                          "WAITING_PERMISSION"}
        /\ ~ (status[r] = "WAITING_FOR_APPROVAL" /\ approval[Latest(r)] = "APPLYING")
        /\ Close(r, "CANCELLED")
        /\ UNCHANGED <<cancel, retry, inline, segno, tries, session, outbox, queue>>
    BY DEF KInv, CancelWaiting
  <1>2. /\ \A b \in Attempts :
             attempt'[b] = IF SegmentOf(b) = Latest(r) /\ attempt[b] = "DEFERRED"
                             THEN "CANCELLED" ELSE attempt[b]
        /\ \A s \in Segments :
             /\ interaction'[s] = IF s[1] = r /\ interaction[s] = "OPEN"
                                    THEN "CANCELLED" ELSE interaction[s]
             /\ approval'[s] = IF s[1] = r /\ approval[s] = "REQUESTED"
                                 THEN "CLOSED" ELSE approval[s]
    BY DEF CancelWaiting
  <1>3. ASSUME NEW n \in SegmentNos
        PROVE  /\ interaction'[<<r, n>>] # "OPEN"
               /\ approval'[<<r, n>>] \notin {"REQUESTED", "APPLYING"}
               /\ approval'[<<r, n>>] = "PENDING_APPROVAL" => n = segno[r]
    <2>1. approval[<<r, n>>] # "APPLYING"
      BY <1>1 DEF IInv, Numbering, RunKept, WaitsKept, Latest
    <2>2. approval[<<r, n>>] = "PENDING_APPROVAL" => n = segno[r]
      BY <1>1 DEF RunKept, WaitsKept
    <2>. QED
      BY <1>2, <2>1, <2>2
  <1>4. ASSUME NEW n \in SegmentNos, NEW k \in AttemptNos
        PROVE  session'[<<r, n, k>>] = "ACTIVE" => attempt'[<<r, n, k>>] = "RUNNING"
    <2>1. session[<<r, n, k>>] = "ACTIVE" => attempt[<<r, n, k>>] = "RUNNING"
      BY <1>1 DEF RunKept, AttemptsKept
    <2>. QED
      BY <1>1, <1>2, <2>1
  <1>5. retry[r] = "none"
    BY <1>1 DEF RunKept, AttemptsKept
  <1>6. ASSUME NEW q \in Runs \ {r}, NEW n \in SegmentNos
        PROVE  /\ interaction'[<<q, n>>] = interaction[<<q, n>>]
               /\ approval'[<<q, n>>] = approval[<<q, n>>]
               /\ \A k \in AttemptNos : attempt'[<<q, n, k>>] = attempt[<<q, n, k>>]
    BY <1>2 DEF SegmentOf, Latest
  <1>. QED
    BY <1>1, <1>3, <1>4, <1>5, <1>6, CloseServes

\* An approved proposal leaves its Run waiting, now for the effect.
LEMMA ApproveProposalServes ==
  ASSUME KInv, NEW r \in Runs, ApproveProposal(r)
  PROVE  Serves(r)
  <1>1. /\ IInv /\ RunKept(r) /\ AwaitsDecision(r)
        /\ interaction' = [interaction EXCEPT ![Latest(r)] = "RESPONDED"]
        /\ approval' = [approval EXCEPT ![Latest(r)] = "REQUESTED"]
        /\ UNCHANGED <<status, cancel, retry, inline, segno, segment, tries,
                       attempt, session, outbox, queue>>
    BY DEF KInv, ApproveProposal, runVars, attemptVars
  <1>2. segno[r] \in SegmentNos /\ Latest(r) = <<r, segno[r]>>
    BY <1>1, RunNumbers DEF AwaitsDecision, Latest
  <1>3. WaitsKept(r)'
    <2>1. approval'[<<r, segno[r]>>] = "REQUESTED"
          /\ interaction'[<<r, segno[r]>>] = "RESPONDED"
      BY <1>1, <1>2 DEF IInv, TypeOK
    <2>2. \A n \in SegmentNos : n # segno[r] =>
            /\ approval'[<<r, n>>] = approval[<<r, n>>]
            /\ interaction'[<<r, n>>] = interaction[<<r, n>>]
      BY <1>1, <1>2 DEF IInv, TypeOK
    <2>. QED
      BY <1>1, <1>2, <2>1, <2>2 DEF RunKept, WaitsKept, AwaitsDecision, Latest
  <1>4. SegmentsKept(r)' /\ AttemptsKept(r)' /\ WakeupKept(r)'
    BY <1>1 DEF RunKept, SegmentsKept, AttemptsKept, WakeupKept, Latest, NextNo
  <1>5. ASSUME NEW q \in Runs \ {r}
        PROVE  Untouched(q)
    BY <1>1, <1>2 DEF Untouched, IInv, TypeOK
  <1>. QED
    BY <1>3, <1>4, <1>5 DEF Serves, RunKept

\* An answer, a decision or a deadline closes the question and the proposal of the
\* newest Segment; a wait for an answer has no other.
LEMMA WaitEnds ==
  ASSUME KInv, NEW r \in Runs, Continue(r),
         \/ status[r] = "WAITING_FOR_INPUT" /\ approval' = approval
         \/ AwaitsDecision(r) /\ approval' = [approval EXCEPT ![Latest(r)] = "CLOSED"],
         NEW x \in {"RESPONDED", "EXPIRED"},
         interaction' = [interaction EXCEPT ![Latest(r)] = x],
         UNCHANGED <<cancel, retry, inline, tries, attempt, session, queue>>
  PROVE  Serves(r)
  <1>1. /\ IInv /\ RunKept(r)
        /\ status[r] \in {"WAITING_FOR_INPUT", "WAITING_FOR_APPROVAL"}
        /\ segno[r] < MaxSegments /\ segno[r] \in SegmentNos
        /\ Latest(r) = <<r, segno[r]>>
    BY RunNumbers DEF KInv, IInv, Numbering, AwaitsDecision, Latest
  <1>2. ~ cancel[r] /\ ~ inline[r]
    <2>1. cancel[r] => AwaitsDecision(r) /\ approval[Latest(r)] \in {"REQUESTED", "APPLYING"}
      BY <1>1 DEF RunKept, WaitsKept
    <2>. QED
      BY <1>1, <2>1 DEF IInv, Numbering, AwaitsDecision
  <1>3. ASSUME NEW n \in SegmentNos
        PROVE  /\ interaction'[<<r, n>>] # "OPEN"
               /\ approval'[<<r, n>>] \notin {"PENDING_APPROVAL", "REQUESTED",
                                              "APPLYING"}
    <2>1. CASE n = segno[r]
      <3>1. interaction'[<<r, n>>] = x
        BY <1>1, <2>1 DEF IInv, TypeOK
      <3>2. approval'[<<r, n>>] \notin {"PENDING_APPROVAL", "REQUESTED", "APPLYING"}
        <4>1. CASE status[r] = "WAITING_FOR_INPUT" /\ approval' = approval
          BY <1>1, <1>2, <4>1 DEF RunKept, WaitsKept
        <4>2. CASE approval' = [approval EXCEPT ![Latest(r)] = "CLOSED"]
          BY <1>1, <2>1, <4>2 DEF IInv, TypeOK
        <4>. QED
          BY <4>1, <4>2
      <3>. QED
        BY <3>1, <3>2
    <2>2. CASE n # segno[r]
      <3>1. interaction'[<<r, n>>] = interaction[<<r, n>>]
            /\ approval'[<<r, n>>] = approval[<<r, n>>]
        BY <1>1, <2>2 DEF IInv, TypeOK
      <3>. QED
        BY <1>1, <2>2, <3>1 DEF RunKept, WaitsKept
    <2>. QED
      BY <2>1, <2>2
  <1>4. \A n \in SegmentNos, k \in AttemptNos :
          session[<<r, n, k>>] = "ACTIVE" => attempt[<<r, n, k>>] = "RUNNING"
    BY <1>1 DEF RunKept, AttemptsKept
  <1>5. ASSUME NEW q \in Runs \ {r}, NEW n \in SegmentNos
        PROVE  /\ interaction'[<<q, n>>] = interaction[<<q, n>>]
               /\ approval'[<<q, n>>] = approval[<<q, n>>]
    BY <1>1 DEF IInv, TypeOK
  <1>. QED
    BY <1>1, <1>2, <1>3, <1>4, <1>5, ContinueServes

\* Every request of the API is a transaction on its Run.
LEMMA ApiServes ==
  ASSUME KInv, NEW r \in Runs, ApiStep(r)
  PROVE  Serves(r)
  <1>1. ASSUME RespondToInteraction(r) \/ RejectProposal(r)
        PROVE  Serves(r)
    <2>1. /\ Continue(r)
          /\ \/ status[r] = "WAITING_FOR_INPUT" /\ approval' = approval
             \/ /\ AwaitsDecision(r)
                /\ approval' = [approval EXCEPT ![Latest(r)] = "CLOSED"]
          /\ interaction' = [interaction EXCEPT ![Latest(r)] = "RESPONDED"]
          /\ UNCHANGED <<cancel, retry, inline, tries, attempt, session, queue>>
      BY <1>1 DEF RespondToInteraction, RejectProposal, attemptVars
    <2>. QED
      BY <2>1, WaitEnds
  <1>. QED
    BY <1>1, CreateServes, RequestCancellationServes, CancelQueuedServes,
       CancelWaitingServes, ApproveProposalServes
    DEF ApiStep

-----------------------------------------------------------------------------
(* The relay, the Queue and the claim.                                     *)

\* Publishing a message twice or once: it stays in the outbox or in the Queue.
LEMMA RelayLeavesAlone ==
  ASSUME NEW d \in Dispatches, RelayOutbox(d) \/ RelayCrash(d), NEW q \in Runs
  PROVE  Untouched(q)
  <1>1. /\ UNCHANGED <<status, cancel, retry, inline, segno, segment, interaction,
                       approval, tries, attempt, session>>
        /\ outbox \cup queue \subseteq outbox' \cup queue'
    BY DEF RelayOutbox, RelayCrash, runVars, segmentVars, attemptVars
  <1>. QED
    BY <1>1 DEF Untouched

\* A claim starts the next Attempt; it uses up a message of its own Run only.
LEMMA NewAttemptServes ==
  ASSUME KInv, NEW w \in Workers, NEW r \in Runs, NewAttempt(w, r),
         \A d \in Dispatches :
           d[1] # r /\ d \in outbox \cup queue => d \in outbox' \cup queue'
  PROVE  Serves(r)
  <1>. DEFINE m == NextNo(r)
  <1>1. /\ IInv /\ RunKept(r)
        /\ status[r] \in {"QUEUED", "RETRY_PENDING"}
        /\ m <= MaxAttempts
        /\ \A k \in AttemptNos :
             attempt[<<r, segno[r], k>>] \notin Active \cup {"DEFERRED"}
    BY DEF KInv, NewAttempt, Claimable
  <1>2. /\ segno[r] \in SegmentNos /\ Latest(r) = <<r, segno[r]>>
        /\ m \in AttemptNos /\ m = tries[<<r, segno[r]>>] + 1
    <2>1. segno[r] \in SegmentNos /\ m \in 1..(MaxAttempts + 1)
      BY <1>1, RunNumbers
    <2>2. m = tries[<<r, segno[r]>>] + 1 /\ Latest(r) = <<r, segno[r]>>
      BY DEF NextNo, Latest
    <2>. QED
      BY <1>1, <2>1, <2>2, BoundsAssumption
  <1>3. /\ status' = [status EXCEPT ![r] = "PREPARING"]
        /\ retry' = [retry EXCEPT ![r] = "none"]
        /\ segment' = [segment EXCEPT ![<<r, segno[r]>>] = "RUNNING"]
        /\ tries' = [tries EXCEPT ![<<r, segno[r]>>] = m]
        /\ attempt' = [attempt EXCEPT ![<<r, segno[r], m>>] = "LEASED"]
        /\ UNCHANGED <<cancel, inline, segno, interaction, approval, session>>
    BY DEF NewAttempt, SetStatus, Latest
  <1>. HIDE DEF m
  <1>4. /\ status'[r] = "PREPARING" /\ retry'[r] = "none"
        /\ segment'[<<r, segno[r]>>] = "RUNNING"
    BY <1>2, <1>3 DEF IInv, TypeOK, KInv
  <1>5. SegmentsKept(r)'
    <2>1. ASSUME NEW n \in SegmentNos, n < segno[r]
          PROVE  segment'[<<r, n>>] = "COMPLETED"
      <3>1. segment[<<r, n>>] = "COMPLETED" /\ n # segno[r]
        BY <1>1, <2>1 DEF RunKept, SegmentsKept
      <3>. QED
        BY <1>1, <1>2, <1>3, <3>1 DEF IInv, TypeOK
    <2>. QED
      BY <1>3, <1>4, <2>1 DEF SegmentsKept, SegmentFor, Latest
  <1>6. WaitsKept(r)'
    <2>1. \A n \in SegmentNos :
            /\ interaction[<<r, n>>] # "OPEN"
            /\ approval[<<r, n>>] \notin {"PENDING_APPROVAL", "REQUESTED",
                                          "APPLYING"}
      BY <1>1 DEF IInv, Numbering, RunKept, WaitsKept
    <2>. QED
      BY <1>3, <1>4, <2>1 DEF WaitsKept
  <1>7. AttemptsKept(r)'
    <2>1. attempt[<<r, segno[r], m>>] = "ABSENT"
      BY <1>1, <1>2, BoundsAssumption DEF IInv, TypeOK, Numbering, SegmentOf
    <2>2. ASSUME NEW n \in SegmentNos, NEW k \in AttemptNos
          PROVE  /\ session'[<<r, n, k>>] = "ACTIVE" =>
                      attempt'[<<r, n, k>>] = "RUNNING"
                 /\ n = segno[r] => attempt'[<<r, n, k>>] # "DEFERRED"
      <3>1. /\ session[<<r, n, k>>] = "ACTIVE" => attempt[<<r, n, k>>] = "RUNNING"
            /\ n = segno[r] => attempt[<<r, n, k>>] # "DEFERRED"
        BY <1>1 DEF RunKept, AttemptsKept
      <3>2. \/ n = segno[r] /\ k = m
            \/ attempt'[<<r, n, k>>] = attempt[<<r, n, k>>]
        BY <1>1, <1>2, <1>3 DEF IInv, TypeOK
      <3>3. attempt'[<<r, segno[r], m>>] = "LEASED"
        BY <1>1, <1>2, <1>3 DEF IInv, TypeOK
      <3>. QED
        BY <1>3, <2>1, <3>1, <3>2, <3>3
    <2>. QED
      BY <1>3, <1>4, <2>2 DEF AttemptsKept
  <1>8. WakeupKept(r)'
    BY <1>4 DEF WakeupKept
  <1>9. ASSUME NEW q \in Runs \ {r}
        PROVE  Untouched(q)
    <2>1. UNCHANGED <<status[q], cancel[q], retry[q], inline[q], segno[q]>>
      BY <1>1, <1>3 DEF IInv, TypeOK
    <2>2. ASSUME NEW n \in SegmentNos
          PROVE  /\ UNCHANGED <<segment[<<q, n>>], interaction[<<q, n>>],
                                approval[<<q, n>>], tries[<<q, n>>]>>
                 /\ \A k \in AttemptNos :
                      UNCHANGED <<attempt[<<q, n, k>>], session[<<q, n, k>>]>>
      BY <1>1, <1>2, <1>3 DEF IInv, TypeOK
    <2>. QED
      BY <2>1, <2>2 DEF Untouched
  <1>. QED
    BY <1>5, <1>6, <1>7, <1>8, <1>9 DEF Serves, RunKept

\* A message of the next Attempt is never refused: all that a claim asks for is
\* there whenever the Run is queued and its retry is due.
LEMMA WakeupIsAnswered ==
  ASSUME KInv, NEW r \in Runs, status[r] \in {"QUEUED", "RETRY_PENDING"},
         retry[r] # "waiting"
  PROVE  Claimable(r) /\ CapacitySessionKept(r)
  <1>1. IInv /\ RunKept(r)
    BY DEF KInv
  <1>2. segment[Latest(r)] \in {"CREATED", "RUNNING"}
    BY <1>1 DEF RunKept, SegmentsKept, SegmentFor
  <1>3. ASSUME NEW k \in AttemptNos
        PROVE  attempt[<<r, segno[r], k>>] \notin Active \cup {"DEFERRED"}
    <2>1. segno[r] \in SegmentNos
      BY <1>1, RunNumbers
    <2>2. attempt[<<r, segno[r], k>>] # "DEFERRED"
      BY <1>1, <2>1 DEF RunKept, AttemptsKept
    <2>3. attempt[<<r, segno[r], k>>] \notin Active
      BY <1>1, <2>1, NotExecutedNoActive
    <2>. QED
      BY <2>2, <2>3
  <1>4. CapacitySessionKept(r)
    BY <1>1 DEF RunKept, AttemptsKept, CapacitySessionKept
  <1>. QED
    BY <1>2, <1>3, <1>4 DEF Claimable

\* A job whose claim writes nothing was not the one its Run waits for.
LEMMA IgnoreDispatchServes ==
  ASSUME KInv, NEW w \in Workers, NEW d \in Dispatches, IgnoreDispatch(w, d)
  PROVE  Serves(d[1])
  <1>. DEFINE r == d[1]
  <1>1. /\ r \in Runs /\ IInv /\ RunKept(r) /\ ~ Deferred(d)
        /\ ~ (Claimable(r) /\ (NextNo(r) <= MaxAttempts => CapacitySessionKept(r)))
        /\ queue' = queue \ {d}
        /\ UNCHANGED <<status, cancel, retry, inline, segno, segment, interaction,
                       approval, tries, attempt, session, outbox>>
    BY DEF KInv, IgnoreDispatch, TakeJob, runVars, segmentVars, attemptVars
  <1>. HIDE DEF r
  <1>2. SegmentsKept(r)' /\ WaitsKept(r)' /\ AttemptsKept(r)'
    BY <1>1 DEF RunKept, SegmentsKept, WaitsKept, AttemptsKept, AwaitsDecision,
                Latest
  <1>3. ASSUME status[r] \in {"QUEUED", "RETRY_PENDING"}
        PROVE  <<r, segno[r], NextNo(r)>> # d
    <2>1. retry[r] = "waiting"
      BY <1>1, <1>3, WakeupIsAnswered
    <2>. QED
      BY <1>1, <2>1 DEF Deferred, r
  <1>4. WakeupKept(r)'
    BY <1>1, <1>3 DEF RunKept, WakeupKept, NextNo, Latest
  <1>5. ASSUME NEW q \in Runs \ {r}
        PROVE  Untouched(q)
    BY <1>1 DEF Untouched, r
  <1>. QED
    BY <1>2, <1>3, <1>4, <1>5 DEF Serves, RunKept, r

\* A Run whose Attempts are used up ends.
LEMMA ExhaustRetriesServes ==
  ASSUME KInv, NEW w \in Workers, NEW d \in Dispatches, ExhaustRetries(w, d)
  PROVE  Serves(d[1])
  <1>. DEFINE r == d[1]
  <1>1. /\ r \in Runs /\ IInv /\ RunKept(r)
        /\ status[r] \in {"QUEUED", "RETRY_PENDING"}
        /\ Close(r, "FAILED")
        /\ retry' = [retry EXCEPT ![r] = "none"]
        /\ queue' = queue \ {d}
        /\ UNCHANGED <<cancel, inline, segno, interaction, approval, tries,
                       attempt, session, outbox>>
    BY DEF KInv, ExhaustRetries, TakeJob, Claimable, attemptVars
  <1>2. \A q \in Runs \ {r}, e \in Dispatches :
          e[1] = q /\ e \in outbox \cup queue => e \in outbox' \cup queue'
    BY <1>1
  <1>. HIDE DEF r
  <1>3. /\ ~ cancel[r]
        /\ \A n \in SegmentNos :
             /\ interaction[<<r, n>>] # "OPEN"
             /\ approval[<<r, n>>] \notin {"PENDING_APPROVAL", "REQUESTED",
                                           "APPLYING"}
    BY <1>1 DEF IInv, Numbering, RunKept, WaitsKept
  <1>4. \A n \in SegmentNos, k \in AttemptNos :
          session[<<r, n, k>>] = "ACTIVE" => attempt[<<r, n, k>>] = "RUNNING"
    BY <1>1 DEF RunKept, AttemptsKept
  <1>5. retry'[r] = "none" /\ \A q \in Runs \ {r} : retry'[q] = retry[q]
    BY <1>1 DEF IInv, TypeOK
  <1>6. Serves(r)
    BY <1>1, <1>2, <1>3, <1>4, <1>5, CloseServes
  <1>. QED
    BY <1>6 DEF r

\* A delivered message is claimed, finds the retries used up, or is dropped.
LEMMA TakeDispatchServes ==
  ASSUME KInv, NEW w \in Workers, NEW d \in Dispatches, TakeDispatch(w, d)
  PROVE  d[1] \in Runs /\ Serves(d[1])
  <1>1. ASSUME ClaimForExecution(w, d)
        PROVE  Serves(d[1])
    <2>1. NewAttempt(w, d[1]) /\ queue' = queue \ {d} /\ outbox' = outbox
      BY <1>1 DEF ClaimForExecution, TakeJob
    <2>. QED
      BY <2>1, NewAttemptServes
  <1>. QED
    BY <1>1, IgnoreDispatchServes, ExhaustRetriesServes DEF TakeDispatch

-----------------------------------------------------------------------------
(* The Worker that holds the lease.                                        *)

\* The Attempt of an executing Run is its newest one.
LEMMA ActiveIsNewest ==
  ASSUME KInv, NEW a \in Attempts, attempt[a] \in Active
  PROVE  /\ IInv /\ a[1] \in Runs /\ RunKept(a[1])
         /\ status[a[1]] \in {"PREPARING", "RUNNING"}
         /\ segno[a[1]] \in SegmentNos
         /\ SegmentOf(a) = <<a[1], segno[a[1]]>>
         /\ SegmentOf(a) = Latest(a[1])
         /\ tries[<<a[1], segno[a[1]]>>] = a[3]
         /\ a[3] \in AttemptNos
         /\ a = <<a[1], segno[a[1]], a[3]>>
         /\ \A n \in SegmentNos :
              /\ interaction[<<a[1], n>>] # "OPEN"
              /\ approval[<<a[1], n>>] # "PENDING_APPROVAL"
              /\ approval[<<a[1], n>>] \in {"REQUESTED", "APPLYING"} =>
                   n = segno[a[1]] /\ inline[a[1]]
  <1>1. IInv /\ a[1] \in Runs /\ RunKept(a[1])
    BY DEF KInv
  <1>2. /\ a[2] = segno[a[1]] /\ a[3] = tries[SegmentOf(a)]
        /\ status[a[1]] \in {"PREPARING", "RUNNING"}
    BY <1>1 DEF IInv, ExecutionOwnership
  <1>3. ASSUME NEW n \in SegmentNos
        PROVE  /\ interaction[<<a[1], n>>] # "OPEN"
               /\ approval[<<a[1], n>>] # "PENDING_APPROVAL"
               /\ approval[<<a[1], n>>] \in {"REQUESTED", "APPLYING"} =>
                    n = segno[a[1]] /\ inline[a[1]]
    BY <1>1, <1>2 DEF RunKept, WaitsKept
  <1>. QED
    BY <1>1, <1>2, <1>3, AttemptIsTriple DEF SegmentOf, Latest

\* The newest Segment is written together with the Run row.
LEMMA NewestSegmentKept ==
  ASSUME KInv, NEW r \in Runs, status[r] # "ABSENT", NEW x, x # "ABSENT",
         status'[r] = x, segno'[r] = segno[r],
         segment' = [segment EXCEPT ![<<r, segno[r]>>] = SegmentFor(x)]
  PROVE  SegmentsKept(r)'
  <1>1. IInv /\ RunKept(r) /\ segno[r] \in SegmentNos
    BY RunNumbers DEF KInv
  <1>2. segment'[<<r, segno[r]>>] = SegmentFor(x)
    BY <1>1 DEF IInv, TypeOK
  <1>3. ASSUME NEW n \in SegmentNos, n < segno[r]
        PROVE  segment'[<<r, n>>] = "COMPLETED"
    <2>1. segment[<<r, n>>] = "COMPLETED" /\ n # segno[r]
      BY <1>1, <1>3 DEF RunKept, SegmentsKept
    <2>. QED
      BY <1>1, <2>1 DEF IInv, TypeOK
  <1>. QED
    BY <1>2, <1>3 DEF SegmentsKept, Latest

\* An Attempt that is given up does not leave an ACTIVE session behind, and is
\* left suspended only by a Run that waits or ends.
LEMMA ReleaseKeepsAttempts ==
  ASSUME KInv, NEW a \in Attempts, attempt[a] \in Active,
         \A b \in Attempts : b # a => /\ attempt'[b] = attempt[b]
                                      /\ session'[b] = session[b],
         session'[a] # "ACTIVE",
         segno'[a[1]] = segno[a[1]],
         UNCHANGED tries,
         attempt'[a] = "DEFERRED" =>
           status'[a[1]] \notin {"QUEUED", "PREPARING", "RUNNING", "RETRY_PENDING"},
         \/ retry'[a[1]] = "none"
         \/ /\ status'[a[1]] = "RETRY_PENDING"
            /\ attempt'[a] = "FAILED" /\ session'[a] = "FAILED"
  PROVE  AttemptsKept(a[1])'
  <1>1. ASSUME NEW n \in SegmentNos, NEW k \in AttemptNos
        PROVE  /\ session'[<<a[1], n, k>>] = "ACTIVE" =>
                    attempt'[<<a[1], n, k>>] = "RUNNING"
               /\ attempt'[<<a[1], n, k>>] = "DEFERRED" /\ n = segno'[a[1]] =>
                    status'[a[1]] \notin {"QUEUED", "PREPARING", "RUNNING",
                                          "RETRY_PENDING"}
    <2>1. CASE <<a[1], n, k>> = a
      BY <2>1
    <2>2. CASE <<a[1], n, k>> # a
      <3>1. /\ attempt'[<<a[1], n, k>>] = attempt[<<a[1], n, k>>]
            /\ session'[<<a[1], n, k>>] = session[<<a[1], n, k>>]
        BY <2>2
      <3>2. /\ session[<<a[1], n, k>>] = "ACTIVE" =>
                 attempt[<<a[1], n, k>>] = "RUNNING"
            /\ n = segno[a[1]] => attempt[<<a[1], n, k>>] # "DEFERRED"
        BY ActiveIsNewest DEF RunKept, AttemptsKept
      <3>. QED
        BY <3>1, <3>2
    <2>. QED
      BY <2>1, <2>2
  <1>2. retry'[a[1]] # "none" =>
          /\ status'[a[1]] = "RETRY_PENDING"
          /\ tries'[<<a[1], segno'[a[1]]>>] > 0
          /\ attempt'[<<a[1], segno'[a[1]], tries'[<<a[1], segno'[a[1]]>>]>>] = "FAILED"
          /\ session'[<<a[1], segno'[a[1]], tries'[<<a[1], segno'[a[1]]>>]>>] = "FAILED"
    <2>1. /\ tries'[<<a[1], segno'[a[1]]>>] = a[3]
          /\ a[3] > 0
          /\ <<a[1], segno'[a[1]], a[3]>> = a
      BY ActiveIsNewest, BoundsAssumption
    <2>. QED
      BY <2>1
  <1>. QED
    BY <1>1, <1>2 DEF AttemptsKept, Latest

\* Preparation moves Run, Attempt and session on together.
LEMMA PrepareExecutionServes ==
  ASSUME KInv, NEW w \in Workers, PrepareExecution(w),
         NEW a \in Attempts, a = worker[w]
  PROVE  Serves(a[1])
  <1>. DEFINE r == a[1]
  <1>1. attempt[a] \in Active
    BY HolderHasAttempt DEF KInv, IInv, PrepareExecution, Executing
  <1>2. /\ status[r] = "PREPARING"
        /\ status' = [status EXCEPT ![r] = "RUNNING"]
        /\ attempt' = [attempt EXCEPT ![a] = "RUNNING"]
        /\ segment' = [segment EXCEPT ![SegmentOf(a)] = "RUNNING"]
        /\ UNCHANGED <<cancel, retry, inline, segno, interaction, approval, tries,
                       session, outbox, queue>>
    BY DEF PrepareExecution, Executing, SetStatus
  <1>3. /\ IInv /\ r \in Runs /\ RunKept(r)
        /\ segno[r] \in SegmentNos /\ SegmentOf(a) = <<r, segno[r]>>
        /\ \A n \in SegmentNos :
             /\ interaction[<<r, n>>] # "OPEN"
             /\ approval[<<r, n>>] \notin {"PENDING_APPROVAL", "REQUESTED",
                                           "APPLYING"}
    BY <1>1, <1>2, ActiveIsNewest, ZenonT(60) DEF IInv, Numbering
  <1>. HIDE DEF r
  <1>4. status'[r] = "RUNNING"
    BY <1>2, <1>3 DEF IInv, TypeOK
  <1>5. SegmentsKept(r)'
    BY <1>2, <1>3, <1>4, NewestSegmentKept DEF SegmentFor
  <1>6. WaitsKept(r)'
    BY <1>2, <1>3, <1>4 DEF WaitsKept
  <1>7. AttemptsKept(r)'
    <2>1. ASSUME NEW n \in SegmentNos, NEW k \in AttemptNos
          PROVE  /\ session'[<<r, n, k>>] = "ACTIVE" =>
                      attempt'[<<r, n, k>>] = "RUNNING"
                 /\ n = segno[r] => attempt'[<<r, n, k>>] # "DEFERRED"
      <3>1. /\ session[<<r, n, k>>] = "ACTIVE" => attempt[<<r, n, k>>] = "RUNNING"
            /\ n = segno[r] => attempt[<<r, n, k>>] # "DEFERRED"
        BY <1>2, <1>3 DEF RunKept, AttemptsKept
      <3>2. attempt'[<<r, n, k>>] = attempt[<<r, n, k>>]
              \/ attempt'[<<r, n, k>>] = "RUNNING"
        BY <1>2, <1>3 DEF IInv, TypeOK
      <3>. QED
        BY <1>2, <3>1, <3>2
    <2>2. retry[r] = "none"
      BY <1>2, <1>3 DEF RunKept, AttemptsKept
    <2>. QED
      BY <1>2, <1>4, <2>1, <2>2 DEF AttemptsKept
  <1>8. WakeupKept(r)'
    BY <1>4 DEF WakeupKept
  <1>9. ASSUME NEW q \in Runs \ {r}
        PROVE  Untouched(q)
    <2>1. status'[q] = status[q]
      BY <1>2, <1>3 DEF IInv, TypeOK
    <2>2. \A n \in SegmentNos : segment'[<<q, n>>] = segment[<<q, n>>]
      BY <1>2, <1>3 DEF IInv, TypeOK
    <2>3. \A n \in SegmentNos, k \in AttemptNos :
            attempt'[<<q, n, k>>] = attempt[<<q, n, k>>]
      BY <1>1, <1>2, <1>3 DEF IInv, TypeOK, r
    <2>. QED
      BY <1>2, <2>1, <2>2, <2>3 DEF Untouched
  <1>10. Serves(r)
    BY <1>3, <1>5, <1>6, <1>7, <1>8, <1>9 DEF Serves, RunKept
  <1>. QED
    BY <1>10 DEF r

\* A step of the Worker on its Attempt leaves the rows of the other Runs alone.
LEMMA WorkerLeavesAlone ==
  ASSUME KInv, NEW a \in Attempts,
         \A b \in Attempts : b # a => /\ attempt'[b] = attempt[b]
                                      /\ session'[b] = session[b],
         \A q \in Runs \ {a[1]} :
           /\ UNCHANGED <<status[q], retry[q], inline[q], segno[q]>>
           /\ \A n \in SegmentNos :
                UNCHANGED <<segment[<<q, n>>], interaction[<<q, n>>],
                            approval[<<q, n>>]>>,
         UNCHANGED <<cancel, tries>>,
         outbox \cup queue \subseteq outbox' \cup queue',
         NEW q \in Runs \ {a[1]}
  PROVE  Untouched(q)
  <1>1. \A n \in SegmentNos, k \in AttemptNos :
          <<q, n, k>> \in Attempts /\ <<q, n, k>> # a
    OBVIOUS
  <1>. QED
    BY <1>1 DEF Untouched

\* A suspension leaves one open question or one requested effect, in the Segment
\* the Run stops at.
LEMMA SuspendServes ==
  ASSUME KInv, NEW w \in Workers,
         \/ SuspendForInteraction(w) \/ SuspendForProposal(w)
         \/ SuspendForApprovedProposal(w),
         NEW a \in Attempts, a = worker[w]
  PROVE  Serves(a[1])
  <1>. DEFINE r == a[1]
              c == <<r, segno[r]>>
  <1>1. /\ attempt[a] \in Active
        /\ status[r] = "RUNNING" /\ ~ cancel[r] /\ ~ inline[r]
    BY HolderHasAttempt DEF KInv, IInv, SuspendForInteraction,
       SuspendForProposal, SuspendForApprovedProposal, MaySuspend, Executing
  <1>2. /\ IInv /\ r \in Runs /\ RunKept(r)
        /\ segno[r] \in SegmentNos /\ SegmentOf(a) = c
        /\ Latest(r) = c /\ c \in Segments /\ retry[r] = "none"
        /\ \A n \in SegmentNos :
             /\ interaction[<<r, n>>] # "OPEN"
             /\ approval[<<r, n>>] \notin {"PENDING_APPROVAL", "REQUESTED",
                                           "APPLYING"}
    <2>1. retry[r] = "none"
      BY <1>1, ActiveIsNewest DEF RunKept, AttemptsKept
    <2>. QED
      BY <1>1, <2>1, ActiveIsNewest
  <1>3. /\ attempt' = [attempt EXCEPT ![a] = "DEFERRED"]
        /\ session' = [session EXCEPT ![a] = "IDLE"]
        /\ segment' = [segment EXCEPT ![c] = "WAITING"]
        /\ UNCHANGED <<cancel, retry, inline, segno, tries, outbox, queue>>
    BY <1>2
    DEF SuspendForInteraction, SuspendForProposal, SuspendForApprovedProposal,
        Suspend, Release
  <1>4. \E x \in {"WAITING_FOR_INPUT", "WAITING_FOR_APPROVAL"},
          i \in {"OPEN", interaction[c]},
          p \in {"PENDING_APPROVAL", "REQUESTED", approval[c]} :
          /\ status' = [status EXCEPT ![r] = x]
          /\ interaction' = [interaction EXCEPT ![c] = i]
          /\ approval' = [approval EXCEPT ![c] = p]
          /\ \/ x = "WAITING_FOR_INPUT" /\ i = "OPEN" /\ p = approval[c]
             \/ /\ x = "WAITING_FOR_APPROVAL"
                /\ i = "OPEN" /\ p = "PENDING_APPROVAL"
             \/ /\ x = "WAITING_FOR_APPROVAL"
                /\ i = interaction[c] /\ p = "REQUESTED"
    <2>1. /\ interaction = [interaction EXCEPT ![c] = interaction[c]]
          /\ approval = [approval EXCEPT ![c] = approval[c]]
      BY <1>2 DEF IInv, TypeOK
    <2>2. CASE SuspendForInteraction(w)
      BY <1>2, <2>1, <2>2 DEF SuspendForInteraction, Suspend, SetStatus
    <2>3. CASE SuspendForProposal(w)
      BY <1>2, <2>1, <2>3 DEF SuspendForProposal, Suspend, SetStatus
    <2>4. CASE SuspendForApprovedProposal(w)
      BY <1>2, <2>1, <2>4 DEF SuspendForApprovedProposal, Suspend, SetStatus
    <2>. QED
      BY <2>2, <2>3, <2>4
  <1>5. PICK x \in {"WAITING_FOR_INPUT", "WAITING_FOR_APPROVAL"},
          i \in {"OPEN", interaction[c]},
          p \in {"PENDING_APPROVAL", "REQUESTED", approval[c]} :
          /\ status' = [status EXCEPT ![r] = x]
          /\ interaction' = [interaction EXCEPT ![c] = i]
          /\ approval' = [approval EXCEPT ![c] = p]
          /\ \/ x = "WAITING_FOR_INPUT" /\ i = "OPEN" /\ p = approval[c]
             \/ /\ x = "WAITING_FOR_APPROVAL"
                /\ i = "OPEN" /\ p = "PENDING_APPROVAL"
             \/ /\ x = "WAITING_FOR_APPROVAL"
                /\ i = interaction[c] /\ p = "REQUESTED"
    BY <1>4
  <1>6. status'[r] = x
    BY <1>2, <1>5 DEF IInv, TypeOK
  <1>7. SegmentsKept(r)'
    BY <1>1, <1>2, <1>3, <1>6, NewestSegmentKept DEF SegmentFor
  <1>8. WaitsKept(r)'
    <2>1. /\ interaction'[c] = i /\ approval'[c] = p
          /\ \A n \in SegmentNos : n # segno[r] =>
               /\ interaction'[<<r, n>>] = interaction[<<r, n>>]
               /\ approval'[<<r, n>>] = approval[<<r, n>>]
      BY <1>2, <1>5 DEF IInv, TypeOK
    <2>2. i # "OPEN" => p = "REQUESTED"
      BY <1>5
    <2>3. ASSUME NEW n \in SegmentNos
          PROVE  /\ interaction'[<<r, n>>] = "OPEN" =>
                      /\ n = segno[r]
                      /\ x = "WAITING_FOR_APPROVAL" =>
                           approval'[<<r, n>>] = "PENDING_APPROVAL"
                 /\ approval'[<<r, n>>] \in {"REQUESTED", "APPLYING",
                                             "PENDING_APPROVAL"} =>
                      n = segno[r] /\ x = "WAITING_FOR_APPROVAL"
      <3>1. CASE n = segno[r]
        BY <1>2, <1>5, <2>1, <3>1
      <3>2. CASE n # segno[r]
        BY <1>2, <2>1, <3>2
      <3>. QED
        BY <3>1, <3>2
    <2>4. \/ x = "WAITING_FOR_INPUT" /\ i = "OPEN"
          \/ x = "WAITING_FOR_APPROVAL" /\ i = "OPEN" /\ p = "PENDING_APPROVAL"
          \/ x = "WAITING_FOR_APPROVAL" /\ p = "REQUESTED"
      BY <1>5
    <2>. QED
      BY <1>1, <1>3, <1>6, <2>1, <2>3, <2>4 DEF WaitsKept, AwaitsDecision, Latest
  <1>9. /\ attempt'[a] = "DEFERRED" /\ session'[a] = "IDLE"
        /\ \A b \in Attempts : b # a => /\ attempt'[b] = attempt[b]
                                        /\ session'[b] = session[b]
    BY <1>2, <1>3 DEF IInv, TypeOK
  <1>10. AttemptsKept(r)'
    <2>1. status'[r] \notin {"QUEUED", "PREPARING", "RUNNING", "RETRY_PENDING"}
      BY <1>6
    <2>2. retry'[r] = "none" /\ segno'[r] = segno[r] /\ tries' = tries
      BY <1>2, <1>3
    <2>. QED
      BY <1>1, <1>9, <2>1, <2>2, ReleaseKeepsAttempts
  <1>11. WakeupKept(r)'
    BY <1>6 DEF WakeupKept
  <1>12. ASSUME NEW q \in Runs \ {r}
         PROVE  Untouched(q)
    <2>1. \A o \in Runs \ {r}, n \in SegmentNos :
            UNCHANGED <<segment[<<o, n>>], interaction[<<o, n>>], approval[<<o, n>>]>>
      BY <1>2, <1>3, <1>5 DEF IInv, TypeOK
    <2>2. /\ \A o \in Runs \ {r} :
               UNCHANGED <<status[o], retry[o], inline[o], segno[o]>>
          /\ outbox \cup queue \subseteq outbox' \cup queue'
      BY <1>2, <1>3, <1>5 DEF IInv, TypeOK
    <2>. QED
      BY <1>3, <1>9, <2>1, <2>2, WorkerLeavesAlone
  <1>. QED
    BY <1>7, <1>8, <1>10, <1>11, <1>12 DEF Serves, RunKept

\* The session opened by the first event belongs to the running Attempt.
LEMMA AppendAgentEventServes ==
  ASSUME KInv, NEW w \in Workers, AppendAgentEvent(w),
         NEW a \in Attempts, a = worker[w]
  PROVE  Serves(a[1])
  <1>. DEFINE r == a[1]
  <1>1. /\ attempt[a] \in Active /\ status[r] = "RUNNING"
        /\ session' = [session EXCEPT ![a] = "ACTIVE"]
        /\ UNCHANGED <<status, cancel, retry, inline, segno, segment, interaction,
                       approval, tries, attempt, outbox, queue>>
    BY HolderHasAttempt
    DEF KInv, IInv, AppendAgentEvent, Executing, runVars, segmentVars
  <1>2. /\ IInv /\ r \in Runs /\ RunKept(r)
        /\ attempt[a] = "RUNNING" /\ retry[r] = "none"
    <2>1. IInv /\ r \in Runs /\ RunKept(r)
      BY <1>1, ActiveIsNewest
    <2>2. attempt[a] = "RUNNING"
      BY <1>1, <2>1 DEF IInv, ExecutionOwnership, Active
    <2>3. retry[r] = "none"
      BY <1>1, <2>1 DEF RunKept, AttemptsKept
    <2>. QED
      BY <2>1, <2>2, <2>3
  <1>3. AttemptsKept(r)'
    <2>1. ASSUME NEW n \in SegmentNos, NEW k \in AttemptNos
          PROVE  /\ session'[<<r, n, k>>] = "ACTIVE" =>
                      attempt[<<r, n, k>>] = "RUNNING"
                 /\ n = segno[r] => attempt[<<r, n, k>>] # "DEFERRED"
      <3>1. /\ session[<<r, n, k>>] = "ACTIVE" => attempt[<<r, n, k>>] = "RUNNING"
            /\ n = segno[r] => attempt[<<r, n, k>>] # "DEFERRED"
        BY <1>1, <1>2 DEF RunKept, AttemptsKept
      <3>2. <<r, n, k>> = a \/ session'[<<r, n, k>>] = session[<<r, n, k>>]
        BY <1>1, <1>2 DEF IInv, TypeOK
      <3>. QED
        BY <1>2, <3>1, <3>2
    <2>. QED
      BY <1>1, <1>2, <2>1 DEF AttemptsKept
  <1>4. SegmentsKept(r)' /\ WaitsKept(r)' /\ WakeupKept(r)'
    BY <1>1, <1>2 DEF RunKept, SegmentsKept, WaitsKept, WakeupKept, AwaitsDecision,
                      Latest, NextNo
  <1>5. ASSUME NEW q \in Runs \ {r}
        PROVE  Untouched(q)
    <2>1. \A b \in Attempts : b # a => session'[b] = session[b]
      BY <1>1, <1>2 DEF IInv, TypeOK
    <2>. QED
      BY <1>1, <2>1, WorkerLeavesAlone
  <1>. QED
    BY <1>2, <1>3, <1>4, <1>5 DEF Serves, RunKept

\* The inline effect is requested and its receipt taken within one Attempt.
LEMMA InlineServes ==
  ASSUME KInv, NEW w \in Workers, BeginInlineEffect(w) \/ InlineReceipt(w),
         NEW a \in Attempts, a = worker[w]
  PROVE  Serves(a[1])
  <1>. DEFINE r == a[1]
              c == <<r, segno[r]>>
  <1>1. /\ attempt[a] \in Active /\ status[r] = "RUNNING" /\ ~ cancel[r]
        /\ UNCHANGED <<status, cancel, retry, segno, segment, interaction, tries,
                       attempt, session, outbox, queue>>
    BY HolderHasAttempt
    DEF KInv, IInv, BeginInlineEffect, InlineReceipt, MaySuspend, Executing,
        segmentVars, attemptVars
  <1>2. /\ IInv /\ r \in Runs /\ RunKept(r)
        /\ segno[r] \in SegmentNos /\ c \in Segments /\ SegmentOf(a) = c
        /\ \A n \in SegmentNos :
             /\ interaction[<<r, n>>] # "OPEN"
             /\ approval[<<r, n>>] # "PENDING_APPROVAL"
             /\ approval[<<r, n>>] \in {"REQUESTED", "APPLYING"} => n = segno[r]
    BY <1>1, ActiveIsNewest
  <1>3. \/ /\ inline' = [inline EXCEPT ![r] = TRUE]
           /\ approval' = [approval EXCEPT ![c] = "REQUESTED"]
        \/ /\ inline' = [inline EXCEPT ![r] = FALSE]
           /\ approval' = approval /\ approval[c] = "APPLIED"
    BY <1>2 DEF BeginInlineEffect, InlineReceipt, segmentVars
  <1>4. /\ \A n \in SegmentNos :
             /\ approval'[<<r, n>>] # "PENDING_APPROVAL"
             /\ approval'[<<r, n>>] \in {"REQUESTED", "APPLYING"} =>
                  n = segno[r] /\ inline'[r]
        /\ \A o \in Runs \ {r} :
             /\ inline'[o] = inline[o]
             /\ \A n \in SegmentNos : approval'[<<o, n>>] = approval[<<o, n>>]
    <2>1. CASE /\ inline' = [inline EXCEPT ![r] = TRUE]
               /\ approval' = [approval EXCEPT ![c] = "REQUESTED"]
      BY <1>2, <2>1 DEF IInv, TypeOK
    <2>2. CASE /\ inline' = [inline EXCEPT ![r] = FALSE]
               /\ approval' = approval /\ approval[c] = "APPLIED"
      BY <1>2, <2>2 DEF IInv, TypeOK
    <2>. QED
      BY <1>3, <2>1, <2>2
  <1>5. WaitsKept(r)'
    BY <1>1, <1>2, <1>4 DEF WaitsKept
  <1>6. SegmentsKept(r)' /\ AttemptsKept(r)' /\ WakeupKept(r)'
    BY <1>1, <1>2 DEF RunKept, SegmentsKept, AttemptsKept, WakeupKept, Latest, NextNo
  <1>7. ASSUME NEW q \in Runs \ {r}
        PROVE  Untouched(q)
    BY <1>1, <1>4 DEF Untouched
  <1>. QED
    BY <1>5, <1>6, <1>7 DEF Serves, RunKept

\* A heartbeat, the end of a job and the death of a Worker write nothing a Run
\* keeps; a dead Worker's message may only come back.
LEMMA JobLeavesAlone ==
  ASSUME NEW w \in Workers, HeartbeatAttempt(w) \/ EndJob(w) \/ LoseWorker(w),
         NEW q \in Runs
  PROVE  Untouched(q)
  <1>1. /\ UNCHANGED <<status, cancel, retry, inline, segno, segment, interaction,
                       approval, tries, attempt, session, outbox>>
        /\ queue \subseteq queue'
    BY DEF HeartbeatAttempt, EndJob, LoseWorker, runVars, segmentVars, attemptVars
  <1>. QED
    BY <1>1 DEF Untouched

\* An Attempt ends and the Run with it, or waits for the next one: nothing is
\* awaited, and a retry has its message.
LEMMA AttemptEnds ==
  ASSUME KInv, NEW a \in Attempts, attempt[a] \in Active, ~ inline[a[1]],
         NEW t \in FinalTargets, cancel[a[1]] => t = "CANCELLED",
         status' = [status EXCEPT ![a[1]] = t],
         segment' = [segment EXCEPT ![SegmentOf(a)] = SegmentStatusFor(t)],
         \A b \in Attempts : b # a => /\ attempt'[b] = attempt[b]
                                      /\ session'[b] = session[b],
         session'[a] # "ACTIVE",
         attempt'[a] = "DEFERRED" => t # "RETRY_PENDING",
         \/ retry'[a[1]] = "none"
         \/ t = "RETRY_PENDING" /\ attempt'[a] = "FAILED" /\ session'[a] = "FAILED",
         \A q \in Runs \ {a[1]} : retry'[q] = retry[q],
         t = "RETRY_PENDING" => <<a[1], a[2], a[3] + 1>> \in outbox',
         outbox \cup queue \subseteq outbox' \cup queue',
         UNCHANGED <<cancel, inline, segno, interaction, approval, tries>>
  PROVE  Serves(a[1])
  <1>. DEFINE r == a[1]
              c == <<r, segno[r]>>
  <1>1. /\ IInv /\ r \in Runs /\ RunKept(r)
        /\ status[r] \in {"PREPARING", "RUNNING"}
        /\ segno[r] \in SegmentNos /\ SegmentOf(a) = c
        /\ tries[c] = a[3] /\ a[2] = segno[r]
        /\ \A n \in SegmentNos :
             /\ interaction[<<r, n>>] # "OPEN"
             /\ approval[<<r, n>>] \notin {"PENDING_APPROVAL", "REQUESTED",
                                           "APPLYING"}
    BY ActiveIsNewest DEF SegmentOf
  <1>2. status'[r] = t /\ \A q \in Runs \ {r} : status'[q] = status[q]
    BY <1>1 DEF IInv, TypeOK
  <1>3. SegmentsKept(r)'
    <2>1. SegmentStatusFor(t) = SegmentFor(t) /\ t # "ABSENT"
      BY DEF SegmentStatusFor, SegmentFor, FinalTargets
    <2>2. segment' = [segment EXCEPT ![<<r, segno[r]>>] = SegmentFor(t)]
      BY <1>1, <2>1
    <2>3. status[r] # "ABSENT" /\ segno'[r] = segno[r]
      BY <1>1
    <2>. QED
      BY <1>1, <1>2, <2>1, <2>2, <2>3, NewestSegmentKept
  <1>4. WaitsKept(r)'
    BY <1>1, <1>2 DEF WaitsKept, FinalTargets
  <1>5. AttemptsKept(r)'
    <2>1. attempt'[a] = "DEFERRED" =>
            status'[r] \notin {"QUEUED", "PREPARING", "RUNNING", "RETRY_PENDING"}
      BY <1>2 DEF FinalTargets
    <2>2. \/ retry'[r] = "none"
          \/ /\ status'[r] = "RETRY_PENDING"
             /\ attempt'[a] = "FAILED" /\ session'[a] = "FAILED"
      BY <1>2
    <2>3. segno'[r] = segno[r] /\ UNCHANGED tries
      OBVIOUS
    <2>. QED
      BY <2>1, <2>2, <2>3, ReleaseKeepsAttempts
  <1>6. WakeupKept(r)'
    <2>1. t = "RETRY_PENDING" => <<r, segno[r], tries[c] + 1>> \in outbox'
      BY <1>1
    <2>2. t # "QUEUED"
      BY DEF FinalTargets
    <2>. QED
      BY <1>2, <2>1, <2>2 DEF WakeupKept, NextNo, Latest
  <1>7. ASSUME NEW q \in Runs \ {r}
        PROVE  Untouched(q)
    <2>1. \A o \in Runs \ {r}, n \in SegmentNos :
            segment'[<<o, n>>] = segment[<<o, n>>]
      BY <1>1 DEF IInv, TypeOK
    <2>. QED
      BY <1>2, <2>1, WorkerLeavesAlone
  <1>. QED
    BY <1>3, <1>4, <1>5, <1>6, <1>7 DEF Serves, RunKept

\* Every result of an executed Attempt settles its Run, or leaves it waiting or retrying.
LEMMA FinalizeExecutionServes ==
  ASSUME KInv, NEW w \in Workers, NEW target \in FinalTargets,
         NEW withEvent \in BOOLEAN, FinalizeExecution(w, target, withEvent),
         NEW a \in Attempts, a = worker[w]
  PROVE  Serves(a[1])
  <1>. DEFINE r == a[1]
              t == WinningTarget(r, target)
  <1>1. /\ attempt[a] \in Active /\ ~ inline[r]
        /\ t \in FinalTargets /\ (cancel[r] => t = "CANCELLED")
        /\ t = "RETRY_PENDING" => withEvent
    BY HolderHasAttempt
    DEF KInv, IInv, FinalizeExecution, Executing, WinningTarget, FinalTargets,
        FinalizeTarget
  <1>2. /\ status' = [status EXCEPT ![r] = t]
        /\ segment' = [segment EXCEPT ![SegmentOf(a)] = SegmentStatusFor(t)]
        /\ attempt' = [attempt EXCEPT ![a] = AttemptStatusFor(t)]
        /\ session' = IF withEvent \/ session[a] # "ABSENT"
                        THEN [session EXCEPT ![a] = SessionStatusFor(t)]
                        ELSE session
        /\ retry' = [retry EXCEPT ![r] = IF t = "RETRY_PENDING"
                                           THEN "waiting" ELSE "none"]
        /\ outbox' = IF t = "RETRY_PENDING"
                       THEN outbox \cup {<<r, a[2], a[3] + 1>>} ELSE outbox
        /\ UNCHANGED <<cancel, inline, segno, interaction, approval, tries, queue>>
    BY DEF FinalizeExecution, SetStatus, Release
  <1>. HIDE DEF t
  <1>3. KInv /\ IInv /\ r \in Runs
    BY DEF KInv
  <1>4. /\ attempt'[a] = AttemptStatusFor(t)
        /\ \A b \in Attempts : b # a => attempt'[b] = attempt[b]
    BY <1>2, <1>3 DEF IInv, TypeOK
  <1>5. /\ \/ session'[a] = SessionStatusFor(t)
           \/ ~ withEvent /\ session'[a] = "ABSENT"
        /\ \A b \in Attempts : b # a => session'[b] = session[b]
    BY <1>2, <1>3 DEF IInv, TypeOK
  <1>6. /\ retry'[r] = IF t = "RETRY_PENDING" THEN "waiting" ELSE "none"
        /\ \A q \in Runs \ {r} : retry'[q] = retry[q]
    BY <1>2, <1>3 DEF IInv, TypeOK
  <1>7. /\ session'[a] # "ACTIVE"
        /\ attempt'[a] = "DEFERRED" => t # "RETRY_PENDING"
        /\ \/ retry'[r] = "none"
           \/ t = "RETRY_PENDING" /\ attempt'[a] = "FAILED" /\ session'[a] = "FAILED"
    BY <1>1, <1>4, <1>5, <1>6 DEF AttemptStatusFor, SessionStatusFor
  <1>8. /\ t = "RETRY_PENDING" => <<r, a[2], a[3] + 1>> \in outbox'
        /\ outbox \cup queue \subseteq outbox' \cup queue'
    BY <1>2
  <1>. QED
    BY <1>1, <1>2, <1>4, <1>5, <1>6, <1>7, <1>8, AttemptEnds, ZenonT(60)

\* The sweep takes back the Attempt of a dead Worker.
LEMMA RecoverExpiredAttemptServes ==
  ASSUME KInv, NEW a \in Attempts, RecoverExpiredAttempt(a)
  PROVE  Serves(a[1])
  <1>. DEFINE r == a[1]
              t == IF cancel[r] THEN "CANCELLED" ELSE "RETRY_PENDING"
  <1>1. /\ attempt[a] \in Active /\ ~ inline[r]
        /\ t \in FinalTargets /\ (cancel[r] => t = "CANCELLED")
    BY DEF RecoverExpiredAttempt, LeaseExpired, FinalTargets
  <1>2. /\ status' = [status EXCEPT ![r] = t]
        /\ segment' = [segment EXCEPT ![SegmentOf(a)] = SegmentStatusFor(t)]
        /\ attempt' = [attempt EXCEPT ![a] = IF cancel[r] THEN "CANCELLED"
                                                          ELSE "LEASE_EXPIRED"]
        /\ session' = [session EXCEPT ![a] =
                         IF session[a] = "ACTIVE"
                           THEN IF cancel[r] THEN "INTERRUPTED" ELSE "FAILED"
                           ELSE @]
        /\ retry' = [retry EXCEPT ![r] = "none"]
        /\ outbox' = IF cancel[r] THEN outbox
                                  ELSE outbox \cup {<<r, a[2], a[3] + 1>>}
        /\ UNCHANGED <<cancel, inline, segno, interaction, approval, tries, queue>>
    BY DEF RecoverExpiredAttempt, ReclaimRun, CloseSession, SetStatus
  <1>3. /\ t = "RETRY_PENDING" => <<r, a[2], a[3] + 1>> \in outbox'
        /\ outbox \cup queue \subseteq outbox' \cup queue'
    BY <1>2
  <1>. HIDE DEF t
  <1>4. KInv /\ IInv /\ r \in Runs
    BY DEF KInv
  <1>5. /\ attempt'[a] \in {"CANCELLED", "LEASE_EXPIRED"}
        /\ \A b \in Attempts : b # a => attempt'[b] = attempt[b]
    BY <1>2, <1>4 DEF IInv, TypeOK
  <1>6. /\ session'[a] # "ACTIVE"
        /\ \A b \in Attempts : b # a => session'[b] = session[b]
    BY <1>2, <1>4 DEF IInv, TypeOK
  <1>7. /\ retry'[r] = "none"
        /\ \A q \in Runs \ {r} : retry'[q] = retry[q]
    BY <1>2, <1>4 DEF IInv, TypeOK
  <1>8. attempt'[a] = "DEFERRED" => t # "RETRY_PENDING"
    BY <1>5
  <1>. QED
    BY <1>1, <1>2, <1>3, <1>5, <1>6, <1>7, <1>8, AttemptEnds

\* A detached inline effect is waited for, or its end moves the Run at once.
LEMMA DetachServes ==
  ASSUME KInv, NEW a \in Attempts, attempt[a] \in Active,
         status[a[1]] = "RUNNING", inline[a[1]], DetachInlineEffect(a)
  PROVE  Serves(a[1])
  <1>. DEFINE r == a[1]
              c == <<r, segno[r]>>
  <1>1. /\ IInv /\ r \in Runs /\ RunKept(r)
        /\ segno[r] \in SegmentNos /\ c \in Segments
        /\ SegmentOf(a) = c /\ Latest(r) = c
        /\ a = <<r, segno[r], a[3]>>
        /\ \A n \in SegmentNos :
             /\ interaction[<<r, n>>] # "OPEN"
             /\ approval[<<r, n>>] # "PENDING_APPROVAL"
             /\ approval[<<r, n>>] \in {"REQUESTED", "APPLYING"} => n = segno[r]
    BY ActiveIsNewest
  <1>2. segno[r] < MaxSegments /\ retry[r] = "none"
    BY <1>1 DEF IInv, Numbering, RunKept, AttemptsKept
  <1>3. /\ attempt' = [attempt EXCEPT ![a] = "DEFERRED"]
        /\ session' = [session EXCEPT ![a] = "IDLE"]
        /\ inline' = [inline EXCEPT ![r] = FALSE]
        /\ UNCHANGED <<cancel, retry, interaction, tries, queue>>
    BY DEF DetachInlineEffect, Release
  <1>4. /\ attempt'[a] = "DEFERRED" /\ session'[a] = "IDLE"
        /\ \A b \in Attempts : b # a => /\ attempt'[b] = attempt[b]
                                        /\ session'[b] = session[b]
    BY <1>3 DEF KInv, IInv, TypeOK
  <1>5. ~ inline'[r] /\ \A o \in Runs \ {r} : inline'[o] = inline[o]
    BY <1>1, <1>3 DEF IInv, TypeOK
  <1>6. ASSUME NEW p \in {approval[c], "REQUESTED"},
               p \in {"REQUESTED", "APPLYING"},
               approval' = [approval EXCEPT ![c] = p],
               SetStatus(r, "WAITING_FOR_APPROVAL"),
               segment' = [segment EXCEPT ![c] = "WAITING"],
               UNCHANGED <<segno, outbox>>
        PROVE  Serves(r)
    <2>1. /\ status'[r] = "WAITING_FOR_APPROVAL"
          /\ \A o \in Runs \ {r} : status'[o] = status[o]
      BY <1>1, <1>6 DEF SetStatus, IInv, TypeOK
    <2>2. SegmentsKept(r)'
      BY <1>1, <1>6, <2>1, NewestSegmentKept DEF SegmentFor
    <2>3. WaitsKept(r)'
      <3>1. /\ approval'[c] = p
            /\ \A n \in SegmentNos : n # segno[r] =>
                 approval'[<<r, n>>] = approval[<<r, n>>]
        BY <1>1, <1>6 DEF IInv, TypeOK
      <3>2. \A n \in SegmentNos :
              /\ approval'[<<r, n>>] # "PENDING_APPROVAL"
              /\ approval'[<<r, n>>] \in {"REQUESTED", "APPLYING"} => n = segno[r]
        BY <1>1, <1>6, <3>1
      <3>. QED
        BY <1>1, <1>3, <1>6, <2>1, <3>1, <3>2 DEF WaitsKept, Latest
    <2>4. AttemptsKept(r)'
      <3>1. status'[r] \notin {"QUEUED", "PREPARING", "RUNNING", "RETRY_PENDING"}
        BY <2>1
      <3>2. retry'[r] = "none" /\ segno'[r] = segno[r] /\ tries' = tries
        BY <1>2, <1>3, <1>6
      <3>. QED
        BY <1>4, <3>1, <3>2, ReleaseKeepsAttempts
    <2>5. WakeupKept(r)'
      BY <2>1 DEF WakeupKept
    <2>6. ASSUME NEW q \in Runs \ {r}
          PROVE  Untouched(q)
      <3>1. \A o \in Runs \ {r}, n \in SegmentNos :
              UNCHANGED <<segment[<<o, n>>], approval[<<o, n>>]>>
        BY <1>1, <1>6 DEF IInv, TypeOK
      <3>2. \A o \in Runs \ {r} :
              /\ UNCHANGED <<status[o], retry[o], inline[o], segno[o]>>
              /\ \A n \in SegmentNos :
                   UNCHANGED <<segment[<<o, n>>], interaction[<<o, n>>],
                               approval[<<o, n>>]>>
        BY <1>3, <1>5, <1>6, <2>1, <3>1
      <3>3. UNCHANGED <<cancel, tries>> /\ outbox \cup queue \subseteq outbox' \cup queue'
        BY <1>3, <1>6
      <3>. QED
        BY <1>4, <3>2, <3>3, WorkerLeavesAlone
    <2>. QED
      BY <2>2, <2>3, <2>4, <2>5, <2>6 DEF Serves, RunKept
  <1>7. ASSUME approval[c] \in {"APPLIED", "CLOSED"}, approval' = approval,
               NEW unknown \in BOOLEAN, FinishEffectContinuation(r, unknown)
        PROVE  Serves(r)
    <2>1. \A n \in SegmentNos :
            /\ interaction'[<<r, n>>] # "OPEN"
            /\ approval'[<<r, n>>] \notin {"PENDING_APPROVAL", "REQUESTED",
                                           "APPLYING"}
      BY <1>1, <1>3, <1>7
    <2>2. \A n \in SegmentNos, k \in AttemptNos :
            session'[<<r, n, k>>] = "ACTIVE" => attempt'[<<r, n, k>>] = "RUNNING"
      <3>1. \A n \in SegmentNos, k \in AttemptNos :
              session[<<r, n, k>>] = "ACTIVE" => attempt[<<r, n, k>>] = "RUNNING"
        BY <1>1 DEF RunKept, AttemptsKept
      <3>. QED
        BY <1>4, <3>1
    <2>3. \A n \in SegmentNos, k \in AttemptNos :
            n > segno[r] => attempt'[<<r, n, k>>] = attempt[<<r, n, k>>]
      <3>1. \A n \in SegmentNos, k \in AttemptNos : n > segno[r] => <<r, n, k>> # a
        BY <1>1
      <3>. QED
        BY <1>4, <3>1
    <2>4. \A q \in Runs \ {r}, n \in SegmentNos :
            /\ interaction'[<<q, n>>] = interaction[<<q, n>>]
            /\ approval'[<<q, n>>] = approval[<<q, n>>]
            /\ \A k \in AttemptNos :
                 /\ attempt'[<<q, n, k>>] = attempt[<<q, n, k>>]
                 /\ session'[<<q, n, k>>] = session[<<q, n, k>>]
      BY <1>3, <1>4, <1>7
    <2>5. CASE ~ cancel[r] /\ ~ unknown
      <3>1. Continue(r)
        BY <1>7, <2>5 DEF FinishEffectContinuation
      <3>2. \A n \in SegmentNos :
              /\ interaction'[<<r, n>>] # "OPEN"
              /\ approval'[<<r, n>>] \notin {"PENDING_APPROVAL", "REQUESTED",
                                             "APPLYING"}
              /\ n > segno[r] => \A k \in AttemptNos :
                                   attempt'[<<r, n, k>>] = attempt[<<r, n, k>>]
              /\ \A k \in AttemptNos : session'[<<r, n, k>>] = "ACTIVE" =>
                                        attempt'[<<r, n, k>>] = "RUNNING"
        BY <2>1, <2>2, <2>3
      <3>3. \A q \in Runs \ {r} :
              /\ inline'[q] = inline[q]
              /\ \A n \in SegmentNos :
                   /\ interaction'[<<q, n>>] = interaction[<<q, n>>]
                   /\ approval'[<<q, n>>] = approval[<<q, n>>]
                   /\ \A k \in AttemptNos :
                        /\ attempt'[<<q, n, k>>] = attempt[<<q, n, k>>]
                        /\ session'[<<q, n, k>>] = session[<<q, n, k>>]
        BY <1>5, <2>4
      <3>4. r \in Runs /\ UNCHANGED <<cancel, retry, tries, queue>>
        BY <1>3
      <3>. QED
        BY <1>2, <1>5, <2>5, <3>1, <3>2, <3>3, <3>4, ContinueServes
    <2>6. CASE cancel[r] \/ unknown
      <3>1. PICK x \in {"CANCELLED", "FAILED"} :
              /\ Close(r, x) /\ (cancel[r] => x = "CANCELLED")
              /\ UNCHANGED <<segno, outbox>>
        BY <1>7, <2>6 DEF FinishEffectContinuation
      <3>2. retry'[r] = "none" /\ \A q \in Runs \ {r} : retry'[q] = retry[q]
        BY <1>2, <1>3
      <3>3. outbox \cup queue \subseteq outbox' \cup queue'
        BY <1>3, <3>1
      <3>4. \A n \in SegmentNos :
              /\ interaction'[<<r, n>>] # "OPEN"
              /\ approval'[<<r, n>>] \notin {"REQUESTED", "APPLYING"}
              /\ approval'[<<r, n>>] = "PENDING_APPROVAL" =>
                   n = segno[r] /\ x = "CANCELLED"
              /\ \A k \in AttemptNos : session'[<<r, n, k>>] = "ACTIVE" =>
                                        attempt'[<<r, n, k>>] = "RUNNING"
        BY <2>1, <2>2
      <3>5. \A q \in Runs \ {r} :
              /\ inline'[q] = inline[q] /\ retry'[q] = retry[q]
              /\ \A n \in SegmentNos :
                   /\ interaction'[<<q, n>>] = interaction[<<q, n>>]
                   /\ approval'[<<q, n>>] = approval[<<q, n>>]
                   /\ \A k \in AttemptNos :
                        /\ attempt'[<<q, n, k>>] = attempt[<<q, n, k>>]
                        /\ session'[<<q, n, k>>] = session[<<q, n, k>>]
              /\ \A d \in Dispatches :
                   d[1] = q /\ d \in outbox \cup queue => d \in outbox' \cup queue'
        BY <1>5, <2>4, <3>2, <3>3
      <3>6. UNCHANGED <<cancel, segno, tries>> /\ status[r] # "ABSENT"
        BY <1>3, <3>1
      <3>. QED
        BY <1>1, <3>1, <3>2, <3>4, <3>5, <3>6, CloseServes
    <2>. QED
      BY <2>5, <2>6
  <1>8. approval = [approval EXCEPT ![c] = approval[c]]
    BY <1>1 DEF IInv, TypeOK
  <1>9. CASE /\ approval[c] \in {"REQUESTED", "APPLYING"}
             /\ SetStatus(r, "WAITING_FOR_APPROVAL")
             /\ segment' = [segment EXCEPT ![c] = "WAITING"]
             /\ UNCHANGED <<segno, outbox, approval>>
    BY <1>6, <1>8, <1>9
  <1>10. CASE /\ approval[c] = "CLOSED"
              /\ SetStatus(r, "WAITING_FOR_APPROVAL")
              /\ segment' = [segment EXCEPT ![c] = "WAITING"]
              /\ approval' = [approval EXCEPT ![c] = "REQUESTED"]
              /\ UNCHANGED <<segno, outbox>>
    BY <1>6, <1>10
  <1>11. CASE /\ approval[c] \in {"APPLIED", "CLOSED"}
              /\ \E unknown \in BOOLEAN : FinishEffectContinuation(r, unknown)
              /\ UNCHANGED approval
    BY <1>7, <1>11
  <1>. QED
    BY <1>1, <1>9, <1>10, <1>11 DEF DetachInlineEffect

-----------------------------------------------------------------------------
(* The effect, the sweep and time.                                         *)

\* The effect of the newest Segment moves while its Run waits for it, or while its
\* Attempt runs.
LEMMA EffectMoves ==
  ASSUME KInv, NEW r \in Runs, approval[Latest(r)] \in {"REQUESTED", "APPLYING"},
         NEW x \in {"REQUESTED", "APPLYING", "APPLIED", "CLOSED"},
         x \in {"REQUESTED", "APPLYING"} \/ status[r] = "RUNNING",
         status[r] \in {"RUNNING", "WAITING_FOR_APPROVAL"},
         approval' = [approval EXCEPT ![Latest(r)] = x],
         UNCHANGED <<runVars, segment, interaction, tries, attemptVars, outbox, queue>>
  PROVE  Serves(r)
  <1>1. /\ IInv /\ RunKept(r) /\ segno[r] \in SegmentNos
        /\ Latest(r) = <<r, segno[r]>>
        /\ UNCHANGED <<status, cancel, retry, inline, segno, segment, interaction,
                       tries, attempt, session, outbox, queue>>
    BY RunNumbers DEF KInv, Latest, runVars, attemptVars
  <1>2. /\ approval'[<<r, segno[r]>>] = x
        /\ \A n \in SegmentNos : n # segno[r] =>
             approval'[<<r, n>>] = approval[<<r, n>>]
    BY <1>1 DEF IInv, TypeOK
  <1>3. status[r] = "WAITING_FOR_APPROVAL" \/ inline[r]
    BY <1>1 DEF RunKept, WaitsKept
  <1>4. ASSUME NEW n \in SegmentNos
        PROVE  /\ interaction[<<r, n>>] # "OPEN"
               /\ approval'[<<r, n>>] # "PENDING_APPROVAL"
               /\ approval'[<<r, n>>] \in {"REQUESTED", "APPLYING"} => n = segno[r]
    <2>1. interaction[<<r, n>>] # "OPEN"
      BY <1>1 DEF RunKept, WaitsKept
    <2>2. CASE n = segno[r]
      BY <1>2, <2>1, <2>2
    <2>3. CASE n # segno[r]
      BY <1>1, <1>2, <2>1, <2>3 DEF RunKept, WaitsKept
    <2>. QED
      BY <2>2, <2>3
  <1>5. WaitsKept(r)'
    <2>1. cancel[r] => status[r] \in {"RUNNING", "WAITING_FOR_APPROVAL"}
      OBVIOUS
    <2>. QED
      BY <1>1, <1>2, <1>3, <1>4, <2>1 DEF WaitsKept, Latest
  <1>6. SegmentsKept(r)' /\ AttemptsKept(r)' /\ WakeupKept(r)'
    BY <1>1 DEF RunKept, SegmentsKept, AttemptsKept, WakeupKept, Latest, NextNo
  <1>7. ASSUME NEW q \in Runs \ {r}
        PROVE  Untouched(q)
    BY <1>1 DEF Untouched, IInv, TypeOK
  <1>. QED
    BY <1>5, <1>6, <1>7 DEF Serves, RunKept

\* The end of the effect ends the wait.
LEMMA SettleEffectServes ==
  ASSUME KInv, NEW r \in Runs, NEW outcome \in {"APPLIED", "CLOSED"},
         NEW unknown \in BOOLEAN, SettleEffect(r, outcome, unknown)
  PROVE  Serves(r)
  <1>1. /\ IInv /\ RunKept(r) /\ status[r] = "WAITING_FOR_APPROVAL"
        /\ approval[Latest(r)] \in {"REQUESTED", "APPLYING"}
        /\ approval' = [approval EXCEPT ![Latest(r)] = outcome]
        /\ FinishEffectContinuation(r, unknown)
        /\ UNCHANGED <<cancel, retry, inline, interaction, tries, attempt, session,
                       queue>>
    BY DEF KInv, SettleEffect, attemptVars
  <1>2. /\ segno[r] \in SegmentNos /\ segno[r] < MaxSegments
        /\ Latest(r) = <<r, segno[r]>> /\ ~ inline[r] /\ retry[r] = "none"
    <2>1. segno[r] \in SegmentNos
      BY <1>1, RunNumbers
    <2>2. segno[r] < MaxSegments /\ ~ inline[r]
      BY <1>1 DEF IInv, Numbering
    <2>3. retry[r] = "none"
      BY <1>1 DEF RunKept, AttemptsKept
    <2>. QED
      BY <2>1, <2>2, <2>3 DEF Latest
  <1>3. ASSUME NEW n \in SegmentNos
        PROVE  /\ interaction[<<r, n>>] # "OPEN"
               /\ approval'[<<r, n>>] \notin {"PENDING_APPROVAL", "REQUESTED",
                                              "APPLYING"}
    <2>1. interaction[<<r, n>>] # "OPEN"
      BY <1>1, <1>2 DEF RunKept, WaitsKept
    <2>2. CASE n = segno[r]
      BY <1>1, <1>2, <2>1, <2>2 DEF IInv, TypeOK
    <2>3. CASE n # segno[r]
      <3>1. approval'[<<r, n>>] = approval[<<r, n>>]
        BY <1>1, <1>2, <2>3 DEF IInv, TypeOK
      <3>. QED
        BY <1>1, <2>1, <2>3, <3>1 DEF RunKept, WaitsKept
    <2>. QED
      BY <2>2, <2>3
  <1>4. \A n \in SegmentNos, k \in AttemptNos :
          session[<<r, n, k>>] = "ACTIVE" => attempt[<<r, n, k>>] = "RUNNING"
    BY <1>1 DEF RunKept, AttemptsKept
  <1>5. \A q \in Runs \ {r}, n \in SegmentNos :
          approval'[<<q, n>>] = approval[<<q, n>>]
    BY <1>1, <1>2 DEF IInv, TypeOK
  <1>6. CASE ~ cancel[r] /\ ~ unknown
    <2>1. Continue(r)
      BY <1>1, <1>6 DEF FinishEffectContinuation
    <2>2. \A n \in SegmentNos :
            /\ interaction'[<<r, n>>] # "OPEN"
            /\ approval'[<<r, n>>] \notin {"PENDING_APPROVAL", "REQUESTED",
                                           "APPLYING"}
            /\ n > segno[r] => \A k \in AttemptNos :
                                 attempt'[<<r, n, k>>] = attempt[<<r, n, k>>]
            /\ \A k \in AttemptNos : session'[<<r, n, k>>] = "ACTIVE" =>
                                      attempt'[<<r, n, k>>] = "RUNNING"
      BY <1>1, <1>3, <1>4
    <2>3. \A q \in Runs \ {r} :
            /\ inline'[q] = inline[q]
            /\ \A n \in SegmentNos :
                 /\ interaction'[<<q, n>>] = interaction[<<q, n>>]
                 /\ approval'[<<q, n>>] = approval[<<q, n>>]
                 /\ \A k \in AttemptNos :
                      /\ attempt'[<<q, n, k>>] = attempt[<<q, n, k>>]
                      /\ session'[<<q, n, k>>] = session[<<q, n, k>>]
      BY <1>1, <1>5
    <2>4. ~ inline'[r] /\ UNCHANGED <<cancel, retry, tries, queue>>
      BY <1>1, <1>2
    <2>. QED
      BY <1>1, <1>2, <1>6, <2>1, <2>2, <2>3, <2>4, ContinueServes
  <1>7. CASE cancel[r] \/ unknown
    <2>1. PICK x \in {"CANCELLED", "FAILED"} :
            /\ Close(r, x) /\ (cancel[r] => x = "CANCELLED")
            /\ UNCHANGED <<segno, outbox>>
      BY <1>1, <1>7 DEF FinishEffectContinuation
    <2>2. \A n \in SegmentNos :
            /\ interaction'[<<r, n>>] # "OPEN"
            /\ approval'[<<r, n>>] \notin {"REQUESTED", "APPLYING"}
            /\ approval'[<<r, n>>] = "PENDING_APPROVAL" =>
                 n = segno[r] /\ x = "CANCELLED"
            /\ \A k \in AttemptNos : session'[<<r, n, k>>] = "ACTIVE" =>
                                      attempt'[<<r, n, k>>] = "RUNNING"
      BY <1>1, <1>3, <1>4
    <2>3. \A q \in Runs \ {r} :
            /\ inline'[q] = inline[q] /\ retry'[q] = retry[q]
            /\ \A n \in SegmentNos :
                 /\ interaction'[<<q, n>>] = interaction[<<q, n>>]
                 /\ approval'[<<q, n>>] = approval[<<q, n>>]
                 /\ \A k \in AttemptNos :
                      /\ attempt'[<<q, n, k>>] = attempt[<<q, n, k>>]
                      /\ session'[<<q, n, k>>] = session[<<q, n, k>>]
            /\ \A d \in Dispatches :
                 d[1] = q /\ d \in outbox \cup queue => d \in outbox' \cup queue'
      BY <1>1, <1>5, <2>1
    <2>4. /\ retry'[r] = "none" /\ UNCHANGED <<cancel, segno, tries>>
          /\ status[r] # "ABSENT"
      BY <1>1, <1>2, <2>1
    <2>. QED
      BY <2>1, <2>2, <2>3, <2>4, CloseServes
  <1>. QED
    BY <1>6, <1>7

\* Every step of an effect is a transaction on its Run.
LEMMA EffectServes ==
  ASSUME KInv, NEW r \in Runs, EffectStep(r)
  PROVE  Serves(r)
  <1>1. ASSUME ClaimEffect(r) \/ RequeueEffect(r)
        PROVE  Serves(r)
    <2>1. \E x \in {"REQUESTED", "APPLYING"} :
            approval' = [approval EXCEPT ![Latest(r)] = x]
      BY <1>1 DEF ClaimEffect, RequeueEffect
    <2>2. /\ approval[Latest(r)] \in {"REQUESTED", "APPLYING"}
          /\ status[r] \in {"RUNNING", "WAITING_FOR_APPROVAL"}
          /\ UNCHANGED <<runVars, segment, interaction, tries, attemptVars, outbox,
                         queue>>
      BY <1>1 DEF ClaimEffect, RequeueEffect, InlineParentActive
    <2>. QED
      BY <2>1, <2>2, EffectMoves
  <1>2. ASSUME NEW outcome \in {"APPLIED", "CLOSED"}, SettleInlineEffect(r, outcome)
        PROVE  Serves(r)
    BY <1>2, EffectMoves DEF SettleInlineEffect
  <1>. QED
    BY <1>1, <1>2, SettleEffectServes DEF EffectStep, EffectSettles

\* A proposal nobody waits for is closed without its Run.
LEMMA CloseStaleProposalServes ==
  ASSUME KInv, NEW s \in Segments, CloseStaleProposal(s)
  PROVE  s[1] \in Runs /\ Serves(s[1]) /\ interaction' = interaction
  <1>. DEFINE r == s[1]
  <1>1. /\ r \in Runs /\ s[2] \in SegmentNos /\ s = <<r, s[2]>>
        /\ IInv /\ RunKept(r)
    BY DEF KInv
  <1>2. /\ approval[s] = "PENDING_APPROVAL"
        /\ ~ (status[r] = "WAITING_FOR_APPROVAL" /\ interaction[s] = "OPEN")
        /\ approval' = [approval EXCEPT ![s] = "CLOSED"]
        /\ interaction' = [interaction EXCEPT
                             ![s] = IF @ = "OPEN" THEN "EXPIRED" ELSE @]
        /\ UNCHANGED <<status, cancel, retry, inline, segno, segment, tries,
                       attempt, session, outbox, queue>>
    BY DEF CloseStaleProposal, runVars, attemptVars
  <1>3. s[2] = segno[r] /\ status[r] \in {"WAITING_FOR_APPROVAL", "CANCELLED"}
    BY <1>1, <1>2 DEF RunKept, WaitsKept
  <1>4. interaction[s] # "OPEN" /\ status[r] = "CANCELLED"
    BY <1>1, <1>2, <1>3 DEF RunKept, WaitsKept, AwaitsDecision, Latest
  <1>5. interaction' = interaction
    BY <1>1, <1>2, <1>4 DEF IInv, TypeOK
  <1>6. \A n \in SegmentNos : \/ approval'[<<r, n>>] = approval[<<r, n>>]
                              \/ approval'[<<r, n>>] = "CLOSED"
    BY <1>1, <1>2 DEF IInv, TypeOK
  <1>7. WaitsKept(r)'
    BY <1>1, <1>2, <1>4, <1>5, <1>6 DEF RunKept, WaitsKept
  <1>8. SegmentsKept(r)' /\ AttemptsKept(r)' /\ WakeupKept(r)'
    BY <1>1, <1>2 DEF RunKept, SegmentsKept, AttemptsKept, WakeupKept, Latest, NextNo
  <1>9. ASSUME NEW q \in Runs \ {r}
        PROVE  Untouched(q)
    BY <1>1, <1>2, <1>5 DEF Untouched, IInv, TypeOK
  <1>. QED
    BY <1>1, <1>5, <1>7, <1>8, <1>9 DEF Serves, RunKept

\* A capacity retry becomes due; nothing else about its Run changes.
LEMMA RetryDueServes ==
  ASSUME KInv, NEW r \in Runs, RetryDue(r)
  PROVE  Serves(r)
  <1>1. /\ IInv /\ RunKept(r) /\ retry[r] = "waiting"
        /\ retry' = [retry EXCEPT ![r] = "due"]
        /\ UNCHANGED <<status, cancel, inline, segno, segment, interaction,
                       approval, tries, attempt, session, outbox, queue>>
    BY DEF KInv, RetryDue, segmentVars, attemptVars
  <1>2. SegmentsKept(r)' /\ WaitsKept(r)' /\ WakeupKept(r)'
    BY <1>1 DEF RunKept, SegmentsKept, WaitsKept, WakeupKept, AwaitsDecision,
                Latest, NextNo
  <1>3. AttemptsKept(r)'
    BY <1>1 DEF RunKept, AttemptsKept, Latest
  <1>4. ASSUME NEW q \in Runs \ {r}
        PROVE  Untouched(q)
    BY <1>1 DEF Untouched, IInv, TypeOK
  <1>. QED
    BY <1>2, <1>3, <1>4 DEF Serves, RunKept

-----------------------------------------------------------------------------
(* Every step of the specification.                                        *)

\* A Worker with a claim works on an Attempt of an existing Run.
LEMMA WorkerServes ==
  ASSUME KInv, NEW w \in Workers, WorkerStep(w)
  PROVE  \/ \A q \in Runs : Untouched(q)
         \/ \E r \in Runs : Serves(r) /\ status[r] \notin TerminalRunStatuses
  <1>1. CASE HeartbeatAttempt(w) \/ EndJob(w) \/ LoseWorker(w)
    BY <1>1, JobLeavesAlone
  <1>2. CASE WarmContinuation(w)
    <2>1. PICK r \in Runs : /\ r = worker[w][1] /\ NewAttempt(w, r)
                            /\ status[r] = "QUEUED"
                            /\ UNCHANGED <<outbox, queue>>
      BY <1>2, IdleAssumption DEF WarmContinuation, KInv, IInv, TypeOK
    <2>2. Serves(r)
      BY <2>1, NewAttemptServes
    <2>. QED
      BY <2>1, <2>2 DEF TerminalRunStatuses
  <1>3. ASSUME HoldsLease(w)
        PROVE  \E a \in Attempts :
                 /\ a = worker[w] /\ a[1] \in Runs /\ attempt[a] \in Active
                 /\ status[a[1]] \notin TerminalRunStatuses
    <2>1. worker[w] \in Attempts /\ attempt[worker[w]] \in Active
      BY <1>3, HolderHasAttempt DEF KInv, IInv
    <2>. QED
      BY <2>1, ActiveIsNewest DEF TerminalRunStatuses
  <1>4. CASE DetachInline(w)
    <2>1. HoldsLease(w)
      BY <1>4 DEF DetachInline, Executing
    <2>2. PICK a \in Attempts :
            /\ a = worker[w] /\ a[1] \in Runs /\ attempt[a] \in Active
            /\ status[a[1]] \notin TerminalRunStatuses
      BY <1>3, <2>1
    <2>3. status[a[1]] = "RUNNING" /\ inline[a[1]] /\ DetachInlineEffect(a)
      BY <1>4, <2>2 DEF DetachInline, Executing
    <2>. QED
      BY <2>2, <2>3, DetachServes
  <1>5. CASE \/ PrepareExecution(w) \/ AppendAgentEvent(w)
             \/ SuspendForInteraction(w) \/ SuspendForProposal(w)
             \/ SuspendForApprovedProposal(w)
             \/ BeginInlineEffect(w) \/ InlineReceipt(w)
    <2>1. HoldsLease(w)
      BY <1>5
      DEF PrepareExecution, AppendAgentEvent, SuspendForInteraction,
          SuspendForProposal, SuspendForApprovedProposal, BeginInlineEffect,
          InlineReceipt, MaySuspend, Executing
    <2>2. PICK a \in Attempts :
            /\ a = worker[w] /\ a[1] \in Runs /\ attempt[a] \in Active
            /\ status[a[1]] \notin TerminalRunStatuses
      BY <1>3, <2>1
    <2>. QED
      BY <1>5, <2>2, PrepareExecutionServes, AppendAgentEventServes, SuspendServes,
         InlineServes
  <1>6. ASSUME NEW target \in FinalTargets, NEW withEvent \in BOOLEAN,
               FinalizeExecution(w, target, withEvent)
        PROVE  \E r \in Runs : Serves(r) /\ status[r] \notin TerminalRunStatuses
    <2>1. HoldsLease(w)
      BY <1>6 DEF FinalizeExecution, Executing
    <2>2. PICK a \in Attempts :
            /\ a = worker[w] /\ a[1] \in Runs /\ attempt[a] \in Active
            /\ status[a[1]] \notin TerminalRunStatuses
      BY <1>3, <2>1
    <2>. QED
      BY <1>6, <2>2, FinalizeExecutionServes
  <1>. QED
    BY <1>1, <1>2, <1>4, <1>5, <1>6 DEF WorkerStep, FinishExecution

\* Each sweep handles one Run as one transaction.
LEMMA SweepServes ==
  ASSUME KInv, SweepStep
  PROVE  \E r \in Runs : /\ Serves(r)
                         /\ \/ status[r] \notin TerminalRunStatuses
                            \/ UNCHANGED <<status, segno, segment, interaction,
                                           attempt, session>>
  <1>1. ASSUME NEW a \in Attempts, RecoverExpiredAttempt(a) \/ RecoverInline(a)
        PROVE  \E r \in Runs : Serves(r) /\ status[r] \notin TerminalRunStatuses
    <2>1. attempt[a] \in Active
      BY <1>1 DEF RecoverExpiredAttempt, RecoverInline, LeaseExpired
    <2>2. a[1] \in Runs /\ status[a[1]] \notin TerminalRunStatuses
      BY <2>1, ActiveIsNewest DEF TerminalRunStatuses
    <2>3. Serves(a[1])
      BY <1>1, <2>1, RecoverExpiredAttemptServes, DetachServes DEF RecoverInline
    <2>. QED
      BY <2>2, <2>3
  <1>2. ASSUME NEW r \in Runs, ExpireInteraction(r) \/ ExpireProposal(r)
        PROVE  Serves(r) /\ status[r] \notin TerminalRunStatuses
    <2>1. /\ Continue(r)
          /\ \/ status[r] = "WAITING_FOR_INPUT" /\ approval' = approval
             \/ /\ AwaitsDecision(r)
                /\ approval' = [approval EXCEPT ![Latest(r)] = "CLOSED"]
          /\ interaction' = [interaction EXCEPT ![Latest(r)] = "EXPIRED"]
          /\ UNCHANGED <<cancel, retry, inline, tries, attempt, session, queue>>
      BY <1>2 DEF ExpireInteraction, ExpireProposal, attemptVars
    <2>. QED
      BY <2>1, WaitEnds DEF AwaitsDecision, TerminalRunStatuses
  <1>3. ASSUME NEW s \in Segments, CloseStaleProposal(s)
        PROVE  /\ s[1] \in Runs /\ Serves(s[1])
               /\ UNCHANGED <<status, segno, segment, interaction, attempt, session>>
    BY <1>3, CloseStaleProposalServes DEF CloseStaleProposal, runVars, attemptVars
  <1>. QED
    BY <1>1, <1>2, <1>3 DEF SweepStep

\* Every step is a transaction on one Run, or writes nothing a Run keeps. A Run
\* that is over is served only by steps that change no row but its proposal's.
LEMMA EveryStepServes ==
  ASSUME KInv, [Next]_vars
  PROVE  \/ \A q \in Runs : Untouched(q)
         \/ \E r \in Runs : /\ Serves(r)
                            /\ \/ status[r] \notin TerminalRunStatuses
                               \/ UNCHANGED <<status, segno, segment, interaction,
                                              attempt, session>>
  <1>1. ASSUME NEW r \in Runs, ApiStep(r) \/ EffectStep(r)
        PROVE  Serves(r) /\ status[r] \notin TerminalRunStatuses
    <2>1. status[r] \notin TerminalRunStatuses
      BY <1>1
      DEF ApiStep, EffectStep, EffectSettles, CreateIdempotent,
          RequestCancellation, CancelQueued, CancelWaiting, RespondToInteraction,
          ApproveProposal, RejectProposal, AwaitsDecision, ClaimEffect,
          RequeueEffect, SettleEffect, SettleInlineEffect, InlineParentActive,
          TerminalRunStatuses
    <2>. QED
      BY <1>1, <2>1, ApiServes, EffectServes
  <1>2. ASSUME NEW d \in Dispatches, RelayOutbox(d) \/ RelayCrash(d)
        PROVE  \A q \in Runs : Untouched(q)
    BY <1>2, RelayLeavesAlone
  <1>3. ASSUME NEW w \in Workers, NEW d \in Dispatches, TakeDispatch(w, d)
        PROVE  /\ d[1] \in Runs /\ Serves(d[1])
               /\ \/ status[d[1]] \notin TerminalRunStatuses
                  \/ UNCHANGED <<status, segno, segment, interaction, attempt,
                                 session>>
    <2>1. \/ status[d[1]] \notin TerminalRunStatuses
          \/ UNCHANGED <<status, segno, segment, interaction, attempt, session>>
      BY <1>3
      DEF TakeDispatch, ClaimForExecution, ExhaustRetries, IgnoreDispatch,
          NewAttempt, Claimable, TerminalRunStatuses, runVars, segmentVars,
          attemptVars
    <2>. QED
      BY <1>3, <2>1, TakeDispatchServes
  <1>4. ASSUME TimeStep
        PROVE  \/ \A q \in Runs : Untouched(q)
               \/ \E r \in Runs : Serves(r) /\ status[r] \notin TerminalRunStatuses
    <2>1. ASSUME NEW r \in Runs, RetryDue(r)
          PROVE  Serves(r) /\ status[r] \notin TerminalRunStatuses
      <3>1. retry[r] # "none"
        BY <2>1 DEF RetryDue
      <3>2. status[r] = "RETRY_PENDING"
        BY <3>1 DEF KInv, RunKept, AttemptsKept
      <3>. QED
        BY <2>1, <3>2, RetryDueServes DEF TerminalRunStatuses
    <2>2. ASSUME \/ \E a \in Attempts : ElapseLease(a)
                 \/ \E s \in Segments : DeadlinePasses(s)
          PROVE  \A q \in Runs : Untouched(q)
      BY <2>2 DEF ElapseLease, DeadlinePasses, Untouched, runVars, segmentVars,
                  attemptVars
    <2>. QED
      BY <1>4, <2>1, <2>2 DEF TimeStep
  <1>5. CASE UNCHANGED vars
    BY <1>5 DEF Untouched, vars, runVars, segmentVars, attemptVars
  <1>. QED
    BY <1>1, <1>2, <1>3, <1>4, <1>5, WorkerServes, SweepServes DEF Next

\* Before any Run is created nothing is waited for.
LEMMA KInitial == Init => KInv
  <1>. SUFFICES ASSUME Init PROVE KInv
    OBVIOUS
  <1>1. IInv
    BY InitInductive
  <1>2. ASSUME NEW r \in Runs
        PROVE  RunKept(r)
    BY DEF Init, RunKept, SegmentsKept, WaitsKept, AttemptsKept, WakeupKept
  <1>. QED
    BY <1>1, <1>2 DEF KInv

\* Every step serves one Run and leaves the others alone, so it keeps the invariant.
LEMMA KNext == KInv /\ [Next]_vars => KInv'
  <1>. SUFFICES ASSUME KInv, [Next]_vars PROVE KInv'
    OBVIOUS
  <1>1. IInv'
    BY NextInductive DEF KInv
  <1>2. ASSUME NEW q \in Runs
        PROVE  RunKept(q)'
    <2>1. CASE \A p \in Runs : Untouched(p)
      BY <2>1, UntouchedKept
    <2>2. ASSUME NEW r \in Runs, Serves(r)
          PROVE  RunKept(q)'
      BY <2>2, UntouchedKept DEF Serves
    <2>. QED
      BY <2>1, <2>2, EveryStepServes
  <1>. QED
    BY <1>1, <1>2 DEF KInv

-----------------------------------------------------------------------------
(* Theorems.                                                               *)

\* KInv holds in every behaviour of the Run lifecycle.
THEOREM WaitsInductive == Spec => []KInv
  BY KInitial, KNext, PTL DEF Spec

\* A QUEUED or RETRY_PENDING Run always has the dispatch message of its next
\* Attempt, whatever the relay, the Queue, the claims and the sweep do: a job that
\* is ignored was never the one that was needed.
THEOREM WakeupIsPending == Spec => []WakeupPending
  <1>1. KInv => WakeupPending
    BY DEF KInv, RunKept, WakeupKept, WakeupPending
  <1>. QED
    BY <1>1, WaitsInductive, PTL

\* An ACTIVE PRIMARY session belongs to a running Attempt, and a capacity retry
\* finds the session it resumes.
THEOREM SessionsAreResumed == Spec => []SessionsResume
  <1>1. ASSUME KInv PROVE SessionsResume
    <2>1. ASSUME NEW a \in Attempts, session[a] = "ACTIVE"
          PROVE  attempt[a] = "RUNNING"
      <3>1. /\ a = <<a[1], a[2], a[3]>> /\ a[1] \in Runs
            /\ a[2] \in SegmentNos /\ a[3] \in AttemptNos
        BY AttemptIsTriple
      <3>2. AttemptsKept(a[1])
        BY <1>1, <3>1 DEF KInv, RunKept
      <3>3. session[<<a[1], a[2], a[3]>>] = "ACTIVE" =>
              attempt[<<a[1], a[2], a[3]>>] = "RUNNING"
        BY <3>1, <3>2 DEF AttemptsKept
      <3>. QED
        BY <2>1, <3>1, <3>3
    <2>2. CapacityRetryResumable
      BY <1>1 DEF KInv, RunKept, AttemptsKept, CapacityRetryResumable
    <2>. QED
      BY <2>1, <2>2 DEF SessionsResume, ActiveSessionIsLive
  <1>. QED
    BY <1>1, WaitsInductive, PTL

\* The newest Segment follows its Run, and a question, a proposal or an effect is
\* open exactly as long as its Run waits for it.
THEOREM WaitsAreBacked == Spec => []WaitsFollowRun
  <1>1. ASSUME KInv PROVE WaitsFollowRun
    <2>1. SegmentFollowsRun
      BY <1>1 DEF KInv, RunKept, SegmentsKept, SegmentFollowsRun
    <2>2. ASSUME NEW s \in Segments
          PROVE  /\ interaction[s] = "OPEN" =>
                      /\ s = Latest(s[1])
                      /\ status[s[1]] \in {"WAITING_FOR_INPUT",
                                           "WAITING_FOR_APPROVAL"}
                 /\ approval[s] \in {"REQUESTED", "APPLYING"} =>
                      /\ s = Latest(s[1])
                      /\ status[s[1]] = "WAITING_FOR_APPROVAL" \/ inline[s[1]]
      <3>1. s = <<s[1], s[2]>> /\ s[1] \in Runs /\ s[2] \in SegmentNos
        OBVIOUS
      <3>2. WaitsKept(s[1])
        BY <1>1, <3>1 DEF KInv, RunKept
      <3>. QED
        BY <3>1, <3>2 DEF WaitsKept, Latest
    <2>3. ASSUME NEW r \in Runs
          PROVE  /\ inline[r] => status[r] = "RUNNING"
                 /\ status[r] = "WAITING_FOR_INPUT" => interaction[Latest(r)] = "OPEN"
                 /\ status[r] = "WAITING_FOR_APPROVAL" =>
                      \/ AwaitsDecision(r)
                      \/ approval[Latest(r)] \in {"REQUESTED", "APPLYING"}
      BY <1>1 DEF KInv, IInv, Numbering, RunKept, WaitsKept
    <2>. QED
      BY <2>1, <2>2, <2>3 DEF WaitsFollowRun, WaitIsBacked
  <1>. QED
    BY <1>1, WaitsInductive, PTL

\* No answer, decision, retry or result moves a Run on once its cancellation is
\* recorded.
THEOREM CancellationIsKept == Spec => []CancellationWins
  <1>1. KInv => CancellationWins
    BY DEF KInv, RunKept, WaitsKept, CancellationWins
  <1>. QED
    BY <1>1, WaitsInductive, PTL

-----------------------------------------------------------------------------
(* History.                                                                *)

\* An Attempt that is over keeps its row and its session.
Settled(a) ==
  attempt[a] \notin {"ABSENT", "LEASED", "RUNNING"} =>
    /\ session'[a] = session[a]
    /\ \/ attempt'[a] = attempt[a]
       \/ attempt[a] = "DEFERRED" /\ attempt'[a] = "CANCELLED"

\* A Worker and the sweep write to the active Attempt only.
LEMMA WriteToActive ==
  ASSUME IInv, NEW a \in Attempts, attempt[a] \in Active \cup {"ABSENT"},
         attempt' = attempt \/ \E y : attempt' = [attempt EXCEPT ![a] = y],
         session' = session \/ \E z : session' = [session EXCEPT ![a] = z],
         NEW b \in Attempts
  PROVE  Settled(b)
  <1>1. CASE b = a
    BY <1>1 DEF Settled, Active
  <1>2. CASE b # a
    BY <1>2 DEF Settled, IInv, TypeOK
  <1>. QED
    BY <1>1, <1>2

\* A claim writes to an Attempt that did not exist.
LEMMA ClaimSettled ==
  ASSUME IInv, NEW w \in Workers, NEW r \in Runs, NewAttempt(w, r),
         NEW b \in Attempts
  PROVE  Settled(b)
  <1>. DEFINE a == <<r, segno[r], NextNo(r)>>
  <1>1. /\ status[r] # "ABSENT" /\ NextNo(r) <= MaxAttempts
        /\ attempt' = [attempt EXCEPT ![a] = "LEASED"] /\ session' = session
    BY DEF NewAttempt, Claimable
  <1>2. a \in Attempts
    BY <1>1, RunNumbers, BoundsAssumption
  <1>3. tries[SegmentOf(a)] \in 0..MaxAttempts /\ a[3] = tries[SegmentOf(a)] + 1
    BY <1>1, RunNumbers DEF SegmentOf, NextNo, Latest
  <1>4. attempt[a] = "ABSENT"
    BY <1>2, <1>3, BoundsAssumption DEF IInv, Numbering
  <1>. QED
    BY <1>1, <1>2, <1>4, WriteToActive

\* A settled Segment, Attempt or answer is not written again by any step.
LEMMA StepSettled ==
  ASSUME KInv, [Next]_vars, NEW b \in Attempts
  PROVE  Settled(b)
  <1>0. IInv
    BY DEF KInv
  <1>1. ASSUME UNCHANGED <<attempt, session>>
        PROVE  Settled(b)
    BY <1>1 DEF Settled
  <1>2. ASSUME NEW r \in Runs, ApiStep(r) \/ EffectStep(r)
        PROVE  Settled(b)
    <2>1. CASE CancelWaiting(r)
      BY <2>1 DEF CancelWaiting, Settled
    <2>. QED
      BY <1>1, <1>2, <2>1
      DEF ApiStep, EffectStep, EffectSettles, CreateIdempotent,
          RequestCancellation, CancelQueued, RespondToInteraction,
          ApproveProposal, RejectProposal, ClaimEffect, RequeueEffect,
          SettleEffect, SettleInlineEffect, attemptVars
  <1>3. ASSUME NEW w \in Workers, NEW d \in Dispatches, TakeDispatch(w, d)
        PROVE  Settled(b)
    BY <1>0, <1>1, <1>3, ClaimSettled
    DEF TakeDispatch, ClaimForExecution, ExhaustRetries, IgnoreDispatch, attemptVars
  <1>4. ASSUME NEW a \in Attempts, DetachInlineEffect(a), attempt[a] \in Active
        PROVE  Settled(b)
    BY <1>0, <1>4, WriteToActive DEF DetachInlineEffect, Release
  <1>5. ASSUME NEW w \in Workers, WorkerStep(w)
        PROVE  Settled(b)
    <2>1. CASE WarmContinuation(w)
      <3>1. worker[w][1] \in Runs
        BY <1>0, <2>1, IdleAssumption DEF WarmContinuation, IInv, TypeOK
      <3>2. NewAttempt(w, worker[w][1])
        BY <2>1 DEF WarmContinuation
      <3>3. PICK r \in Runs : NewAttempt(w, r)
        BY <3>1, <3>2
      <3>. QED
        BY <1>0, <3>3, ClaimSettled
    <2>2. HoldsLease(w) => worker[w] \in Attempts /\ attempt[worker[w]] \in Active
      BY <1>0, HolderHasAttempt DEF IInv
    <2>3. CASE DetachInline(w)
      <3>1. HoldsLease(w) /\ DetachInlineEffect(worker[w])
        BY <2>3 DEF DetachInline, Executing
      <3>2. PICK a \in Attempts : DetachInlineEffect(a) /\ attempt[a] \in Active
        BY <2>2, <3>1
      <3>. QED
        BY <1>4, <3>2
    <2>4. CASE \/ PrepareExecution(w) \/ AppendAgentEvent(w)
               \/ SuspendForInteraction(w) \/ SuspendForProposal(w)
               \/ SuspendForApprovedProposal(w)
      <3>1. /\ HoldsLease(w)
            /\ \/ attempt' = attempt
               \/ \E y : attempt' = [attempt EXCEPT ![worker[w]] = y]
            /\ \/ session' = session
               \/ \E z : session' = [session EXCEPT ![worker[w]] = z]
        BY <2>4
        DEF PrepareExecution, AppendAgentEvent, SuspendForInteraction,
            SuspendForProposal, SuspendForApprovedProposal, MaySuspend, Executing,
            Suspend, Release
      <3>. QED
        BY <1>0, <2>2, <3>1, WriteToActive
    <2>5. ASSUME NEW target \in FinalTargets, NEW withEvent \in BOOLEAN,
                 FinalizeExecution(w, target, withEvent)
          PROVE  Settled(b)
      <3>1. /\ HoldsLease(w)
            /\ \E y : attempt' = [attempt EXCEPT ![worker[w]] = y]
            /\ \/ session' = session
               \/ \E z : session' = [session EXCEPT ![worker[w]] = z]
        BY <2>5 DEF FinalizeExecution, Executing, Release
      <3>. QED
        BY <1>0, <2>2, <3>1, WriteToActive
    <2>6. CASE \/ BeginInlineEffect(w) \/ InlineReceipt(w)
               \/ HeartbeatAttempt(w) \/ EndJob(w) \/ LoseWorker(w)
      BY <1>1, <2>6
      DEF BeginInlineEffect, InlineReceipt, HeartbeatAttempt, EndJob, LoseWorker,
          attemptVars
    <2>. QED
      BY <1>5, <2>1, <2>3, <2>4, <2>5, <2>6 DEF WorkerStep, FinishExecution
  <1>6. ASSUME SweepStep
        PROVE  Settled(b)
    <2>1. ASSUME NEW a \in Attempts, RecoverExpiredAttempt(a)
          PROVE  Settled(b)
      <3>1. /\ attempt[a] \in Active
            /\ \E y : attempt' = [attempt EXCEPT ![a] = y]
            /\ \E z : session' = [session EXCEPT ![a] = z]
        BY <2>1 DEF RecoverExpiredAttempt, LeaseExpired, ReclaimRun, CloseSession
      <3>. QED
        BY <1>0, <3>1, WriteToActive
    <2>. QED
      BY <1>1, <1>4, <1>6, <2>1
      DEF SweepStep, RecoverInline, LeaseExpired, ExpireInteraction, ExpireProposal,
          CloseStaleProposal, attemptVars
  <1>7. ASSUME \/ TimeStep \/ UNCHANGED vars
               \/ \E d \in Dispatches : RelayOutbox(d) \/ RelayCrash(d)
        PROVE  Settled(b)
    BY <1>1, <1>7
    DEF TimeStep, ElapseLease, RetryDue, DeadlinePasses, RelayOutbox, RelayCrash,
        vars, attemptVars
  <1>. QED
    BY <1>2, <1>3, <1>5, <1>6, <1>7 DEF Next

\* Nothing below a terminal Run is written, but for a proposal nobody decided.
LEMMA StepFrozen ==
  ASSUME KInv, [Next]_vars, NEW r \in Runs, status[r] \in TerminalRunStatuses
  PROVE  /\ status'[r] = status[r]
         /\ segno'[r] = segno[r]
         /\ \A n \in SegmentNos :
              /\ segment'[<<r, n>>] = segment[<<r, n>>]
              /\ interaction'[<<r, n>>] = interaction[<<r, n>>]
              /\ \A k \in AttemptNos :
                   /\ attempt'[<<r, n, k>>] = attempt[<<r, n, k>>]
                   /\ session'[<<r, n, k>>] = session[<<r, n, k>>]
  <1>1. \/ Untouched(r)
        \/ UNCHANGED <<status, segno, segment, interaction, attempt, session>>
    <2>1. ASSUME NEW q \in Runs, Serves(q),
                 \/ status[q] \notin TerminalRunStatuses
                 \/ UNCHANGED <<status, segno, segment, interaction, attempt,
                                session>>
          PROVE  \/ Untouched(r)
                 \/ UNCHANGED <<status, segno, segment, interaction, attempt,
                                session>>
      BY <2>1 DEF Serves
    <2>. QED
      BY <2>1, EveryStepServes
  <1>2. CASE Untouched(r)
    BY <1>2 DEF Untouched
  <1>3. CASE UNCHANGED <<status, segno, segment, interaction, attempt, session>>
    BY <1>3
  <1>. QED
    BY <1>1, <1>2, <1>3

\* What is over stays over: no late job, answer, effect or sweep rewrites a
\* finished Attempt or reopens a terminal Run.
THEOREM HistoryIsKept == Spec => HistoryIsFinal
  <1>1. KInv /\ [Next]_vars =>
          [\A a \in Attempts :
             attempt[a] \notin {"ABSENT", "LEASED", "RUNNING"} =>
               /\ session'[a] = session[a]
               /\ \/ attempt'[a] = attempt[a]
                  \/ attempt[a] = "DEFERRED" /\ attempt'[a] = "CANCELLED"]_vars
    BY StepSettled DEF Settled
  <1>2. KInv /\ [Next]_vars =>
          [\A r \in Runs :
             status[r] \in TerminalRunStatuses =>
               /\ status'[r] = status[r]
               /\ segno'[r] = segno[r]
               /\ \A n \in SegmentNos :
                    /\ segment'[<<r, n>>] = segment[<<r, n>>]
                    /\ interaction'[<<r, n>>] = interaction[<<r, n>>]
                    /\ \A k \in AttemptNos :
                         /\ attempt'[<<r, n, k>>] = attempt[<<r, n, k>>]
                         /\ session'[<<r, n, k>>] = session[<<r, n, k>>]]_vars
    BY StepFrozen
  <1>3. Spec => OutcomeIsFinal
    BY <1>1, WaitsInductive, PTL DEF Spec, OutcomeIsFinal
  <1>4. Spec => TerminalRunFrozen
    BY <1>2, WaitsInductive, PTL DEF Spec, TerminalRunFrozen
  <1>. QED
    BY <1>3, <1>4 DEF HistoryIsFinal

=============================================================================
