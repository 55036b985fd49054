------------------------- MODULE RunLifecycleProofs -------------------------
(***************************************************************************)
(* Proofs about RunLifecycle, for any set of Runs and Workers and any       *)
(* bounds. The inductive invariant is                                       *)
(*                                                                         *)
(*   IInv == TypeOK /\ Numbering /\ ExecutionOwnership                      *)
(*                                                                         *)
(* ExecutionOwnership alone is not inductive: that a claim creates a NEW    *)
(* Attempt is known only from the numbering of Attempts, and that a Run can *)
(* be continued only from the numbering of Segments.                        *)
(***************************************************************************)
EXTENDS RunLifecycle, TLAPS

IInv == TypeOK /\ Numbering /\ ExecutionOwnership

USE DEF SegmentNos, AttemptNos, Segments, Attempts, Dispatches

-----------------------------------------------------------------------------
(* Facts about the rows.                                                   *)

\* An Attempt is the triple of its Run, Segment number and Attempt number.
LEMMA AttemptIsTriple ==
  ASSUME NEW a \in Attempts
  PROVE  /\ a = <<a[1], a[2], a[3]>>
         /\ a[1] \in Runs
         /\ a[2] \in SegmentNos
         /\ a[3] \in AttemptNos
         /\ SegmentOf(a) \in Segments
  BY DEF SegmentOf

\* A Run has at most one active Attempt (the unique owner the sweep and the claim
\* rely on).
LEMMA ActiveIsUnique ==
  ASSUME IInv, NEW a \in Attempts, NEW b \in Attempts,
         attempt[a] \in Active, attempt[b] \in Active, a[1] = b[1]
  PROVE  a = b
  <1>1. a[2] = b[2]
    BY DEF IInv, ExecutionOwnership
  <1>2. SegmentOf(a) = SegmentOf(b)
    BY <1>1 DEF SegmentOf
  <1>3. a[3] = b[3]
    BY <1>2 DEF IInv, ExecutionOwnership
  <1>. QED
    BY <1>1, <1>3, AttemptIsTriple

\* A Run that is not executed has no active Attempt.
LEMMA NotExecutedNoActive ==
  ASSUME IInv, NEW a \in Attempts, status[a[1]] \notin {"PREPARING", "RUNNING"}
  PROVE  attempt[a] \notin Active
  BY DEF IInv, ExecutionOwnership

\* A Worker that holds a lease executes an Attempt.
LEMMA HolderHasAttempt ==
  ASSUME TypeOK, NEW w \in Workers, HoldsLease(w)
  PROVE  /\ worker[w] \in Attempts
         /\ worker[w][1] \in Runs
         /\ attempt[worker[w]] \in Active
  BY IdleAssumption DEF TypeOK, HoldsLease

\* Steps that leave the execution state alone need only be typed.
LEMMA ExecutionFrame ==
  ASSUME IInv, TypeOK',
         UNCHANGED <<status, inline, segno, tries, attempt, worker>>
  PROVE  IInv'
  BY DEF IInv, Numbering, ExecutionOwnership, Latest

\* When a Run stops being executed and none of its Attempts stays active, nothing
\* is left to own; the other Runs are not affected.
LEMMA LeavesExecution ==
  ASSUME IInv, TypeOK', NEW r \in Runs, NEW x,
         x \notin {"PREPARING", "RUNNING"},
         status' = [status EXCEPT ![r] = x],
         \A q \in Runs : q # r => segno'[q] = segno[q],
         tries' = tries,
         \A b \in Attempts : b[1] # r => attempt'[b] = attempt[b],
         \A b \in Attempts : b[1] = r => attempt'[b] \notin Active
  PROVE  ExecutionOwnership'
  <1>1. status'[r] \notin {"PREPARING", "RUNNING"}
    BY DEF IInv, TypeOK
  <1>2. \A q \in Runs : q # r => status'[q] = status[q]
    BY DEF IInv, TypeOK
  <1>3. ASSUME NEW b \in Attempts, attempt'[b] \in Active
        PROVE  /\ b[2] = segno'[b[1]]
               /\ b[3] = tries'[SegmentOf(b)]
               /\ status'[b[1]] =
                    IF attempt'[b] = "LEASED" THEN "PREPARING" ELSE "RUNNING"
    <2>1. b[1] # r /\ b[1] \in Runs
      BY <1>3
    <2>2. attempt[b] = attempt'[b]
      BY <2>1
    <2>. QED
      BY <1>2, <1>3, <2>1, <2>2 DEF IInv, ExecutionOwnership
  <1>4. ASSUME NEW q \in Runs, status'[q] \in {"PREPARING", "RUNNING"}
        PROVE  /\ segno'[q] > 0
               /\ tries'[<<q, segno'[q]>>] > 0
               /\ attempt'[<<q, segno'[q], tries'[<<q, segno'[q]>>]>>] \in Active
    <2>1. q # r /\ status[q] \in {"PREPARING", "RUNNING"} /\ segno'[q] = segno[q]
      BY <1>1, <1>2, <1>4
    <2>2. /\ segno[q] > 0
          /\ tries[<<q, segno[q]>>] > 0
          /\ attempt[<<q, segno[q], tries[<<q, segno[q]>>]>>] \in Active
      BY <2>1 DEF IInv, ExecutionOwnership, Latest
    <2>3. segno[q] \in 1..MaxSegments /\ tries[<<q, segno[q]>>] \in 1..MaxAttempts
      BY <2>2, BoundsAssumption DEF IInv, TypeOK
    <2>. QED
      BY <2>1, <2>2, <2>3
  <1>. QED
    BY <1>3, <1>4 DEF ExecutionOwnership, Latest

-----------------------------------------------------------------------------
(* The building blocks of the actions.                                     *)

\* A continuation is typed: the wait left room for one more Segment.
LEMMA ContinueTyped ==
  ASSUME TypeOK, NEW r \in Runs, segno[r] < MaxSegments, Continue(r)
  PROVE  /\ status' \in [Runs -> RunStatuses]
         /\ segment' \in [Segments -> SegmentStatuses]
         /\ segno' \in [Runs -> 0..MaxSegments]
         /\ outbox' \in SUBSET Dispatches
  <1>1. segno[r] + 1 \in 1..MaxSegments
    BY BoundsAssumption DEF TypeOK
  <1>2. status' \in [Runs -> RunStatuses]
    BY DEF TypeOK, Continue, SetStatus, RunStatuses
  <1>3. segment' \in [Segments -> SegmentStatuses]
    <2>1. [segment EXCEPT ![Latest(r)] = "COMPLETED"] \in
            [Segments -> SegmentStatuses]
      BY DEF TypeOK, SegmentStatuses
    <2>2. segment' = [[segment EXCEPT ![Latest(r)] = "COMPLETED"]
                        EXCEPT ![<<r, segno[r] + 1>>] = "CREATED"]
      BY Zenon DEF Continue
    <2>. QED
      BY <2>1, <2>2 DEF SegmentStatuses
  <1>4. segno' \in [Runs -> 0..MaxSegments]
    BY <1>1 DEF TypeOK, Continue
  <1>5. outbox' \in SUBSET Dispatches
    <2>1. <<r, segno[r] + 1, 1>> \in Dispatches
      BY <1>1, BoundsAssumption
    <2>. QED
      BY <2>1 DEF TypeOK, Continue
  <1>. QED
    BY <1>2, <1>3, <1>4, <1>5

\* A continuation keeps the numbering and leaves nothing to own.
LEMMA ContinueKeeps ==
  ASSUME IInv, TypeOK', NEW r \in Runs, Continue(r),
         status[r] \notin {"PREPARING", "RUNNING"},
         segno[r] < MaxSegments, segno[r] > 0,
         UNCHANGED <<inline, tries, attempt, worker>>
  PROVE  IInv'
  <1>1. ExecutionOwnership'
    <2>1. status' = [status EXCEPT ![r] = "QUEUED"]
      BY DEF Continue, SetStatus
    <2>2. \A q \in Runs : q # r => segno'[q] = segno[q]
      BY DEF Continue, IInv, TypeOK
    <2>3. \A b \in Attempts : b[1] = r => attempt'[b] \notin Active
      BY NotExecutedNoActive
    <2>. QED
      BY <2>1, <2>2, <2>3, LeavesExecution
  <1>2. Numbering'
    <2>1. segno' = [segno EXCEPT ![r] = segno[r] + 1] /\ segno[r] \in Nat
      BY BoundsAssumption DEF Continue, IInv, TypeOK
    <2>2. tries'[<<r, segno[r] + 1>>] = 0
      BY <2>1 DEF IInv, Numbering, TypeOK
    <2>. QED
      BY <2>1, <2>2 DEF IInv, Numbering, TypeOK, Continue, SetStatus, Latest
  <1>. QED
    BY <1>1, <1>2 DEF IInv

\* A claim creates an Attempt nobody has held before, as the only active one.
LEMMA NewAttemptKeeps ==
  ASSUME IInv, NEW w \in Workers, NEW r \in Runs, NewAttempt(w, r),
         outbox' \in SUBSET Dispatches, queue' \in SUBSET Dispatches
  PROVE  IInv'
  <1>. DEFINE n == tries[Latest(r)] + 1
              a == <<r, segno[r], n>>
  <1>1. status[r] \in {"QUEUED", "RETRY_PENDING"} /\ segno[r] \in 1..MaxSegments
    <2>1. status[r] \in {"QUEUED", "RETRY_PENDING"}
      BY DEF NewAttempt, Claimable
    <2>. QED
      BY <2>1, BoundsAssumption DEF IInv, TypeOK, Numbering
  <1>2. Latest(r) \in Segments /\ tries[Latest(r)] \in 0..MaxAttempts
    BY <1>1 DEF Latest, IInv, TypeOK
  <1>3. n \in 1..MaxAttempts /\ a \in Attempts /\ a[1] = r
    BY <1>1, <1>2, BoundsAssumption DEF NewAttempt, NextNo
  <1>4. /\ status' = [status EXCEPT ![r] = "PREPARING"]
        /\ retry' = [retry EXCEPT ![r] = "none"]
        /\ segment' = [segment EXCEPT ![Latest(r)] = "RUNNING"]
        /\ tries' = [tries EXCEPT ![Latest(r)] = n]
        /\ attempt' = [attempt EXCEPT ![a] = "LEASED"]
        /\ lease' = [lease EXCEPT ![a] = LeaseTTL]
        /\ worker' = [worker EXCEPT ![w] = a]
        /\ UNCHANGED <<cancel, inline, segno, interaction, approval, overdue,
                       session>>
    BY DEF NewAttempt, NextNo, SetStatus
  <1>5. TypeOK'
    <2>1. /\ status' \in [Runs -> RunStatuses]
          /\ retry' \in [Runs -> {"none", "waiting", "due"}]
          /\ segment' \in [Segments -> SegmentStatuses]
      BY <1>4 DEF IInv, TypeOK, RunStatuses, SegmentStatuses
    <2>2. /\ tries' \in [Segments -> 0..MaxAttempts]
          /\ attempt' \in [Attempts -> AttemptStatuses]
          /\ lease' \in [Attempts -> 0..LeaseTTL]
          /\ worker' \in [Workers -> Attempts \cup {Idle}]
      <3>. HIDE DEF n, a
      <3>1. n \in 0..MaxAttempts /\ LeaseTTL \in 0..LeaseTTL
        BY <1>3, BoundsAssumption
      <3>2. tries' \in [Segments -> 0..MaxAttempts]
        BY <1>4, <3>1 DEF IInv, TypeOK
      <3>3. attempt' \in [Attempts -> AttemptStatuses]
        BY <1>4 DEF IInv, TypeOK, AttemptStatuses
      <3>4. lease' \in [Attempts -> 0..LeaseTTL]
        BY <1>4, <3>1 DEF IInv, TypeOK
      <3>5. worker' \in [Workers -> Attempts \cup {Idle}]
        BY <1>3, <1>4 DEF IInv, TypeOK
      <3>. QED
        BY <3>2, <3>3, <3>4, <3>5
    <2>3. UNCHANGED <<cancel, inline, segno, interaction, approval, overdue,
                      session>>
      BY <1>4
    <2>. QED
      BY <2>1, <2>2, <2>3 DEF IInv, TypeOK
  <1>6. attempt[a] = "ABSENT"
    BY <1>2, <1>3 DEF IInv, Numbering, SegmentOf, Latest
  <1>7. \A b \in Attempts : b[1] = r => attempt[b] \notin Active
    BY <1>1, NotExecutedNoActive
  <1>8. Numbering'
    <2>1. \A q \in Runs :
            /\ status'[q] = "ABSENT" => segno'[q] = 0
            /\ status'[q] # "ABSENT" => segno'[q] > 0
            /\ status'[q] = "QUEUED" => tries'[<<q, segno'[q]>>] = 0
            /\ status'[q] \in {"WAITING_FOR_INPUT", "WAITING_FOR_APPROVAL"}
                 \/ inline'[q] => segno'[q] < MaxSegments
            /\ inline'[q] => status'[q] = "RUNNING"
      BY <1>1, <1>4 DEF IInv, TypeOK, Numbering, Latest
    <2>2. \A s \in Segments : s[2] > segno'[s[1]] => tries'[s] = 0
      BY <1>1, <1>2, <1>4 DEF IInv, TypeOK, Numbering, Latest
    <2>3. \A b \in Attempts : b[3] > tries'[SegmentOf(b)] => attempt'[b] = "ABSENT"
      BY <1>2, <1>3, <1>4 DEF IInv, TypeOK, Numbering, Latest, SegmentOf
    <2>4. \A v \in Workers : worker'[v] # Idle => attempt'[worker'[v]] # "ABSENT"
      BY <1>3, <1>4 DEF IInv, TypeOK, Numbering
    <2>5. \A u, v \in Workers :
            worker'[u] # Idle /\ worker'[u] = worker'[v] => u = v
      BY <1>3, <1>4, <1>6 DEF IInv, TypeOK, Numbering
    <2>. QED
      BY <2>1, <2>2, <2>3, <2>4, <2>5 DEF Numbering, Latest
  <1>9. ExecutionOwnership'
    <2>1. ASSUME NEW b \in Attempts, attempt'[b] \in Active
          PROVE  /\ b[2] = segno'[b[1]]
                 /\ b[3] = tries'[SegmentOf(b)]
                 /\ status'[b[1]] =
                      IF attempt'[b] = "LEASED" THEN "PREPARING" ELSE "RUNNING"
      <3>1. CASE b = a
        BY <1>2, <1>3, <1>4, <3>1 DEF IInv, TypeOK, SegmentOf, Latest
      <3>2. CASE b # a
        <4>1. attempt'[b] = attempt[b]
          BY <1>4, <3>2 DEF IInv, TypeOK
        <4>2. b[1] # r /\ b[1] \in Runs
          BY <1>7, <2>1, <4>1
        <4>3. status'[b[1]] = status[b[1]] /\ tries'[SegmentOf(b)] = tries[SegmentOf(b)]
          BY <1>4, <4>2 DEF IInv, TypeOK, SegmentOf, Latest
        <4>. QED
          BY <1>4, <2>1, <4>1, <4>2, <4>3 DEF IInv, ExecutionOwnership
      <3>. QED
        BY <3>1, <3>2
    <2>2. ASSUME NEW q \in Runs, status'[q] \in {"PREPARING", "RUNNING"}
          PROVE  /\ segno'[q] > 0
                 /\ tries'[<<q, segno'[q]>>] > 0
                 /\ attempt'[<<q, segno'[q], tries'[<<q, segno'[q]>>]>>] \in Active
      <3>1. CASE q = r
        BY <1>1, <1>2, <1>3, <1>4, <3>1 DEF IInv, TypeOK, Latest, Active
      <3>2. CASE q # r
        <4>1. status[q] \in {"PREPARING", "RUNNING"}
          BY <1>4, <2>2, <3>2 DEF IInv, TypeOK
        <4>2. tries'[<<q, segno[q]>>] = tries[<<q, segno[q]>>]
          BY <1>4, <3>2 DEF IInv, TypeOK, Latest
        <4>3. attempt'[<<q, segno[q], tries[<<q, segno[q]>>]>>]
                = attempt[<<q, segno[q], tries[<<q, segno[q]>>]>>]
          BY <1>4, <3>2 DEF IInv, TypeOK
        <4>. QED
          BY <1>4, <4>1, <4>2, <4>3 DEF IInv, ExecutionOwnership, Latest
      <3>. QED
        BY <3>1, <3>2
    <2>. QED
      BY <2>1, <2>2 DEF ExecutionOwnership, Latest
  <1>. QED
    BY <1>5, <1>8, <1>9 DEF IInv

\* The active Attempt is given up: its Run leaves the executing states.
LEMMA ReleaseKeeps ==
  ASSUME IInv, TypeOK', NEW a \in Attempts, attempt[a] \in Active,
         NEW x, x \notin {"PREPARING", "RUNNING"},
         NEW y, y \notin Active,
         status' = [status EXCEPT ![a[1]] = x],
         attempt' = [attempt EXCEPT ![a] = y],
         \A q \in Runs : q # a[1] => segno'[q] = segno[q],
         tries' = tries
  PROVE  ExecutionOwnership'
  <1>1. \A b \in Attempts : b[1] # a[1] => attempt'[b] = attempt[b]
    BY DEF IInv, TypeOK
  <1>2. ASSUME NEW b \in Attempts, b[1] = a[1]
        PROVE  attempt'[b] \notin Active
    BY <1>2, ActiveIsUnique DEF IInv, TypeOK
  <1>3. a[1] \in Runs
    BY AttemptIsTriple
  <1>. QED
    BY <1>1, <1>2, <1>3, LeavesExecution

\* A wait ends in a continuation; the question and the approval are closed.
LEMMA WaitContinues ==
  ASSUME IInv, NEW r \in Runs, Continue(r),
         status[r] \in {"WAITING_FOR_INPUT", "WAITING_FOR_APPROVAL"},
         interaction' \in [Segments -> InteractionStatuses],
         approval' \in [Segments -> ApprovalStatuses],
         UNCHANGED <<cancel, retry, inline, overdue, tries, attempt, lease,
                     session, worker, queue>>
  PROVE  IInv'
  <1>1. segno[r] > 0 /\ segno[r] < MaxSegments
    BY DEF IInv, Numbering
  <1>2. TypeOK'
    <2>1. /\ status' \in [Runs -> RunStatuses]
          /\ segment' \in [Segments -> SegmentStatuses]
          /\ segno' \in [Runs -> 0..MaxSegments]
          /\ outbox' \in SUBSET Dispatches
      BY <1>1, ContinueTyped DEF IInv
    <2>. QED
      BY <2>1 DEF IInv, TypeOK
  <1>. QED
    BY <1>1, <1>2, ContinueKeeps

-----------------------------------------------------------------------------
(* One step per action.                                                    *)

\* The requests of the API (create, cancel, answer, decide) keep the invariant.
LEMMA ApiKeeps ==
  ASSUME IInv, NEW r \in Runs, ApiStep(r)
  PROVE  IInv'
  <1>1. CASE CreateIdempotent(r)
    <2>1. TypeOK'
      BY <1>1, BoundsAssumption
      DEF IInv, TypeOK, CreateIdempotent, SetStatus, RunStatuses,
          SegmentStatuses, attemptVars
    <2>2. /\ status[r] = "ABSENT"
          /\ status' = [status EXCEPT ![r] = "QUEUED"]
          /\ segno' = [segno EXCEPT ![r] = 1]
          /\ UNCHANGED <<inline, tries, attempt, worker>>
      BY <1>1 DEF CreateIdempotent, SetStatus, attemptVars
    <2>3. ExecutionOwnership'
      <3>1. \A b \in Attempts : b[1] = r => attempt'[b] \notin Active
        BY <2>2, NotExecutedNoActive
      <3>. QED
        BY <2>1, <2>2, <3>1, LeavesExecution DEF IInv, TypeOK
    <2>4. Numbering'
      <3>1. segno[r] = 0 /\ <<r, 1>> \in Segments /\ tries[<<r, 1>>] = 0
        BY <2>2, BoundsAssumption DEF IInv, Numbering
      <3>. QED
        BY <2>2, <3>1 DEF IInv, TypeOK, Numbering, Latest
    <2>. QED
      BY <2>1, <2>3, <2>4 DEF IInv
  <1>2. CASE RequestCancellation(r)
    <2>1. TypeOK'
      BY <1>2
      DEF IInv, TypeOK, RequestCancellation, segmentVars, attemptVars
    <2>. QED
      BY <1>2, <2>1, ExecutionFrame
      DEF RequestCancellation, segmentVars, attemptVars
  <1>3. CASE CancelQueued(r)
    <2>1. TypeOK'
      BY <1>3
      DEF IInv, TypeOK, CancelQueued, Close, SetStatus, RunStatuses,
          SegmentStatuses, attemptVars
    <2>2. Numbering'
      BY <1>3
      DEF IInv, TypeOK, Numbering, Latest, CancelQueued, Close, SetStatus,
          attemptVars
    <2>3. ExecutionOwnership'
      BY <1>3
      DEF IInv, TypeOK, ExecutionOwnership, Latest, CancelQueued, Close,
          SetStatus, attemptVars
    <2>. QED
      BY <2>1, <2>2, <2>3 DEF IInv
  <1>4. CASE CancelWaiting(r)
    <2>1. TypeOK'
      BY <1>4
      DEF IInv, TypeOK, CancelWaiting, Close, SetStatus, RunStatuses,
          SegmentStatuses, AttemptStatuses, InteractionStatuses,
          ApprovalStatuses
    <2>2. Numbering'
      BY <1>4
      DEF IInv, TypeOK, Numbering, Latest, CancelWaiting, Close, SetStatus
    <2>3. ExecutionOwnership'
      BY <1>4
      DEF IInv, TypeOK, ExecutionOwnership, Active, Latest, CancelWaiting,
          Close, SetStatus
    <2>. QED
      BY <2>1, <2>2, <2>3 DEF IInv
  <1>5. CASE RespondToInteraction(r)
    <2>1. /\ Continue(r)
          /\ status[r] = "WAITING_FOR_INPUT"
          /\ interaction' \in [Segments -> InteractionStatuses]
          /\ approval' \in [Segments -> ApprovalStatuses]
          /\ UNCHANGED <<cancel, retry, inline, overdue, tries, attempt, lease,
                         session, worker, queue>>
      BY <1>5
      DEF IInv, TypeOK, RespondToInteraction, attemptVars, InteractionStatuses
    <2>. QED
      BY <2>1, WaitContinues
  <1>6. CASE ApproveProposal(r)
    <2>1. TypeOK'
      BY <1>6
      DEF IInv, TypeOK, ApproveProposal, runVars, attemptVars,
          InteractionStatuses, ApprovalStatuses
    <2>. QED
      BY <1>6, <2>1, ExecutionFrame DEF ApproveProposal, runVars, attemptVars
  <1>7. CASE RejectProposal(r)
    <2>1. /\ Continue(r)
          /\ status[r] = "WAITING_FOR_APPROVAL"
          /\ interaction' \in [Segments -> InteractionStatuses]
          /\ approval' \in [Segments -> ApprovalStatuses]
          /\ UNCHANGED <<cancel, retry, inline, overdue, tries, attempt, lease,
                         session, worker, queue>>
      BY <1>7
      DEF IInv, TypeOK, RejectProposal, AwaitsDecision, attemptVars,
          InteractionStatuses, ApprovalStatuses
    <2>. QED
      BY <2>1, WaitContinues
  <1>. QED
    BY <1>1, <1>2, <1>3, <1>4, <1>5, <1>6, <1>7 DEF ApiStep

\* The outbox relay only moves dispatch messages.
LEMMA RelayKeeps ==
  ASSUME IInv, NEW d \in Dispatches, RelayOutbox(d) \/ RelayCrash(d)
  PROVE  IInv'
  <1>1. TypeOK'
    BY DEF IInv, TypeOK, RelayOutbox, RelayCrash, runVars, segmentVars,
           attemptVars
  <1>. QED
    BY <1>1, ExecutionFrame
    DEF RelayOutbox, RelayCrash, runVars, segmentVars, attemptVars

\* Taking a job claims the Run, gives it up for good or does nothing; each keeps
\* the invariant.
LEMMA TakeDispatchKeeps ==
  ASSUME IInv, NEW w \in Workers, NEW d \in Dispatches, TakeDispatch(w, d)
  PROVE  IInv'
  <1>. DEFINE r == d[1]
  <1>0. r \in Runs
    OBVIOUS
  <1>1. CASE ClaimForExecution(w, d)
    <2>1. NewAttempt(w, r) /\ outbox' \in SUBSET Dispatches
          /\ queue' \in SUBSET Dispatches
      BY <1>1 DEF IInv, TypeOK, ClaimForExecution, TakeJob
    <2>. QED
      BY <1>0, <2>1, NewAttemptKeeps
  <1>2. CASE ExhaustRetries(w, d)
    <2>1. /\ status[r] \in {"QUEUED", "RETRY_PENDING"}
          /\ status' = [status EXCEPT ![r] = "FAILED"]
          /\ segment' = [segment EXCEPT ![Latest(r)] = "FAILED"]
          /\ retry' = [retry EXCEPT ![r] = "none"]
          /\ queue' = queue \ {d}
          /\ UNCHANGED <<cancel, inline, segno, interaction, approval, overdue,
                         tries, attempt, lease, session, worker, outbox>>
      BY <1>2 DEF ExhaustRetries, TakeJob, Claimable, Close, SetStatus,
                  attemptVars
    <2>2. TypeOK'
      BY <1>0, <2>1 DEF IInv, TypeOK, RunStatuses, SegmentStatuses
    <2>3. Numbering'
      BY <1>0, <2>1 DEF IInv, TypeOK, Numbering, Latest
    <2>4. ExecutionOwnership'
      BY <1>0, <2>1 DEF IInv, TypeOK, ExecutionOwnership, Latest
    <2>. QED
      BY <2>2, <2>3, <2>4 DEF IInv
  <1>3. CASE IgnoreDispatch(w, d)
    <2>1. TypeOK'
      BY <1>3 DEF IInv, TypeOK, IgnoreDispatch, TakeJob, runVars, segmentVars,
                  attemptVars
    <2>. QED
      BY <1>3, <2>1, ExecutionFrame
      DEF IgnoreDispatch, runVars, segmentVars, attemptVars
  <1>. QED
    BY <1>1, <1>2, <1>3 DEF TakeDispatch

\* A warm continuation claims the next Segment like a dispatch does.
LEMMA WarmContinuationKeeps ==
  ASSUME IInv, NEW w \in Workers, WarmContinuation(w)
  PROVE  IInv'
  <1>1. worker[w] \in Attempts /\ worker[w][1] \in Runs
    BY IdleAssumption DEF IInv, TypeOK, WarmContinuation
  <1>2. /\ NewAttempt(w, worker[w][1])
        /\ outbox' \in SUBSET Dispatches /\ queue' \in SUBSET Dispatches
    BY DEF IInv, TypeOK, WarmContinuation
  <1>. QED
    BY <1>1, <1>2, NewAttemptKeeps

\* prepare_execution moves Run and Attempt from preparing to running together.
LEMMA PrepareExecutionKeeps ==
  ASSUME IInv, NEW w \in Workers, PrepareExecution(w)
  PROVE  IInv'
  <1>. DEFINE a == worker[w]
  <1>1. a \in Attempts /\ a[1] \in Runs /\ attempt[a] \in Active
    BY HolderHasAttempt DEF IInv, PrepareExecution, Executing
  <1>2. /\ status[a[1]] = "PREPARING"
        /\ status' = [status EXCEPT ![a[1]] = "RUNNING"]
        /\ attempt' = [attempt EXCEPT ![a] = "RUNNING"]
        /\ segment' = [segment EXCEPT ![SegmentOf(a)] = "RUNNING"]
        /\ UNCHANGED <<cancel, retry, inline, segno, interaction, approval,
                       overdue, tries, lease, session, worker, outbox, queue>>
    BY DEF PrepareExecution, Executing, SetStatus
  <1>. HIDE DEF a
  <1>3. TypeOK'
    BY <1>1, <1>2
    DEF IInv, TypeOK, RunStatuses, SegmentStatuses, AttemptStatuses
  <1>4. Numbering'
    BY <1>1, <1>2 DEF IInv, TypeOK, Numbering, Latest, Active
  <1>5. ExecutionOwnership'
    <2>1. a[2] = segno[a[1]] /\ a[3] = tries[SegmentOf(a)]
      BY <1>1 DEF IInv, ExecutionOwnership
    <2>2. ASSUME NEW b \in Attempts, attempt'[b] \in Active
          PROVE  /\ b[2] = segno[b[1]]
                 /\ b[3] = tries[SegmentOf(b)]
                 /\ status'[b[1]] =
                      IF attempt'[b] = "LEASED" THEN "PREPARING" ELSE "RUNNING"
      <3>1. CASE b = a
        BY <1>1, <1>2, <2>1, <3>1 DEF IInv, TypeOK
      <3>2. CASE b # a
        <4>1. attempt'[b] = attempt[b]
          BY <1>2, <3>2 DEF IInv, TypeOK
        <4>2. b[1] # a[1] /\ b[1] \in Runs
          BY <1>1, <2>2, <3>2, <4>1, ActiveIsUnique
        <4>. QED
          BY <1>1, <1>2, <2>2, <4>1, <4>2 DEF IInv, TypeOK, ExecutionOwnership
      <3>. QED
        BY <3>1, <3>2
    <2>3. ASSUME NEW q \in Runs, status'[q] \in {"PREPARING", "RUNNING"}
          PROVE  /\ segno[q] > 0
                 /\ tries[<<q, segno[q]>>] > 0
                 /\ attempt'[<<q, segno[q], tries[<<q, segno[q]>>]>>] \in Active
      <3>1. status[q] \in {"PREPARING", "RUNNING"}
        BY <1>1, <1>2, <2>3 DEF IInv, TypeOK
      <3>2. /\ segno[q] > 0
            /\ tries[<<q, segno[q]>>] > 0
            /\ attempt[<<q, segno[q], tries[<<q, segno[q]>>]>>] \in Active
        BY <3>1 DEF IInv, ExecutionOwnership, Latest
      <3>3. <<q, segno[q], tries[<<q, segno[q]>>]>> \in Attempts
        BY <3>2, BoundsAssumption DEF IInv, TypeOK
      <3>. QED
        BY <1>2, <3>2, <3>3 DEF IInv, TypeOK, Active
    <2>. QED
      BY <1>2, <2>2, <2>3 DEF ExecutionOwnership, Latest
  <1>. QED
    BY <1>3, <1>4, <1>5 DEF IInv

\* A suspension parks the Attempt and the Run in one step.
LEMMA SuspendKeeps ==
  ASSUME IInv, NEW w \in Workers, MaySuspend(w),
         NEW x \in {"WAITING_FOR_INPUT", "WAITING_FOR_APPROVAL"},
         Suspend(worker[w], x),
         interaction' \in [Segments -> InteractionStatuses],
         approval' \in [Segments -> ApprovalStatuses],
         worker' = worker \/ worker' = [worker EXCEPT ![w] = Idle],
         UNCHANGED <<cancel, retry, inline, segno, overdue, tries, outbox, queue>>
  PROVE  IInv'
  <1>. DEFINE a == worker[w]
  <1>1. a \in Attempts /\ a[1] \in Runs /\ attempt[a] \in Active
    BY HolderHasAttempt DEF IInv, MaySuspend, Executing
  <1>2. /\ ~ inline[a[1]]
        /\ segno[a[1]] < MaxSegments
        /\ status[a[1]] = "RUNNING"
        /\ status' = [status EXCEPT ![a[1]] = x]
        /\ segment' = [segment EXCEPT ![SegmentOf(a)] = "WAITING"]
        /\ attempt' = [attempt EXCEPT ![a] = "DEFERRED"]
        /\ lease' = [lease EXCEPT ![a] = 0]
        /\ session' = [session EXCEPT ![a] = "IDLE"]
    BY DEF MaySuspend, Executing, Suspend, SetStatus, Release
  <1>3. worker' \in [Workers -> Attempts \cup {Idle}]
    BY DEF IInv, TypeOK
  <1>. HIDE DEF a
  <1>4. TypeOK'
    <2>1. /\ status' \in [Runs -> RunStatuses]
          /\ segment' \in [Segments -> SegmentStatuses]
          /\ attempt' \in [Attempts -> AttemptStatuses]
          /\ session' \in [Attempts -> SessionStatuses]
      BY <1>2 DEF IInv, TypeOK, RunStatuses, SegmentStatuses, AttemptStatuses,
                  SessionStatuses
    <2>2. lease' \in [Attempts -> 0..LeaseTTL]
      <3>1. 0 \in 0..LeaseTTL
        BY BoundsAssumption
      <3>. QED
        BY <1>2, <3>1 DEF IInv, TypeOK
    <2>. QED
      BY <1>3, <2>1, <2>2 DEF IInv, TypeOK
  <1>5. Numbering'
    <2>1. \A q \in Runs :
            /\ status'[q] = "ABSENT" => segno'[q] = 0
            /\ status'[q] # "ABSENT" => segno'[q] > 0
            /\ status'[q] = "QUEUED" => tries'[<<q, segno'[q]>>] = 0
            /\ status'[q] \in {"WAITING_FOR_INPUT", "WAITING_FOR_APPROVAL"}
                 \/ inline'[q] => segno'[q] < MaxSegments
            /\ inline'[q] => status'[q] = "RUNNING"
      BY <1>1, <1>2 DEF IInv, TypeOK, Numbering, Latest
    <2>2. \A b \in Attempts : b[3] > tries'[SegmentOf(b)] => attempt'[b] = "ABSENT"
      BY <1>1, <1>2 DEF IInv, TypeOK, Numbering, Active
    <2>3. \A v \in Workers : worker'[v] # Idle => attempt'[worker'[v]] # "ABSENT"
      BY <1>2 DEF IInv, TypeOK, Numbering
    <2>4. \A u, v \in Workers :
            worker'[u] # Idle /\ worker'[u] = worker'[v] => u = v
      BY DEF IInv, TypeOK, Numbering
    <2>. QED
      BY <2>1, <2>2, <2>3, <2>4 DEF IInv, Numbering, Latest
  <1>6. ExecutionOwnership'
    BY <1>1, <1>2, <1>4, ReleaseKeeps DEF Active
  <1>. QED
    BY <1>4, <1>5, <1>6 DEF IInv

\* Detaching an inline effect gives the Attempt up, whatever the effect has come
\* to, so nobody owns the Run afterwards.
LEMMA DetachKeeps ==
  ASSUME IInv, NEW a \in Attempts, attempt[a] \in Active,
         status[a[1]] = "RUNNING", inline[a[1]], DetachInlineEffect(a),
         worker' = worker \/ \E w \in Workers : worker' = [worker EXCEPT ![w] = Idle]
  PROVE  IInv'
  <1>. DEFINE r == a[1]
              c == SegmentOf(a)
  <1>1. r \in Runs /\ c \in Segments /\ c = Latest(r) /\ segno[r] = a[2]
    BY AttemptIsTriple DEF IInv, ExecutionOwnership, SegmentOf, Latest
  <1>2. segno[r] \in 1..MaxSegments /\ segno[r] < MaxSegments
    BY <1>1, BoundsAssumption DEF IInv, TypeOK, Numbering
  <1>3. /\ attempt' = [attempt EXCEPT ![a] = "DEFERRED"]
        /\ lease' = [lease EXCEPT ![a] = 0]
        /\ session' = [session EXCEPT ![a] = "IDLE"]
        /\ inline' = [inline EXCEPT ![r] = FALSE]
        /\ UNCHANGED <<cancel, retry, interaction, overdue, tries, queue>>
    BY DEF DetachInlineEffect, Release
  <1>4. \/ /\ status' = [status EXCEPT ![r] = "WAITING_FOR_APPROVAL"]
           /\ segment' = [segment EXCEPT ![c] = "WAITING"]
           /\ UNCHANGED <<segno, outbox>>
        \/ Continue(r)
        \/ /\ \/ status' = [status EXCEPT ![r] = "CANCELLED"]
              \/ status' = [status EXCEPT ![r] = "FAILED"]
           /\ \/ segment' = [segment EXCEPT ![c] = "CANCELLED"]
              \/ segment' = [segment EXCEPT ![c] = "FAILED"]
           /\ UNCHANGED <<segno, outbox>>
    BY <1>1 DEF DetachInlineEffect, FinishEffectContinuation, Close, SetStatus
  <1>5. approval' \in [Segments -> ApprovalStatuses]
    BY DEF DetachInlineEffect, IInv, TypeOK, ApprovalStatuses
  <1>6. worker' \in [Workers -> Attempts \cup {Idle}]
    BY DEF IInv, TypeOK
  <1>7. /\ status' \in [Runs -> RunStatuses]
        /\ segment' \in [Segments -> SegmentStatuses]
        /\ segno' \in [Runs -> 0..MaxSegments]
        /\ outbox' \in SUBSET Dispatches
    <2>1. CASE Continue(r)
      BY <1>1, <1>2, <2>1, ContinueTyped DEF IInv
    <2>2. CASE ~ Continue(r)
      <3>. HIDE DEF r, c
      <3>. QED
        BY <1>4, <2>2, SMTT(30) DEF IInv, TypeOK, RunStatuses, SegmentStatuses
    <2>. QED
      BY <2>1, <2>2
  <1>8. PICK x \in {"WAITING_FOR_APPROVAL", "QUEUED", "CANCELLED", "FAILED"} :
          status' = [status EXCEPT ![r] = x]
    BY <1>4 DEF Continue, SetStatus
  <1>9. \/ x # "QUEUED" /\ segno' = segno
        \/ x # "WAITING_FOR_APPROVAL" /\ segno' = [segno EXCEPT ![r] = segno[r] + 1]
    <2>1. status'[r] = x
      BY <1>1, <1>8 DEF IInv, TypeOK
    <2>2. CASE Continue(r)
      <3>1. status'[r] = "QUEUED"
        BY <1>1, <2>2 DEF Continue, SetStatus, IInv, TypeOK
      <3>. QED
        BY <2>1, <2>2, <3>1 DEF Continue
    <2>3. CASE ~ Continue(r)
      <3>1. status'[r] # "QUEUED" /\ segno' = segno
        BY <1>1, <1>4, <2>3 DEF IInv, TypeOK
      <3>. QED
        BY <2>1, <3>1
    <2>. QED
      BY <2>2, <2>3
  <1>10. TypeOK'
    <2>1. /\ attempt' \in [Attempts -> AttemptStatuses]
          /\ session' \in [Attempts -> SessionStatuses]
          /\ inline' \in [Runs -> BOOLEAN]
      BY <1>3 DEF IInv, TypeOK, AttemptStatuses, SessionStatuses
    <2>2. lease' \in [Attempts -> 0..LeaseTTL]
      BY <1>3, BoundsAssumption DEF IInv, TypeOK
    <2>. QED
      BY <1>3, <1>5, <1>6, <1>7, <2>1, <2>2 DEF IInv, TypeOK
  <1>11. Numbering'
    <2>0. tries[<<r, segno[r] + 1>>] = 0
      BY <1>1, <1>2, BoundsAssumption DEF IInv, Numbering
    <2>. HIDE DEF r, c
    <2>1. \A q \in Runs :
            /\ status'[q] = "ABSENT" => segno'[q] = 0
            /\ status'[q] # "ABSENT" => segno'[q] > 0
            /\ status'[q] = "QUEUED" => tries'[<<q, segno'[q]>>] = 0
            /\ status'[q] \in {"WAITING_FOR_INPUT", "WAITING_FOR_APPROVAL"}
                 \/ inline'[q] => segno'[q] < MaxSegments
            /\ inline'[q] => status'[q] = "RUNNING"
      <3>1. ASSUME NEW q \in Runs, q # r
            PROVE  /\ status'[q] = status[q] /\ segno'[q] = segno[q]
                   /\ inline'[q] = inline[q] /\ tries' = tries
        BY <1>1, <1>3, <1>8, <1>9, <3>1 DEF IInv, TypeOK
      <3>2. /\ status'[r] = x /\ ~ inline'[r] /\ tries' = tries
            /\ \/ x # "QUEUED" /\ segno'[r] = segno[r]
               \/ x # "WAITING_FOR_APPROVAL" /\ segno'[r] = segno[r] + 1
        BY <1>1, <1>3, <1>8, <1>9 DEF IInv, TypeOK
      <3>3. /\ segno'[r] > 0
            /\ x = "QUEUED" => tries'[<<r, segno'[r]>>] = 0
            /\ x = "WAITING_FOR_APPROVAL" => segno'[r] < MaxSegments
        BY <1>2, <2>0, <3>2
      <3>4. ASSUME NEW q \in Runs, q # r
            PROVE  /\ status'[q] = "ABSENT" => segno'[q] = 0
                   /\ status'[q] # "ABSENT" => segno'[q] > 0
                   /\ status'[q] = "QUEUED" => tries'[<<q, segno'[q]>>] = 0
                   /\ status'[q] \in {"WAITING_FOR_INPUT", "WAITING_FOR_APPROVAL"}
                        \/ inline'[q] => segno'[q] < MaxSegments
                   /\ inline'[q] => status'[q] = "RUNNING"
        BY <3>1, <3>4 DEF IInv, Numbering, Latest
      <3>. QED
        BY <3>2, <3>3, <3>4
    <2>2. \A s \in Segments : s[2] > segno'[s[1]] => tries'[s] = 0
      <3>1. \A q \in Runs : segno'[q] >= segno[q]
        BY <1>1, <1>2, <1>9, BoundsAssumption DEF IInv, TypeOK
      <3>2. ASSUME NEW s \in Segments, s[2] > segno'[s[1]]
            PROVE  tries[s] = 0
        <4>1. s[1] \in Runs /\ s[2] \in Nat
          BY BoundsAssumption
        <4>2. segno[s[1]] \in Nat /\ segno'[s[1]] \in Nat
          BY <1>7, <4>1, BoundsAssumption DEF IInv, TypeOK
        <4>3. s[2] > segno[s[1]]
          BY <3>1, <3>2, <4>1, <4>2
        <4>. QED
          BY <4>3 DEF IInv, Numbering
      <3>. QED
        BY <1>3, <3>2
    <2>3. \A b \in Attempts : b[3] > tries'[SegmentOf(b)] => attempt'[b] = "ABSENT"
      BY <1>3 DEF IInv, TypeOK, Numbering, Active
    <2>4. \A v \in Workers : worker'[v] # Idle => attempt'[worker'[v]] # "ABSENT"
      BY <1>3 DEF IInv, TypeOK, Numbering
    <2>5. \A u, v \in Workers :
            worker'[u] # Idle /\ worker'[u] = worker'[v] => u = v
      BY DEF IInv, TypeOK, Numbering
    <2>. QED
      BY <2>1, <2>2, <2>3, <2>4, <2>5 DEF Numbering, Latest
  <1>12. ExecutionOwnership'
    <2>1. \A q \in Runs : q # r => segno'[q] = segno[q]
      BY <1>1, <1>9 DEF IInv, TypeOK
    <2>. QED
      BY <1>3, <1>8, <1>10, <2>1, ReleaseKeeps DEF Active
  <1>. QED
    BY <1>10, <1>11, <1>12 DEF IInv

\* finalize_execution ends the Attempt it holds and takes the Run out of execution.
LEMMA FinalizeExecutionKeeps ==
  ASSUME IInv, NEW w \in Workers, NEW target \in FinalTargets,
         NEW withEvent \in BOOLEAN, FinalizeExecution(w, target, withEvent)
  PROVE  IInv'
  <1>. DEFINE a == worker[w]
              t == WinningTarget(a[1], target)
  <1>1. a \in Attempts /\ a[1] \in Runs /\ attempt[a] \in Active
    BY HolderHasAttempt DEF IInv, FinalizeExecution, Executing
  <1>2. t \in FinalTargets
    BY DEF WinningTarget, FinalTargets
  <1>3. /\ ~ inline[a[1]]
        /\ status[a[1]] = "RUNNING"
        /\ status' = [status EXCEPT ![a[1]] = t]
        /\ attempt' = [attempt EXCEPT ![a] = AttemptStatusFor(t)]
        /\ lease' = [lease EXCEPT ![a] = 0]
        /\ segment' = [segment EXCEPT ![SegmentOf(a)] = SegmentStatusFor(t)]
        /\ worker' = [worker EXCEPT ![w] = Idle]
        /\ UNCHANGED <<cancel, inline, segno, interaction, approval, overdue,
                       tries, queue>>
    BY DEF FinalizeExecution, Executing, SetStatus, Release, SetWorker
  <1>4. /\ retry' \in [Runs -> {"none", "waiting", "due"}]
        /\ session' \in [Attempts -> SessionStatuses]
    BY DEF FinalizeExecution, IInv, TypeOK, SessionStatuses, SessionStatusFor
  <1>5. outbox' \in SUBSET Dispatches
    <2>1. CASE t = "RETRY_PENDING"
      <3>1. target = "RETRY_PENDING"
        BY <2>1 DEF WinningTarget
      <3>2. <<a[1], a[2], a[3] + 1>> \in Dispatches
        BY <1>1, <3>1, BoundsAssumption
        DEF FinalizeExecution, FinalizeTarget, CapacityRetryLeft
      <3>. QED
        BY <3>2 DEF FinalizeExecution, IInv, TypeOK
    <2>2. CASE t # "RETRY_PENDING"
      BY <2>2 DEF FinalizeExecution, IInv, TypeOK
    <2>. QED
      BY <2>1, <2>2
  <1>6. /\ AttemptStatusFor(t) \in AttemptStatuses \ (Active \cup {"ABSENT"})
        /\ SegmentStatusFor(t) \in SegmentStatuses
        /\ t \in RunStatuses \ {"ABSENT", "QUEUED", "PREPARING", "RUNNING",
                                "WAITING_FOR_INPUT", "WAITING_FOR_APPROVAL"}
    BY <1>2 DEF FinalTargets, AttemptStatusFor, SegmentStatusFor,
                AttemptStatuses, SegmentStatuses, RunStatuses, Active
  <1>. HIDE DEF a, t
  <1>7. TypeOK'
    <2>1. /\ status' \in [Runs -> RunStatuses]
          /\ segment' \in [Segments -> SegmentStatuses]
          /\ attempt' \in [Attempts -> AttemptStatuses]
      BY <1>3, <1>6 DEF IInv, TypeOK
    <2>2. worker' \in [Workers -> Attempts \cup {Idle}]
      BY <1>3 DEF IInv, TypeOK
    <2>3. lease' \in [Attempts -> 0..LeaseTTL]
      <3>1. 0 \in 0..LeaseTTL
        BY BoundsAssumption
      <3>. QED
        BY <1>3, <3>1 DEF IInv, TypeOK
    <2>. QED
      BY <1>3, <1>4, <1>5, <2>1, <2>2, <2>3 DEF IInv, TypeOK
  <1>8. Numbering'
    <2>1. \A q \in Runs :
            /\ status'[q] = "ABSENT" => segno'[q] = 0
            /\ status'[q] # "ABSENT" => segno'[q] > 0
            /\ status'[q] = "QUEUED" => tries'[<<q, segno'[q]>>] = 0
            /\ status'[q] \in {"WAITING_FOR_INPUT", "WAITING_FOR_APPROVAL"}
                 \/ inline'[q] => segno'[q] < MaxSegments
            /\ inline'[q] => status'[q] = "RUNNING"
      BY <1>1, <1>3, <1>6 DEF IInv, TypeOK, Numbering, Latest
    <2>2. \A b \in Attempts : b[3] > tries'[SegmentOf(b)] => attempt'[b] = "ABSENT"
      BY <1>1, <1>3 DEF IInv, TypeOK, Numbering, Active
    <2>3. \A v \in Workers : worker'[v] # Idle => attempt'[worker'[v]] # "ABSENT"
      BY <1>3, <1>6 DEF IInv, TypeOK, Numbering
    <2>4. \A u, v \in Workers :
            worker'[u] # Idle /\ worker'[u] = worker'[v] => u = v
      BY <1>3 DEF IInv, TypeOK, Numbering
    <2>. QED
      BY <1>3, <2>1, <2>2, <2>3, <2>4 DEF IInv, Numbering, Latest
  <1>9. ExecutionOwnership'
    <2>1. t \notin {"PREPARING", "RUNNING"} /\ AttemptStatusFor(t) \notin Active
      BY <1>6
    <2>2. tries' = tries /\ \A q \in Runs : segno'[q] = segno[q]
      BY <1>3
    <2>. QED
      BY <1>1, <1>3, <1>7, <2>1, <2>2, ReleaseKeeps
  <1>. QED
    BY <1>7, <1>8, <1>9 DEF IInv

\* Every step of a Worker keeps the invariant.
LEMMA WorkerKeeps ==
  ASSUME IInv, NEW w \in Workers, WorkerStep(w)
  PROVE  IInv'
  <1>1. CASE AppendAgentEvent(w)
    <2>1. TypeOK'
      BY <1>1 DEF IInv, TypeOK, AppendAgentEvent, SessionStatuses, runVars,
                  segmentVars
    <2>. QED
      BY <1>1, <2>1, ExecutionFrame DEF AppendAgentEvent, runVars, segmentVars
  <1>2. CASE SuspendForInteraction(w)
    <2>1. /\ MaySuspend(w)
          /\ Suspend(worker[w], "WAITING_FOR_INPUT")
          /\ interaction' \in [Segments -> InteractionStatuses]
          /\ approval' \in [Segments -> ApprovalStatuses]
          /\ worker' = [worker EXCEPT ![w] = Idle]
          /\ UNCHANGED <<cancel, retry, inline, segno, overdue, tries, outbox,
                         queue>>
      BY <1>2 DEF IInv, TypeOK, SuspendForInteraction, SetWorker,
                  InteractionStatuses
    <2>. QED
      BY <2>1, SuspendKeeps
  <1>3. CASE SuspendForProposal(w)
    <2>1. /\ MaySuspend(w)
          /\ Suspend(worker[w], "WAITING_FOR_APPROVAL")
          /\ interaction' \in [Segments -> InteractionStatuses]
          /\ approval' \in [Segments -> ApprovalStatuses]
          /\ worker' = [worker EXCEPT ![w] = Idle]
          /\ UNCHANGED <<cancel, retry, inline, segno, overdue, tries, outbox,
                         queue>>
      BY <1>3 DEF IInv, TypeOK, SuspendForProposal, SetWorker,
                  InteractionStatuses, ApprovalStatuses
    <2>. QED
      BY <2>1, SuspendKeeps
  <1>4. CASE SuspendForApprovedProposal(w)
    <2>1. /\ MaySuspend(w)
          /\ Suspend(worker[w], "WAITING_FOR_APPROVAL")
          /\ interaction' \in [Segments -> InteractionStatuses]
          /\ approval' \in [Segments -> ApprovalStatuses]
          /\ worker' = worker
          /\ UNCHANGED <<cancel, retry, inline, segno, overdue, tries, outbox,
                         queue>>
      BY <1>4 DEF IInv, TypeOK, SuspendForApprovedProposal, ApprovalStatuses
    <2>. QED
      BY <2>1, SuspendKeeps
  <1>5. CASE BeginInlineEffect(w) \/ InlineReceipt(w)
    <2>0. worker[w] \in Attempts /\ worker[w][1] \in Runs
      BY <1>5, HolderHasAttempt
      DEF IInv, BeginInlineEffect, InlineReceipt, MaySuspend, Executing
    <2>1. /\ status[worker[w][1]] = "RUNNING"
          /\ \/ /\ inline' = [inline EXCEPT ![worker[w][1]] = TRUE]
                /\ segno[worker[w][1]] < MaxSegments
             \/ inline' = [inline EXCEPT ![worker[w][1]] = FALSE]
          /\ approval' \in [Segments -> ApprovalStatuses]
          /\ UNCHANGED <<status, cancel, retry, segno, segment, interaction,
                         overdue, tries, attempt, lease, session, worker, outbox,
                         queue>>
      BY <1>5
      DEF IInv, TypeOK, BeginInlineEffect, InlineReceipt, MaySuspend, Executing,
          ApprovalStatuses, segmentVars, attemptVars
    <2>2. TypeOK' /\ Numbering'
      <3>1. TypeOK'
        BY <2>1 DEF IInv, TypeOK
      <3>2. Numbering'
        BY <2>0, <2>1, SMTT(30) DEF IInv, TypeOK, Numbering, Latest
      <3>. QED
        BY <3>1, <3>2
    <2>3. ExecutionOwnership'
      BY <2>1 DEF IInv, ExecutionOwnership, Latest
    <2>. QED
      BY <2>2, <2>3 DEF IInv
  <1>6. CASE DetachInline(w)
    <2>1. worker[w] \in Attempts /\ attempt[worker[w]] \in Active
      BY <1>6, HolderHasAttempt DEF IInv, DetachInline, Executing
    <2>2. /\ status[worker[w][1]] = "RUNNING"
          /\ inline[worker[w][1]]
          /\ DetachInlineEffect(worker[w])
          /\ worker' = worker \/ worker' = [worker EXCEPT ![w] = Idle]
      BY <1>6 DEF DetachInline, Executing
    <2>. QED
      BY <2>1, <2>2, DetachKeeps
  <1>7. CASE HeartbeatAttempt(w)
    <2>1. LeaseTTL \in 0..LeaseTTL
      BY BoundsAssumption
    <2>2. TypeOK'
      BY <1>7, <2>1 DEF IInv, TypeOK, HeartbeatAttempt, runVars, segmentVars
    <2>. QED
      BY <1>7, <2>2, ExecutionFrame DEF HeartbeatAttempt, runVars, segmentVars
  <1>8. CASE EndJob(w) \/ LoseWorker(w)
    <2>1. /\ worker' = [worker EXCEPT ![w] = Idle]
          /\ UNCHANGED <<runVars, segmentVars, attemptVars, outbox>>
      BY <1>8 DEF EndJob, LoseWorker, SetWorker
    <2>2. queue' \in SUBSET Dispatches
      <3>1. CASE EndJob(w)
        BY <3>1 DEF EndJob, IInv, TypeOK
      <3>2. CASE LoseWorker(w)
        <4>1. worker[w] \in Dispatches
          BY <3>2, HolderHasAttempt, BoundsAssumption DEF IInv, LoseWorker
        <4>. QED
          BY <3>2, <4>1 DEF LoseWorker, IInv, TypeOK
      <3>. QED
        BY <1>8, <3>1, <3>2
    <2>3. TypeOK'
      BY <2>1, <2>2 DEF IInv, TypeOK, runVars, segmentVars, attemptVars
    <2>4. Numbering'
      BY <2>1 DEF IInv, TypeOK, Numbering, Latest, runVars, segmentVars,
                  attemptVars
    <2>5. ExecutionOwnership'
      BY <2>1 DEF IInv, ExecutionOwnership, Latest, runVars, segmentVars,
                  attemptVars
    <2>. QED
      BY <2>3, <2>4, <2>5 DEF IInv
  <1>. QED
    BY <1>1, <1>2, <1>3, <1>4, <1>5, <1>6, <1>7, <1>8, WarmContinuationKeeps,
       PrepareExecutionKeeps, FinalizeExecutionKeeps
    DEF WorkerStep, FinishExecution

\* The end of an effect moves a Run nobody executes.
LEMMA SettleEffectKeeps ==
  ASSUME IInv, NEW r \in Runs, NEW outcome \in {"APPLIED", "CLOSED"},
         NEW unknown \in BOOLEAN, SettleEffect(r, outcome, unknown)
  PROVE  IInv'
  <1>1. /\ status[r] = "WAITING_FOR_APPROVAL"
        /\ interaction' \in [Segments -> InteractionStatuses]
        /\ approval' \in [Segments -> ApprovalStatuses]
        /\ UNCHANGED <<cancel, retry, inline, overdue, tries, attempt, lease,
                       session, worker, queue>>
    BY DEF IInv, TypeOK, SettleEffect, ApprovalStatuses, attemptVars
  <1>2. \/ Continue(r)
        \/ /\ \/ Close(r, "CANCELLED") \/ Close(r, "FAILED")
           /\ UNCHANGED <<segno, outbox>>
    BY DEF SettleEffect, FinishEffectContinuation
  <1>3. CASE Continue(r)
    BY <1>1, <1>3, WaitContinues
  <1>4. CASE ~ Continue(r)
    <2>0. /\ status' \in [Runs -> RunStatuses]
          /\ segment' \in [Segments -> SegmentStatuses]
          /\ UNCHANGED <<segno, outbox>>
      <3>1. ASSUME NEW x \in {"CANCELLED", "FAILED"}, Close(r, x)
            PROVE  /\ status' \in [Runs -> RunStatuses]
                   /\ segment' \in [Segments -> SegmentStatuses]
        <4>1. x \in RunStatuses /\ x \in SegmentStatuses
          BY DEF RunStatuses, SegmentStatuses
        <4>. QED
          BY <3>1, <4>1 DEF IInv, TypeOK, Close, SetStatus
      <3>. QED
        BY <1>2, <1>4, <3>1
    <2>1. TypeOK'
      BY <1>1, <2>0 DEF IInv, TypeOK
    <2>2. Numbering'
      BY <1>1, <1>2, <1>4 DEF IInv, TypeOK, Numbering, Latest, Close, SetStatus
    <2>3. ExecutionOwnership'
      BY <1>1, <1>2, <1>4
      DEF IInv, TypeOK, ExecutionOwnership, Latest, Close, SetStatus
    <2>. QED
      BY <2>1, <2>2, <2>3 DEF IInv
  <1>. QED
    BY <1>3, <1>4

\* Every step of an effect keeps the invariant.
LEMMA EffectKeeps ==
  ASSUME IInv, NEW r \in Runs, EffectStep(r)
  PROVE  IInv'
  <1>1. CASE \/ ClaimEffect(r) \/ RequeueEffect(r)
             \/ \E outcome \in {"APPLIED", "CLOSED"} : SettleInlineEffect(r, outcome)
    <2>1. /\ approval' \in [Segments -> ApprovalStatuses]
          /\ UNCHANGED <<runVars, segment, interaction, overdue, tries,
                         attemptVars, worker, outbox, queue>>
      BY <1>1 DEF IInv, TypeOK, ClaimEffect, RequeueEffect, SettleInlineEffect,
                  ApprovalStatuses
    <2>2. TypeOK'
      BY <2>1 DEF IInv, TypeOK, runVars, attemptVars
    <2>. QED
      BY <2>1, <2>2, ExecutionFrame DEF runVars, attemptVars
  <1>. QED
    BY <1>1, SettleEffectKeeps DEF EffectStep, EffectSettles

\* The sweep takes back an Attempt only together with its Run.
LEMMA RecoverExpiredAttemptKeeps ==
  ASSUME IInv, NEW a \in Attempts, RecoverExpiredAttempt(a)
  PROVE  IInv'
  <1>. DEFINE t == IF cancel[a[1]] THEN "CANCELLED" ELSE "RETRY_PENDING"
              y == IF cancel[a[1]] THEN "CANCELLED" ELSE "LEASE_EXPIRED"
  <1>1. /\ a[1] \in Runs
        /\ attempt[a] \in Active
        /\ ~ inline[a[1]]
        /\ status' = [status EXCEPT ![a[1]] = t]
        /\ attempt' = [attempt EXCEPT ![a] = y]
        /\ UNCHANGED <<cancel, inline, segno, interaction, approval, overdue,
                       tries, lease, worker, queue>>
    BY DEF RecoverExpiredAttempt, LeaseExpired, ReclaimRun, SetStatus
  <1>2. TypeOK'
    <2>1. /\ status' \in [Runs -> RunStatuses]
          /\ attempt' \in [Attempts -> AttemptStatuses]
      BY <1>1 DEF IInv, TypeOK, RunStatuses, AttemptStatuses
    <2>2. /\ retry' \in [Runs -> {"none", "waiting", "due"}]
          /\ segment' \in [Segments -> SegmentStatuses]
      BY DEF RecoverExpiredAttempt, ReclaimRun, IInv, TypeOK, SegmentStatusFor,
             SegmentStatuses
    <2>3. session' \in [Attempts -> SessionStatuses]
      BY DEF RecoverExpiredAttempt, ReclaimRun, CloseSession, IInv, TypeOK,
             SessionStatuses
    <2>4. outbox' \in SUBSET Dispatches
      <3>1. <<a[1], a[2], a[3] + 1>> \in Dispatches
        BY BoundsAssumption
      <3>. QED
        BY <3>1 DEF RecoverExpiredAttempt, ReclaimRun, IInv, TypeOK
    <2>. QED
      BY <1>1, <2>1, <2>2, <2>3, <2>4 DEF IInv, TypeOK
  <1>3. Numbering'
    <2>1. status[a[1]] # "ABSENT" /\ attempt[a] # "ABSENT"
      BY <1>1 DEF IInv, ExecutionOwnership, Active
    <2>. QED
      BY <1>1, <2>1 DEF IInv, TypeOK, Numbering, Latest
  <1>4. ExecutionOwnership'
    <2>1. t \notin {"PREPARING", "RUNNING"} /\ y \notin Active
      BY DEF Active
    <2>2. tries' = tries /\ \A q \in Runs : segno'[q] = segno[q]
      BY <1>1
    <2>. HIDE DEF t, y
    <2>. QED
      BY <1>1, <1>2, <2>1, <2>2, ReleaseKeeps
  <1>. QED
    BY <1>2, <1>3, <1>4 DEF IInv

\* Every branch of the maintenance sweep keeps the invariant.
LEMMA SweepKeeps ==
  ASSUME IInv, SweepStep
  PROVE  IInv'
  <1>1. ASSUME NEW a \in Attempts, RecoverInline(a)
        PROVE  IInv'
    BY <1>1, DetachKeeps DEF RecoverInline, LeaseExpired
  <1>2. ASSUME NEW r \in Runs, ExpireInteraction(r) \/ ExpireProposal(r)
        PROVE  IInv'
    <2>1. /\ Continue(r)
          /\ status[r] \in {"WAITING_FOR_INPUT", "WAITING_FOR_APPROVAL"}
          /\ interaction' \in [Segments -> InteractionStatuses]
          /\ approval' \in [Segments -> ApprovalStatuses]
          /\ UNCHANGED <<cancel, retry, inline, overdue, tries, attempt, lease,
                         session, worker, queue>>
      BY <1>2
      DEF IInv, TypeOK, ExpireInteraction, ExpireProposal, AwaitsDecision,
          attemptVars, InteractionStatuses, ApprovalStatuses
    <2>. QED
      BY <2>1, WaitContinues
  <1>3. ASSUME NEW s \in Segments, CloseStaleProposal(s)
        PROVE  IInv'
    <2>1. TypeOK'
      BY <1>3 DEF IInv, TypeOK, CloseStaleProposal, ApprovalStatuses,
                  InteractionStatuses, runVars, attemptVars
    <2>. QED
      BY <1>3, <2>1, ExecutionFrame DEF CloseStaleProposal, runVars, attemptVars
  <1>. QED
    BY <1>1, <1>2, <1>3, RecoverExpiredAttemptKeeps DEF SweepStep

\* The passing of time changes leases and deadlines only.
LEMMA TimeKeeps ==
  ASSUME IInv, TimeStep
  PROVE  IInv'
  <1>1. ASSUME NEW a \in Attempts, ElapseLease(a)
        PROVE  IInv'
    <2>1. lease[a] - 1 \in 0..LeaseTTL
      BY <1>1, BoundsAssumption DEF IInv, TypeOK, ElapseLease
    <2>2. TypeOK'
      BY <1>1, <2>1 DEF IInv, TypeOK, ElapseLease, runVars, segmentVars
    <2>. QED
      BY <1>1, <2>2, ExecutionFrame DEF ElapseLease, runVars, segmentVars
  <1>2. ASSUME NEW r \in Runs, RetryDue(r)
        PROVE  IInv'
    <2>1. TypeOK'
      BY <1>2 DEF IInv, TypeOK, RetryDue, segmentVars, attemptVars
    <2>. QED
      BY <1>2, <2>1, ExecutionFrame DEF RetryDue, segmentVars, attemptVars
  <1>3. ASSUME NEW s \in Segments, DeadlinePasses(s)
        PROVE  IInv'
    <2>1. TypeOK'
      BY <1>3 DEF IInv, TypeOK, DeadlinePasses, runVars, attemptVars
    <2>. QED
      BY <1>3, <2>1, ExecutionFrame DEF DeadlinePasses, runVars, attemptVars
  <1>. QED
    BY <1>1, <1>2, <1>3 DEF TimeStep

-----------------------------------------------------------------------------
(* Theorems.                                                               *)

\* Nothing exists at first, so nothing is owned.
LEMMA InitInductive == Init => IInv
  <1>. SUFFICES ASSUME Init PROVE IInv
    OBVIOUS
  <1>1. TypeOK
    BY BoundsAssumption
    DEF Init, TypeOK, RunStatuses, SegmentStatuses, InteractionStatuses,
        ApprovalStatuses, AttemptStatuses, SessionStatuses
  <1>2. Numbering
    BY BoundsAssumption DEF Init, Numbering
  <1>3. ExecutionOwnership
    BY DEF Init, ExecutionOwnership, Active
  <1>. QED
    BY <1>1, <1>2, <1>3 DEF IInv

\* The invariant is inductive: every step of Next, and stuttering, keeps it.
LEMMA NextInductive == IInv /\ [Next]_vars => IInv'
  <1>. SUFFICES ASSUME IInv, [Next]_vars PROVE IInv'
    OBVIOUS
  <1>1. CASE Next
    BY <1>1, ApiKeeps, EffectKeeps, RelayKeeps, TakeDispatchKeeps, WorkerKeeps,
       SweepKeeps, TimeKeeps
    DEF Next
  <1>2. CASE UNCHANGED vars
    <2>1. TypeOK'
      BY <1>2 DEF IInv, TypeOK, vars, runVars, segmentVars, attemptVars
    <2>. QED
      BY <1>2, <2>1, ExecutionFrame
      DEF vars, runVars, segmentVars, attemptVars
  <1>. QED
    BY <1>1, <1>2

\* The inductive invariant holds in every behaviour of the Run lifecycle.
THEOREM Inductive == Spec => []IInv
  BY InitInductive, NextInductive, PTL DEF Spec

\* Every row stays within its statuses, no Segment has more than run_max_attempts
\* Attempts, and a dispatch names at most the Attempt after the last one.
THEOREM TypeCorrect == Spec => []TypeOK
  <1>1. IInv => TypeOK
    BY DEF IInv
  <1>. QED
    BY <1>1, Inductive, PTL

\* Run row and Attempts agree on who executes, for any number of Runs, Workers,
\* Segments and Attempts: the claim, the sweep and finalize never disagree.
THEOREM Ownership == Spec => []ExecutionOwnership
  <1>1. IInv => ExecutionOwnership
    BY DEF IInv
  <1>. QED
    BY <1>1, Inductive, PTL

\* No two Workers pass the lease check of _validate_claimed_lease for one Run.
THEOREM OneExecutor == Spec => []AtMostOneExecutor
  <1>1. ASSUME IInv PROVE AtMostOneExecutor
    <2>. SUFFICES ASSUME NEW v \in Workers, NEW w \in Workers,
                         HoldsLease(v), HoldsLease(w),
                         worker[v][1] = worker[w][1]
                  PROVE  v = w
      BY DEF AtMostOneExecutor
    <2>1. worker[v] = worker[w]
      BY <1>1, HolderHasAttempt, ActiveIsUnique DEF IInv
    <2>. QED
      BY <1>1, <2>1 DEF IInv, Numbering, HoldsLease
  <1>. QED
    BY <1>1, Inductive, PTL

-----------------------------------------------------------------------------
(* The Run implements its status table.                                    *)

\* One planned transition, seen from the detailed specification.
LEMMA AbstractStep ==
  ASSUME NEW r \in Runs, NEW x \in Abstract!RunStatus,
         status' = [status EXCEPT ![r] = x],
         \/ x \in Abstract!AllowedRunTransitions(status[r])
         \/ /\ status[r] = "RUNNING"
            /\ x \in {"QUEUED", "FAILED", "CANCELLED"}
  PROVE  Abstract!Next
  BY DEF Abstract!Next, Abstract!PlanRunTransition, Abstract!PlanDetached,
         Abstract!AllowedRunTransitions

\* Every step of the code plans a transition the table has, or none.
LEMMA RefinesNext ==
  IInv /\ [Next]_vars => [Abstract!Next]_status
  <1>. SUFFICES ASSUME IInv, [Next]_vars, status' # status
                PROVE  Abstract!Next
    OBVIOUS
  <1>. USE DEF Abstract!RunStatus, Abstract!AllowedRunTransitions, SetStatus
  <1>1. ASSUME NEW r \in Runs, ApiStep(r)
        PROVE  Abstract!Next
    <2>1. CASE CreateIdempotent(r)
      BY <2>1, AbstractStep DEF CreateIdempotent
    <2>2. CASE CancelQueued(r)
      BY <2>2, AbstractStep DEF CancelQueued, Close
    <2>3. CASE CancelWaiting(r)
      BY <2>3, AbstractStep DEF CancelWaiting, Close
    <2>4. CASE RespondToInteraction(r)
      BY <2>4, AbstractStep DEF RespondToInteraction, Continue
    <2>5. CASE RejectProposal(r)
      BY <2>5, AbstractStep DEF RejectProposal, AwaitsDecision, Continue
    <2>. QED
      BY <1>1, <2>1, <2>2, <2>3, <2>4, <2>5
      DEF ApiStep, RequestCancellation, ApproveProposal, runVars
  <1>2. ASSUME NEW r \in Runs, EffectStep(r)
        PROVE  Abstract!Next
    <2>1. PICK outcome \in {"APPLIED", "CLOSED"}, unknown \in BOOLEAN :
            SettleEffect(r, outcome, unknown)
      BY <1>2 DEF EffectStep, EffectSettles, ClaimEffect, RequeueEffect,
                  SettleInlineEffect, runVars
    <2>2. /\ status[r] = "WAITING_FOR_APPROVAL"
          /\ \E x \in {"QUEUED", "CANCELLED", "FAILED"} :
               status' = [status EXCEPT ![r] = x]
      BY <2>1 DEF SettleEffect, FinishEffectContinuation, Continue, Close
    <2>. QED
      BY <2>2, AbstractStep
  <1>3. ASSUME NEW w \in Workers, NEW d \in Dispatches, TakeDispatch(w, d)
        PROVE  Abstract!Next
    <2>0. d[1] \in Runs
      OBVIOUS
    <2>1. CASE ClaimForExecution(w, d)
      BY <2>0, <2>1, AbstractStep DEF ClaimForExecution, NewAttempt, Claimable
    <2>2. CASE ExhaustRetries(w, d)
      <3>1. status[d[1]] # "QUEUED"
        BY <2>0, <2>2, BoundsAssumption
        DEF ExhaustRetries, NextNo, IInv, Numbering
      <3>. QED
        BY <2>0, <2>2, <3>1, AbstractStep DEF ExhaustRetries, Claimable, Close
    <2>. QED
      BY <1>3, <2>1, <2>2 DEF TakeDispatch, IgnoreDispatch, runVars
  <1>4. ASSUME NEW a \in Attempts, status[a[1]] = "RUNNING", DetachInlineEffect(a)
        PROVE  Abstract!Next
    <2>1. \E x \in {"WAITING_FOR_APPROVAL", "QUEUED", "CANCELLED", "FAILED"} :
            status' = [status EXCEPT ![a[1]] = x]
      BY <1>4 DEF DetachInlineEffect, FinishEffectContinuation, Continue, Close
    <2>. QED
      BY <1>4, <2>1, AttemptIsTriple, AbstractStep
  <1>5. ASSUME NEW w \in Workers, WorkerStep(w)
        PROVE  Abstract!Next
    <2>0. HoldsLease(w) => worker[w] \in Attempts /\ worker[w][1] \in Runs
      BY HolderHasAttempt DEF IInv
    <2>1. CASE WarmContinuation(w)
      <3>1. worker[w][1] \in Runs
        BY <2>1, IdleAssumption DEF WarmContinuation, IInv, TypeOK
      <3>. QED
        BY <2>1, <3>1, AbstractStep DEF WarmContinuation, NewAttempt
    <2>2. CASE PrepareExecution(w)
      BY <2>0, <2>2, AbstractStep DEF PrepareExecution, Executing
    <2>3. CASE \/ SuspendForInteraction(w) \/ SuspendForProposal(w)
               \/ SuspendForApprovedProposal(w)
      BY <2>0, <2>3, AbstractStep
      DEF SuspendForInteraction, SuspendForProposal, SuspendForApprovedProposal,
          MaySuspend, Suspend, Executing
    <2>4. CASE DetachInline(w)
      BY <1>4, <2>0, <2>4 DEF DetachInline, Executing
    <2>5. ASSUME NEW target \in FinalTargets, NEW withEvent \in BOOLEAN,
                 FinalizeExecution(w, target, withEvent)
          PROVE  Abstract!Next
      <3>1. WinningTarget(worker[w][1], target) \in FinalTargets
        BY DEF WinningTarget, FinalTargets
      <3>2. /\ HoldsLease(w) /\ status[worker[w][1]] = "RUNNING"
            /\ status' = [status EXCEPT ![worker[w][1]] =
                            WinningTarget(worker[w][1], target)]
        BY <2>5 DEF FinalizeExecution, Executing
      <3>. QED
        BY <2>0, <3>1, <3>2, AbstractStep DEF FinalTargets
    <2>. QED
      BY <1>5, <2>1, <2>2, <2>3, <2>4, <2>5
      DEF WorkerStep, FinishExecution, AppendAgentEvent, BeginInlineEffect,
          InlineReceipt, HeartbeatAttempt, EndJob, LoseWorker, runVars
  <1>6. ASSUME SweepStep
        PROVE  Abstract!Next
    <2>1. ASSUME NEW a \in Attempts, RecoverExpiredAttempt(a)
          PROVE  Abstract!Next
      <3>1. \E x \in {"CANCELLED", "RETRY_PENDING"} :
              status' = [status EXCEPT ![a[1]] = x]
        BY <2>1 DEF RecoverExpiredAttempt, ReclaimRun
      <3>. QED
        BY <2>1, <3>1, AttemptIsTriple, AbstractStep DEF RecoverExpiredAttempt
    <2>2. ASSUME NEW r \in Runs, ExpireInteraction(r) \/ ExpireProposal(r)
          PROVE  Abstract!Next
      BY <2>2, AbstractStep
      DEF ExpireInteraction, ExpireProposal, AwaitsDecision, Continue
    <2>. QED
      BY <1>4, <1>6, <2>1, <2>2
      DEF SweepStep, RecoverInline, CloseStaleProposal, runVars
  <1>7. ~ UNCHANGED vars /\ ~ TimeStep
        /\ ~ \E d \in Dispatches : RelayOutbox(d) \/ RelayCrash(d)
    BY DEF vars, runVars, TimeStep, ElapseLease, RetryDue, DeadlinePasses,
           RelayOutbox, RelayCrash
  <1>. QED
    BY <1>1, <1>2, <1>3, <1>5, <1>6, <1>7 DEF Next

\* The code that writes Run.status, with its claims, suspensions, detached inline
\* effects, sweeps and cancellations, implements the transition table of
\* runs/domain.py.
THEOREM Refinement == Spec => ImplementsAbstractRun
  <1>1. Init => Abstract!Init
    BY DEF Init, Abstract!Init
  <1>. QED
    BY <1>1, RefinesNext, Inductive, PTL
    DEF Spec, ImplementsAbstractRun, Abstract!Spec

=============================================================================
