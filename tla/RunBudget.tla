----------------------------- MODULE RunBudget -----------------------------
(***************************************************************************)
(* The budget account of a Run: what primary and child executions reserve,   *)
(* the one-use start gate in front of each model invocation, and the         *)
(* receipts that turn a reservation into consumption (skillmind/runs/        *)
(* budget*.py, repository_budgets.py and worker/primary_budget.py).          *)
(*                                                                         *)
(* Every operation is one transaction that locks the Run, its account and    *)
(* all reservations. A commit whose answer is lost is confirmed by re-reading *)
(* the original row, or leaves its caller without a start. Executors of an   *)
(* attempt and the workers that reconcile usage run concurrently, the latter *)
(* also after the attempt has lost its lease.                                *)
(*                                                                         *)
(* Abstracted: an invocation's scope and its options are its identity; the   *)
(* start owner token is the recorder that drew it; block codes are one flag; *)
(* the audit receipt of a conflict carries nothing that is read again.       *)
(***************************************************************************)
EXTENDS Integers, FiniteSets, FiniteSetsExt, Functions

CONSTANTS
  Attempts,     \* Run attempts, 1..n; an attempt names its primary execution
  Children,     \* execution keys of child executions
  Recorders,    \* BudgetInvocationRecorder objects, each used once
  Invocations,
  Reconcilers,
  ReceiptKeys,
  Dims,         \* budget dimensions: turns, and cost when the policy limits it
  Limit,        \* the policy's maximum per dimension
  Grants,       \* amounts a child execution may ask for
  Reports,      \* usage reports an execution may be charged with
  Results,      \* raw results an execution may report
  MaxLeases,    \* bound: reservations reconciled at the same time
  MaxRows,      \* bound: reservations and receipts in all
  Nobody

Keys == Attempts \cup Children
Missing == -1           \* a dimension a report does not give
Live == {"RESERVED", "START_INTENT"}

ASSUME BudgetAssumption ==
  /\ Attempts \subseteq Nat \ {0}
  /\ IsFiniteSet(Keys)
  /\ Limit \in [Dims -> Nat \ {0}]
  /\ Grants \subseteq [Dims -> Nat \ {0}]
  /\ Reports \subseteq [vals : [Dims -> Nat \cup {Missing}], mark : Nat,
                        final : BOOLEAN, metered : BOOLEAN]
  /\ Attempts \cap Children = {}
  /\ Nobody \notin Keys \cup Recorders \cup Invocations \cup Reconcilers \cup Results

VARIABLES
  mode,      \* MeteringMode of the frozen policy
  run,       \* the attempt whose lease authorizes work; past the last one, none
  account,   \* RunBudgetAccount
  res,       \* RunBudgetReservation of each execution key
  receipts,  \* RunBudgetReceipt of each key: what was recorded under it
  observed,  \* RunBudgetObservation: the raw result first recorded
  lease,     \* reconciliation lease of each reservation
  rec        \* the recorders

budgetVars == <<mode, run, account, res, receipts, observed, lease, rec>>

Zero == [d \in Dims |-> 0]
NoRow == [status |-> "NONE", attempt |-> 0, parent |-> Nobody, granted |-> Zero,
          reserved |-> Zero, consumed |-> Zero, mark |-> [d \in Dims |-> -1],
          inv |-> Nobody, owner |-> Nobody, stop |-> FALSE, final |-> FALSE]
NoReceipt == [kind |-> "NONE"]
DeadRecorder == [pc |-> "dead", key |-> Nobody, attempt |-> 0, inv |-> Nobody]
IdleRecorder == [pc |-> "idle", key |-> Nobody, attempt |-> 0, inv |-> Nobody]

BudgetInit ==
  /\ mode \in {"INCREMENTAL", "CUMULATIVE"}
  /\ run = 1
  /\ account = [consumed |-> Zero, reserved |-> Zero, blocked |-> FALSE]
  /\ res = [k \in Keys |-> NoRow]
  /\ receipts = [k \in Keys |-> [x \in ReceiptKeys |-> NoReceipt]]
  /\ observed = [k \in Keys |-> Nobody]
  /\ lease = [k \in Keys |-> Nobody]
  /\ rec = [r \in Recorders |-> IdleRecorder]

\* The sum of f over the finite set S, counted in units.
Units(f, S) == UNION {{k} \X (1..f[k]) : k \in S}
Total(f, S) == Cardinality(Units(f, S))

(***************************************************************************)
(* The Run around the account: an attempt loses its lease (expiry,           *)
(* cancellation, the end of its segment), and the next one is claimed.       *)
(***************************************************************************)
NextAttempt ==
  /\ run \in Attempts
  /\ run' = run + 1
  /\ UNCHANGED <<mode, account, res, receipts, observed, lease, rec>>

\* _authorize: the claimed lease is the Run's and the Run is executing.
Authorized(attempt) == run = attempt /\ attempt \in Attempts

(***************************************************************************)
(* Reservations.                                                            *)
(***************************************************************************)
Remaining(d) == Limit[d] - account.consumed[d] - account.reserved[d]

PrimaryPending ==
  \E k \in Attempts : res[k].status \in Live /\ ~res[k].stop

RunningParent(k, attempt) ==
  /\ res[k].attempt = attempt
  /\ res[k].status = "START_INTENT"
  /\ ~res[k].stop
  /\ ~res[k].final

RowCount ==
  Cardinality({k \in Keys : res[k].status # "NONE"})
  + Cardinality({p \in Keys \X ReceiptKeys : receipts[p[1]][p[2]] # NoReceipt})

Reserve(grants, parent) ==
  /\ RowCount + Cardinality(DOMAIN grants) <= MaxRows
  /\ res' = [k \in Keys |->
       IF k \in DOMAIN grants
       THEN [NoRow EXCEPT !.status = "RESERVED", !.attempt = run, !.parent = parent,
                          !.granted = grants[k], !.reserved = grants[k]]
       ELSE res[k]]
  /\ account' = [account EXCEPT !.reserved =
       [d \in Dims |-> @[d] + Total([k \in DOMAIN grants |-> grants[k][d]], DOMAIN grants)]]

\* PrimaryBudgetCoordinator.prepare accepts only an untouched reservation,
\* whether reserve_primary has just made it or has found the original.
Untouched(k) == res[k].status = "RESERVED" /\ res[k].reserved = res[k].granted

MayReservePrimary == ~account.blocked /\ ~PrimaryPending

ReservePrimary(r) ==
  LET a == run IN
  /\ rec[r].pc = "idle" /\ run \in Attempts
  /\ IF res[a].status = "NONE"
     THEN /\ MayReservePrimary
          /\ \A d \in Dims : Remaining(d) > 0
          /\ Reserve([k \in {a} |-> [d \in Dims |-> Remaining(d)]], Nobody)
     ELSE Untouched(a) /\ UNCHANGED <<res, account>>
  /\ rec' = [rec EXCEPT ![r] = [pc |-> "prepared", key |-> a, attempt |-> a, inv |-> Nobody]]
  /\ UNCHANGED <<mode, run, receipts, observed, lease>>

\* A group is one primary or children of one execution; it is reserved whole
\* or not at all.
ReserveGroup ==
  /\ run \in Attempts
  /\ \E group \in SUBSET Keys \ {{}}, parent \in Keys \cup {Nobody} :
       \E grants \in [group -> Grants] :
         /\ \A k \in group : res[k].status = "NONE" /\ k # parent
         /\ IF parent = Nobody
            THEN group = {run} /\ MayReservePrimary
            ELSE /\ group \subseteq Children /\ ~account.blocked
                 /\ RunningParent(parent, run)
         /\ \A d \in Dims :
              Total([k \in group |-> grants[k][d]], group) <= Remaining(d)
         /\ Reserve(grants, parent)
  /\ UNCHANGED <<mode, run, receipts, observed, lease, rec>>

\* BudgetInvocationRecorder for a child execution of the current attempt.
PrepareChild(r) ==
  /\ rec[r].pc = "idle" /\ run \in Attempts
  /\ \E k \in Children :
       /\ res[k].status = "RESERVED" /\ res[k].attempt = run
       /\ rec' = [rec EXCEPT ![r] =
            [pc |-> "prepared", key |-> k, attempt |-> run, inv |-> Nobody]]
  /\ UNCHANGED <<mode, run, account, res, receipts, observed, lease>>

(***************************************************************************)
(* The start gate: bind the invocation, then write the start intent, then    *)
(* connect to the model. A recorder whose transaction is refused, whose      *)
(* answer is lost for good, or that is cancelled, never connects.            *)
(***************************************************************************)
BindInvocation(r) ==
  LET k == rec[r].key IN
  /\ rec[r].pc = "prepared" /\ Authorized(rec[r].attempt)
  /\ res[k].attempt = rec[r].attempt
  /\ res[k].inv = Nobody
  /\ res[k].status = "RESERVED" /\ ~account.blocked
  /\ \E i \in Invocations :
       /\ \A other \in Keys : res[other].inv # i
       /\ res' = [res EXCEPT ![k].inv = i, ![k].owner = r]
       /\ rec' = [rec EXCEPT ![r].pc = "bound", ![r].inv = i]
  /\ UNCHANGED <<mode, run, account, receipts, observed, lease>>

StartUnowned(r) ==
  LET k == rec[r].key IN
  /\ rec[r].pc \in {"prepared", "bound"} /\ Authorized(rec[r].attempt)
  /\ res[k].attempt = rec[r].attempt
  /\ res[k].status \in Live /\ ~account.blocked
  /\ res[k].parent # Nobody => RunningParent(res[k].parent, res[k].attempt)
  /\ res' = [res EXCEPT ![k].status = "START_INTENT"]
  /\ \E after \in {DeadRecorder, [rec[r] EXCEPT !.pc = "running"]} :
       rec' = [rec EXCEPT ![r] = after]
  /\ UNCHANGED <<mode, run, account, receipts, observed, lease>>

StartExecution(r) ==
  LET k == rec[r].key IN
  /\ rec[r].pc = "bound" /\ Authorized(rec[r].attempt)
  /\ res[k].attempt = rec[r].attempt
  /\ res[k].inv = rec[r].inv /\ res[k].owner = r
  /\ res[k].status = "RESERVED" /\ ~account.blocked
  /\ res[k].parent # Nobody => RunningParent(res[k].parent, res[k].attempt)
  /\ res' = [res EXCEPT ![k].status = "START_INTENT"]
  /\ \E after \in {DeadRecorder, [rec[r] EXCEPT !.pc = "running"]} :
       rec' = [rec EXCEPT ![r] = after]
  /\ UNCHANGED <<mode, run, account, receipts, observed, lease>>

GiveUpStart(r) ==
  /\ rec[r].pc \in {"prepared", "bound"}
  /\ rec' = [rec EXCEPT ![r] = DeadRecorder]
  /\ UNCHANGED <<mode, run, account, res, receipts, observed, lease>>

EndExecution(r) ==
  /\ rec[r].pc = "running"
  /\ rec' = [rec EXCEPT ![r].pc = "ended"]
  /\ UNCHANGED <<mode, run, account, res, receipts, observed, lease>>

(***************************************************************************)
(* Reconciliation, under a lease per reservation.                            *)
(***************************************************************************)
ClaimReconciliation(w, k) ==
  /\ res[k].status # "NONE" /\ lease[k] = Nobody
  /\ Cardinality({j \in Keys : lease[j] # Nobody}) < MaxLeases
  /\ lease' = [lease EXCEPT ![k] = w]
  /\ UNCHANGED <<mode, run, account, res, receipts, observed, rec>>

ExpireReconciliation(k) ==
  /\ lease[k] # Nobody
  /\ lease' = [lease EXCEPT ![k] = Nobody]
  /\ UNCHANGED <<mode, run, account, res, receipts, observed, rec>>

\* record_observation, called by the recorder that started (observe_result):
\* the first raw result stands, another one blocks.
RecordObservation(w, k) ==
  /\ lease[k] = w
  /\ \E r \in Recorders : rec[r].key = k /\ rec[r].pc = "running"
  /\ res[k].inv # Nobody /\ res[k].status \in {"START_INTENT", "SETTLED"}
  /\ \E raw \in Results :
       IF observed[k] = Nobody
       THEN observed' = [observed EXCEPT ![k] = raw] /\ UNCHANGED account
       ELSE /\ raw # observed[k]
            /\ account' = [account EXCEPT !.blocked = TRUE]
            /\ UNCHANGED observed
  /\ UNCHANGED <<mode, run, res, receipts, lease, rec>>

\* _replay and _record_receipt: under a key that is taken, only a different
\* content does anything, and what it does is to block the account.
WithReceipt(k, x, payload, effect) ==
  IF receipts[k][x] = NoReceipt
  THEN /\ RowCount < MaxRows
       /\ receipts' = [receipts EXCEPT ![k][x] = payload]
       /\ effect
  ELSE /\ receipts[k][x] # payload
       /\ account' = [account EXCEPT !.blocked = TRUE]
       /\ UNCHANGED <<res, receipts>>

Block ==
  /\ account' = [account EXCEPT !.blocked = TRUE]
  /\ UNCHANGED res

Put(k, row, acct) == res' = [res EXCEPT ![k] = row] /\ account' = acct

ReleaseAccountOnly(k, row, acct, status) ==
  Put(k, [row EXCEPT !.status = status],
      [acct EXCEPT !.reserved = [d \in Dims |-> @[d] - row.reserved[d]]])

\* _release: what the reservation still holds returns to the account.
Release(k, row, acct, status) ==
  Put(k, [row EXCEPT !.reserved = Zero, !.status = status],
      [acct EXCEPT !.reserved = [d \in Dims |-> @[d] - row.reserved[d]]])

SettleOnceStopped(k, row, acct) ==
  IF row.stop THEN Release(k, row, acct, "SETTLED") ELSE Put(k, row, acct)

SettleIfConfirmed(k, row, acct) ==
  IF row.stop /\ row.final THEN Release(k, row, acct, "SETTLED") ELSE Put(k, row, acct)

Given(report) == {d \in Dims : report.vals[d] # Missing}

DeltaAlways(row, report, d) == IF d \notin Given(report) THEN 0 ELSE report.vals[d]

Delta(row, report, d) ==
  IF d \notin Given(report) THEN 0
  ELSE IF mode = "INCREMENTAL" THEN report.vals[d]
  ELSE Max({0, report.vals[d] - row.consumed[d]})

\* What record_usage refuses to apply, and blocks the account for.
InvalidUsage(row, report) ==
  \/ ~report.metered
  \/ row.status \in {"RESERVED", "RELEASED"}
  \/ /\ mode = "CUMULATIVE"
     /\ \E d \in Given(report) :
          \/ report.final /\ report.mark < row.mark[d]
          \/ report.mark >= row.mark[d] /\ report.vals[d] < row.consumed[d]
          \/ report.mark <= row.mark[d] /\ report.vals[d] > row.consumed[d]

TransferAll(held, delta) == delta

\* The part of a charge that its reservation covers.
Transfer(held, delta) == Min({held, delta})

ApplyUsage(k, report) ==
  LET row == res[k]
      delta == [d \in Dims |-> Delta(row, report, d)]
      moved == [d \in Dims |-> Transfer(row.reserved[d], delta[d])]
      charged ==
        [row EXCEPT !.consumed = [d \in Dims |-> @[d] + delta[d]],
                    !.reserved = [d \in Dims |-> @[d] - moved[d]],
                    !.mark = [d \in Dims |-> IF d \in Given(report) /\ mode = "CUMULATIVE"
                                             THEN Max({@[d], report.mark}) ELSE @[d]],
                    !.final = @ \/ (report.final /\ Given(report) = Dims)]
      suspect == \E d \in Given(report) :
        \/ charged.consumed[d] > row.granted[d]
        \/ row.final /\ delta[d] > 0
  IN SettleIfConfirmed(k, charged,
       [consumed |-> [d \in Dims |-> account.consumed[d] + delta[d]],
        reserved |-> [d \in Dims |-> account.reserved[d] - moved[d]],
        blocked |-> account.blocked \/ suspect])

RecordUsage(w, k, x) ==
  /\ lease[k] = w
  /\ \E report \in Reports :
       WithReceipt(k, x, [kind |-> "USAGE", report |-> report],
                   IF InvalidUsage(res[k], report) THEN Block ELSE ApplyUsage(k, report))
  /\ UNCHANGED <<mode, run, observed, lease, rec>>

\* The evidence that an execution has stopped is external; it is taken to be
\* true of the executor that connected.
Stopped(k) == \A r \in Recorders : rec[r].key = k => rec[r].pc # "running"

ConfirmStopped(w, k, x) ==
  /\ lease[k] = w /\ Stopped(k)
  /\ receipts[k][x] = NoReceipt => res[k].status \in {"START_INTENT", "SETTLED"}
  /\ WithReceipt(k, x, [kind |-> "STOP"],
                 SettleIfConfirmed(k, [res[k] EXCEPT !.stop = TRUE], account))
  /\ UNCHANGED <<mode, run, observed, lease, rec>>

ReleaseUnstarted(w, k, x) ==
  /\ lease[k] = w
  /\ receipts[k][x] = NoReceipt =>
       ~account.blocked /\ res[k].status \in {"RESERVED", "RELEASED"}
  /\ WithReceipt(k, x, [kind |-> "UNSTARTED"], Release(k, res[k], account, "RELEASED"))
  /\ UNCHANGED <<mode, run, observed, lease, rec>>

MarkUnverifiable(w, k, x) ==
  /\ lease[k] = w
  /\ WithReceipt(k, x, [kind |-> "UNVERIFIABLE"], Block)
  /\ UNCHANGED <<mode, run, observed, lease, rec>>

BudgetNext ==
  \/ NextAttempt \/ ReserveGroup
  \/ \E r \in Recorders :
       \/ ReservePrimary(r) \/ PrepareChild(r) \/ BindInvocation(r)
       \/ StartExecution(r) \/ GiveUpStart(r) \/ EndExecution(r)
  \/ \E k \in Keys :
       \/ ExpireReconciliation(k)
       \/ \E w \in Reconcilers :
            \/ ClaimReconciliation(w, k) \/ RecordObservation(w, k)
            \/ \E x \in ReceiptKeys :
                 \/ RecordUsage(w, k, x) \/ ConfirmStopped(w, k, x)
                 \/ ReleaseUnstarted(w, k, x) \/ MarkUnverifiable(w, k, x)

BudgetSpec == BudgetInit /\ [][BudgetNext]_budgetVars

(***************************************************************************)
(* Properties.                                                              *)
(***************************************************************************)
Rows ==
  [status : Live \cup {"NONE", "SETTLED", "RELEASED"}, attempt : Attempts \cup {0},
   parent : Keys \cup {Nobody}, granted : [Dims -> Nat], reserved : [Dims -> Nat],
   consumed : [Dims -> Nat], mark : [Dims -> Nat \cup {-1}],
   inv : Invocations \cup {Nobody}, owner : Recorders \cup {Nobody},
   stop : BOOLEAN, final : BOOLEAN]
RecorderStates ==
  [pc : {"idle", "prepared", "bound", "running", "ended", "dead"},
   key : Keys \cup {Nobody}, attempt : Attempts \cup {0}, inv : Invocations \cup {Nobody}]

\* Balances, watermarks and rows stay within their columns: in particular no
\* balance of the account or of a reservation ever becomes negative.
BudgetTypeOK ==
  /\ mode \in {"INCREMENTAL", "CUMULATIVE"}
  /\ run \in Nat
  /\ account \in [consumed : [Dims -> Nat], reserved : [Dims -> Nat], blocked : BOOLEAN]
  /\ res \in [Keys -> Rows]
  /\ observed \in [Keys -> Results \cup {Nobody}]
  /\ lease \in [Keys -> Reconcilers \cup {Nobody}]
  /\ rec \in [Recorders -> RecorderStates]

\* The account always equals the sum of its reservations, in both columns and
\* every dimension: the consistency test of _ledger, which would otherwise
\* lock the Run out of its own budget, never fails.
LedgerBalances ==
  \A d \in Dims :
    /\ account.consumed[d] = Total([k \in Keys |-> res[k].consumed[d]], Keys)
    /\ account.reserved[d] = Total([k \in Keys |-> res[k].reserved[d]], Keys)

\* An account that is not blocked for reconciliation has never promised or
\* spent more than the policy's limit, whatever children ran in parallel and
\* however late, duplicated or cumulative their usage reports were.
NoSilentOverrun ==
  ~account.blocked =>
    \A d \in Dims : account.consumed[d] + account.reserved[d] <= Limit[d]

\* A reservation connects to the model at most once, whichever recorders were
\* prepared for it and whatever answers were lost; one that connected was not
\* returned as unstarted; and no two primary executions of the Run overlap.
StartedOnce ==
  LET connected(k) == {r \in Recorders : rec[r].key = k /\ rec[r].pc \in {"running", "ended"}}
  IN /\ \A k \in Keys : Cardinality(connected(k)) <= 1
     /\ \A k \in Keys : connected(k) # {} => res[k].status \in {"START_INTENT", "SETTLED"}
     /\ Cardinality({r \in Recorders : rec[r].pc = "running" /\ rec[r].key \in Attempts}) <= 1

\* While the account is not blocked, what a reservation has consumed is what
\* its distinct receipts say: their sum, or the highest reading of a
\* cumulative meter. A repeated report is never charged twice.
UsageMatchesReceipts ==
  LET usage(k, d) == {x \in ReceiptKeys : /\ receipts[k][x].kind = "USAGE"
                                          /\ d \in Given(receipts[k][x].report)}
      value(k, d, x) == receipts[k][x].report.vals[d]
  IN ~account.blocked =>
       \A k \in Keys, d \in Dims :
         res[k].consumed[d] =
           IF mode = "INCREMENTAL"
           THEN Total([x \in usage(k, d) |-> value(k, d, x)], usage(k, d))
           ELSE Max({0} \cup {value(k, d, x) : x \in usage(k, d)})

\* The ledger of a Run's budget can be trusted: it balances, it is never
\* exceeded in silence, each execution starts once and each report counts once.
BudgetIsKept == LedgerBalances /\ NoSilentOverrun /\ StartedOnce /\ UsageMatchesReceipts
=============================================================================
