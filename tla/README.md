# A TLA+ model of SkillMind

SkillMind (`SKM/backend`, `SKM/web`) runs AI agents on tasks. An administrator
turns an uploaded Skill into a published task; a user, a schedule or an API client
starts the task as a **Run**; a Worker executes it with an agent engine; the agent
reads documents and remote systems, may ask a question or propose a change to an
external system; the answer, the approval or the outcome of the change continues
the Run; the browser follows it. Everything durable is in PostgreSQL, files are in
object storage and on the Worker's disk, jobs travel through Redis (arq), and
several API, Worker and maintenance processes act on the same rows. This directory
models that machinery, checks it with TLC and proves the core of it with TLAPS.

Paths below are relative to `src/SKM/backend/src/skillmind/` (`web/` to
`src/SKM/web/src/`). `PROJECT.json` has the lines every definition stands for.

## 1. Inventory

| Part | State it keeps | Operations | Hard behaviour |
|---|---|---|---|
| Run aggregate (`runs/repository.py`, `repository_base.py`, `capacity_retry.py`) | Run, RunSegment, RunAttempt with lease, AgentSession, events, outbox | create, cancel, claim, prepare, append event, finalize, heartbeat, exhaust retries, recover expired Attempts | duplicate jobs, dead Workers, leases reclaimed while the owner is slow, cancellation racing a result |
| Questions (`runs/repository_interactions.py`) | UserInteraction | suspend, respond, expire | answer against deadline, answer to a cancelled Run |
| Effect aggregate (`runs/repository_effects.py`, `effects/outcomes.py`, `effects/service.py`) | ChangeProposal, ChangeApproval, EffectExecution with lease, ToolCall, inline ownership | propose, decide, expire, claim, authorize step, heartbeat, finalize, detach, recover | writes whose outcome is unknown, a second job, an inline call whose parent dies |
| Effect providers (`effects/*_provider.py`, `repository_effect.py`, `postgres_native.py`, `agent/repository_client.py`) | the remote system | look, write, look back, report | a lost answer, an older attempt still on its way, somebody else's change |
| Desktop and lookups (`agent/mcp_lease.py`, `effects/reconciliation_*.py`) | endpoint lease, lookup request with lease | call, read back, release; request, claim, finish, expire | a desktop given to the next Run while the last call is in doubt |
| Executors (`worker/executor.py`, `worker/effects.py`, `worker/inline_effects.py`) | the claim a process holds | run an engine, run a provider, map the end to a target | crash at any line, time-outs |
| Agent engines (`agent/claude*.py`, `codex_*.py`, `session_store.py`) | turn, deferred call, transcript | start, defer, interrupt, end, resume | several tasks on one event loop, lost interrupts, replayed calls |
| Tool gateway, sub-agents (`agent/tool_gateway.py`, `tool_sequence.py`, `subagent_provider.py`) | ToolCall rows, leases in memory, branches | authorize, dispatch, record, replay; fan out, judge, record | a call delivered twice, a Worker without its claim, branches side by side |
| Inputs and workspace (`agent/workspace_*.py`, `artifact_append.py`, `runs/repository_inputs.py`) | generation directories, receipt, files, artifacts | prepare, seal, publish, reuse; read, edit, append, search | a half-made copy, two writers of one file |
| Run context, continuation, result (`agent/context_builder.py`, `runs/proposal_continuation.py`, `agent/model_result.py`) | permission snapshot, lineage of calls, result | freeze, resolve, bind; record, decide, load, tell; complete, check, save | the deployment moves while a Run waits; rows of failed attempts in between |
| Outbox, queue, sweeps (`worker/settings.py`, `runs/outbox.py`) | outbox rows, Redis jobs | relay, deliver, warm continuation, recover leases, questions, effects, proposals | at-least-once delivery, overlapping sweeps |
| Schedules (`schedules/`) | TaskSchedule, occurrences with fence tokens | create, edit, pause, resume, archive; claim due, recover, fire, settle | double firing, overlap, catch-up, changing clocks |
| Budgets (`runs/budget*.py`, `repository_budgets.py`, `worker/primary_budget.py`) | account, reservations, receipts | reserve, start, record, settle, reconcile | parallel reservations, replayed receipts, lost commits |
| Skills (`skills/`, `compositions/`) | sources, interpretation requests and calls, designs, versions, enablement, modules | import, interpret, repair, adjust, draft, publish, enable, withdraw | one-shot model calls with late answers, expiring sessions |
| Task admission (`api/routes/runs.py`, `runs/service.py`, `integrations/`) | idempotency keys, Integrations, bindings | resolve, select, create; edit, bind | reads without locks before the commit |
| Documents (`documents/`, `effects/document_*.py`, `runs/history_*.py`, `storage/`) | uploads, documents, folders, cleanup rows, objects | admit, put, publish, move, trash, delete, clean up | two stores, no common transaction |
| Users, projects (`users/`, `auth/`, `projects/`) | users, sessions, API keys, members | log in, edit, disable, revoke, delete | rights that change between two checks |
| Progress, evaluations, browser (`api/routes/realtime.py`, `evaluations/`, `web/hooks/`) | ledger, buffer, streams, pending requests | publish, replay, follow, submit, confirm, clear | lost and late answers, reloads, reconnects |

How they interact. A service method is one transaction that locks the Run row
first, then Segment, Attempt, proposal and effect. It changes the rows and adds
outbox messages in the same commit. The relay turns messages into jobs. A job
claims the Run or effect under a lease (a random token whose hash is stored),
works outside any transaction, and comes back with `finalize_*`, which checks the
token and the lease. A maintenance cron every 15 seconds takes back what expired.
The effect's transactions also move the Run. Schedules, interpretation requests,
lookups and budget reconciliation have rows and leases of their own and the same
pattern. Services with users in front lock the organization, project or version
row; reads that are not under those locks are separate steps in the models.

What makes each part correct is what section 3 lists as its properties. The
hazards, each at its line and with the properties that catch it, are in
`PROJECT.json`.

## 2. Modules

| Module | Models |
|---|---|
| `AbstractRun` | `ALLOWED_RUN_TRANSITIONS` and `plan_run_transition` of `runs/domain.py`: what readers of `Run.status` are promised |
| `RunLifecycle`, `RunLifecycleProofs`, `RunWaitsProofs` | the Run aggregate, questions, outbox relay, queue, Worker job, sweeps; the effect kept to four states; its theorems |
| `RunSweepOverlap` | `RunLifecycle` with `recover_expired_attempts` split at its lock |
| `EffectLifecycle`, `EffectLifecycleProofs` | one effect in full, with its jobs, its remote system and what it does to its Run; its theorems |
| `EffectClaimOverlap` | `EffectLifecycle` with `claim_effect_execution` split at its lock |
| `RunBudget`, `BudgetProofs` | account, reservations of primary and child executions, the one-use start gate, receipts, observations, reconciliation leases; its theorems |
| `ScheduleOccurrences`, `Cron`, `ServiceProofs` | a schedule, its occurrences with lease and fence, the workers that fire them; cron expressions over a small calendar and a zone whose clock jumps; their theorems |
| `SkillSources` | selection, reference closure, storage and reload of an uploaded Skill |
| `SkillInterpretation`, `ServiceProofs` | interpretation requests, the two granted calls of the model, the sweep, the session behind every transaction; their theorems |
| `SkillDesign`, `ServiceProofs` | compilation, gates, repair, adjustment, publication and projection of a task; their theorems |
| `SkillCatalog`, `Integrations`, `TaskAdmission`, `ServiceProofs` | versions and modules; Integrations and bindings by revision; starting a task, which composes the two; their theorems |
| `Accounts`, `Projects`, `ServiceProofs` | users, sessions, API keys; a project, its members and its deletion; their theorems |
| `RunContext`, `ToolCallProofs` | the permission snapshot, the tools of an attempt, the brief, the connection a call reaches; their theorem |
| `CodexSession`, `ClaudeSession`, `AgentProofs` | the segments of a Run on each engine; theorems about its segments and its answers |
| `ProposalContinuation`, `AgentProofs` | how a deferred call is recorded, decided and told to a later attempt; its theorems |
| `RunResult`, `AgentProofs` | completion, checks and saving of a result; its theorems |
| `RunProgress`, `AgentProofs` | ledger, delta buffer, SSE streams and page reads; their theorems |
| `Evaluations`, `WebRequests`, `AgentProofs` | evaluations with their page; starting a Run, answering, deciding from a tab; their theorems |
| `ProjectDocuments`, `ExecutionProofs` | uploads, documents of effects, folders, recycle bin, deletion, cleanup, Run histories; their theorems |
| `RunInputs`, `RunFiles` | the frozen input of a Run on disk; the files of its workspace and its artifacts |
| `ToolCalls`, `Subagents`, `ToolCallProofs` | the tool gateway; one call that starts branches, which extends it; their theorems |
| `WriteProviders`, `ExecutionProofs` | Git, Subversion, HTTP, native SQL, structured rows and Redmine over repeated attempts; their theorems |
| `McpDesktop`, `EffectReconciliation`, `ExecutionProofs` | calls on a desktop under its lease; read-only lookups of their outcome, which composes the two; their theorems |
| `SourceReads` | the read-only tools: what a read checks, which earlier row it rests on or is answered from, pages of a directory |
| `MCTaskService`, `MCAgentRun`, `MCExecution`, `MCRunBudget`, `MCLibraryPaths` | instances for TLC |

Each module opens with a comment that says which files it stands for and what it
abstracts. The convention is the same throughout: variables are columns, except
where a comment calls them memory of a process; a transaction is one step unless
the code reads before the lock it commits under, in which case the read and the
commit are two; requests, answers and requests in flight are variables of their
own; what a remote system, the model runtime or the operating system does is an
action marked external in the map.

Three modules put parts side by side: `MCTaskService` (users, projects, schedules,
skills, admission), `MCAgentRun` (context, engines, continuation, result, progress,
browser) and `MCExecution` (library, inputs, workspace, tool calls, branches,
reads, writes, desktop). These parts share no row. Their product would only repeat the
states of each, so the constant-in-a-behaviour variable `moving` names the one
that moves and the states add up. Parts that do share rows are composed in a
module of their own: `TaskAdmission` (catalogue and Integrations),
`EffectReconciliation` (lookups and desktop), `RunLifecycle` (Run, questions,
effects, outbox), `EffectLifecycle` (effect, jobs, Run). `Evaluations` is explored
in two halves, submission and history, which meet only in the stored rows;
`McpDesktop` alone with a cancellation and one of that one (`desktop`), or with the
lookups beside it and no cancellation (`lookups`; the theorem has both at once);
`WebRequests` per hook; `RunProgress` per reader (event stream, page, watch of an
interpretation).

### RunLifecycle and the code

A Segment is `<<run, segment_no>>`, an Attempt `<<run, segment_no, attempt_no>>`.
A dispatch message is named by the Attempt it will cause. Every variable is a
column (see the comments at VARIABLES) except `worker`, what a live process
believes it has claimed, and `queue`, the jobs in Redis.

| Action | Code |
|---|---|
| `CreateIdempotent` | `create_idempotent` |
| `RequestCancellation`, `CancelQueued`, `CancelWaiting` | the three ways through `request_cancellation` |
| `RelayOutbox`, `RelayCrash` | `relay_once`; the process dies between publish and commit |
| `ClaimForExecution`, `ExhaustRetries`, `IgnoreDispatch` | `execute_run` and `claim_for_execution`, by outcome |
| `WarmContinuation` | the loop of `execute_run` that goes on after an applied effect |
| `PrepareExecution`, `AppendAgentEvent`, `HeartbeatAttempt` | methods of the same name |
| `SuspendForInteraction`, `SuspendForProposal`, `SuspendForApprovedProposal`, `BeginInlineEffect` | `suspend_for_interaction`, `suspend_for_proposal` by approval source |
| `FinalizeExecution`, `DetachInline`, `InlineReceipt` | `finalize_execution`, `detach_inline_effect`, `inline_receipt` |
| `RecoverExpiredAttempt`, `RecoverInline`, `ExpireInteraction`, `ExpireProposal`, `CloseStaleProposal` | the sweeps of `recover_expired_leases` |
| `RespondToInteraction`, `ApproveProposal`, `RejectProposal` | `respond`, `decide_change_proposal` |
| `ClaimEffect`, `RequeueEffect`, `SettleEffect`, `SettleInlineEffect` | the effect as its Run sees it |
| `EndJob`, `LoseWorker`, `ElapseLease`, `RetryDue`, `DeadlinePasses` | environment |

Abstractions: a lease is the number of heartbeat intervals left; deadlines are
booleans; event and result contents, checkpoints and sequence numbers are left
out. While an inline effect is unresolved the agent is inside its tool call, so
`MaySuspend` excludes it. The feature switches (`worker_dispatch_enabled`, effect
features) are on.

### EffectLifecycle and the code

`effect`, `proposal` and `toolCall` are the three status columns, `error` and
`retryable` are `error_json`, `holder`/`lease`/`tries` the effect's lease columns
and attempt number, `phase`/`parent` the inline ownership. `job` is how far each
process is, `inflight` the write requests that may still land and `remote` whether
the external system has performed the write. The write carries an idempotency key,
so performing it twice is one write. A *supervised* provider gets its authority
checked before the write and its failures treated as unknown unless it proves
otherwise; `supervised` is chosen in Init. `bound` says whether the Integration
still has the revision the Run was bound to. A provider's definite answer that
nothing was written is believed; for HTTP this includes a response other than 2xx,
which the code hands to the agent to evaluate.

### SourceReads and the code

`readCall` is the ToolCall rows of the read-only tools with their Evidence, in the
order they were inserted; a row keeps the credential its provider resolved, the
version it got, when, whether the binding stood then, and which row read the source.
`cite` is the evidence an argument names, `of` the failed read it corrects. The
database providers, HTTP, MCP and the library check the binding before they ask and
before they publish; native SQL checks inside its transaction; Redmine and
repositories check before only, and a repository compares the revision. A document's
content is 1 as the Run froze it; `source.puts` are the objects written to its place
and `source.listed` is the content its row speaks of. `readSegment` is the brief of
the current segment with the structures shown in it, `listing` one directory followed
from page to page. Queries, paths, filters and payloads are left out, so are the
limits on their size.

## 3. Runs

All runs set `CHECK_DEADLOCK FALSE`: a Run, request or occurrence that ended has
nothing left to do.

| Run | Instance | Distinct states |
|---|---|---|
| `RunRetries` | 1 Run, 2 Workers, 1 Segment, 3 Attempts, lease 1 | 178 thousand |
| `RunWaits` | 1 Run, 2 Workers, 2 Segments, 1 Attempt, lease 2 | 23 thousand |
| `EffectOutcomes` | 2 jobs, 3 attempts, lease 2 | 232 thousand |
| `RunBudget` | 2 attempts, 2 children, 2 recorders, 2 invocations, 1 reconciler, 2 dimensions, symmetric | 327 thousand |
| `TaskService` | 2 schedulers over 4 minutes of a 2-hour day; 2 requests and 2 jobs of one source; 2 callers of one key; 2 users, 2 sessions; one upload of 6 files; 23 candidate designs | 1.0 million |
| `AgentRun` | 2 calls, 2 turns, 2 segments (Codex), 2 uses, 3 segments (Claude); 5 task definitions, 2 connections, 2 choices of documents; 2 proposals (artifacts beside one of them only); 3 events; 2 keys, 3 sends | 1.6 million |
| `Execution` | 1 upload, 1 document effect, 2 Runs (the one without an effect is not put in the bin); 4 tool uses; 8 providers, 2 attempts; 4 desktop calls (two cancel the call before) with 2 attempts, 1 lookup; 3 documents, 2 repository files, 3 attempts; 3 file calls; 2 branches; 6 sets of read tools with 2 or 3 calls, 3 documents in pages of 1 | 1.8 million |
| `RunSweepOverlap` | 2 Workers, 2 Attempts, 1 interruptible sweep | finding 1 |
| `EffectClaimOverlap` | 2 jobs, 2 attempts | finding 2 |
| `EffectStranded` | 2 jobs, 2 attempts | finding 3 |
| `LibraryPaths` | 2 uploads | finding 4 |
| `SvnOverwrites` | 1 attempt, 1 outside commit | finding 5 |

What the passing runs check. A name in brackets is a part of the property.

* `RunRetries`: `AtMostOneExecutor`; `ExecutionOwnership` (Run and Attempt rows
  agree on who executes); `WakeupPending` (a Run that needs a Worker has a message
  for one); `SessionsResume` [no ACTIVE session left behind by an Attempt that
  ended; a capacity retry finds the session it resumes]; `HistoryIsFinal` [a
  finished Attempt and a terminal Run are not rewritten]; `ExecutionEnds`.
* `RunWaits`: `WaitsFollowRun` [the newest Segment follows the Run; a wait has
  something that can end it, and nothing else is open]; `CancellationWins`;
  `ImplementsAbstractRun` (refinement of `AbstractRun`, by `INSTANCE ... WITH`);
  `EveryWaitEnds` [waits end, cancellation completes].
* `EffectOutcomes`: `RowsAgree`; `HonestContinuation` (after a write that may have
  happened the agent is not told that it did not); `EffectWakeup`;
  `OutcomeWrittenOnce`; `LeaseNotStolen`; `EffectEnds`.
* `RunBudget`: `BudgetIsKept` [account and reservations balance; an overrun blocks
  the account; no execution starts twice although a commit's answer is lost; what
  is consumed is what the receipts say, cumulative or incremental, each once].
* `TaskService`: `SchedulesAreKept` [run limit; no overlap; an active schedule has
  a next instant; a claimed candidate belongs to the definition; a due instant that is
  skipped is counted as missed, up to the limit of one count]; `AdmissionIsSound` [one model call of a request at a time; an outcome has
  its stored interpretation; a version a Run or schedule uses is kept; a deleted
  project leaves nothing behind]; `AccountsAreSafe` [an active administrator
  remains; a live session has the rights its user has now]; `SkillsAreSound` [a
  stored source loads again; a package is whole and holds nothing of another Skill;
  a published design passes its gates]; `RecordsOnlyAdvance` [occurrences only
  move on; a settled request stays so; a caller is refused only if its key has no
  Run].
* `AgentRun`: `EnginesResume` [a parked Run resumes its call; an interrupt reaches
  its turn; a changed checkpoint is told; the mirrored transcript is in order];
  `AnswerNotAskedAgain`; `ContextIsFrozen` [an admitted Run can be started, with no
  more tools than it was admitted with, on the connections as they were];
  `ProposalsAreTold` [a continuation finds the outcome of its call; a recorded
  proposal stays valid; what was told stays told; a saved result is true; a
  settled write can be reported]; `ProgressIsTrue` [a client follows the ledger
  without gap or repetition; deltas are fresh; a page of a finished Run has its
  result; an outcome is announced from the row]; `PageIsTrue` [a submission is
  settled as the server settled it; the history shows each evaluation once; a tab
  knows the fate of its request or says that it does not].
* `Execution`: `LibraryIsSound` [a document has its object; an object is published
  or will be cleaned up; the quota counts each byte once]; `CallsAreSound` [a tool
  use is dispatched once; its answer is the recorded one; steps stay in their
  limits; a dispatch of branches is whole]; `WritesAreTrue` [an approved write
  happens at most once and is reported as what happened]; `DesktopIsSound` [one
  call on the desktop, beside its cancellation and what a second cancellation gave up; a lookup reports what became of the call];
  `WorkspaceIsTrue` [all attempts see one input; an artifact is the file it names;
  a search says what it left out; a read is of what it says it read]; `StepsAreCareful` [a lookup ends once; an edit
  that names the content it replaces replaces no other].
* One type invariant in each of the runs but `RunWaits`, whose module is that of
  `RunRetries`. They hold the limits the code enforces (attempts, claims, steps,
  artifacts, ledger amounts).

Why the bounds are enough. Runs share only Workers, so one Run and two Workers
show every conflict over one Run (the theorems hold for any number). Three
Attempts allow a crash, a capacity retry and an exhaustion in one behaviour and
meet `CAPACITY_MAX_ATTEMPTS = 3`; two Segments allow a wait and what follows it;
the lease of two intervals in `RunWaits` lets a heartbeat come in time or not.
With two jobs one can be slow while the other owns the effect; three attempts give
a first, a middle and a last one. The schedule's day has two one-minute hours, and its zone
skips a local minute and shows one twice within the horizon; limits of one or
two attempts, edits and runs are reached and passed. Every race of `TaskService`
and `AgentRun` is between two actors over one row, so two of each suffice. In
`Execution` an input takes three attempts to be made, reused and refused; the
limits on files, bytes and artifacts are set below what the actors can produce, so
each is met. A correction takes a failed read, the look at the structure and its
competitor; every other tool of `SourceReads` rests on at most one earlier call, so
three calls, or two and one change from outside, show what can go wrong (two changes
for a listing: a document goes and another comes). `MaxSegments`, `MaxTurns`, `MaxSends`, `MaxPosts`, `MaxBuilds`,
`MaxRevisions`, `MaxOutside`, `MaxEdits`, `ReadBounds`, `MaxConnects`, `MaxDesigns` and the
`...Version` constants are bounds of the model only.

### Fairness

`RunLifecycle!Fairness`: time passes; the relay and the sweeps are cron jobs; a
live Worker finishes or loses its lease (the engine has a wall-clock limit and arq
a `job_timeout`); a published job is not passed over for ever (strong fairness,
because Workers become free and busy again; the queue is ordered by time). Nobody
has to answer, approve, reject or cancel, a Worker need not survive, and a job
need not be delivered twice. Weak fairness of `EffectSettles` is the promise
`EffectEnds`, checked in `EffectOutcomes`: it holds as long as the Integration is
not edited (finding 3 is the exception).
`EffectLifecycle!FairSpec`: time, the sweep, delivery of a published job, and the
end of a job by its time-out. A success is never assumed. The other modules state
no fairness; their properties are safety.

### Findings

1. `recover_expired_attempts` re-reads its candidate behind the lock without
   `populate_existing`, so its re-check cannot see that another sweep was faster.
   A Run that has been claimed again is moved to `RETRY_PENDING` under its new
   Attempt. It needs two overlapping sweeps (the cron starts every 15 s and may
   run for 30 s, and more than one maintenance process may exist).
2. `claim_effect_execution` has the pattern of finding 1: a claim that waited for
   the lock can take a live lease. The first attempt is protected by the unique
   index on ToolCalls, later ones are not.
3. An Integration edited (even renamed) between approval and claim makes the claim
   raise. The message is used up and no sweep looks at `REQUESTED` effects, so the
   Run waits past the deadline of its proposal until somebody cancels it.
4. Two uploads admitted at once may publish a file and a file below a folder of the
   same path: `path_reserved` compares exact paths of pending uploads only, and
   `path_conflicts`, which knows better, looks at published rows.
5. A direct Subversion write checks its working copy out at HEAD, not at the base
   revision of the proposal as its comment says, so it replaces what somebody
   committed in between instead of being refused as out of date.

Smaller disagreements, seen while modelling and without a run of their own:

* A branch may be given `workspace.edit/v1` (`agent/subagent_provider.py:328`,
  `skills/resource_binding.py:162`), while `agent/subagent.py:3` calls branches
  read-only: `Subagents` lets such a branch change a file (`wrote`).
* `worker/executor.py` still maps a deferred session to `WAITING_PERMISSION`,
  which `runs/domain.py` calls a status kept to read old rows. Only a cancellation
  leads out of it.
* Cancelling a Run whose effect waits to be tried again after an unknown outcome
  overwrites the unknown mark with `run_cancelled` (`runs/repository.py:493`).
* After its last permitted claim is lost a pending occurrence is not claimed again
  and keeps its schedule from firing; `ScheduleOccurrences` takes this as intended.
* Some Runs are admitted and then refused at every attempt: of a task with document
  prerequisites when the user gave it a document that no slot prepares on demand
  (`agent/context_builder.py:159`; `create_task_run` does not look at prerequisites), of
  a described Skill that requires a tool above its own profile, and a few more. They are
  those of `~Startable` in `RunContext`; two of the definitions of `AgentRun` have such
  Runs, and `AdmittedRunStarts` says that the others start and these never do.

* A cancellation may be cancelled in turn: `require_original_effect`
  (`agent/mcp_lease.py:158`) and `effects/proposal_evidence.py:36` ask only that the
  cancelled call is one of the same Run. The row of the desktop names one call, so the
  second cancellation makes it forget the first call while that may still be running, and
  the next Run gets the desktop beside it, although `acquire` (line 110) promises to hand
  it over only once the call at the remote end is confirmed. `McpDesktop` calls such a call
  `Forsaken`; the calls `c1`, `c3`, `c4` of `Execution` are such a chain, and without the
  two disjuncts on `Forsaken` in `OneCallOnDesktop` that run finds two calls under way
  at one desktop of which neither cancels the other, also of two Runs.

The atomic models (`RunLifecycle`, `EffectLifecycle`) contain the claim and the
sweep as single steps: their properties hold for the code with findings 1 and 2
repaired, or when the two halves are not interleaved.

## 4. Proofs

The theorems hold for every value of the constants that the named assumptions of
the modules allow; the runs of section 3 show the same properties on one instance.
Each proof has the same shape: an inductive invariant, one lemma per action (or
group of actions of one shape) that it is kept, and the property read off it. What
follows says what the invariants contain beyond the property, and why they must.

### Runs (`RunLifecycleProofs`, `RunWaitsProofs`)

For any sets of Runs and Workers and any positive bounds (`BoundsAssumption`,
`IdleAssumption`):

* `Inductive`: `Spec => []IInv` with
  `IInv == TypeOK /\ Numbering /\ ExecutionOwnership`;
* `TypeCorrect`: `Spec => []TypeOK`, which contains the limit on Attempts;
* `Ownership`: `Spec => []ExecutionOwnership`;
* `OneExecutor`: `Spec => []AtMostOneExecutor`;
* `Refinement`: `Spec => ImplementsAbstractRun`;
* `WaitsInductive`: `Spec => []KInv` with
  `KInv == IInv /\ \A r \in Runs : RunKept(r)`;
* `WakeupIsPending`, `SessionsAreResumed`, `WaitsAreBacked`, `CancellationIsKept`:
  `Spec => []WakeupPending`, `[]SessionsResume`, `[]WaitsFollowRun`,
  `[]CancellationWins`;
* `HistoryIsKept`: `Spec => HistoryIsFinal`.

`AtMostOneExecutor` speaks of Workers, and no single guard gives it: a claim checks
rows, not Workers. `ExecutionOwnership` says that an active Attempt is the newest of
the newest Segment and agrees with `Run.status`, so two active Attempts of a Run are
the same one (`ActiveIsUnique`). That alone is not inductive. A claim makes the next
Attempt, so the Attempts above `tries` must not exist yet; a continuation makes the
next Segment, so the ones above `segno` must have no Attempts and a waiting Run must
have room for one; and two Workers must not hold the same Attempt, which holds
because each claim makes a fresh one. `Numbering` collects these facts. There is one
lemma per group of actions, with `LeavesExecution`, `ReleaseKeeps`, `ContinueKeeps`
and `NewAttemptKeeps` for the four shapes of a step. `Refinement` needs `IInv` for
`RecoverInline` and for `DetachInline`, where two transitions are made in one commit.

`RunKept` is `SegmentsKept /\ WaitsKept /\ AttemptsKept /\ WakeupKept`. The four need
each other: the message that wakes a Run is the one of its next Attempt only if no
older Segment is open; a question is open only in the Segment the Run waits in; a
retry finds a session to resume only if the Attempt before it ended the way its status
says. What makes the proof short is a fact about the code: every transaction locks one
Run row and writes below it. So each action is shown to serve one Run (`Serves`) and to
leave every other untouched (`Untouched`, `EveryStepServes`), and `RunKept` is proved
for the one Run alone.

### Effects (`EffectLifecycleProofs`)

For any set of jobs, attempt limit and lease length (`EffectAssumption`), with
`IInv == TypeOK /\ RowsAgree /\ EffectOwnership /\ LedgerKnows /\ EffectWakeup`:

* `EffectInductive`: `Spec => []IInv`, and from it `EffectTypeCorrect`,
  `EffectRowsAgree` and `EffectIsFetched` (`EffectWakeup`);
* `EffectHonest`: `Spec => []HonestContinuation`;
* `EffectWrittenOnce`: `Spec => OutcomeWrittenOnce`;
* `EffectLeaseKept`: `Spec => LeaseNotStolen` (for the atomic claim; finding 2 is
  about the split one).

`RowsAgree` is not inductive: `recover_expired_effects` leaves the ToolCall alone when
the cause of a failure is known, so one has to know that an effect applied for a Run
that does not wait belongs to a supervised inline call whose outcome is then unknown.
`EffectOwnership` says so. `HonestContinuation` looks at one moment of a long story: a
request that lands late was sent by a job that may have lost its lease two attempts
ago. `LedgerKnows` keeps what is needed of that story: before the first claim nobody
has sent anything; during the first attempt only the holder can have; a failure with a
known cause leaves nothing written and nobody able to write. It is the reason why
`effect_failure_record` accepts a definite answer only on attempt 1 with no earlier
error.

### Writes to outside systems (`ExecutionProofs`)

For any set of providers, any number of attempts and any changes by others
(`WriteAssumption`):

* `WritesInductive`: `WriteSpec => []WritesKept`;
* `WritesStayTrue`: `WriteSpec => []WritesAreTrue`.

That a write is made once is decided by the target system, possibly long after the
attempt that sent it has died. `WritesKept` relates three parties: which attempt may
still send (`AttemptsKept`), what is on its way (`SentOnce`, for the providers whose
only protection is that they send on attempt 1), and what the target knows
(`TargetKnows`: a receipt, a commit identity, an idempotency key). `ReportIsTrue` adds
that a report of success or of "rolled back" stays true whatever lands later.

### Tool calls and sub-agents (`ToolCallProofs`)

For any uses, digests, sequences, attempts and limits (`ToolAssumption`) and any
branches and shares (`DispatchAssumption`):

* `GatewayInductive`: `ToolSpec => []GatewayKept`;
* `BranchesInductive`: `DispatchSpec => []BranchesKept`, and from it
  `DispatchStaysWhole`: `DispatchSpec => []DispatchIsWhole`;
* `CallsStaySound`: `ToolSpec /\ DispatchSpec => []CallsAreSound`.

No single place of the gateway sees to it that a use is called once: the row, the
lease in the memory of one worker, the set of dispatched uses and the check before the
call each cover a part. `GatewayKept` follows the right to call a use from place to
place. It is made when the row is written, lies in one fresh lease of one worker
(`FreshUses`, `Uniquely`), becomes one claimed call in flight, and is spent when the
provider is called; `RightsKept` says that wherever it is, it is nowhere else. The
dispatched set of the coordinator is not needed for this, but for the other half,
`StepsKept`: what a worker has called and what it may still call are together no more
than the steps it has paid for. `AnswerIsRecorded` is inductive because no step changes
a row that SUCCEEDED.

For a dispatch, a branch is judged only when its stream is closed, so what a COMPLETED
branch cites stays what was checked, while the evidence of a branch can only grow.

### What a Run may use (`ToolCallProofs`)

`ContextStaysFrozen`: `ContextSpec => []ContextIsFrozen`, for any definitions whose slots
have keys of their own and declare known capabilities, and any connections that declare
what their providers have (`ContextAssumption`). Part of it is `AdmittedRunStarts`: in the
deployment that accepted it, a Run starts exactly when it is `Startable`, a condition on
the frozen definition and choice alone:

* a task with document prerequisites requires `document.readiness`, and every document it
  was given is in a slot that prepares on demand (a direct one, or one whose first
  capability is not `document.read`);
* a guided definition declares no platform tool that its profile refuses, and takes no
  checkout;
* each connection was chosen for a slot that declares something to read with, and a chosen
  library comes with an intent;
* what it requires of a tool is resolved by every chosen slot that declares it, or needs no
  connection.

The publish gate and the blueprint compiler demand none of this, so nothing of it is assumed: the
theorem says of every admitted Run which of the two it is. A slot may also declare a read
the connection does not have. The tool is then offered (`bound_tool_sources`), and
only the check of the call (`StillBound`) refuses it, so `ToolsWithinRun` bounds a tool by
what the slot or the connection has, and `CallsUseFrozenRevision` a call by what the
connection had.

The invariant `ContextKept` holds what `create_task_run` has established of the Run it
saves (`RunAdmitted`): for each slot a source that fits it (`SourceFits`), and permissions
that are enabled in the deployment of that time. From this and `Startable` no check of the
builder can fail in that deployment (`AdmittedIsServed`), and when none fails the Run is
`Startable` (`ResolvedIsStartable`). `SourcesRemembered` says that a connection of the
revision that was frozen still has the capabilities of that time. The switches decide which permissions are
enabled, and not what serves an enabled one (`ServedAlike`), so every attempt that is not
refused resolves the same tools and freezes the same brief (`ToolsAlike`), also after
the deployment has changed and changed back. Two tools of one capability belong to two slots, so the
gateway takes what the builder resolved (`ToolsAreKept`).

### Desktop calls and lookups (`ExecutionProofs`)

For any Runs, calls, lookups and attempts (`DesktopAssumption`, `LookupAssumption`):

* `DesktopInductive`: `ReconciliationSpec => []ReconciliationKept`;
* `DesktopStaysSound`: `ReconciliationSpec => []DesktopIsSound`;
* `LookupsAreRight`: `ReconciliationSpec => []LookupIsRight`;
* `LookupsEndOnce`: `ReconciliationSpec => LookupEndsOnce`.

The row of the lease names one call, while the calls under way are at the service. The
invariant ties them: a call under way is the one the row names, or the one that call
cancels. It survives because a call holds the row from the moment it may be sent until
its outcome is known, because the calls of a Run take turns (`OneBusy`), and because a
call that is seen has ended what it cancels (`Covered`).

A cancellation that is cancelled itself breaks this tie for the call that was cancelled
first (section 3): it is `Forsaken`, and so are all calls `Covered` does not speak of. That
is all the code loses: whether two calls run or the row is set free too early, a forsaken
call is one of them. The proof rests on attempts being counted upwards, so that what is
forsaken stays so (`ForsakenStays`), and on a call having begun before it can take the row
from the call it cancels.

### Project documents (`ExecutionProofs`)

For any finite set of documents, any Runs, paths and quota (`LibraryAssumption`):

* `LibraryInductive`: `LibrarySpec => []LibraryKept`;
* `LibraryStaysSound`: `LibrarySpec => []LibraryIsSound`.

Three tables tell of one object: the document, the row its upload or effect left and
the cleanup row. `RowsMatch` lists the combinations there are; `UploadsMatch` and
`OutputsMatch` tie them to what a request or an executor has in hand, which may be a
put that lands after its Run was purged. An output keeps its link to the effect row
exactly while that row says PUBLISHED, and this is what makes the four sums of
`project_usage_bytes` disjoint (`UsageIsTrue`): an object is in one of them, and its
move from one to the next is one transaction.

### Inputs and files of a workspace (`ExecutionProofs`)

For any documents, repository files, limits, attempts and commits by others, and for any
files, tool calls and marks (`FileAssumption`):

* `InputInductive`, `InputsStayOne`: `InputSpec => []InputKept`, `[]AttemptsSeeOneInput`;
* `FilesInductive`, `ArtifactsStayTrue`: `FileSpec => []FilesKept`, `[]ArtifactsAreTrue`;
* `StepsStayCareful`: `ReconciliationSpec /\ FileSpec => StepsAreCareful`, from
  `LookupsEndOnce` and `WritesStayCareful`.

The attempts of a Run see one input because its receipt has one writer: who is in a
preparing phase created the receipt and nobody else writes under it, and a receipt
becomes READY only together with a generation that is whole (`SealingIsComplete`). The
files of a workspace have no such owner: calls of the agent, its sub-agents and an attempt
without lease write side by side. `CallsKnowFiles` therefore says nothing of what a file
holds now, only that a call that has written left its text among those the file has had;
an artifact is one of those. What an edit found is compared again under the lock of the
write, so `CarefulStep` needs no assumption on what happened between its read and its write.

### Budgets (`BudgetProofs`)

For any executions, recorders, reconcilers, reports and limits (`BudgetAssumption`):

* `BudgetInductive`: `BudgetSpec => []BudgetKept`;
* `BudgetTypeCorrect`: `BudgetSpec => []BudgetTypeOK`, where the types are natural
  numbers: the CHECK constraints of the tables are never hit;
* `BudgetStaysKept`: `BudgetSpec => []BudgetIsKept`.

No property of the ledger is inductive alone. A balance cannot become negative because
the account is the sum of its reservations; a charge stays within the limit because a
reservation still holds what was granted and not consumed; and that rests on the
statuses: only a stopped and finally reported execution is settled, only one that never
started is released. Sums over rows are the cardinality of a set of units (`Units`,
`Total` in `RunBudget`), so that a step that changes one row changes the sum by the
difference of two finite sets and no induction is needed.

### Accounts (`ServiceProofs`)

For any users, sessions, requests and number of edits (`AccountAssumption`):

* `AccountsInductive`: `AccountSpec => []AccountsKept`, with `AccountsKept ==
  AccountTypeOK /\ RequestsAreAdmitted /\ LiveSessionsHaveUsers /\ AccountsAreSafe`;
* `AccountsStaySafe`: `AccountSpec => []AccountsAreSafe`.

The two halves of `AccountsAreSafe` need each other. An administrator is never the last
one to be demoted because the one who demotes holds a live session, and a live session
carries the role its user has now. `RequestsAreAdmitted` is about the requests
that passed their route and wait for their service: each names a session, and a user
where the service writes a user row; whether that session still lives is asked again
in the service's transaction.

### Schedules (`ServiceProofs`)

For any workers, definitions, leases, zone and horizon (`CronAssumption`,
`ScheduleAssumption`, `DefinitionAssumption`), in three parts:

* `NextIsFirst`: `next_occurrence` returns the first instant at which an expression
  fires, if the clock runs on (`ClockRunsOn`: what its docstring calls the monotone
  advance in UTC) and the search reaches far enough (`SearchReaches`). The second is a
  real condition: `_MAX_SEARCH_DAYS` is 366 * 4, and 29 February is further away than
  that across the year 2100;
* `SchedulesInductive`: `SchedSpec => []SchedKept`, and from it, with nothing assumed of
  the calendar, `LimitAndOverlapHold`: `SchedSpec => [](RunLimitKept /\ OneRunAtATime /\
  ActiveScheduleGoesOn)` and `OccurrencesOnlyAdvance`: `SchedSpec =>
  OccurrencesAdvance`;
* `InstantsInductive`: `SchedSpec => []InstantsKept`, and from it `SchedulesStayKept`:
  `SchedSpec => [](SearchIsExact => SchedulesAreKept)`.

`SchedKept` states types, what a worker may still hold (`WorkersKept`), that the Runs
are those of the occurrences (`RunsMatch`), that occurrences are numbered in the order
of their instants (`Ordered`), what an edit in flight has read (`EditKept`), that only
the last occurrence can be pending (`LastPending`) and the run limit with the Run a
pending occurrence may still create. Every action is one of seven kinds of step on the
row of the schedule (`SchedStep`); each that touches the row leaves a new
`row_version`, so a claim whose version still matches saw the row as it is. The third
part accounts for instants: while nobody edits, each instant of the definition that
has passed is an occurrence or was skipped, and the skipped ones are counted as missed.
The count of one claim stops at `MissedLimit` (`while missed < 1000` in
`planning.py`), so it is exact only as long as no occurrence has more than that many
skipped instants behind it, and says less than it should otherwise, which
`NoInstantLost` states; with `MissedLimit = 1`, `TaskService` reaches both. It is
proved on a calendar whose search is exact
(`SearchIsExact`); `MCTaskService` assumes so of its own (`CalendarIsExact`), and TLC
evaluates it.

### Admission and skills (`ServiceProofs`)

Five parts of the service, each with its invariant:

* `ProjectInductive`: `ProjectSpec => []ProjectKept`. Beside the rows, `OrdersKnown`: a
  request that passed its route names a user, so a purge or an added member refers to one;
* `AdmissionInductive`: `AdmissionSpec => []AdmissionKept`, for the catalogue, the
  Integrations and the callers of `create_task_run`, and `RefusedHonestly`. A version
  is published only with a passed report (`PublishedPassed`), and what refers to a
  version - Run, module, enablement - is compared before it is deleted;
* `SkillsInductive`: `SkillSpec => []AsksKept`, and from it `RequestsStaySettled`. A row
  stays with the worker that claimed it, so a slot that calls the model has the last
  call granted to itself (`JobFits`): this is why a redelivered message, a dead worker or
  the sweep never leads to a second call at a time or a third one. What a row stored
  backs its status, whoever stored under the key first (`AskKept`);
* `DesignsInductive`: `DesignSpec => []DesignsKept`, and from it `DesignsStaySound`
  (`DesignIsSound`). A manifest differs after `create_version_draft` in its identity only
  (`SameTask`), so the gate of the draft can only fail on the catalog of capabilities
  (`RestampedPasses`). `NoProblem` reads off the list of checks that an answer without a
  problem passed the last of them; the answers of the model are arbitrary.

`AdmissionStaysSound` (`ServiceSpec => []AdmissionIsSound`) and `RecordsStayAdvanced`
(`ServiceSpec => RecordsOnlyAdvance`) put them together: a step of the service is a step
of one of its parts or leaves the part alone (`PartsOfTheService`).

### Proposals and results (`AgentProofs`)

For any bounds on segments, attempts and artifacts and any proposals, catalogs,
evidence and labels (`ContinuationAssumption`):

* `ContinuationInductive`: `ContinuationSpec => []ContinuationKept`, and from it
  `OutcomesLoad`, `OutcomesStayTrue` and `ProposalsStayValid`;
* `ResultInductive`: `ResultSpec => []ResultKept`, and from it `ResultsStayTrue` and
  `SettledWritesReported`;
* `ProposalsStayTold`: `AgentSpec => []ProposalsAreTold`, since a step of a Run is a
  step of one of its parts.

`ContinuationKept` says how the rows refer to each other. Each segment after the first
follows the request its predecessor ended with, row `n - 1` of the requests for segment
`n`, which is settled before the segment exists (`FollowsRequest`); attempts and
sessions name each other (`TriesKnow`); a segment that resumes stays in the SDK
session that asked, and what a session was told stays the outcome on record
(`TalksKnow`). The attempt at work was claimed with the parent of its segment or with
the session of a refused attempt just before it (`AttemptAtWork`), so `LineageHolds`
finds what it looks for: the chain of refused attempts leads back to the session that
asked.

`ResultKept` says which combinations the rows of a write can show (`RowAgrees`) and
what a check of a result has established at each of its reads (`CheckHolds`). While the
Run is checked, only an inline write can still move; then a row is `Pending`, and
nothing is saved. Without one, what was read is still what the rows say.

### Engines and pages (`AgentProofs`)

* `AnswersInductive`: `ClaudeSpec => []AnswersKept`, for any tool uses and bounds, and
  from it `AnswersNotAskedAgain` (`AgentSpec => AnswerNotAskedAgain`). A call that was
  ever deferred stands in the CLI's transcript, and only the call a Run was resumed for
  is issued again: the call in hand is that one or a new one.
* `EnginesStayResumable`: `AgentSpec => []EnginesResume`, for any calls, facts and bounds
  on segments, turns and entries. On Codex (`CodexKept`) one call at most is being
  handled, none once a call has parked the turn or the turn has ended of its own accord
  (`TurnAgrees`); a call that waits is recorded once in its segment (`DeferredOnce`), so
  a later segment can name it; and the last start of the conversation carries the
  checkpoint the conversation was told, whichever of a full prompt and a delta told it
  (`ConversationKnows`, `DeltaTellsAll`). On Claude (`MirrorKept`) what is stored stands
  in the order of the CLI's transcript, without a gap behind the mark up to which the
  SDK has mirrored: a batch that is sent again adds only the entries that are new
  (`BatchPlanned`).
* `EvaluationsStaySettled`: `EvaluationSpec => [](SubmissionIsSettled /\ HistoryIsWhole)`,
  for any keys, requests and rows. The invariant `EvaluationKept` has four parts. Rows
  have ids and keys of their own (`RowsAgree`), and a row added between others moves
  them without changing their order (`RowAdded`); an answer says what is stored
  (`PostsAgree`); the POST the page waits for carries the submission it keeps, and a
  failure the user may clear was an invalid body (`PageAgrees`); whatever the history
  has not shown of the rows it began with comes after its cursor (`HistoryCovers`).
* `FateStaysTrue`: `WebSpec => []RequestFateIsTrue`, for each hook. A key is sent with
  one body only, so a request refused for its content is refused whenever it arrives;
  and while a tab is certain of a request's fate, every copy of it has come back
  (`WebKept`). `WebAssumption` says that no key of a request is a number, as the model
  lists requests by number.
* `PageStaysTrue` (`AgentSpec => []PageIsTrue`) puts the pages together.
* `ProgressStaysTrue`: `AgentSpec => []ProgressIsTrue`, for any size of a page, of the
  buffer and of the ledger. There is a row `k` of the ledger such that the client has
  the first rows, the messages under way carry exactly those between them and `k`, in
  order, an open stream has read up to `k`, and the message that ends the stream stands
  last, with `k` the last row of a Run that has ended (`ClientFollows`). A delta is
  newer than whatever was shown or sent before it on its connection
  (`DeltasInOrder`). A ledger grows upwards only (`LedgerInOrder`), so the rows after
  the last one read are a page of it. A reader of a finished Run has read its row, which
  is committed with the result; what a watch tells, it read from the row (`PageKept`,
  `WatchKept`).

### Checked by TLC only

* Liveness (`ExecutionEnds`, `EveryWaitEnds`, `EffectEnds`): fairness and `ENABLED` are
  outside the prover.
* Of `SkillsAreSound`, `StoredSourceLoads` and `PackageIsWhole`: the closure of the
  references of a file and the depth-first search for cycles are computed by
  recursion over the files. `DesignIsSound`, its third part, is proved.
* `NothingLeftOutSilently`, the third part of `WorkspaceIsTrue`: a search adds up what a
  fold over the files finds, for every list of files; that is induction over data.
  `ReadsAreTrue`, its fourth part: not proved.
* `ServiceTypeOK`, `AgentTypeOK`, `ExecutionTypeOK` join the types of parts that share no
  row. Those of accounts, schedules, writes and desktop are contained in the
  invariants above.

## 5. Not modelled

* I/O and conversions: object storage, HTTP parsing and routing, what is read from a
  remote system and how it is parsed (`SourceReads` keeps a version number), archive, Office
  and Markdown formats, JSON Schema, prompt wording, secrets and hashing. They
  appear as steps that succeed, fail or are lost.
* The model runtimes behind the engines. Assumed of them: Codex ends a turn of its
  own accord only once its tool calls are answered; the handler of an inline call
  has answered or is gone when its turn ends.
* Feature switches of dispatch and effects (held on, except in `RunContext`, where
  they move), warm engine clients and metering, the login throttle, command-line
  operations, static analysis of modules, rendering and forms of the web client.
* Within modelled parts: contents of events and results, the receipts of document
  management, the batches of a history purge, the replacement of the legacy
  `database.read/v1` capability, and the wiring that leaves the structured database
  and Redmine providers unregistered (they are modelled as implemented). Of the
  overlapping transactions on documents, upload admission and the binding to a Run
  are split into read and commit; `SelectedDocumentsKept`, which is about that
  binding, is stated and not part of a run.

## 6. Plan

Done: the modules above. Next, in this order:

1. An abstract effect specification taken from the effect actions of
   `RunLifecycle`, with `EffectLifecycle` shown to implement it: this is what
   joins the two models.
2. The sweeps of effects and proposals split at their lock, and a finalize split
   between its lease check and its commit.
3. A switch for dispatch, and a sweep that fails half way.
4. Proofs: `ReadsAreTrue`;
   the refinement of step 1.
