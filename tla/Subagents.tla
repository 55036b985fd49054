----------------------------- MODULE Subagents -----------------------------
(***************************************************************************)
(* One call of subagent.dispatch/v1 (agent/subagent_provider.py): branches     *)
(* with narrowed capabilities and a share of the limits run next to each       *)
(* other, each in an SDK session of its own; what their streams report is      *)
(* checked, failures stay within their branch, and the sessions are recorded   *)
(* in one transaction before the call is answered. To the gateway (ToolCalls) it  *)
(* is a provider like any other.                                              *)
(***************************************************************************)
EXTENDS ToolCalls, FiniteSetsExt

CONSTANTS
  Branches,       \* branch keys
  ParentAllowed,  \* allowed_capabilities of the dispatching Run
  ParentTurns,    \* its limits.max_turns
  MaxBranches,    \* MAX_SUBAGENT_BRANCHES
  NoStream

ASSUME DispatchAssumption ==
  /\ IsFiniteSet(Branches) /\ ParentTurns \in Nat /\ MaxBranches \in Nat \ {0}

VARIABLES
  dispatch,    \* progress of the dispatch
  branchTools, \* capabilities of each branch that was started
  share,       \* turns_per_branch
  stream,      \* per branch: what its stream has shown so far
  used,        \* turns each branch has taken
  verdict,     \* BranchOutcome per branch
  sessions,    \* AgentSession rows of kind SUBAGENT
  findings,    \* evidence rows, with the branch whose session saved them
  wrote        \* branches that changed a file of the workspace

dispatchVars == <<dispatch, branchTools, share, stream, used, verdict, sessions, findings, wrote>>
-----------------------------------------------------------------------------
Registered == {"workspace.read/v1", "workspace.search/v1", "workspace.write/v2", "workspace.edit/v1",
               "issue.read/v1", "issue.update/v1", "database.execute/v1",
               "change.propose/v1", "interaction.request/v1", "subagent.dispatch/v1"}
(* is_write_capability goes by the name; the four control capabilities are listed. *)
WriteLike == {"workspace.write/v2", "issue.update/v1", "database.execute/v1"}
ForbiddenToBranches == {"change.propose/v1", "interaction.request/v1", "subagent.dispatch/v1", "workspace.write/v1"}

(* resolve_subagent_capabilities: nothing requested means all that is readable.  *)
Readable == {c \in ParentAllowed : c \notin ForbiddenToBranches /\ c \notin WriteLike}
Grantable(requested) == requested \subseteq Readable
Granted(requested) == IF requested = {} THEN Readable ELSE requested

(* split_budget rounds down.                                                   *)
RoundedUp(n) == (ParentTurns + n - 1) \div n
TurnsPerBranch(n) == ParentTurns \div n

Silent == [events |-> 0, success |-> FALSE, cites |-> {}, open |-> TRUE, bad |-> FALSE]
DispatchInit ==
  /\ dispatch = "idle" /\ branchTools = [b \in {} |-> {}] /\ share = 0
  /\ stream = [b \in Branches |-> NoStream] /\ used = [b \in Branches |-> 0]
  /\ verdict = [b \in Branches |-> "none"]
  /\ sessions = {} /\ findings = {} /\ wrote = {}

Started == DOMAIN branchTools
Running(b) == dispatch = "running" /\ b \in Started /\ verdict[b] = "none"
StreamOpen(b) == Running(b) /\ stream[b].open
-----------------------------------------------------------------------------
(* execute: the whole request is refused if one branch of it is.                 *)
Dispatch(requests) ==
  LET n == Cardinality(DOMAIN requests) IN
  /\ dispatch = "idle"
  /\ IF /\ n \in 1..MaxBranches /\ TurnsPerBranch(n) >= 1
        /\ \A b \in DOMAIN requests : Grantable(requests[b])
       THEN /\ dispatch' = "running"
            /\ branchTools' = [b \in DOMAIN requests |-> Granted(requests[b])]
            /\ share' = TurnsPerBranch(n)
            /\ stream' = [b \in Branches |-> IF b \in DOMAIN requests THEN Silent ELSE NoStream]
       ELSE dispatch' = "refused" /\ UNCHANGED <<branchTools, share, stream>>
  /\ UNCHANGED <<used, verdict, sessions, findings, wrote>>

(* The engine of a branch: tools within its capabilities, turns within its share.  *)
BranchReads(b) ==
  /\ StreamOpen(b) /\ ~stream[b].success /\ used[b] < share /\ branchTools[b] # {}
  /\ used' = [used EXCEPT ![b] = @ + 1]
  /\ findings' = findings \cup {<<b, used[b] + 1>>}
  /\ stream' = [stream EXCEPT ![b].events = @ + 1]
  /\ UNCHANGED <<dispatch, branchTools, share, verdict, sessions, wrote>>
BranchEdits(b) ==
  /\ StreamOpen(b) /\ ~stream[b].success /\ used[b] < share /\ "workspace.edit/v1" \in branchTools[b]
  /\ used' = [used EXCEPT ![b] = @ + 1]
  /\ wrote' = wrote \cup {b}
  /\ stream' = [stream EXCEPT ![b].events = @ + 1]
  /\ UNCHANGED <<dispatch, branchTools, share, verdict, sessions, findings>>

(* SubagentTranscript._observe: the result, with what it cites; anything else     *)
(* that ends a session, an event of another session or one after the result        *)
(* breaks the branch.                                                          *)
BranchReports(b, cites) ==
  /\ StreamOpen(b) /\ ~stream[b].success
  /\ stream' = [stream EXCEPT ![b].success = TRUE, ![b].cites = cites, ![b].events = @ + 1]
  /\ UNCHANGED <<dispatch, branchTools, share, used, verdict, sessions, findings, wrote>>
EmitsBadly(b) ==
  /\ StreamOpen(b)
  /\ stream' = [stream EXCEPT ![b].bad = TRUE, ![b].open = FALSE]
  /\ UNCHANGED <<dispatch, branchTools, share, used, verdict, sessions, findings, wrote>>
EndStream(b) ==
  /\ StreamOpen(b)
  /\ stream' = [stream EXCEPT ![b].open = FALSE]
  /\ UNCHANGED <<dispatch, branchTools, share, used, verdict, sessions, findings, wrote>>

(* SubagentTranscript.completed: a child may cite only evidence of its own          *)
(* session (agent/model_result.py:146-153).                                      *)
AnyOf(b) == findings
OwnEvidence(b) == {f \in findings : f[1] = b}
Judge(b) ==
  /\ Running(b) /\ ~stream[b].open
  /\ verdict' = [verdict EXCEPT ![b] =
       IF stream[b].success /\ ~stream[b].bad /\ stream[b].cites \subseteq OwnEvidence(b)
         THEN "COMPLETED" ELSE "FAILED"]
  /\ UNCHANGED <<dispatch, branchTools, share, stream, used, sessions, findings, wrote>>
(* The deadline closes the stream first (consume, in its finally).                *)
TimeOut(b) ==
  /\ Running(b)
  /\ stream' = [stream EXCEPT ![b].open = FALSE]
  /\ verdict' = [verdict EXCEPT ![b] = "TIMED_OUT"]
  /\ UNCHANGED <<dispatch, branchTools, share, used, sessions, findings, wrote>>

(* Cancelling the parent cancels the group: every stream is closed before the       *)
(* call is left.                                                                *)
CancelParent ==
  /\ dispatch = "running"
  /\ dispatch' = "cancelling"
  /\ UNCHANGED <<branchTools, share, stream, used, verdict, sessions, findings, wrote>>
CloseBranch(b) ==
  /\ dispatch = "cancelling" /\ b \in Started /\ stream[b].open
  /\ stream' = [stream EXCEPT ![b].open = FALSE]
  /\ UNCHANGED <<dispatch, branchTools, share, used, verdict, sessions, findings, wrote>>
SomeJudged == \E b \in Started : verdict[b] # "none"
AllJudged == \A b \in Started : verdict[b] # "none"
LeaveCancelled ==
  /\ dispatch = "cancelling" /\ \A b \in Started : ~stream[b].open
  /\ dispatch' = "cancelled"
  /\ UNCHANGED <<branchTools, share, stream, used, verdict, sessions, findings, wrote>>

(* _persist_sessions and record_branches: one row per branch in one transaction,     *)
(* whose answer may be lost; then the call fails and nothing is repeated.          *)
SessionStatus(v) ==
  IF v = "COMPLETED" THEN "CLOSED" ELSE IF v = "TIMED_OUT" THEN "INTERRUPTED" ELSE "FAILED"
Record(committed, answered) ==
  /\ dispatch = "running" /\ AllJudged
  /\ answered => committed
  /\ sessions' = IF committed THEN {<<b, SessionStatus(verdict[b])>> : b \in {c \in Started : verdict[c] # "none"}}
                 ELSE sessions
  /\ dispatch' = IF answered THEN "answered" ELSE "failed"
  /\ UNCHANGED <<branchTools, share, stream, used, verdict, findings, wrote>>
-----------------------------------------------------------------------------
Requests == UNION {[S -> {{}, {"issue.read/v1"}, {"workspace.edit/v1"}, {"workspace.write/v2"}}] :
                     S \in SUBSET Branches}
DispatchNext ==
  \/ \E requests \in Requests : Dispatch(requests)
  \/ \E b \in Branches :
       \/ BranchReads(b) \/ BranchEdits(b) \/ EmitsBadly(b) \/ EndStream(b) \/ Judge(b) \/ TimeOut(b)
       \/ CloseBranch(b) \/ \E cites \in {{}} \cup {{f} : f \in findings} : BranchReports(b, cites)
  \/ CancelParent \/ LeaveCancelled
  \/ \E committed, answered \in BOOLEAN : Record(committed, answered)
DispatchSpec == DispatchInit /\ [][DispatchNext]_dispatchVars
-----------------------------------------------------------------------------
DispatchTypeOK ==
  /\ dispatch \in {"idle", "running", "cancelling", "answered", "failed", "cancelled", "refused"}
  /\ Started \subseteq Branches /\ wrote \subseteq Started
  /\ \A b \in Branches : verdict[b] \in {"none", "COMPLETED", "FAILED", "TIMED_OUT"}
  /\ MapThenSumSet(LAMBDA b : used[b], Branches) <= ParentTurns

(* No branch outlives its call: when the call is left, answered, failed or            *)
(* cancelled, no stream is open and nothing more can be saved in its name; and an      *)
(* answer has a recorded session for every branch, with the status of what it          *)
(* reports, and repeats only results that rest on evidence of the branch itself         *)
(* (agent/subagent_provider.py:114-122, 195-232).                                   *)
DispatchIsWhole ==
  /\ dispatch \in {"answered", "failed", "cancelled"} => \A b \in Started : ~stream[b].open
  /\ dispatch = "answered" =>
       /\ sessions = {<<b, SessionStatus(verdict[b])>> : b \in Started}
       /\ \A b \in Started : verdict[b] = "COMPLETED" =>
            stream[b].cites \subseteq {f \in findings : f[1] = b}

(* A tool call is dispatched once, its answer is the recorded one, and neither        *)
(* its steps (ToolCalls) nor its branches go beyond what it was given.               *)
CallsAreSound == DispatchedOnce /\ AnswerIsRecorded /\ StepsBounded /\ DispatchIsWhole
=============================================================================
