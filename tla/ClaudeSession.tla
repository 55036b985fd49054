---------------------------- MODULE ClaudeSession ----------------------------
(* One Run on the Claude engine (agent/claude_engine.py): the hook that lets   *)
(* a tool call pass, refuses it or defers it until somebody has answered       *)
(* (agent/claude.py), the segments that resume a deferred call                 *)
(* (agent/proposal_resume.py), and the transcript the SDK mirrors into the     *)
(* database in batches that may be lost or sent twice (agent/session_store.py).*)
EXTENDS Naturals, Sequences, FiniteSets, SequencesExt

CONSTANTS
  ClaudeUses,          \* tool_use ids the agent may use
  MaxClaudeSegments,   \* bound on the segments of the Run
  MaxEntries,          \* bound on the transcript
  NoToolUse

ASSUME ClaudeAssumption ==
  MaxClaudeSegments \in Nat \ {0} /\ MaxEntries \in Nat /\ NoToolUse \notin ClaudeUses

VARIABLES
  engine,    \* the generator: phase, segment, interrupt_requested, the answered call
  entries,   \* the transcript in the CLI
  mirror,    \* how much of it the SDK has handed to the store
  store,     \* AgentSessionEntry rows, by sequence
  using,     \* the tool use the hook is asked about, and its decision
  replays,   \* a deferred call the CLI issues again first
  answered,  \* calls whose answer the Run has
  runEnd     \* what the executor made of the segment

claudeVars == <<engine, entries, mirror, store, using, replays, answered, runEnd>>

NoUsing == [id |-> NoToolUse, decision |-> "none"]
ClaudeInit ==
  /\ engine = [phase |-> "closed", seg |-> 0, interrupt |-> FALSE, resolved |-> NoToolUse]
  /\ entries = <<>> /\ mirror = 0 /\ store = <<>>
  /\ using = NoUsing /\ replays = NoToolUse
  /\ answered = {}
  /\ runEnd = "queued"
-----------------------------------------------------------------------------
(* PostgresSessionTranscriptBackend.append: entries whose uuid is stored are   *)
(* skipped, the others keep their order. An entry's uuid is its place in the   *)
(* CLI's transcript.                                                           *)
PlanAll(batch, stored) == batch
NewEntries(batch, stored) ==
  {i \in DOMAIN batch : \A j \in DOMAIN stored : stored[j].uuid # batch[i].uuid}
PlanNewEntries(batch, stored) ==
  LET new == NewEntries(batch, stored)
      Nth(k) == CHOOSE i \in new : Cardinality({j \in new : j <= i}) = k
  IN [k \in 1..Cardinality(new) |-> batch[Nth(k)]]
Batch(from, to) == [i \in 1..(to - from) |-> entries[from + i]]

(* The SDK flushes what it has not flushed yet. The answer may be lost: then   *)
(* it sends the batch again later. Or it gives up on the batch, and says so    *)
(* with a MirrorErrorMessage.                                                  *)
FlushMirror ==
  /\ mirror < Len(entries)
  /\ \/ store' = store \o PlanNewEntries(Batch(mirror, Len(entries)), store)
        /\ mirror' \in {mirror, Len(entries)}
     \/ store' = store /\ mirror' = Len(entries)
  /\ UNCHANGED <<engine, entries, using, replays, answered, runEnd>>

Note(kind, id) ==
  entries' = Append(entries, [uuid |-> Len(entries) + 1, kind |-> kind, id |-> id])
-----------------------------------------------------------------------------
(* _scan_deferred_calls, proposal_replay_identity, interaction_replay_identity *)
StoredIds(kind) == {store[i].id : i \in {j \in DOMAIN store : store[j].kind = kind}}
DeferredCall(id) == id \in StoredIds("tool_use") /\ id \in StoredIds("hook_deferred")
NoResultYet(id) == id \notin StoredIds("tool_result")

(* resume or execute, up to the client's connection: the start gate of the     *)
(* budget may refuse, a resumed call must be found in the stored transcript.   *)
BeginClaude ==
  /\ engine.phase = "closed" /\ runEnd \in {"queued", "parked"}
  /\ engine.seg < MaxClaudeSegments
  /\ LET id == engine.resolved IN
     \/ /\ id = NoToolUse \/ DeferredCall(id)
        /\ engine' = [engine EXCEPT !.phase = "open", !.seg = @ + 1, !.interrupt = FALSE]
        /\ replays' = IF id # NoToolUse /\ NoResultYet(id) THEN id ELSE NoToolUse
        /\ runEnd' = "running"
     \/ runEnd' = "failed" /\ UNCHANGED <<engine, replays>>
  /\ runEnd = "parked" => engine.resolved \in answered
  /\ UNCHANGED <<entries, mirror, store, using, answered>>

(* The question is answered or the proposal decided while the Run waits.       *)
AnswerArrives ==
  /\ runEnd = "parked" /\ engine.phase = "closed" /\ engine.resolved # NoToolUse
  /\ answered' = answered \cup {engine.resolved}
  /\ UNCHANGED <<engine, entries, mirror, store, using, replays, runEnd>>
-----------------------------------------------------------------------------
(* The agent asks for a tool. A replayed call comes first.                     *)
UseTool(id) ==
  /\ engine.phase = "open" /\ using = NoUsing
  /\ Len(entries) + 3 <= MaxEntries
  /\ IF replays # NoToolUse
       THEN id = replays /\ UNCHANGED entries
       ELSE /\ \A i \in DOMAIN entries : entries[i].id # id
            /\ Note("tool_use", id)
  /\ using' = [id |-> id, decision |-> "none"]
  /\ replays' = NoToolUse
  /\ UNCHANGED <<engine, mirror, store, answered, runEnd>>

(* enforce_tool_boundary                                                       *)
NeverResolved(id) == FALSE
IsResolved(id) == id = engine.resolved /\ id \in answered
PermissionHook ==
  /\ using # NoUsing /\ using.decision = "none" /\ engine.phase = "open"
  /\ \/ \E d \in {"deny", "allow"} : using' = [using EXCEPT !.decision = d]
     \/ /\ ~IsResolved(using.id)
        /\ using' = [using EXCEPT !.decision = "defer"]
  /\ UNCHANGED <<engine, entries, mirror, store, replays, answered, runEnd>>

(* A call that was let through or refused has its result in the transcript.    *)
ToolResult ==
  /\ using.decision \in {"allow", "deny"} /\ engine.phase = "open"
  /\ Note("tool_result", using.id)
  /\ using' = NoUsing
  /\ UNCHANGED <<engine, mirror, store, replays, answered, runEnd>>

(* _map_result, for a ResultMessage.                                           *)
MapResult(stop) ==
  IF engine.interrupt THEN "interrupted"
  ELSE CASE stop = "deferred" -> "parked"
         [] stop = "unavailable" -> "failed"      \* tool_deferred_unavailable
         [] stop = "error" -> "failed"
         [] stop = "done" -> "succeeded"
(* A deferred call ends the response, unless it came among others.             *)
DeferredResult ==
  /\ using.decision = "defer" /\ engine.phase = "open"
  /\ Note("hook_deferred", using.id)
  /\ \E stop \in {"deferred", "unavailable"} :
       /\ runEnd' = MapResult(stop)
       /\ engine' = [engine EXCEPT !.phase = "ended",
                       !.resolved = IF MapResult(stop) = "parked" THEN using.id ELSE @]
  /\ using' = NoUsing
  /\ UNCHANGED <<mirror, store, replays, answered>>
(* The response ends, the SDK fails, or no result message comes.               *)
FinalResult ==
  /\ using = NoUsing /\ engine.phase = "open" /\ replays = NoToolUse
  /\ \E stop \in {"done", "error"} : runEnd' = MapResult(stop)
  /\ engine' = [engine EXCEPT !.phase = "ended"]
  /\ UNCHANGED <<entries, mirror, store, using, replays, answered>>

(* interrupt: the flag counts for every message mapped from now on. When the   *)
(* session does not drain in time, the client is disconnected.                 *)
InterruptClaude ==
  /\ engine.phase = "open" /\ ~engine.interrupt
  /\ \/ engine' = [engine EXCEPT !.interrupt = TRUE] /\ UNCHANGED runEnd
     \/ engine' = [engine EXCEPT !.interrupt = TRUE, !.phase = "ended"] /\ runEnd' = "failed"
  /\ UNCHANGED <<entries, mirror, store, using, replays, answered>>

(* The finally block of _run: disconnect, drain the children, unregister.      *)
EngineStops ==
  /\ engine.phase = "ended"
  /\ engine' = [engine EXCEPT !.phase = "closed"]
  /\ using' = NoUsing
  /\ UNCHANGED <<entries, mirror, store, replays, answered, runEnd>>

ClaudeNext ==
  \/ FlushMirror \/ BeginClaude \/ AnswerArrives
  \/ \E id \in ClaudeUses : UseTool(id)
  \/ PermissionHook \/ ToolResult \/ DeferredResult \/ FinalResult \/ InterruptClaude \/ EngineStops
ClaudeSpec == ClaudeInit /\ [][ClaudeNext]_claudeVars
-----------------------------------------------------------------------------
(* The variables keep their types.                                             *)
ClaudeTypeOK ==
  /\ engine.phase \in {"closed", "open", "ended"} /\ engine.seg \in 0..MaxClaudeSegments
  /\ Len(entries) <= MaxEntries /\ mirror \in 0..Len(entries)
  /\ runEnd \in {"queued", "running", "parked", "interrupted", "failed", "succeeded"}

(* The stored transcript is the CLI's, in order and without repetition, less   *)
(* the batches the SDK gave up on: a batch sent twice is stored once           *)
(* (_plan_new_entries).                                                        *)
TranscriptInOrder ==
  \A i, j \in DOMAIN store : i < j => store[i].uuid < store[j].uuid

(* A Run never waits again for an answer it has: the replayed call is let      *)
(* through, whatever of the transcript was stored (enforce_tool_boundary,      *)
(* prepare_proposal_resume).                                                   *)
AnswerNotAskedAgain ==
  [][runEnd = "running" /\ runEnd' = "parked" => engine.resolved' \notin answered]_claudeVars
=============================================================================
