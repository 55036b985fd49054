----------------------------- MODULE ToolCalls -----------------------------
(***************************************************************************)
(* The tool gateway of a Run (agent/tool_gateway.py, agent/evidence.py,       *)
(* agent/tool_sequence.py, agent/claude.py, agent/codex_mcp.py).              *)
(*                                                                         *)
(* Before the model's tool use may run, a hook authorizes it and writes its   *)
(* ToolCall row; the lease it gets back waits in memory under the digest of   *)
(* the request. The engine then calls the tool, which takes the first lease   *)
(* of its digest, checks the row again, calls the provider, and records the   *)
(* result before the model sees it. A sequence tool does all of this for each *)
(* of its steps, inside its own provider call. Every transaction fails once   *)
(* the worker has lost its claim on the Run, but the worker itself goes on.   *)
(*                                                                         *)
(* One Run. Two tool uses with the same digest are the same request.          *)
(***************************************************************************)
EXTENDS Integers, Sequences, FiniteSets, SequencesExt

CONSTANTS
  ToolUses,      \* sdk_tool_use_id
  DigestOf,      \* request_fingerprint of each use
  StepsOf,       \* the uses a sequence registers for its steps, <<>> for other tools
  Forbidden,     \* uses ToolExecutionPolicy.authorize refuses
  Publishing,    \* uses that publish an artifact
  MaxRunArtifacts,
  MaxTurns,      \* limits.max_turns
  MaxToolAttempts,  \* bound: attempts of the Run
  NoUse

ToolAttempts == 1..MaxToolAttempts
Children == UNION {Range(StepsOf[u]) : u \in ToolUses}
TopUses == ToolUses \ Children

ASSUME ToolAssumption ==
  /\ StepsOf \in [ToolUses -> Seq(ToolUses)]
  /\ \A u \in Children : StepsOf[u] = <<>>
  /\ MaxTurns \in Nat /\ MaxRunArtifacts \in Nat /\ MaxToolAttempts \in Nat
  /\ NoUse \notin ToolUses

VARIABLES
  call,        \* ToolCall rows, with their Evidence once SUCCEEDED
  holder,      \* the worker of each attempt: its claim, its session, ToolStepBudget.used
  leases,      \* ToolInvocationCoordinator._pending
  dispatched,  \* ToolGateway._dispatched
  flight,      \* gateway calls in progress
  executed,    \* how often the provider was called for each use
  told         \* results the model was given

toolVars == <<call, holder, leases, dispatched, flight, executed, told>>
-----------------------------------------------------------------------------
NoCall == [status |-> "none", attempt |-> 0, session |-> 0, result |-> 0]
NoHolder == [state |-> "none", session |-> 0, used |-> 0]

ToolInit ==
  /\ call = [u \in ToolUses |-> NoCall]
  /\ holder = [a \in ToolAttempts |-> NoHolder]
  /\ leases = [a \in ToolAttempts |-> <<>>]
  /\ dispatched = [a \in ToolAttempts |-> {}]
  /\ flight = {}
  /\ executed = [u \in ToolUses |-> 0]
  /\ told = {}

ToolTypeOK ==
  /\ call \in [ToolUses -> [status : {"none", "RUNNING", "SUCCEEDED", "FAILED", "DENIED"},
                            attempt : Nat, session : Nat, result : Nat]]
  /\ holder \in [ToolAttempts -> [state : {"none", "live", "stale", "dead"}, session : Nat, used : 0..MaxTurns]]
  /\ \A a \in ToolAttempts : dispatched[a] \subseteq ToolUses

(* ToolExecutionPolicy.authorize with ToolRouting.resolve, and the rules on   *)
(* what a tool may publish.                                                   *)
Permitted(u) == u \notin Forbidden
Publishes(u) == u \in Publishing

(* ToolExecutionGate.validate: the attempt holds the Run, which is RUNNING   *)
(* and not cancelled.                                                        *)
Gate(a) == holder[a].state = "live"
Working(a) == holder[a].state \in {"live", "stale"}
-----------------------------------------------------------------------------
(* A worker claims the Run, for a new session or to resume the last one; it  *)
(* loses its claim (lease, cancellation) without noticing; or it dies.        *)
ClaimRunForTools(a, resume) ==
  /\ holder[a].state = "none"
  /\ IF a = 1 THEN ~resume ELSE holder[a - 1].state \in {"stale", "dead"}
  /\ holder' = [holder EXCEPT ![a] = [NoHolder EXCEPT !.state = "live",
                                        !.session = IF resume THEN holder[a - 1].session ELSE a]]
  /\ UNCHANGED <<call, leases, dispatched, flight, executed, told>>

LoseClaim(a) ==
  /\ Gate(a) /\ holder' = [holder EXCEPT ![a].state = "stale"]
  /\ UNCHANGED <<call, leases, dispatched, flight, executed, told>>

EngineDies(a) ==
  /\ Working(a)
  /\ holder' = [holder EXCEPT ![a].state = "dead"]
  /\ leases' = [leases EXCEPT ![a] = <<>>]
  /\ dispatched' = [dispatched EXCEPT ![a] = {}]
  /\ flight' = {f \in flight : f.attempt # a}
  /\ UNCHANGED <<call, executed, told>>
-----------------------------------------------------------------------------
(* _find and _verify_tool_identity: a row is found by its use alone, and one  *)
(* of an earlier attempt is only good for replaying what it produced.          *)
KnownToAttempt(a, u) == call[u].status # "none" /\ call[u].attempt = a
Known(a, u) == call[u].status # "none"
SameCall(a, u) ==
  /\ call[u].session = holder[a].session
  /\ call[u].attempt # a => call[u].status = "SUCCEEDED"

(* start_authorized and register_authorized.                                 *)
MayRegister(a, u) == Gate(a) /\ (Known(a, u) => SameCall(a, u))
Register(a, u) ==
  /\ call' = IF Known(a, u) THEN call
             ELSE [call EXCEPT ![u] = [NoCall EXCEPT !.status = "RUNNING", !.attempt = a,
                                                     !.session = holder[a].session]]
  /\ leases' = [leases EXCEPT ![a] = Append(@, [use |-> u, isNew |-> ~Known(a, u),
                  result |-> IF Known(a, u) THEN call[u].result ELSE 0])]

(* record_denied; failing to record a refusal does not lift it.              *)
Deny(a, u) ==
  /\ call' = IF Gate(a) /\ ~Known(a, u)
             THEN [call EXCEPT ![u] = [NoCall EXCEPT !.status = "DENIED", !.attempt = a,
                                                     !.session = holder[a].session]]
             ELSE call
  /\ UNCHANGED leases

(* enforce_tool_boundary: each tool use costs a step, also one refused, and   *)
(* none is left when the limit is reached. The engine may present a use       *)
(* again.                                                                    *)
ConsumeUncapped(a) == holder' = [holder EXCEPT ![a].used = @ + 1]
Consume(a) ==
  holder' = [holder EXCEPT ![a].used = IF @ < MaxTurns THEN @ + 1 ELSE @]
StepLeft(a) == holder[a].used < MaxTurns
PreToolUse(a, u) ==
  /\ Working(a) /\ Consume(a)
  /\ \/ ~StepLeft(a) /\ Deny(a, u)
     \/ StepLeft(a) /\ ~Permitted(u) /\ Deny(a, u)
     \/ StepLeft(a) /\ Permitted(u) /\ MayRegister(a, u) /\ Register(a, u)
     \/ StepLeft(a) /\ Permitted(u) /\ ~MayRegister(a, u) /\ UNCHANGED <<call, leases>>
  /\ UNCHANGED <<dispatched, flight, executed, told>>
-----------------------------------------------------------------------------
(* claim: the oldest lease of the digest.                                    *)
Waits(a, d) == {i \in DOMAIN leases[a] : DigestOf[leases[a][i].use] = d}
Oldest(a, d) == CHOOSE i \in Waits(a, d) : \A j \in Waits(a, d) : i <= j

Flight(a, lease, parent) ==
  [attempt |-> a, use |-> lease.use, at |-> IF lease.result # 0 THEN "replay" ELSE "claimed",
   result |-> lease.result, parent |-> parent, position |-> 0]
FreshLease(lease) == lease.isNew /\ lease.result = 0

(* The first half of _invoke: take a lease that can be replayed, or executed  *)
(* for the first time; any other is used up for nothing. others are the       *)
(* gateway calls that stay as they are.                                       *)
Usable(a, lease) == lease.result # 0 \/ (FreshLease(lease) /\ lease.use \notin dispatched[a])
NextLease(a, d) == leases[a][Oldest(a, d)]
DropLease(a, d) == leases' = [leases EXCEPT ![a] = RemoveAt(@, Oldest(a, d))]
TakeLease(a, d, parent, others) ==
  /\ Waits(a, d) # {} /\ Usable(a, NextLease(a, d))
  /\ DropLease(a, d)
  /\ flight' = others \cup {Flight(a, NextLease(a, d), parent)}
  /\ dispatched' = IF NextLease(a, d).result # 0 THEN dispatched
                   ELSE [dispatched EXCEPT ![a] = @ \cup {NextLease(a, d).use}]
RejectLease(a, d) ==
  /\ Waits(a, d) # {} /\ ~Usable(a, NextLease(a, d))
  /\ DropLease(a, d)
  /\ UNCHANGED dispatched

(* invoke_mcp, with arguments of digest d. Without a lease it changes nothing. *)
InvokeTool(a, d) ==
  /\ Working(a)
  /\ TakeLease(a, d, NoUse, flight) \/ (RejectLease(a, d) /\ UNCHANGED flight)
  /\ UNCHANGED <<call, holder, executed, told>>

(* A gateway call ends, and with it the step of a sequence: the next one      *)
(* follows, or the sequence stops.                                            *)
AdvanceTo(f, at) == flight' = (flight \ {f}) \cup {[f EXCEPT !.at = at]}
Parents(f) == {g \in flight : g.attempt = f.attempt /\ g.use = f.parent /\ g.at = "waiting"}
Return(f, goesOn) ==
  flight' = (flight \ (Parents(f) \cup {f})) \cup
            {[g EXCEPT !.at = IF goesOn THEN "executing" ELSE "done", !.position = g.position + 1] :
               g \in Parents(f)}

(* verify_dispatch, and for a lease that is replayed the answer.              *)
Dispatchable(f) ==
  /\ Gate(f.attempt) /\ SameCall(f.attempt, f.use)
  /\ IF f.at = "claimed" THEN call[f.use].status = "RUNNING"
     ELSE call[f.use].status = "SUCCEEDED" /\ call[f.use].result = f.result
VerifyDispatch(f) ==
  /\ f.at \in {"claimed", "replay"}
  /\ \/ /\ f.at = "claimed" /\ Dispatchable(f)
        /\ executed' = [executed EXCEPT ![f.use] = @ + 1]
        /\ flight' = (flight \ {f}) \cup {[f EXCEPT !.at = "executing", !.result = executed[f.use] + 1]}
        /\ UNCHANGED told
     \/ /\ f.at = "replay" /\ Dispatchable(f)
        /\ told' = told \cup {<<f.use, f.result>>}
        /\ \E goesOn \in BOOLEAN : Return(f, goesOn)
        /\ UNCHANGED executed
     \/ /\ ~Dispatchable(f)
        /\ Return(f, FALSE)
        /\ UNCHANGED <<executed, told>>
  /\ UNCHANGED <<call, holder, leases, dispatched>>

(* The provider of an ordinary tool returns: a response that passes, or not.  *)
ProviderReturns(f, ok) ==
  /\ f.at = "executing" /\ StepsOf[f.use] = <<>>
  /\ AdvanceTo(f, IF ok THEN "done" ELSE "broken")
  /\ UNCHANGED <<call, holder, leases, dispatched, executed, told>>
-----------------------------------------------------------------------------
(* ToolSequenceProvider.execute and invoke_sequence_step: a step is validated *)
(* and paid for, registered, and called like any other tool; a step that      *)
(* cannot be ends the sequence.                                               *)
FreeStep(a) == UNCHANGED holder
ConsumeStep(a) == Consume(a)
StepOf(f) == StepsOf[f.use][f.position + 1]
SequenceStep(f) ==
  /\ f.at = "executing" /\ f.position < Len(StepsOf[f.use])
  /\ LET a == f.attempt c == StepOf(f) IN
     \/ /\ Permitted(c) /\ StepLeft(a) /\ MayRegister(a, c)
        /\ ConsumeStep(a) /\ Register(a, c) /\ AdvanceTo(f, "stepping")
     \/ /\ Permitted(c) /\ StepLeft(a) /\ ~MayRegister(a, c)
        /\ ConsumeStep(a) /\ AdvanceTo(f, "broken") /\ UNCHANGED <<call, leases>>
     \/ /\ Permitted(c) /\ ~StepLeft(a) /\ Deny(a, c) /\ AdvanceTo(f, "done") /\ UNCHANGED holder
     \/ /\ ~Permitted(c)   \* found before the first step is run
        /\ AdvanceTo(f, "broken") /\ UNCHANGED <<call, holder, leases>>
  /\ UNCHANGED <<dispatched, executed, told>>

InvokeStep(f) ==
  LET a == f.attempt d == DigestOf[StepOf(f)] IN
  /\ f.at = "stepping"
  /\ \/ TakeLease(a, d, f.use, (flight \ {f}) \cup {[f EXCEPT !.at = "waiting"]})
     \/ RejectLease(a, d) /\ AdvanceTo(f, "done")
     \/ Waits(a, d) = {} /\ AdvanceTo(f, "done") /\ UNCHANGED <<leases, dispatched>>
  /\ UNCHANGED <<call, holder, executed, told>>

SequenceEnds(f) ==
  /\ f.at = "executing" /\ StepsOf[f.use] # <<>> /\ f.position = Len(StepsOf[f.use])
  /\ AdvanceTo(f, "done")
  /\ UNCHANGED <<call, holder, leases, dispatched, executed, told>>
-----------------------------------------------------------------------------
(* complete: what the model is told is what the row says. A publication that  *)
(* exceeds the limits of the Run, or a lost claim, leaves the row RUNNING.     *)
Artifacts == {u \in ToolUses : Publishes(u) /\ call[u].status = "SUCCEEDED"}
Room(u) == Publishes(u) => Cardinality(Artifacts) < MaxRunArtifacts
Recordable(f) ==
  /\ Gate(f.attempt) /\ SameCall(f.attempt, f.use)
  /\ call[f.use].status = "RUNNING" /\ Room(f.use)
Recorded(f) == [call EXCEPT ![f.use].status = "SUCCEEDED", ![f.use].result = f.result]

ToldAnyway(f) == Return(f, TRUE) /\ told' = told \cup {<<f.use, f.result>>} /\ UNCHANGED call
NotConfirmed(f) == Return(f, FALSE) /\ UNCHANGED <<call, told>>

CompleteCall(f) ==
  /\ f.at = "done"
  /\ \/ /\ Recordable(f)
        /\ call' = Recorded(f)
        /\ told' = told \cup {<<f.use, f.result>>}
        /\ \E goesOn \in BOOLEAN : Return(f, goesOn)
     \/ /\ Recordable(f)   \* committed, but the worker never learns it
        /\ call' = Recorded(f)
        /\ Return(f, FALSE) /\ UNCHANGED told
     \/ ~Recordable(f) /\ NotConfirmed(f)
  /\ UNCHANGED <<holder, leases, dispatched, executed>>

(* fail and _record_failure.                                                 *)
FailCall(f) ==
  /\ f.at = "broken"
  /\ call' = IF Gate(f.attempt) /\ SameCall(f.attempt, f.use) /\ call[f.use].status = "RUNNING"
             THEN [call EXCEPT ![f.use].status = "FAILED"] ELSE call
  /\ Return(f, FALSE)
  /\ UNCHANGED <<holder, leases, dispatched, executed, told>>
-----------------------------------------------------------------------------
ToolNext ==
  \/ \E a \in ToolAttempts :
       \/ \E resume \in BOOLEAN : ClaimRunForTools(a, resume)
       \/ LoseClaim(a)
       \/ EngineDies(a)
       \/ \E u \in TopUses : PreToolUse(a, u)
       \/ \E d \in Range(DigestOf) : InvokeTool(a, d)
  \/ \E f \in flight :
       \/ VerifyDispatch(f)
       \/ \E ok \in BOOLEAN : ProviderReturns(f, ok)
       \/ SequenceStep(f) \/ InvokeStep(f) \/ SequenceEnds(f)
       \/ CompleteCall(f) \/ FailCall(f)

ToolSpec == ToolInit /\ [][ToolNext]_toolVars
-----------------------------------------------------------------------------
(* ToolGateway._dispatched, ToolAuditLease.is_new and the identity of the row *)
(* together: whatever is presented again, by the same engine, by a stale one   *)
(* or by the attempt that resumes its session, no tool use reaches its         *)
(* provider twice.                                                            *)
DispatchedOnce == \A u \in ToolUses : executed[u] <= 1

(* PostgresToolAuditWriter.complete: a result the model works with is the one  *)
(* its ToolCall records, for good. A worker without its claim can give the     *)
(* model nothing.                                                             *)
AnswerIsRecorded ==
  \A reply \in told : call[reply[1]].status = "SUCCEEDED" /\ call[reply[1]].result = reply[2]

(* ToolStepBudget: the providers a worker calls, directly and through the      *)
(* steps of sequences, are never more than max_turns.                          *)
StepsBounded == \A a \in ToolAttempts : Cardinality(dispatched[a]) <= MaxTurns
=============================================================================
