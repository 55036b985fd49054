---------------------------- MODULE CodexSession ----------------------------
(* One Run on the Codex engine, segment after segment: the engine's generator *)
(* (agent/codex_engine.py), the bridge its tool calls arrive at               *)
(* (agent/codex_mcp.py), the task that watches for cancellation and the loop  *)
(* that consumes the events (worker/executor.py). They run concurrently on    *)
(* one event loop: a step goes from one await to the next. The conversation   *)
(* is told only what changed in the checkpoint since the last segment         *)
(* (agent/continuation_prompt.py).                                            *)
EXTENDS Naturals, Sequences, FiniteSets, SequencesExt

CONSTANTS
  CodexCalls,    \* tool calls of a turn
  MaxCodexTurns,      \* context.limits.max_turns, here the bound on tool calls
  MaxCodexSegments,   \* bound on the turns of the Run
  Facts,         \* what a list of the checkpoint may hold
  NoCodexCall

ASSUME CodexAssumption ==
  Facts # {} /\ MaxCodexTurns \in Nat /\ MaxCodexSegments \in Nat \ {0} /\ NoCodexCall \notin CodexCalls

VARIABLES
  gen,         \* where the generator is, and the segment it runs
  active,      \* _Execution: interrupted, and whether turn_id is known
  turn,        \* the turn in the Codex process
  bridge,      \* CodexToolBridge, with the engine's limit_exceeded
  codexCall,      \* where each call is in invoke
  transcript,  \* the entries of the session
  verdict,     \* the last event of the segment
  segmentOutcome,     \* what the executor made of the Run
  cancel,      \* cancellation: requested by the user, and seen by the monitor
  warm,        \* WarmCodexSession: a client kept open for the next segment
  checkpoint, toldContext  \* the checkpoint, and what the conversation holds of it

codexVars == <<gen, active, turn, bridge, codexCall, transcript, verdict, segmentOutcome, cancel,
               warm, checkpoint, toldContext>>
bridgeVars == <<turn, bridge, codexCall>>
runVars == <<segmentOutcome, cancel, warm, checkpoint, toldContext>>

NewBridge == [accepting |-> TRUE, calls |-> 0, deferred |-> NoCodexCall, stop |-> FALSE,
              limit |-> FALSE, parked |-> FALSE]
NoContext == [field |-> "none", list |-> <<>>]
NewExecution == [interrupted |-> FALSE, turn |-> FALSE]
Entry(type, c) == [type |-> type, seg |-> gen.seg, call |-> c, context |-> NoContext]

(* continuation_prompt: a changed field is sent whole, a list that grew at    *)
(* its end is sent from there on, any other list is sent as a replacement.    *)
DeltaAppended(old, new) ==
  [field |-> new.field, clear |-> old.field # new.field,
   list |-> SubSeq(new.list, Len(old.list) + 1, Len(new.list)), replace |-> FALSE]
ContextDelta(old, new) ==
  [field |-> new.field, clear |-> old.field # new.field,
   list |-> IF IsPrefix(old.list, new.list)
              THEN SubSeq(new.list, Len(old.list) + 1, Len(new.list)) ELSE new.list,
   replace |-> ~IsPrefix(old.list, new.list)]
Whole(new) == [field |-> new.field, clear |-> TRUE, list |-> new.list, replace |-> TRUE]
ToldInFull(old, delta) ==
  [field |-> IF delta.clear THEN delta.field ELSE old.field,
   list |-> IF delta.replace THEN delta.list ELSE old.list \o delta.list]

CodexInit ==
  /\ gen = [phase |-> "closed", seg |-> 0, prompt |-> Whole(NoContext)]
  /\ active = NewExecution
  /\ turn = "none"
  /\ bridge = NewBridge
  /\ codexCall = [c \in CodexCalls |-> "none"]
  /\ transcript = <<>>
  /\ verdict = "none"
  /\ segmentOutcome = "queued"
  /\ cancel = [requested |-> FALSE, seen |-> FALSE]
  /\ warm = "none"
  /\ checkpoint = [field |-> "x", list |-> <<CHOOSE x \in Facts : TRUE>>]  \* of a replaced session
  /\ toldContext = NoContext
-----------------------------------------------------------------------------
(* _validate_parent, and the one deferred call the answer belongs to.         *)
Starts == {i \in DOMAIN transcript : transcript[i].type = "start"}
LastStart == transcript[Max(Starts)]
DeferredIn(seg) ==
  {i \in DOMAIN transcript : transcript[i].type = "deferred" /\ transcript[i].seg = seg}
ValidParent ==
  /\ transcript # <<>> /\ Last(transcript).type = "terminal"
  /\ Starts # {}
  /\ LastStart.seg = gen.seg
  /\ segmentOutcome = "parked" /\ bridge.deferred # NoCodexCall =>
       Cardinality({i \in DeferredIn(gen.seg) : transcript[i].call = bridge.deferred}) = 1
-----------------------------------------------------------------------------
(* _execution_stream and _run up to the thread. WarmCodexSession.acquire: a   *)
(* client that ended this session's last turn is reused.                      *)
Resumes == gen.seg > 0
BeginSegment ==
  /\ segmentOutcome \in {"queued", "parked", "retry"} /\ gen.phase = "closed"
  /\ gen.seg < MaxCodexSegments
  /\ IF Resumes /\ ~ValidParent
       THEN segmentOutcome' = "refused" /\ UNCHANGED <<gen, active, turn, bridge, codexCall, verdict, warm>>
       ELSE /\ gen' = [phase |-> "thread", seg |-> gen.seg + 1,
                       prompt |-> IF Resumes THEN ContextDelta(LastStart.context, checkpoint)
                                  ELSE Whole(checkpoint)]
            /\ active' = NewExecution /\ bridge' = NewBridge /\ turn' = "none"
            /\ codexCall' = [c \in CodexCalls |-> "none"]
            /\ verdict' = "none" /\ segmentOutcome' = "running"
            /\ warm' = "busy"
  /\ UNCHANGED <<transcript, cancel, checkpoint, toldContext>>

(* What the agent did between two segments changes the checkpoint.            *)
ChangeCheckpoint ==
  /\ segmentOutcome \in {"parked", "retry"} /\ gen.phase = "closed"
  /\ \E f \in {"x", "none"}, l \in {checkpoint.list} \cup
          {Append(checkpoint.list, x) : x \in Facts} \cup {<<x>> : x \in Facts} :
       /\ Len(l) <= MaxCodexSegments
       /\ checkpoint' = [field |-> f, list |-> l]
  /\ UNCHANGED <<gen, active, bridgeVars, transcript, verdict, segmentOutcome, cancel, warm, toldContext>>

(* The thread is there: register, write codex_start, yield SESSION_STARTED.   *)
ThreadStarted ==
  /\ gen.phase = "thread"
  /\ gen' = [gen EXCEPT !.phase = "started"]
  /\ transcript' = Append(transcript, [Entry("start", NoCodexCall) EXCEPT !.context = checkpoint])
  /\ UNCHANGED <<active, bridgeVars, verdict, runVars>>

(* The last event of the segment is yielded; nothing follows it.              *)
Yield(v) == verdict' = v /\ gen' = [gen EXCEPT !.phase = "ended"]
(* An exception in the try block: connection lost, transcript not written.    *)
EngineError ==
  /\ gen.phase \in {"thread", "started", "turn"}
  /\ Yield("error")
  /\ UNCHANGED <<active, bridgeVars, transcript, runVars>>

(* turn_start is sent with the prompt.                                        *)
SendTurn ==
  /\ gen.phase = "started" /\ turn = "none"
  /\ IF active.interrupted
       THEN Yield("interrupted") /\ UNCHANGED <<turn, toldContext>>
       ELSE /\ turn' = "running"
            /\ toldContext' = ToldInFull(toldContext, gen.prompt)
            /\ UNCHANGED <<gen, verdict>>
  /\ UNCHANGED <<active, bridge, codexCall, transcript, segmentOutcome, cancel, warm, checkpoint>>

Interrupted(t) == IF t = "running" THEN "told" ELSE t
(* turn_start is answered; an interrupt may have come in between.             *)
TurnKnownUnchecked ==
  /\ gen.phase = "started" /\ turn # "none"
  /\ gen' = [gen EXCEPT !.phase = "turn"]
  /\ active' = [active EXCEPT !.turn = TRUE]
  /\ UNCHANGED <<bridgeVars, transcript, verdict, runVars>>
TurnKnown ==
  /\ gen.phase = "started" /\ turn # "none"
  /\ gen' = [gen EXCEPT !.phase = "turn"]
  /\ active' = [active EXCEPT !.turn = TRUE]
  /\ turn' = IF active.interrupted THEN Interrupted(turn) ELSE turn
  /\ UNCHANGED <<bridge, codexCall, transcript, verdict, runVars>>

(* interrupt                                                                  *)
InterruptTurn ==
  /\ active' = [active EXCEPT !.interrupted = TRUE]
  /\ bridge' = [bridge EXCEPT !.accepting = FALSE]
  /\ turn' = IF active.turn THEN Interrupted(turn) ELSE turn
-----------------------------------------------------------------------------
(* CodexToolBridge.invoke. Its lock is held from the first check to the last  *)
(* line, so one call at most is past "none" and not yet "done".               *)
Busy == \E c \in CodexCalls : codexCall[c] \notin {"none", "done"}
MayCall == turn \in {"running", "told"} /\ ~Busy
Goes(c, where) == codexCall' = [codexCall EXCEPT ![c] = where]

InvokeRefused(c) ==
  /\ MayCall /\ codexCall[c] = "none"
  /\ ~bridge.accepting
  /\ Goes(c, "done")
  /\ UNCHANGED <<gen, active, turn, bridge, transcript, verdict, runVars>>
InvokeAtLimit(c) ==
  /\ MayCall /\ codexCall[c] = "none"
  /\ bridge.accepting /\ bridge.calls >= MaxCodexTurns
  /\ bridge' = [bridge EXCEPT !.accepting = FALSE, !.stop = TRUE, !.parked = TRUE]
  /\ Goes(c, "done")
  /\ UNCHANGED <<gen, active, turn, transcript, verdict, runVars>>
(* Counted, then refused by the policy, run by the gateway, or to be deferred. *)
Invoke(c) ==
  /\ MayCall /\ codexCall[c] = "none"
  /\ bridge.accepting /\ bridge.calls < MaxCodexTurns
  /\ bridge' = [bridge EXCEPT !.calls = @ + 1]
  /\ \E where \in {"done", "gateway", "ask", "propose"} : Goes(c, where)
  /\ UNCHANGED <<gen, active, turn, transcript, verdict, runVars>>
GatewayAnswers(c) ==
  /\ codexCall[c] = "gateway" /\ Goes(c, "done")
  /\ UNCHANGED <<gen, active, turn, bridge, transcript, verdict, runVars>>
(* on_deferred_validation refuses the call, or save_deferred records it.      *)
ValidateDeferred(c) ==
  /\ codexCall[c] \in {"ask", "propose"}
  /\ \/ Goes(c, "done") /\ UNCHANGED transcript
     \/ /\ transcript' = Append(transcript, Entry("deferred", c))
        /\ Goes(c, IF codexCall[c] = "ask" THEN "park" ELSE "inline")
  /\ UNCHANGED <<gen, active, turn, bridge, verdict, runVars>>
(* on_inline_effect: applied or refused at once, or left to an approval.      *)
InlineEffect(c) ==
  /\ codexCall[c] = "inline"
  /\ \E where \in {"done", "park"} : Goes(c, where)
  /\ UNCHANGED <<gen, active, turn, bridge, transcript, verdict, runVars>>
ParkStillAccepting(c) ==
  /\ codexCall[c] = "park"
  /\ bridge' = [bridge EXCEPT !.deferred = c, !.parked = TRUE]
  /\ Goes(c, "done")
  /\ UNCHANGED <<gen, active, turn, transcript, verdict, runVars>>
Park(c) ==
  /\ codexCall[c] = "park"
  /\ bridge' = [bridge EXCEPT !.deferred = c, !.accepting = FALSE, !.parked = TRUE]
  /\ Goes(c, "done")
  /\ UNCHANGED <<gen, active, turn, transcript, verdict, runVars>>
(* The task stop_for_deferred.                                                *)
StopForDeferred ==
  /\ gen.phase = "turn" /\ bridge.parked /\ turn = "running"
  /\ turn' = "told"
  /\ UNCHANGED <<gen, active, bridge, codexCall, transcript, verdict, runVars>>
(* More output, or more messages, than the limits allow.                      *)
OutputLimit ==
  /\ gen.phase = "turn" /\ turn = "running" /\ ~bridge.limit
  /\ bridge' = [bridge EXCEPT !.limit = TRUE, !.accepting = FALSE]
  /\ turn' = "told"
  /\ UNCHANGED <<gen, active, codexCall, transcript, verdict, runVars>>

(* The Codex process ends a turn once its calls are answered, or when told.   *)
CodexEndsTurn ==
  /\ turn \in {"running", "told"}
  /\ \/ ~Busy /\ turn' \in {"completed", "failed", "overloaded"}
     \/ turn = "told" /\ turn' = "interrupted"
  /\ UNCHANGED <<gen, active, bridge, codexCall, transcript, verdict, runVars>>

(* turn/completed: the terminal entry is written, then one event decides.     *)
VerdictOf(status) ==
  CASE active.interrupted -> "interrupted"
    [] ~active.interrupted /\ (bridge.limit \/ bridge.stop) -> "limit"
    [] ~active.interrupted /\ ~bridge.limit /\ ~bridge.stop ->
         IF bridge.deferred # NoCodexCall /\ status \in {"completed", "interrupted"} THEN "deferred"
         ELSE IF status = "overloaded" /\ bridge.deferred = NoCodexCall THEN "capacity"
         ELSE IF status = "completed" THEN "result" ELSE "error"
TurnEnds ==
  /\ gen.phase = "turn" /\ turn \in {"completed", "failed", "overloaded", "interrupted"}
  /\ transcript' = Append(transcript, Entry("terminal", NoCodexCall))
  /\ Yield(VerdictOf(turn))
  /\ UNCHANGED <<active, bridgeVars, runVars>>
-----------------------------------------------------------------------------
(* worker/executor.py                                                         *)
CancelRequested ==
  /\ segmentOutcome = "running" /\ ~cancel.requested
  /\ cancel' = [cancel EXCEPT !.requested = TRUE]
  /\ UNCHANGED <<gen, active, bridgeVars, transcript, verdict, segmentOutcome, warm, checkpoint, toldContext>>
(* _monitor_cancellation: once the session is known, interrupt the engine.    *)
MonitorCancellation ==
  /\ segmentOutcome = "running" /\ cancel.requested /\ ~cancel.seen
  /\ gen.phase \in {"started", "turn", "ended"}
  /\ cancel' = [cancel EXCEPT !.seen = TRUE]
  /\ InterruptTurn
  /\ UNCHANGED <<gen, codexCall, transcript, verdict, segmentOutcome, warm, checkpoint, toldContext>>

(* _consume_engine on the last event of the segment. Cancellation wins.       *)
OutcomeOf(v) ==
  CASE cancel.requested -> {"cancelled"}
    [] ~cancel.requested /\ v = "result" -> {"succeeded", "failed"}
    [] ~cancel.requested /\ v = "deferred" -> {"parked", "failed"}
    [] ~cancel.requested /\ v = "capacity" -> {"retry", "failed"}
    [] ~cancel.requested /\ v \in {"error", "limit", "interrupted"} -> {"failed"}
ConsumeEngine ==
  /\ gen.phase = "ended" /\ segmentOutcome = "running"
  /\ segmentOutcome' \in OutcomeOf(verdict)
  /\ UNCHANGED <<gen, active, bridgeVars, transcript, verdict, cancel, warm, checkpoint, toldContext>>
(* The deadline passes, or cancellation is seen before the first event.       *)
GiveUp ==
  /\ segmentOutcome = "running" /\ gen.phase # "ended"
  /\ gen' = [gen EXCEPT !.phase = "ended"]
  /\ segmentOutcome' = IF cancel.requested THEN "cancelled" ELSE "failed"
  /\ UNCHANGED <<active, bridgeVars, transcript, verdict, cancel, warm, checkpoint, toldContext>>

(* The finally blocks of _run and serve_codex_tools: no more calls, those in  *)
(* progress end or are cancelled, and the client is closed, or kept warm when *)
(* its turn ended and it let the thread go.                                   *)
CloseEngine ==
  /\ segmentOutcome # "running" /\ gen.phase # "closed"
  /\ gen' = [gen EXCEPT !.phase = "closed"]
  /\ bridge' = [bridge EXCEPT !.accepting = FALSE]
  /\ codexCall' = [c \in CodexCalls |-> IF codexCall[c] = "none" THEN "none" ELSE "done"]
  /\ turn' = "none"
  /\ warm' \in {"none"} \cup IF transcript # <<>> /\ Last(transcript) = Entry("terminal", NoCodexCall)
                             THEN {"kept"} ELSE {}
  /\ UNCHANGED <<active, transcript, verdict, segmentOutcome, cancel, checkpoint, toldContext>>
(* warm_codex_scope ends.                                                     *)
ScopeEnds ==
  /\ warm = "kept" /\ warm' = "none"
  /\ UNCHANGED <<gen, active, bridgeVars, transcript, verdict, segmentOutcome, cancel, checkpoint, toldContext>>
-----------------------------------------------------------------------------
CodexNext ==
  \/ BeginSegment \/ ChangeCheckpoint \/ ThreadStarted \/ EngineError \/ SendTurn \/ TurnKnown
  \/ \E c \in CodexCalls :
       \/ InvokeRefused(c) \/ InvokeAtLimit(c) \/ Invoke(c) \/ GatewayAnswers(c)
       \/ ValidateDeferred(c) \/ InlineEffect(c) \/ Park(c)
  \/ StopForDeferred \/ OutputLimit \/ CodexEndsTurn \/ TurnEnds
  \/ CancelRequested \/ MonitorCancellation \/ ConsumeEngine \/ GiveUp \/ CloseEngine \/ ScopeEnds
CodexSpec == CodexInit /\ [][CodexNext]_codexVars
-----------------------------------------------------------------------------
(* The variables keep their types.                                            *)
CodexTypeOK ==
  /\ gen.seg \in 0..MaxCodexSegments
  /\ gen.phase \in {"thread", "started", "turn", "ended", "closed"}
  /\ bridge.calls \in 0..MaxCodexTurns /\ bridge.deferred \in CodexCalls \cup {NoCodexCall}
  /\ Cardinality({c \in CodexCalls : codexCall[c] \notin {"none", "done"}}) <= 1
  /\ verdict \in {"none", "interrupted", "limit", "deferred", "capacity", "result", "error"}

(* A Run that waits for an answer or for capacity can be continued: its       *)
(* session ends in a terminal receipt of the last segment, and the call it    *)
(* waits for is recorded once, whatever call, limit or interrupt came in      *)
(* between (_validate_parent, invoke).                                        *)
ParkedRunResumes == segmentOutcome # "refused"

(* A cancelled turn was told to stop, also when the interrupt came while the  *)
(* turn was being started (interrupt, _run).                                  *)
InterruptReachesTurn == gen.phase = "turn" /\ active.interrupted => turn # "running"

(* Once a turn runs, the conversation holds the whole checkpoint, although a  *)
(* resumed segment was sent the changes only (continuation_prompt).           *)
CheckpointTold == gen.phase = "turn" => toldContext = checkpoint
=============================================================================
