----------------------------- MODULE McpDesktop -----------------------------
(***************************************************************************)
(* Calls that act on a desktop through MCP (effects/mcp_provider.py,          *)
(* agent/mcp_lease.py, effects/mcp_lease_probe.py). One endpoint: its lease   *)
(* row names the Run that holds the desktop and the effect whose outcome is    *)
(* not confirmed. Only the first attempt calls the tool; every attempt reads  *)
(* back, and only a confirmed read-back frees the desktop again.              *)
(***************************************************************************)
EXTENDS Naturals, FiniteSets

CONSTANTS
  DesktopRuns, Calls,
  RunOf,             \* the Run of each call effect
  Identified,        \* calls whose arguments and read-back carry the effect's id
  Cancels,           \* the call each call cancels, or NoCallEffect
  MaxCallAttempts,   \* bound: attempts of one effect
  NoCallEffect, NoDesktopRun

ASSUME DesktopAssumption ==
  /\ RunOf \in [Calls -> DesktopRuns]
  /\ Identified \subseteq Calls
  /\ Cancels \in [Calls -> Calls \cup {NoCallEffect}]
  /\ MaxCallAttempts \in Nat
  /\ NoCallEffect \notin Calls /\ NoDesktopRun \notin DesktopRuns

VARIABLES
  desktop,   \* the McpDesktopLease row
  over,      \* Runs in a terminal state
  granted,   \* the binding, the approval and the lease of the effects still stand
  mcpCaller,    \* the executor of each effect
  operation  \* what became of each call at the service

desktopVars == <<desktop, over, granted, mcpCaller, operation>>

FreshCaller ==
  [at |-> "idle", attempt |-> 0, outcome |-> "none", owner |-> NoDesktopRun, pending |-> NoCallEffect]

DesktopInit ==
  /\ desktop = [run |-> NoDesktopRun, pending |-> NoCallEffect]
  /\ over = {}
  /\ granted = TRUE
  /\ mcpCaller = [e \in Calls |-> FreshCaller]
  /\ operation = [e \in Calls |-> "none"]

CallerAt(e, s) == mcpCaller[e].at = s
CallerGoes(e, s) == mcpCaller' = [mcpCaller EXCEPT ![e].at = s]
CallerEnds(e, o) ==
  mcpCaller' = [mcpCaller EXCEPT ![e] = [@ EXCEPT !.at = "idle", !.outcome = o,
                                            !.owner = NoDesktopRun, !.pending = NoCallEffect]]

\* Retried only when the read-back can tell this effect from another.
Unconfirmed(e) == IF e \in Identified THEN "RETRY" ELSE "UNKNOWN"
-----------------------------------------------------------------------------
\* claim_effect_execution and the first authorize of apply. A Run has one
\* effect at a time: it waits until the one before has ended.
RunFree(e) ==
  \A d \in Calls \ {e} :
    RunOf[d] = RunOf[e] => CallerAt(d, "idle") /\ mcpCaller[d].outcome # "RETRY"
BeginCall(e) ==
  /\ RunFree(e)
  /\ CallerAt(e, "idle") /\ mcpCaller[e].outcome \in {"none", "RETRY"}
  /\ RunOf[e] \notin over /\ mcpCaller[e].attempt < MaxCallAttempts
  /\ granted
  /\ Cancels[e] # NoCallEffect => RunOf[Cancels[e]] = RunOf[e]    \* require_original_effect
  /\ mcpCaller' = [mcpCaller EXCEPT ![e].at = "acquire", ![e].attempt = @ + 1, ![e].outcome = "none"]
  /\ UNCHANGED <<desktop, over, granted, operation>>

Blocks(e, p) == p \notin {NoCallEffect, e, Cancels[e]}

\* _release_if_ended, first transaction: whose outcome is in doubt.
ProbeReads(e) ==
  /\ CallerAt(e, "acquire")
  /\ Blocks(e, desktop.pending)
  /\ desktop.run = RunOf[e] \/ desktop.run \in over
  /\ mcpCaller' = [mcpCaller EXCEPT ![e].at = "probe", ![e].owner = desktop.run,
                              ![e].pending = desktop.pending]
  /\ UNCHANGED <<desktop, over, granted, operation>>

\* The probe asks the service about an effect that ended unknown.
EndedWhenReported(p) == mcpCaller[p].outcome = "UNKNOWN" /\ p \in Identified
Ended(p) ==
  mcpCaller[p].outcome = "UNKNOWN" /\ p \in Identified /\ operation[p] = "visible"
ProbeAnswers(e) ==
  /\ CallerAt(e, "probe")
  /\ \/ Ended(mcpCaller[e].pending) /\ CallerGoes(e, "release")
     \/ CallerGoes(e, "lock")
  /\ UNCHANGED <<desktop, over, granted, operation>>

\* Second transaction: freed if the row still says what was probed.
ProbeReleases(e) ==
  /\ CallerAt(e, "release")
  /\ desktop' = IF desktop = [run |-> mcpCaller[e].owner, pending |-> mcpCaller[e].pending]
                THEN [desktop EXCEPT !.pending = NoCallEffect] ELSE desktop
  /\ CallerGoes(e, "lock")
  /\ UNCHANGED <<over, granted, operation>>

MayHold(r) ==
  \/ desktop.run \in {r, NoDesktopRun}
  \/ desktop.run \in over /\ desktop.pending = NoCallEffect

AcquireDesktop(e) ==
  /\ CallerAt(e, "lock") \/ CallerAt(e, "acquire")
  /\ IF MayHold(RunOf[e]) /\ ~Blocks(e, desktop.pending)
       THEN /\ desktop' = [run |-> RunOf[e], pending |-> e]
            /\ \/ mcpCaller[e].attempt = 1 /\ CallerGoes(e, "call")
               \/ mcpCaller[e].attempt > 1 /\ e \in Identified /\ CallerGoes(e, "read_back")
               \/ mcpCaller[e].attempt > 1 /\ e \notin Identified /\ CallerEnds(e, "UNKNOWN")
       ELSE /\ CallerEnds(e, IF mcpCaller[e].attempt = 1 THEN "NOT_SENT" ELSE "UNKNOWN")
            /\ UNCHANGED desktop
  /\ UNCHANGED <<over, granted, operation>>

\* mcp.tools/v1 with reserve_desktop: a Run takes the desktop for its reads.
ReserveDesktop(r) ==
  /\ r \notin over /\ MayHold(r)
  /\ desktop' = [desktop EXCEPT !.run = r]
  /\ UNCHANGED <<over, granted, mcpCaller, operation>>

\* Before that it asks about a call in doubt, its own Run's or of a Run that is over.
\* Reading the row, the question and the release are one step here: an ended call
\* stays ended, and the row is compared again before it is set free.
ProbeForReads(r) ==
  /\ r \notin over
  /\ desktop.run = r \/ desktop.run \in over
  /\ desktop.pending # NoCallEffect /\ Ended(desktop.pending)
  /\ desktop' = [desktop EXCEPT !.pending = NoCallEffect]
  /\ UNCHANGED <<over, granted, mcpCaller, operation>>

CallTool(e) ==
  /\ CallerAt(e, "call")
  /\ \/ ~granted /\ CallerEnds(e, "UNKNOWN") /\ UNCHANGED operation
     \/ granted /\ operation' = [operation EXCEPT ![e] = "sent"] /\ CallerGoes(e, "read_back")
     \/ granted /\ operation' = [operation EXCEPT ![e] = "sent"] /\ CallerEnds(e, Unconfirmed(e))
  /\ UNCHANGED <<desktop, over, granted>>

\* Up to three reads; check_read_back compares the answer with the proposal.
ReadBackMatches(e) == operation[e] = "visible"
ReadBack(e) ==
  /\ CallerAt(e, "read_back")
  /\ \/ ~granted /\ CallerEnds(e, "UNKNOWN")
     \/ granted /\ CallerEnds(e, Unconfirmed(e))
     \/ granted /\ ReadBackMatches(e) /\ CallerGoes(e, "confirm")
  /\ UNCHANGED <<desktop, over, granted, operation>>

ConfirmCall(e) ==
  /\ CallerAt(e, "confirm")
  /\ IF desktop = [run |-> RunOf[e], pending |-> e]
       THEN /\ desktop' = [desktop EXCEPT !.pending = NoCallEffect]
            /\ CallerEnds(e, "APPLIED")
       ELSE CallerEnds(e, "UNKNOWN") /\ UNCHANGED desktop
  /\ UNCHANGED <<over, granted, operation>>

\* The worker dies. The sweep retries, or ends an exhausted effect as unknown.
CallerDies(e) ==
  /\ ~CallerAt(e, "idle")
  /\ CallerEnds(e, IF mcpCaller[e].attempt < MaxCallAttempts THEN "RETRY" ELSE "UNKNOWN")
  /\ UNCHANGED <<desktop, over, granted, operation>>
EffectExhausted(e) ==
  /\ CallerAt(e, "idle") /\ mcpCaller[e].outcome = "RETRY" /\ mcpCaller[e].attempt = MaxCallAttempts
  /\ CallerEnds(e, "UNKNOWN")
  /\ UNCHANGED <<desktop, over, granted, operation>>

RevokeCalls == granted /\ granted' = FALSE /\ UNCHANGED <<desktop, over, mcpCaller, operation>>

\* A Run ends once none of its effects is being executed or retried.
RunOver(r) ==
  /\ r \notin over
  /\ \A e \in Calls : RunOf[e] = r => CallerAt(e, "idle") /\ mcpCaller[e].outcome # "RETRY"
  /\ over' = over \cup {r}
  /\ UNCHANGED <<desktop, granted, mcpCaller, operation>>

\* The service receives the call, acts, and then shows it to readers. A cancel
\* it shows has stopped what it cancels.
ServiceActs(e) ==
  /\ operation[e] \in {"sent", "acting"}
  /\ operation' =
       IF operation[e] = "sent" THEN [operation EXCEPT ![e] = "acting"]
       ELSE [d \in Calls |-> CASE d = e -> "visible"
                               [] d = Cancels[e] /\ operation[d] # "none" -> "visible"
                               [] OTHER -> operation[d]]
  /\ UNCHANGED <<desktop, over, granted, mcpCaller>>

DesktopNext ==
  \/ RevokeCalls
  \/ \E r \in DesktopRuns : ReserveDesktop(r) \/ ProbeForReads(r) \/ RunOver(r)
  \/ \E e \in Calls :
       \/ BeginCall(e) \/ ProbeReads(e) \/ ProbeAnswers(e) \/ ProbeReleases(e)
       \/ AcquireDesktop(e) \/ CallTool(e) \/ ReadBack(e) \/ ConfirmCall(e)
       \/ CallerDies(e) \/ EffectExhausted(e) \/ ServiceActs(e)
-----------------------------------------------------------------------------
UnderWay(e) == operation[e] \in {"sent", "acting"}

\* The call that cancels this one was itself given up for a second cancellation.
\* Nothing refuses that (agent/mcp_lease.py:158, effects/proposal_evidence.py:36-51
\* ask only for a call of the same Run), and as the row of the desktop names one call,
\* it then says nothing of the first any more.
Forsaken(e) == \E c, y \in Calls :
  Cancels[c] = e /\ Cancels[y] = c /\ mcpCaller[y].attempt # 0

\* No two calls are under way at one desktop, whichever Runs and workers they
\* belong to, unless one was made to cancel the other: a call whose answer was
\* lost keeps the desktop until it was seen to have ended. The one way to lose it
\* is a second cancellation: of a call forsaken so the code forgets.
OneCallOnDesktop ==
  \A e, d \in Calls :
    e # d /\ UnderWay(e) /\ UnderWay(d) =>
      \/ Cancels[e] = d \/ Cancels[d] = e
      \/ Forsaken(e) \/ Forsaken(d)
=============================================================================
