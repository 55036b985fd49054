------------------------ MODULE EffectReconciliation ------------------------
(***************************************************************************)
(* Read-only lookups of effects whose outcome is unknown                      *)
(* (effects/reconciliation_*.py), here for MCP calls, the one kind whose      *)
(* result changes other state: a confirmed lookup frees the desktop.          *)
(*                                                                         *)
(* A request is accepted for the session of the user who asked, queued,       *)
(* claimed by one worker for 60 seconds and finished once. Every transaction  *)
(* reads session, project and target again and itself fails a request that    *)
(* may no longer be answered.                                                *)
(***************************************************************************)
EXTENDS McpDesktop

CONSTANTS
  Lookups,    \* request ids
  AboutCall   \* the effect each request is about

ASSUME LookupAssumption == AboutCall \in [Lookups -> Calls]

VARIABLES
  lookup,     \* EffectReconciliationRequest rows
  permitted,  \* the session may still read the project
  changed,    \* the target is no longer what was accepted
  reader      \* the worker of each request, with what it observed

reconciliationVars == <<desktopVars, lookup, permitted, changed, reader>>

NoLookup == [status |-> "none", late |-> FALSE, sent |-> FALSE, seen |-> "none"]
NoReader == [at |-> "none", seen |-> "none"]

ReconciliationInit ==
  /\ DesktopInit
  /\ lookup = [q \in Lookups |-> NoLookup]
  /\ permitted = TRUE
  /\ changed = FALSE
  /\ reader = [q \in Lookups |-> NoReader]

Pending(q) == lookup[q].status \in {"QUEUED", "RUNNING"}
SetLookup(q, s) == lookup' = [lookup EXCEPT ![q].status = s]
-----------------------------------------------------------------------------
\* accept: another active request for the effect is refused, and so is an
\* effect whose outcome is known.
AcceptLookup(q) ==
  /\ lookup[q].status = "none" /\ permitted /\ ~changed
  /\ mcpCaller[AboutCall[q]].outcome = "UNKNOWN"
  /\ \A p \in Lookups : AboutCall[p] = AboutCall[q] => ~Pending(p)
  /\ lookup' = [lookup EXCEPT ![q] = [@ EXCEPT !.status = "QUEUED", !.sent = TRUE]]
  /\ UNCHANGED <<desktopVars, permitted, changed, reader>>

\* The reason for which _locked's authorize fails a row.
Failure(q, targetRead) ==
  CASE ~permitted               -> "REVOKED"
    [] targetRead /\ changed    -> "FAILED"
    [] lookup[q].late           -> "FAILED"
    [] OTHER                    -> "none"
Authorize(q, targetRead) == Failure(q, targetRead) = "none"
FailLookup(q, targetRead) ==
  IF Pending(q) THEN SetLookup(q, Failure(q, targetRead)) ELSE UNCHANGED lookup

\* execute_reconciliation_request_job takes the message; claim locks the row.
ClaimLookup(q) ==
  /\ lookup[q].sent
  /\ IF ~Authorize(q, TRUE)
       THEN /\ lookup' = [lookup EXCEPT ![q] =
                            [lookup[q] EXCEPT !.sent = FALSE,
                                      !.status = IF Pending(q) THEN Failure(q, TRUE) ELSE @]]
            /\ UNCHANGED reader
       ELSE IF lookup[q].status = "QUEUED"
       THEN /\ lookup' = [lookup EXCEPT ![q] = [@ EXCEPT !.sent = FALSE, !.status = "RUNNING"]]
            /\ reader' = [reader EXCEPT ![q].at = "observe"]
       ELSE lookup' = [lookup EXCEPT ![q].sent = FALSE] /\ UNCHANGED reader
  /\ UNCHANGED <<desktopVars, permitted, changed>>

\* A job delivered while dispatch is off, or a lost queue, uses the message up.
LoseLookupMessage(q) ==
  /\ lookup[q].sent
  /\ lookup' = [lookup EXCEPT ![q].sent = FALSE]
  /\ UNCHANGED <<desktopVars, permitted, changed, reader>>

\* require_owner: the row is still the claimed one.
OwnsLookup(q) == lookup[q].status = "RUNNING" /\ ~lookup[q].late

\* observe: authority before and after the read, then what the read showed.
HopefulObservation(q) == IF AboutCall[q] \in Identified THEN "CONFIRMED" ELSE "NOT_OBSERVED"
Observation(q) ==
  IF AboutCall[q] \in Identified /\ operation[AboutCall[q]] = "visible"
  THEN "CONFIRMED" ELSE "NOT_OBSERVED"
Observe(q) ==
  /\ reader[q].at = "observe"
  /\ IF Authorize(q, TRUE) /\ OwnsLookup(q) /\ AboutCall[q] \in Identified
       THEN /\ reader' = [reader EXCEPT ![q] = [at |-> "finish", seen |-> Observation(q)]]
            /\ UNCHANGED lookup
       ELSE /\ reader' = [reader EXCEPT ![q].at = "fail"]
            /\ IF Authorize(q, TRUE) THEN UNCHANGED lookup ELSE FailLookup(q, TRUE)
  /\ UNCHANGED <<desktopVars, permitted, changed>>

\* finish: result and desktop in one transaction, undone when the lease ran
\* out meanwhile.
FreeDesktop(q) ==
  desktop' = IF reader[q].seen = "CONFIRMED"
                /\ desktop = [run |-> RunOf[AboutCall[q]], pending |-> AboutCall[q]]
             THEN [desktop EXCEPT !.pending = NoCallEffect] ELSE desktop
FinishLookup(q) ==
  /\ reader[q].at = "finish"
  /\ \/ /\ Authorize(q, TRUE) /\ OwnsLookup(q)
        /\ lookup' = [lookup EXCEPT ![q] = [@ EXCEPT !.status = "SUCCEEDED",
                                                     !.seen = reader[q].seen]]
        /\ FreeDesktop(q)
        /\ reader' = [reader EXCEPT ![q].at = "done"]
     \/ /\ ~Authorize(q, TRUE) \/ ~OwnsLookup(q)
        /\ IF Authorize(q, TRUE) THEN UNCHANGED lookup ELSE FailLookup(q, TRUE)
        /\ UNCHANGED desktop
        /\ reader' = [reader EXCEPT ![q].at = "fail"]
  /\ UNCHANGED <<over, granted, mcpCaller, operation, permitted, changed>>

\* fail: the first reason stands.
FailByOwner(q) ==
  /\ reader[q].at = "fail"
  /\ reader' = [reader EXCEPT ![q].at = "done"]
  /\ IF ~Pending(q) THEN UNCHANGED lookup
     ELSE IF Authorize(q, FALSE) THEN SetLookup(q, "FAILED") ELSE FailLookup(q, FALSE)
  /\ UNCHANGED <<desktopVars, permitted, changed>>

\* The read fails, times out or is cancelled; or the worker is gone.
LookupBreaks(q) ==
  /\ reader[q].at \in {"observe", "finish"}
  /\ \E s \in {"fail", "done"} : reader' = [reader EXCEPT ![q].at = s]
  /\ UNCHANGED <<desktopVars, lookup, permitted, changed>>

\* The lease of a running request or the patience with a queued one ends.
LookupExpires(q) ==
  /\ Pending(q) /\ ~lookup[q].late
  /\ lookup' = [lookup EXCEPT ![q].late = TRUE]
  /\ UNCHANGED <<desktopVars, permitted, changed, reader>>
RecoverListed(q) ==
  /\ lookup[q].late
  /\ SetLookup(q, Failure(q, FALSE))
  /\ UNCHANGED <<desktopVars, permitted, changed, reader>>
RecoverExpired(q) ==
  /\ Pending(q) /\ lookup[q].late
  /\ FailLookup(q, FALSE)
  /\ UNCHANGED <<desktopVars, permitted, changed, reader>>

EndReading ==
  /\ \/ permitted /\ permitted' = FALSE /\ UNCHANGED changed
     \/ ~changed /\ changed' = TRUE /\ UNCHANGED permitted
  /\ UNCHANGED <<desktopVars, lookup, reader>>

LookupSteps(q) ==
  \/ AcceptLookup(q) \/ ClaimLookup(q) \/ LoseLookupMessage(q) \/ Observe(q)
  \/ FinishLookup(q) \/ FailByOwner(q) \/ LookupBreaks(q) \/ LookupExpires(q)
  \/ RecoverExpired(q)

ReconciliationNext ==
  \/ DesktopNext /\ UNCHANGED <<lookup, permitted, changed, reader>>
  \/ EndReading
  \/ \E q \in Lookups : LookupSteps(q)

ReconciliationSpec == ReconciliationInit /\ [][ReconciliationNext]_reconciliationVars
-----------------------------------------------------------------------------
\* The values of the rows.
ReconciliationTypeOK ==
  /\ desktop \in [run : DesktopRuns \cup {NoDesktopRun}, pending : Calls \cup {NoCallEffect}]
  /\ over \subseteq DesktopRuns
  /\ lookup \in [Lookups -> [status : {"none", "QUEUED", "RUNNING", "SUCCEEDED", "FAILED", "REVOKED"},
                             late : BOOLEAN, sent : BOOLEAN,
                             seen : {"none", "CONFIRMED", "NOT_OBSERVED"}]]

\* A lookup's answer is right when it is read: "confirmed" is only recorded for
\* a call the service did carry out, by a request nobody had failed.
LookupIsRight ==
  \A q \in Lookups :
    /\ lookup[q].seen # "none" <=> lookup[q].status = "SUCCEEDED"
    /\ lookup[q].seen = "CONFIRMED" => operation[AboutCall[q]] = "visible"

\* An effect has one lookup at a time, and an ended one keeps its outcome.
LookupEndsOnce ==
  [][\A q \in Lookups :
       /\ ~Pending(q) /\ lookup[q].status # "none" => lookup'[q].status = lookup[q].status
       /\ \A p \in Lookups : p # q /\ AboutCall[p] = AboutCall[q] => ~(Pending(p)' /\ Pending(q)')
    ]_reconciliationVars

(* The desktop serves one call at a time, and what a lookup reports about a     *)
(* call in doubt is what became of it (mcp_lease, reconciliation requests).     *)
DesktopIsSound == OneCallOnDesktop /\ LookupIsRight
=============================================================================
