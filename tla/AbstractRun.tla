---------------------------- MODULE AbstractRun ----------------------------
(***************************************************************************)
(* What the Run aggregate promises to its readers (API, schedules, UI):    *)
(* a Run has one public status, it is created QUEUED, and from then on the *)
(* status moves only along ALLOWED_RUN_TRANSITIONS of runs/domain.py.      *)
(* RunLifecycle, the model of the code that writes the status, implements  *)
(* this specification.                                                     *)
(***************************************************************************)

CONSTANT Runs

VARIABLE status     \* status[r]: "ABSENT" before creation, then a RunStatus

RunStatus ==
  {"QUEUED", "PREPARING", "RUNNING", "RETRY_PENDING", "WAITING_FOR_INPUT",
   "WAITING_FOR_APPROVAL", "WAITING_PERMISSION", "SUCCEEDED", "FAILED",
   "CANCELLED"}

TerminalRunStatuses == {"SUCCEEDED", "FAILED", "CANCELLED"}

\* The successors of a status: runs/domain.py keeps them as a dict of sets.
AllowedRunTransitions(s) ==
  CASE s = "ABSENT"               -> {"QUEUED"}
    [] s = "QUEUED"               -> {"PREPARING", "CANCELLED"}
    [] s = "PREPARING"            -> {"RUNNING", "RETRY_PENDING", "FAILED",
                                      "CANCELLED"}
    [] s = "RUNNING"              -> {"RETRY_PENDING", "WAITING_FOR_INPUT",
                                      "WAITING_FOR_APPROVAL",
                                      "WAITING_PERMISSION", "SUCCEEDED",
                                      "FAILED", "CANCELLED"}
    [] s = "RETRY_PENDING"        -> {"PREPARING", "FAILED", "CANCELLED"}
    [] s = "WAITING_PERMISSION"   -> {"QUEUED", "PREPARING", "FAILED",
                                      "CANCELLED"}
    [] s = "WAITING_FOR_INPUT"    -> {"QUEUED", "FAILED", "CANCELLED"}
    [] s = "WAITING_FOR_APPROVAL" -> {"QUEUED", "FAILED", "CANCELLED"}
    [] OTHER                      -> {}

Init == status = [r \in Runs |-> "ABSENT"]

PlanRunTransition(r, target) ==
  /\ target \in AllowedRunTransitions(status[r])
  /\ status' = [status EXCEPT ![r] = target]

\* detach_inline_effect may plan two transitions in one commit: the Run waits for
\* an effect that is already over, so readers see the second status at once.
PlanDetached(r, target) ==
  /\ "WAITING_FOR_APPROVAL" \in AllowedRunTransitions(status[r])
  /\ target \in AllowedRunTransitions("WAITING_FOR_APPROVAL")
  /\ status' = [status EXCEPT ![r] = target]

Next ==
  \E r \in Runs, target \in RunStatus :
    PlanRunTransition(r, target) \/ PlanDetached(r, target)

Spec == Init /\ [][Next]_status

=============================================================================
