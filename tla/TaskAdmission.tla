---------------------------- MODULE TaskAdmission ----------------------------
(***************************************************************************)
(* Starting a task: from a published skill version, a choice of resources and *)
(* an idempotency key to a Run (api/routes/runs.py create_task_run,           *)
(* runs/service.py, runs/repository.py create_idempotent). It composes the    *)
(* catalog of versions with the Integrations of the project.                  *)
(*                                                                         *)
(* A caller first asks whether its key has a Run already, then resolves the   *)
(* version without locks, asks again if that failed, and creates the Run in a  *)
(* transaction that asks once more, selects the resources, inserts the row    *)
(* unless the key is taken, and looks at the version under lock. Callers with *)
(* the same key, administrators and editors run in between. The purge of a    *)
(* Run's history leaves an audit row that keeps its key taken.                *)
(***************************************************************************)
EXTENDS SkillCatalog, Integrations

CONSTANTS
  Callers,   \* requests, and claims of scheduled occurrences
  Intents    \* what a caller asks for, version aside

VARIABLES caller   \* how far each caller is, and what it asks for

admissionVars == <<catalogVars, integrationVars, caller>>
-----------------------------------------------------------------------------
Waiting == [at |-> "new", key |-> NoVersion, version |-> NoVersion, intent |-> NoVersion, revision |-> 0]

AdmissionInit ==
  /\ CatalogInit /\ IntegrationInit
  /\ caller = [c \in Callers |-> Waiting]

Moves(c, at) ==
  /\ caller' = [caller EXCEPT ![c].at = at]
  /\ UNCHANGED <<catalogVars, integrationVars>>

Sent(c, k, v, i) ==
  /\ caller[c] = Waiting
  /\ caller' = [caller EXCEPT ![c] = [Waiting EXCEPT !.at = "asking", !.key = k, !.version = v, !.intent = i]]
  /\ UNCHANGED <<catalogVars, integrationVars>>

(* find_task_run_replay and validate_creation_replay.                        *)
Row(c) == run[caller[c].key]
KeyTaken(c) == Row(c).state = "created"
SameRequest(c) == Row(c).version = caller[c].version /\ Row(c).intent = caller[c].intent
Replay(c) == IF SameRequest(c) THEN "answered" ELSE "conflict"

FindTaskReplay(c) ==
  /\ caller[c].at = "asking"
  /\ Moves(c, IF KeyTaken(c) THEN Replay(c) ELSE "resolving")

ResolveTaskRun(c) ==
  /\ caller[c].at = "resolving"
  /\ Moves(c, IF Runnable(caller[c].version) THEN "creating" ELSE "asking_again")

(* The version is gone: perhaps a request with the same key was first.       *)
RefuseAtOnce(c) ==
  /\ caller[c].at = "asking_again"
  /\ Moves(c, "refused")
FindReplayAgain(c) ==
  /\ caller[c].at = "asking_again"
  /\ Moves(c, IF KeyTaken(c) THEN Replay(c) ELSE "refused")

(* create_task_run. The resources are read without a lock before the insert: *)
(* SelectSources is the part of the transaction up to there.                 *)
Selectable(revision) ==
  /\ integration.status = "ACTIVE"
  /\ configured \in {0, integration.revision}
  /\ revision = integration.revision

SelectSources(c) ==
  /\ caller[c].at = "creating"
  /\ IF KeyTaken(c) THEN Moves(c, Replay(c))
     ELSE \/ /\ Selectable(integration.revision)
             /\ caller' = [caller EXCEPT ![c].at = "inserting", ![c].revision = integration.revision]
             /\ UNCHANGED <<catalogVars, integrationVars>>
          \/ /\ ~Selectable(integration.revision)
             /\ Moves(c, "selection_failed")

(* TaskSourceSelectionError looks for the Run of the key before it is raised. *)
SelectionFailed(c) ==
  /\ caller[c].at = "selection_failed"
  /\ Moves(c, IF KeyTaken(c) THEN Replay(c) ELSE "refused")

(* create_idempotent: insert on conflict do nothing, then the locked look at  *)
(* the version, the frozen binding, and the commit.                           *)
TaskAsResolved(c) == TRUE
CurrentTask(c) == Runnable(caller[c].version)
Insert(c) ==
  /\ caller[c].at = "inserting"
  /\ IF Row(c).state = "purged" THEN Moves(c, "conflict")
     ELSE IF KeyTaken(c) THEN Moves(c, Replay(c))
     ELSE IF ~CurrentTask(c) THEN Moves(c, "refused")
     ELSE /\ run' = [run EXCEPT ![caller[c].key] =
                       [state |-> "created", version |-> caller[c].version,
                        intent |-> caller[c].intent, revision |-> caller[c].revision]]
          /\ caller' = [caller EXCEPT ![c].at = "answered"]
          /\ UNCHANGED <<ready, version, enabled, module, integrationVars>>

(* A client that got no answer sends the request again.                      *)
Resend(c) ==
  /\ caller[c].at \in {"resolving", "creating", "inserting"}
  /\ Moves(c, "asking")

(* purge_run: the row goes, the audit stays.                                 *)
PurgeRun(k) ==
  /\ run[k].state = "created"
  /\ run' = [run EXCEPT ![k] = [NoRun EXCEPT !.state = "purged"]]
  /\ UNCHANGED <<ready, version, enabled, module, integrationVars, caller>>

CallerStep(c) ==
  \/ \E k \in RunKeys, v \in Versions, i \in Intents : Sent(c, k, v, i)
  \/ FindTaskReplay(c) \/ ResolveTaskRun(c) \/ FindReplayAgain(c)
  \/ SelectSources(c) \/ SelectionFailed(c) \/ Insert(c) \/ Resend(c)

AdmissionNext ==
  \/ CatalogNext /\ UNCHANGED <<integrationVars, caller>>
  \/ IntegrationNext /\ UNCHANGED <<catalogVars, caller>>
  \/ \E c \in Callers : CallerStep(c)
  \/ \E k \in RunKeys : PurgeRun(k)

AdmissionSpec == AdmissionInit /\ [][AdmissionNext]_admissionVars
-----------------------------------------------------------------------------
(* What a Run or a module refers to is a version that passed its gate and was  *)
(* published, and that version is still there: it cannot be deprecated and     *)
(* deleted between the moment a caller resolved it and the moment the Run is   *)
(* committed (require_current_task_binding against delete_skill_version).     *)
UsedVersionKept ==
  \A v \in Versions : References(v) =>
    version[v].status \in {"PUBLISHED", "DEPRECATED"} /\ version[v].passed

(* A caller is told that the task is not available only when no Run of its    *)
(* own request exists at that moment: losing a race against the same request  *)
(* and then against an administrator who withdraws the version or edits the    *)
(* Integration still leads to the first Run (create_task_run of the route and  *)
(* of the service).                                                           *)
RefusedOnlyWithoutRun ==
  [][\A c \in Callers : caller'[c].at = "refused" /\ caller[c].at # "refused" =>
       ~(KeyTaken(c) /\ SameRequest(c))]_admissionVars
=============================================================================
