---------------------------- MODULE SkillCatalog ----------------------------
(***************************************************************************)
(* Skill versions, from draft to deletion, their enablement for a project,    *)
(* and what refers to them: Runs and schedules, and the modules (skill        *)
(* compositions) of the project (skills/repository.py, skills/service.py,     *)
(* compositions/*.py).                                                       *)
(*                                                                         *)
(* Every write is one transaction of an administrator that locks the version  *)
(* row and looks at the session again before it commits. TaskAdmission adds   *)
(* the Runs, which are created in several steps.                              *)
(***************************************************************************)
EXTENDS Integers, FiniteSets

CONSTANTS
  Interpretations,  \* interpretations of one skill
  Versions,         \* ids of SkillVersion rows
  RunKeys,          \* idempotency keys of Runs, those of schedules included
  Modules,          \* ids of compositions
  NoVersion

ASSUME CatalogAssumption == NoVersion \notin Versions

VARIABLES
  ready,     \* interpretations that are PREVIEW_READY
  version,   \* SkillVersion rows
  enabled,   \* ProjectSkillVersion rows: "never", "yes", or disabled ("no")
  module,    \* versions each composition binds; {} when there is none
  run        \* Run rows under their idempotency key, and the audit of purged ones

catalogVars == <<ready, version, enabled, module, run>>
-----------------------------------------------------------------------------
NoRun == [state |-> "none", version |-> NoVersion, intent |-> NoVersion, revision |-> 0]
Unborn == [status |-> "none", of |-> NoVersion, passed |-> FALSE]

CatalogInit ==
  /\ ready = {}
  /\ version = [v \in Versions |-> Unborn]
  /\ enabled = [v \in Versions |-> "never"]
  /\ module = [m \in Modules |-> {}]
  /\ run = [k \in RunKeys |-> NoRun]

(* An interpretation of the skill was stored and can be drafted from.        *)
InterpretationReady(i) ==
  /\ i \notin ready /\ ready' = ready \cup {i}
  /\ UNCHANGED <<version, enabled, module, run>>

Exists(v) == version[v].status \notin {"none", "deleted"}

(* create_version_draft: one version per interpretation; the gate's verdict   *)
(* is saved with it.                                                         *)
Drafted(i, passed) == [status |-> "DRAFT", of |-> i, passed |-> passed]
CreateVersionDraft(v, i, passed) ==
  /\ version[v] = Unborn /\ i \in ready
  /\ \A w \in Versions : Exists(w) => version[w].of # i
  /\ version' = [version EXCEPT ![v] = Drafted(i, passed)]
  /\ UNCHANGED <<ready, enabled, module, run>>

(* validate_skill_publication: the saved report and the one made now pass.    *)
GatePasses(v) == version[v].passed
PublishVersion(v) ==
  /\ version[v].status = "DRAFT" /\ GatePasses(v)
  /\ version' = [version EXCEPT ![v].status = "PUBLISHED"]
  /\ UNCHANGED <<ready, enabled, module, run>>

DeprecateVersion(v) ==
  /\ version[v].status = "PUBLISHED"
  /\ version' = [version EXCEPT ![v].status = "DEPRECATED"]
  /\ UNCHANGED <<ready, enabled, module, run>>

(* A disabled enablement is never reactivated.                               *)
EnableVersion(v) ==
  /\ version[v].status = "PUBLISHED" /\ enabled[v] = "never"
  /\ enabled' = [enabled EXCEPT ![v] = "yes"]
  /\ UNCHANGED <<ready, version, module, run>>

DisableVersion(v) ==
  /\ enabled[v] = "yes"
  /\ enabled' = [enabled EXCEPT ![v] = "no"]
  /\ UNCHANGED <<ready, version, module, run>>

References(v) == (\E k \in RunKeys : run[k].version = v) \/ \E m \in Modules : v \in module[m]

DeleteVersion(v) ==
  /\ version[v].status \in {"DRAFT", "DEPRECATED"} /\ ~References(v)
  /\ version' = [version EXCEPT ![v].status = "deleted"]
  /\ enabled' = [enabled EXCEPT ![v] = "never"]
  /\ UNCHANGED <<ready, module, run>>
-----------------------------------------------------------------------------
(* get_published_task_binding, and require_current_task_binding, which takes  *)
(* shared locks on the two rows it reads.                                     *)
Runnable(v) == version[v].status = "PUBLISHED" /\ enabled[v] = "yes"

(* create_module and update_module bind versions that are runnable now; a     *)
(* module keeps the versions it bound when these are disabled or deprecated.  *)
Bindable(bound) == bound # {} /\ \A v \in bound : Runnable(v)

CreateModule(m, bound) ==
  /\ module[m] = {} /\ Bindable(bound)
  /\ module' = [module EXCEPT ![m] = bound]
  /\ UNCHANGED <<ready, version, enabled, run>>

UpdateModule(m, bound) ==
  /\ module[m] \notin {{}, bound} /\ Bindable(bound)
  /\ module' = [module EXCEPT ![m] = bound]
  /\ UNCHANGED <<ready, version, enabled, run>>

DeleteModule(m) ==
  /\ module[m] # {}
  /\ module' = [module EXCEPT ![m] = {}]
  /\ UNCHANGED <<ready, version, enabled, run>>

CatalogNext ==
  \/ \E i \in Interpretations : InterpretationReady(i)
  \/ \E v \in Versions, i \in Interpretations, passed \in BOOLEAN : CreateVersionDraft(v, i, passed)
  \/ \E v \in Versions : PublishVersion(v) \/ DeprecateVersion(v) \/ DeleteVersion(v)
  \/ \E v \in Versions : EnableVersion(v) \/ DisableVersion(v)
  \/ \E m \in Modules, bound \in SUBSET Versions : CreateModule(m, bound) \/ UpdateModule(m, bound)
  \/ \E m \in Modules : DeleteModule(m)

-----------------------------------------------------------------------------
CatalogTypeOK ==
  /\ ready \subseteq Interpretations
  /\ version \in [Versions -> [status : {"none", "DRAFT", "PUBLISHED", "DEPRECATED", "deleted"},
                               of : Interpretations \cup {NoVersion}, passed : BOOLEAN]]
  /\ enabled \in [Versions -> {"never", "yes", "no"}]
  /\ module \in [Modules -> SUBSET Versions]
=============================================================================
