---------------------------- MODULE SkillDesign ----------------------------
(***************************************************************************)
(* From a candidate of the model to a published task: compiling the candidate *)
(* into a runtime manifest, validating it, repairing it once, adjusting a     *)
(* saved design, drafting and publishing a version, and projecting its task   *)
(* (skills/candidate*.py, interpreter.py, capability_blueprint.py,            *)
(* design_validation.py, manifest_gate.py, task_catalog.py,                   *)
(* resource_binding.py).                                                     *)
(*                                                                         *)
(* A native candidate describes a blueprint with tools and effect intents, a  *)
(* direct one only the launch of the source. A candidate has one task. What    *)
(* the validators read of a document is a field of a record; JSON Schema and   *)
(* wording are left out. SkillInterpretation has the calls of the model and    *)
(* the requests, SkillCatalog what happens to a version afterwards.            *)
(***************************************************************************)
EXTENDS Integers, Sequences, FiniteSets, FiniteSetsExt

CONSTANTS
  Candidates,     \* answers of the model
  Capabilities,   \* capabilities of connections
  Effects,        \* those that write: EFFECT_CAPABILITIES
  Platform,       \* tools bound to the Run itself
  Installed,      \* capabilities with an installed provider
  Withdrawn,      \* capabilities a later deployment no longer registers
  MaxDesigns      \* saved interpretations

ASSUME DesignAssumption ==
  /\ Effects \subseteq Capabilities /\ Capabilities \cap Platform = {}
  /\ Installed \subseteq Capabilities
  /\ MaxDesigns \in Nat

VARIABLES
  registered,   \* capabilities the running service has registered
  asking,       \* the interpretation under way
  design,       \* saved interpretations, all PREVIEW_READY
  drafted,      \* per saved interpretation, the SkillVersion made from it
  connected     \* capabilities of the project's resources

designVars == <<registered, asking, design, drafted, connected>>
-----------------------------------------------------------------------------
Readiness == "document.readiness/v1"
Placeholder == 0
Parts == {"input_contract", "resource_requirements", "diagnostics"}
Anything == Parts \cup {"candidate"}
Idle ==
  [attempt |-> 0, catalog |-> {}, parent |-> 0, scope |-> Anything, before |-> {}, mayEdit |-> Anything]
NoDraft == [status |-> "none", passed |-> FALSE, catalog |-> {}, manifest |-> {}]

DesignInit ==
  /\ registered = Capabilities \cup Platform
  /\ asking = Idle
  /\ design = <<>>
  /\ drafted = [i \in 1..MaxDesigns |-> NoDraft]
  /\ connected = {}

(* The first check that fails, in the order they are made; "" when none does. *)
FirstProblem(checks) ==
  LET failed == {i \in 1..Len(checks) : ~checks[i].ok} IN
  IF failed = {} THEN "" ELSE checks[Min(failed)].at
-----------------------------------------------------------------------------
(* compile_task_contract accepts the declared input.                         *)
ContractCompiles(contract) == contract \notin {"too_deep", "not_an_object"}

(* compile_candidate of each kind. The blueprint gets its identity from the   *)
(* manifest; a direct candidate is refused on the fields it was given.        *)
CompileNative(c) ==
  << [ok |-> c.sourced, at |-> "candidate"],           \* candidate_source_invalid
     [ok |-> c.traced, at |-> "candidate"] >>          \* candidate_contract_source_missing
CompileDirect(c) ==
  << [ok |-> c.contract # "not_an_object", at |-> "input_contract"],
     [ok |-> c.sourced, at |-> "resource_requirements"],
     [ok |-> \A r \in DOMAIN c.resources : ~c.resources[r].misfit, at |-> "resource_requirements"] >>

Manifest(c) ==
  [kind |-> c.kind, id |-> Placeholder, blueprintId |-> Placeholder,
   contract |-> c.contract, schema |-> c.contract,
   tools |-> IF c.kind = "native" THEN c.tools ELSE {},
   resources |-> c.resources,
   intents |-> IF c.kind = "native" THEN c.intents ELSE {},
   prerequisite |-> c.kind = "native" /\ c.prerequisite,
   flagged |-> c.flagged]

Tools(m) == {t.capability : t \in m.tools}
Declared(m) == DOMAIN m.resources
Disclosed(m) == UNION {m.resources[r].capabilities : r \in Declared(m)}
Applies(m) == {e \in m.intents : e.mode = "apply"}

(* normalize_capability_blueprint: an apply intent without an approval asks.  *)
Approval(e) == IF e.mode = "apply" /\ e.approval = "absent" THEN "ask" ELSE e.approval

(* _validate_effect_intents.                                                 *)
IntentAccepted(m, e) ==
  IF e.mode # "apply"
    THEN Approval(e) = "absent" /\ e.resource \in Declared(m) \cup {"none"}
    ELSE /\ e.resource \in Declared(m)
         /\ m.resources[e.resource].access = "write"
         /\ m.resources[e.resource].required
         /\ Approval(e) = "ask"

(* document_prerequisites; the blueprint validator does not look at the tools.*)
PrerequisiteIntent(m) ==
  m.prerequisite => \E e \in Applies(m) : Approval(e) = "ask" /\ e.resource \in Declared(m)
PrerequisiteTool(m) ==
  m.prerequisite => [capability |-> Readiness, required |-> TRUE] \in m.tools

(* CapabilityBlueprintValidator.validate.                                    *)
BlueprintValid(m) ==
  /\ \A r \in Declared(m) : ~m.resources[r].misfit
  /\ \A e \in m.intents : IntentAccepted(m, e)
  /\ PrerequisiteIntent(m)

(* validate_skill_design, for the interpretation a manifest should name.      *)
DesignValid(m, id) ==
  /\ m.id = id
  /\ m.kind = "native" => m.blueprintId = id /\ BlueprintValid(m)

(* ManifestValidator.evaluate: every finding that is an error.                *)
BindingsKnown(m, catalog) == Tools(m) \subseteq catalog
NoEffectRequired(m) == \A t \in m.tools : t.required => t.capability \notin Effects  \* mutant
NoEffectExposed(m) == Tools(m) \cap Effects = {}
ContractsCompiled(m) == ContractCompiles(m.contract) /\ m.schema = m.contract
ToolsDisclosed(m) == Tools(m) \ Platform \subseteq Disclosed(m)
Gate(m, id, catalog) ==
  /\ DesignValid(m, id)
  /\ PrerequisiteTool(m)
  /\ ~m.flagged
  /\ BindingsKnown(m, catalog) /\ NoEffectExposed(m)
  /\ ContractsCompiled(m)
  /\ ToolsDisclosed(m)

(* _validate_candidate_publishability: the gate, with the catalog the model   *)
(* was given and the identity the manifest already carries.                  *)
Publishable(m, catalog) == Gate(m, m.id, catalog)

(* InterpreterFixtureRunner.run.                                               *)
RunChecks(c, catalog) ==
  LET m == Manifest(c) IN
  (IF c.kind = "direct" THEN CompileDirect(c) ELSE CompileNative(c)) \o
  << [ok |-> ContractCompiles(c.contract), at |-> IF c.kind = "direct" THEN "input_contract" ELSE "candidate"],
     [ok |-> c.kind = "native" => BlueprintValid(m), at |-> "candidate"],
     [ok |-> Publishable(m, catalog), at |-> "candidate"] >>
-----------------------------------------------------------------------------
(* snapshot_launch_contract, and the parts in which two of them differ.       *)
LaunchContract(m) ==
  [input_contract |-> m.contract, resource_requirements |-> m.resources, diagnostics |-> m.flagged]
Changed(before, after) == {p \in Parts : before[p] # after[p]}

(* validate_adjustment_scope, against the parent's launch contract.           *)
ScopeOfFirstAnswer(c) ==  \* mutant
  \/ asking.scope = Anything \/ asking.attempt = 2
  \/ /\ c.kind = "direct"
     /\ Changed(LaunchContract(design[asking.parent].manifest), LaunchContract(Manifest(c)))
          \subseteq asking.scope
ScopeRespected(c) ==
  \/ asking.scope = Anything
  \/ /\ c.kind = "direct"
     /\ Changed(LaunchContract(design[asking.parent].manifest), LaunchContract(Manifest(c)))
          \subseteq asking.scope

(* validate_repair_scope, against the answer that was refused.                *)
RepairRespected(c) ==
  \/ asking.mayEdit = Anything
  \/ \E b \in asking.before : Changed(LaunchContract(Manifest(b)), LaunchContract(Manifest(c))) \subseteq asking.mayEdit

(* repair_components: "candidate" frees every part, as it does for a native.  *)
RepairComponents(c, at) == IF c.kind = "direct" /\ at \in Parts THEN {at} ELSE Anything

Interpret ==
  /\ asking = Idle /\ Len(design) < MaxDesigns
  /\ asking' = [Idle EXCEPT !.attempt = 1, !.catalog = registered]
  /\ UNCHANGED <<registered, design, drafted, connected>>

(* adjust_interpretation: an explicit scope needs a parent with a launch      *)
(* contract.                                                                 *)
Adjust(parent, scope) ==
  /\ asking = Idle /\ Len(design) < MaxDesigns
  /\ scope # Anything => design[parent].manifest.kind = "direct"
  /\ asking' = [Idle EXCEPT !.attempt = 1, !.catalog = registered, !.parent = parent, !.scope = scope]
  /\ UNCHANGED <<registered, design, drafted, connected>>

(* The repair loop of _run_interpretation. The answer of the second attempt    *)
(* is of the same kind: the interpreter is told which one to use.             *)
Problem(c) ==
  FirstProblem(<< [ok |-> RepairRespected(c), at |-> "candidate"] >>
               \o RunChecks(c, asking.catalog)
               \o << [ok |-> ScopeRespected(c), at |-> "candidate"] >>)
AcceptDesign(c) ==
  /\ asking.attempt > 0 /\ Problem(c) = ""
  /\ \A b \in asking.before : b.kind = c.kind
  /\ design' = Append(design, [manifest |-> Manifest(c), catalog |-> asking.catalog,
                               parent |-> asking.parent, scope |-> asking.scope])
  /\ asking' = Idle
  /\ UNCHANGED <<registered, drafted, connected>>
Repair(c) ==
  /\ asking.attempt = 1 /\ Problem(c) # ""
  /\ asking' = [asking EXCEPT !.attempt = 2, !.before = {c}, !.mayEdit = RepairComponents(c, Problem(c))]
  /\ UNCHANGED <<registered, design, drafted, connected>>
Fail(c) ==
  /\ asking.attempt = 2 /\ Problem(c) # ""
  /\ \A b \in asking.before : b.kind = c.kind
  /\ asking' = Idle
  /\ UNCHANGED <<registered, design, drafted, connected>>
-----------------------------------------------------------------------------
(* create_version_draft: the saved identity is replaced by the row's own, in   *)
(* the blueprint too when it carries the same one; the gate is asked again.    *)
RestampedManifest(m, id) == [m EXCEPT !.id = id]  \* mutant
Restamped(m, id) ==
  IF m.kind = "direct" THEN [m EXCEPT !.id = id]
  ELSE IF m.blueprintId = m.id THEN [m EXCEPT !.id = id, !.blueprintId = id] ELSE m
CreateDraft(i) ==
  /\ i \in 1..Len(design) /\ drafted[i].status = "none"
  /\ LET m == Restamped(design[i].manifest, i) IN
     drafted' = [drafted EXCEPT ![i] = [status |-> "DRAFT", passed |-> Gate(m, i, registered),
                                        catalog |-> registered, manifest |-> m]]
  /\ UNCHANGED <<registered, asking, design, connected>>

(* publish_skill_version: the report saved with the draft passed, and so does  *)
(* one made now.                                                             *)
Publish(i) ==
  /\ drafted[i].status = "DRAFT" /\ drafted[i].passed
  /\ Gate(drafted[i].manifest, i, registered)
  /\ drafted' = [drafted EXCEPT ![i].status = "PUBLISHED", ![i].catalog = registered]
  /\ UNCHANGED <<registered, asking, design, connected>>

(* A service is started that registers other capabilities.                    *)
Deploy ==
  /\ asking = Idle
  /\ registered' = IF Withdrawn \subseteq registered THEN registered \ Withdrawn ELSE registered \cup Withdrawn
  /\ UNCHANGED <<asking, design, drafted, connected>>

Connect(c) ==
  /\ connected' = IF c \in connected THEN connected \ {c} ELSE connected \cup {c}
  /\ UNCHANGED <<registered, asking, design, drafted>>
-----------------------------------------------------------------------------
(* resolve_task_run_from_manifest: what a Run of the task may use. A direct    *)
(* task has the default capabilities.                                        *)
AllowedCapabilities(m) ==
  IF m.kind = "direct" THEN Platform \cup (Capabilities \ Effects)
  ELSE Tools(m) \cup (Disclosed(m) \ Effects)

(* evaluate_blueprint_readiness of a published task, for the resources of the  *)
(* project. A direct requirement takes what the resources offer. ACTIONABLE,   *)
(* which only adds that a write is possible, counts as RUNNABLE.              *)
RequiredKeys(m) ==
  {r \in Declared(m) : m.resources[r].required} \cup {e.resource : e \in Applies(m)}
Hints(m, r) == IF m.kind = "direct" THEN connected ELSE m.resources[r].capabilities
Serviceable(m, r) == Hints(m, r) \cap registered \cap Installed
Bound(m, r) ==
  IF m.resources[r].misfit \/ (Hints(m, r) # {} /\ Serviceable(m, r) = {}) THEN "UNSUPPORTED"
  ELSE IF Serviceable(m, r) \cap connected # {} THEN "AVAILABLE" ELSE "UNAVAILABLE"
Level(m) ==
  LET bound == {Bound(m, r) : r \in RequiredKeys(m)} IN
  IF "UNSUPPORTED" \in bound THEN "GUIDANCE_ONLY"
  ELSE IF "UNAVAILABLE" \in bound THEN "CONFIGURATION_REQUIRED" ELSE "RUNNABLE"
-----------------------------------------------------------------------------
DesignAnswered == \E c \in Candidates : asking.attempt > 0 /\ (AcceptDesign(c) \/ Repair(c) \/ Fail(c))
DesignNext ==
  \/ Interpret
  \/ \E parent \in 1..Len(design), scope \in {{p} : p \in Parts} \cup {Anything} : Adjust(parent, scope)
  \/ DesignAnswered
  \/ \E i \in 1..MaxDesigns : CreateDraft(i) \/ Publish(i)
  \/ Deploy
  \/ \E c \in Capabilities : Connect(c)

DesignSpec == DesignInit /\ [][DesignNext]_designVars
-----------------------------------------------------------------------------
DesignTypeOK ==
  /\ registered \subseteq Capabilities \cup Platform
  /\ asking.attempt \in 0..2 /\ asking.parent \in 0..Len(design)
  /\ asking.before \subseteq Candidates /\ asking.mayEdit \subseteq Anything
  /\ Len(design) <= MaxDesigns
  /\ \A i \in 1..MaxDesigns : drafted[i].status \in {"none", "DRAFT", "PUBLISHED"}
  /\ connected \subseteq Capabilities

(* A design the interpreter accepted passes the gate of the draft as well,     *)
(* though its identity is another one by then: only a capability that is no    *)
(* longer registered can stand in the way (skills/service.py:978-1006).        *)
AcceptedDesignPasses ==
  \A i \in 1..MaxDesigns : drafted[i].status # "none" =>
    drafted[i].passed = BindingsKnown(drafted[i].manifest, drafted[i].catalog)

(* A Run of a published task gets no capability that writes and no connection  *)
(* the task does not disclose; its writes go through an approval, to a         *)
(* resource the Run must have; and when the catalog shows the task as runnable *)
(* each of those resources can be served (skills/manifest_gate.py:305,         *)
(* skills/task_catalog.py:234, skills/resource_binding.py:107).                *)
PublishedTaskBounded ==
  \A i \in 1..MaxDesigns : drafted[i].status = "PUBLISHED" =>
    LET m == drafted[i].manifest IN
    /\ AllowedCapabilities(m) \cap Effects = {}
    /\ m.kind = "native" => AllowedCapabilities(m) \ Platform \subseteq Disclosed(m)
    /\ \A e \in Applies(m) :
         /\ Approval(e) = "ask" /\ e.resource \in Declared(m)
         /\ Level(m) = "RUNNABLE" => Serviceable(m, e.resource) \cap connected # {}

(* A design adjusted within a scope differs from its parent only there, also    *)
(* when its first answer was refused and repaired                             *)
(* (skills/candidate_revision.py:100, skills/service.py:794).                  *)
AdjustmentKeepsRest ==
  \A i \in 1..Len(design) : design[i].scope # Anything =>
    Changed(LaunchContract(design[design[i].parent].manifest), LaunchContract(design[i].manifest))
      \subseteq design[i].scope

DesignIsSound == AcceptedDesignPasses /\ PublishedTaskBounded /\ AdjustmentKeepsRest

=============================================================================
