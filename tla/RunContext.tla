----------------------------- MODULE RunContext -----------------------------
(* What a Run's agent may use: the permission snapshot frozen when the Run is  *)
(* created (runs/service.py), the tools resolved from it before every attempt  *)
(* (agent/context_builder.py, agent/tool_gateway.py), the brief they are told  *)
(* in, and the connection a call reaches (agent/run_binding.py). Connections,  *)
(* deployment switches and the library move while the Run waits.               *)
EXTENDS Naturals, FiniteSets, Sequences

CONSTANTS
  Definitions,    \* Skill definitions: direct, profile, slots, tools, intents, prerequisites
  Connections,    \* Integrations of the Project
  ProviderOf,     \* of each: git, svn, postgres, mcp, http
  Offers,         \* of each: the capabilities it declares when created
  Selections,     \* choices of Project documents a user may make
  Holds,          \* of each: the documents, kept in the library that is served
  MaxRevisions,   \* bound on edits of one connection
  MaxBuilds,      \* bound on attempts of the Run
  NoRunYet

(* PROVIDER_DEFINITIONS: what a connection of each provider may declare. *)
ProviderCapabilities(provider) ==
  CASE provider \in {"git", "svn"} -> {"repository.read", "repository.write"}
    [] provider = "postgres" -> {"database.query", "database.execute"}
    [] provider = "mcp" -> {"mcp.tools", "mcp.query", "mcp.call"}
    [] provider = "http" -> {"http.read", "http.write"}

(* DOCUMENT_CAPABILITIES. document.convert and document.inspect, which defer    *)
(* the content as document.list does, are left out.                             *)
DocumentCapabilities == {"document.read", "document.list"}

(* Capabilities, in the order sorted() gives them. *)
CapabilityOrder == <<"artifact.append", "change.propose", "database.execute", "database.query",
  "document.files", "document.list", "document.read", "document.readiness", "document.write",
  "http.read", "http.write", "interaction.request", "mcp.call", "mcp.query", "mcp.tools",
  "repository.read", "repository.workspace", "repository.write", "subagent.dispatch", "tool.sequence",
  "workspace.read", "workspace.write">>
AllCapabilities == {CapabilityOrder[i] : i \in DOMAIN CapabilityOrder}

(* A slot for documents names the capability it declares first (lead); no two   *)
(* slots of a definition have the same key (_unique_keys).                      *)
ASSUME ContextAssumption ==
  /\ MaxRevisions \in Nat /\ MaxBuilds \in Nat
  /\ Selections \cap (Connections \cup {"none", "library"}) = {}
  /\ \A d \in Definitions : \A s \in d.slots :
       /\ s.key # "none" /\ s.caps \subseteq AllCapabilities
       /\ \A t \in d.slots : s.key = t.key => s = t
       /\ ~d.direct /\ s.caps \cap DocumentCapabilities # {} => s.lead \in s.caps \cap DocumentCapabilities
  /\ ProviderOf \in [Connections -> {"git", "svn", "postgres", "mcp", "http"}]
  /\ \A c \in Connections : Offers[c] \subseteq ProviderCapabilities(ProviderOf[c])

VARIABLES
  features,       \* ExecutionFeatures switched on in this deployment
  target,         \* the document library this deployment serves; 0: none
  connection,     \* Integration rows: status, revision, caps
  frozenRun,      \* the Run's snapshots
  frozenBrief,    \* agent_task_brief_json of the segment: the tools it lists
  builds,         \* attempts so far
  context,        \* RunContext of the attempt, or refused, or none yet
  reached         \* the connections and revisions calls of the Run have used

contextVars == <<features, target, connection, frozenRun, frozenBrief, builds, context, reached>>

Switches == {"deferred", "database", "documents", "git", "mcp"}
NoSource == [kind |-> "none"]
NotBuilt == [status |-> "none", tools |-> {}]
ContextInit ==
  /\ features \in {{"documents", "git"}, Switches}
  /\ target \in {0, 1}
  /\ connection = [c \in Connections |-> [status |-> "ACTIVE", revision |-> 1, caps |-> Offers[c]]]
  /\ frozenRun = NoRunYet
  /\ frozenBrief = {}
  /\ builds = 0
  /\ context = NotBuilt
  /\ reached = {}
-----------------------------------------------------------------------------
(* sorted(...)[0] *)
FirstOf(S) == CapabilityOrder[CHOOSE i \in DOMAIN CapabilityOrder :
                /\ CapabilityOrder[i] \in S
                /\ \A j \in 1..(i - 1) : CapabilityOrder[j] \notin S]

(* is_write_capability, EFFECT_CAPABILITIES *)
IsWrite(cap) == cap \in {"database.execute", "document.write", "http.write", "mcp.call",
                         "repository.write", "workspace.write"}
EffectCapabilities == {"database.execute", "document.write", "http.write", "mcp.call", "repository.write"}

(* ExecutionFeatures.capability_enabled; http_writes is always on. *)
CapabilityEnabled(on, cap) ==
  CASE cap \in {"mcp.tools", "mcp.query", "mcp.call"} -> "mcp" \in on
    [] cap = "database.execute" -> "database" \in on
    [] cap = "document.write" -> "documents" \in on
    [] cap = "repository.write" -> on \cap {"deferred", "git"} # {}
    [] cap = "subagent.dispatch" -> "deferred" \in on
    [] OTHER -> TRUE
(* provider_enabled, effect_enabled: SVN writes stay with the deferred switch. *)
ProviderEnabled(on, cap, provider) ==
  /\ CapabilityEnabled(on, cap)
  /\ cap = "repository.write" => "deferred" \in on \/ provider = "git"
(* blueprint_enabled: every declared intent has an enabled write capability. *)
DefinitionEnabled(on, d) ==
  \A key \in d.intents :
    LET writes == {cap \in UNION {s.caps : s \in {x \in d.slots : x.key = key}} : IsWrite(cap)}
    IN  writes # {} /\ \A cap \in writes : CapabilityEnabled(on, cap)

(* resource_capabilities: what a selected source brings with it. *)
ResourceCapabilities(source) ==
  CASE source.kind = "library" -> {"document.write"}
    [] source.kind = "documents" -> DocumentCapabilities
    [] OTHER -> source.caps \cup
                  IF source.provider = "git" /\ "repository.read" \in source.caps
                  THEN {"repository.workspace"} ELSE {}
(* resource_operations of a direct Run: the effects its sources may be proposed for. *)
ResourceOperations(selected, granted) ==
  {op \in (DOMAIN selected) \X (EffectCapabilities \cap granted) :
     selected[op[1]] # NoSource /\ op[2] \in ResourceCapabilities(selected[op[1]])}

(* default_capabilities of a direct Skill *)
DefaultTools == {"artifact.append", "interaction.request", "tool.sequence", "workspace.read",
                 "workspace.write"} \cup DocumentCapabilities
-----------------------------------------------------------------------------
(* _resolve_selected_sources: what the user's choice for a slot freezes, or the *)
(* reason it cannot. choice is a connection, "library", a selection of documents *)
(* or "none". Content that is deferred is prepared when the agent asks for it.  *)
RequiredSlot(d, s) == s.required \/ s.key \in d.intents
SlotReads(s) == {cap \in s.caps : ~IsWrite(cap)}
Observes(d, s, row) ==
  LET reads == IF d.direct THEN {cap \in row.caps : ~IsWrite(cap)} ELSE SlotReads(s)
  IN  IF d.direct /\ "mcp.tools" \in reads THEN "mcp.tools"
      ELSE IF reads = {} THEN "none" ELSE FirstOf(reads)
Access(d, s, row) ==
  IF ~d.direct THEN s.access
  ELSE IF \E cap \in row.caps : IsWrite(cap) THEN "write" ELSE "read"
KindOf(c) == IF ProviderOf[c] \in {"git", "svn"} THEN "repository" ELSE "other"
(* _select_binding_capability: one the access needs, declared ones first. *)
BindingCapability(d, s, row) ==
  LET hints == IF d.direct THEN row.caps ELSE s.caps
      fits(caps) == {cap \in caps : IsWrite(cap) <=> Access(d, s, row) = "write"}
      observe == Observes(d, s, row)
  IN  IF fits(hints \cap row.caps) # {} THEN FirstOf(fits(hints \cap row.caps))
      ELSE IF observe \in row.caps /\ Access(d, s, row) # "write" THEN observe
      ELSE IF fits(row.caps) # {} THEN FirstOf(fits(row.caps)) ELSE "none"
Selectable(d, s, choice) ==
  CASE choice = "none" -> ~RequiredSlot(d, s)
    [] choice = "library" -> /\ s.kind = "document" /\ s.access = "write"
                             /\ target # 0 /\ (d.direct \/ s.caps = {"document.write"})
    [] choice \in Selections -> /\ s.kind = "document" /\ s.access = "read"
                                /\ d.direct \/ s.caps \cap DocumentCapabilities # {}
    [] OTHER -> LET row == connection[choice]
                IN  /\ s.kind # "document"
                    /\ row.status = "ACTIVE" /\ KindOf(choice) = s.kind
                    /\ ~d.direct /\ s.access = "write" => SlotReads(s) # {}
                    /\ BindingCapability(d, s, row) # "none"
                    /\ Observes(d, s, row) \in row.caps \cup {"none"}
SourceOf(d, s, choice) ==
  CASE choice = "none" -> NoSource
    [] choice = "library" -> [kind |-> "library", cap |-> "document.write", target |-> target]
    [] choice \in Selections ->
         LET cap == IF d.direct THEN "document.read" ELSE s.lead IN
         [kind |-> "documents", cap |-> cap, docs |-> Holds[choice], library |-> target,
          deferred |-> d.direct \/ cap # "document.read"]
    [] OTHER -> LET row == connection[choice] IN
         [kind |-> "connection", conn |-> choice, provider |-> ProviderOf[choice],
          cap |-> IF Observes(d, s, row) # "none" THEN Observes(d, s, row)
                  ELSE BindingCapability(d, s, row),
          bound |-> BindingCapability(d, s, row), revision |-> row.revision, caps |-> row.caps]

(* _allowed_capabilities of the manifest *)
Declared(d) ==
  IF d.direct THEN DefaultTools
  ELSE {t.cap : t \in d.tools} \cup UNION {SlotReads(s) : s \in d.slots}
(* create_task_run: the capabilities the permission snapshot lists. A direct    *)
(* Run gets what its sources bring, a described one what its manifest declares  *)
(* and the tools the platform adds to it.                                       *)
GrantOf(on, d, selected) ==
  {cap \in Declared(d) \cup UNION {ResourceCapabilities(selected[k]) :
                                     k \in {x \in DOMAIN selected : selected[x] # NoSource}} :
     CapabilityEnabled(on, cap)}
AllowedAsDeclared(on, d, selected) ==   \* a mistake: proposals only when the Skill declares them
  (GrantOf(on, d, selected) \ EffectCapabilities)
    \cup IF d.intents # {} THEN {"change.propose"} ELSE {}
AllowedOf(on, d, selected) ==
  LET operations == ResourceOperations(selected, GrantOf(on, d, selected))
      autonomous == d.profile # "GUIDED"
      when(condition, caps) == IF condition THEN caps ELSE {}
  IN  IF d.direct
      THEN (GrantOf(on, d, selected) \ EffectCapabilities)
             \cup when(operations # {}, {"change.propose"})
             \cup when(\E op \in operations : op[2] = "document.write", {"document.files"})
      ELSE DocumentCapabilities \cup {cap \in Declared(d) : CapabilityEnabled(on, cap)}
             \cup {"interaction.request"}
             \cup when({"repository.read", "workspace.write"} \subseteq Declared(d) /\ autonomous,
                       {"repository.workspace"})
             \cup when("workspace.write" \in Declared(d) /\ autonomous,
                       {"artifact.append", "tool.sequence"})
             \cup when("document.write" \in Declared(d) /\ "documents" \in on /\ autonomous,
                       {"document.files"})
             \cup when("deferred" \in on, {"subagent.dispatch"})
             \cup when(d.intents # {}, {"change.propose"})
(* The checks of create_task_run around the selection. *)
Admissible(on, d, selected) ==
  /\ DefinitionEnabled(on, d)
  /\ \A cap \in Declared(d) : CapabilityEnabled(on, cap)
  /\ \A key \in {k \in DOMAIN selected : selected[k].kind = "connection"} :
       LET source == selected[key] IN
         IF d.direct
         THEN \E cap \in ResourceCapabilities(source) :
                ~IsWrite(cap) /\ ProviderEnabled(on, cap, source.provider)
         ELSE ProviderEnabled(on, source.bound, source.provider)
  /\ (\E key \in DOMAIN selected : selected[key].kind = "library") => "documents" \in on
SlotChoices(d, s) == IF s.kind = "document" THEN {"none", "library"} \cup Selections ELSE {"none"} \cup Connections
CreateContextRun(d, choose) ==
  LET selected == [key \in {s.key : s \in d.slots} |->
                     LET s == CHOOSE x \in d.slots : x.key = key IN SourceOf(d, s, choose[key])]
  IN  /\ frozenRun = NoRunYet
      /\ \A s \in d.slots : choose[s.key] \in SlotChoices(d, s) /\ Selectable(d, s, choose[s.key])
      /\ Admissible(features, d, selected)
      /\ frozenRun' = [definition |-> d, selected |-> selected,
                       allowed |-> AllowedOf(features, d, selected),
                       operations |-> IF d.direct
                                      THEN ResourceOperations(selected, GrantOf(features, d, selected))
                                      ELSE {},
                       deployed |-> <<features, target>>]
      /\ UNCHANGED <<features, target, connection, frozenBrief, builds, context, reached>>
-----------------------------------------------------------------------------
(* create_run_tool_registry: providers, unbound provider and least profile.     *)
Installed(on, cap) ==
  CASE cap \in {"mcp.tools", "mcp.query"} -> {"mcp"}
    [] cap = "database.query" -> {"postgres"}
    [] cap = "http.read" -> {"http"}
    [] cap = "repository.read" -> {"git", "svn"}
    [] cap = "repository.workspace" -> {"git"}
    [] cap \in DocumentCapabilities -> {"project-documents"}
    [] cap \in {"workspace.read", "workspace.write"} -> {"workspace"}
    [] cap = "subagent.dispatch" -> IF "deferred" \in on THEN {"platform"} ELSE {}
    [] cap \in {"artifact.append", "change.propose", "document.files", "document.readiness",
                "interaction.request", "tool.sequence"} -> {"platform"}
    [] OTHER -> {}
Unbound(cap) == cap \in {"artifact.append", "change.propose", "document.files", "document.readiness",
                         "interaction.request", "subagent.dispatch", "tool.sequence", "workspace.read",
                         "workspace.write"}
NeedsAutonomy(cap) == cap \in {"artifact.append", "document.files", "tool.sequence", "workspace.write",
                               "repository.workspace", "subagent.dispatch"}
(* ToolRegistry.resolve, resolve_unbound *)
Resolves(on, cap, provider, profile) ==
  provider \in Installed(on, cap) /\ (NeedsAutonomy(cap) => profile # "GUIDED")
ResolvesUnbound(on, cap, profile) ==
  Unbound(cap) /\ Installed(on, cap) # {} /\ (NeedsAutonomy(cap) => profile # "GUIDED")
BoundTool(cap, source, key) == [cap |-> cap, key |-> key, conn |-> source.conn]
FreeTool(cap) == [cap |-> cap, key |-> "none", conn |-> "none"]

(* _selected_source: a frozen choice must still be one the slot may have.       *)
SlotCaps(d, s, source) == IF d.direct THEN ResourceCapabilities(source) ELSE s.caps
SourceValid(d, s, source) ==
  /\ source.cap \in SlotCaps(d, s, source)
  /\ source.kind = "library" => source.target = target
  /\ source.kind = "documents" => source.library \in {0, target}
(* The read the slot is bound to is allowed, offered and no effect itself. *)
SourceServed(run, s, source) ==
  IF source.kind = "library" THEN "change.propose" \in run.allowed
  ELSE /\ source.cap \in run.allowed \ EffectCapabilities
       /\ Resolves(features, source.cap,
                   IF source.kind = "documents" THEN "project-documents" ELSE source.provider,
                   run.definition.profile)

SelectedSlots(run) == {s \in run.definition.slots : run.selected[s.key] # NoSource}
BoundSlots(run) == {s \in SelectedSlots(run) : run.selected[s.key].kind = "connection"}
(* The loop over the slots, with the extra checkout of a Git source. *)
SourceTools(run) ==
  {BoundTool(run.selected[s.key].cap, run.selected[s.key], s.key) : s \in BoundSlots(run)}
    \cup {FreeTool(run.selected[s.key].cap) :
            s \in {x \in SelectedSlots(run) : run.selected[x.key].kind = "documents"}}
CheckoutTools(run) ==
  {BoundTool("repository.workspace", run.selected[s.key], s.key) :
     s \in {x \in BoundSlots(run) : /\ "repository.workspace" \in run.allowed
                                    /\ run.selected[x.key].cap = "repository.read"
                                    /\ run.selected[x.key].provider = "git"}}
(* The declared tools: those of a bound source for every slot that brings them, *)
(* the others once. A direct Run declares everything it is allowed.             *)
DeclaredTools(d, run) ==
  IF d.direct THEN {[cap |-> cap, required |-> FALSE] : cap \in run.allowed \ EffectCapabilities}
  ELSE d.tools
SlotsWith(run, cap) ==
  {s \in BoundSlots(run) : cap \in SlotCaps(run.definition, s, run.selected[s.key])
                             \cap (run.allowed \ EffectCapabilities)}
BoundDeclared(run) ==
  {BoundTool(p[1].cap, run.selected[p[2].key], p[2].key) :
     p \in {q \in DeclaredTools(run.definition, run) \X BoundSlots(run) :
              /\ q[2] \in SlotsWith(run, q[1].cap)
              /\ Resolves(features, q[1].cap, run.selected[q[2].key].provider, run.definition.profile)}}
FreeDeclared(run, resolved) ==
  {FreeTool(t.cap) :
     t \in {x \in DeclaredTools(run.definition, run) :
              /\ SlotsWith(run, x.cap) = {} /\ x.cap \notin resolved
              /\ x.cap \in run.allowed \ EffectCapabilities
              /\ x.cap \in DocumentCapabilities \/ ResolvesUnbound(features, x.cap, run.definition.profile)}}
(* interaction.request, change.propose, the auxiliaries and project documents *)
Platform == {"interaction.request", "change.propose", "tool.sequence", "artifact.append",
             "document.files"} \cup DocumentCapabilities
Capabilities(tools) == {t.cap : t \in tools}
ResolvedUngranted(run) ==      \* a mistake: platform tools without a permission for them
  LET bound == SourceTools(run) \cup CheckoutTools(run) \cup BoundDeclared(run)
      declared == bound \cup FreeDeclared(run, Capabilities(bound))
  IN  declared \cup {FreeTool(cap) : cap \in Platform \ Capabilities(declared)}
ResolvedTools(run) ==
  LET sourced == SourceTools(run) \cup CheckoutTools(run)
      bound == sourced \cup BoundDeclared(run)
      declared == bound \cup FreeDeclared(run, Capabilities(bound))
  IN  declared \cup {FreeTool(cap) : cap \in (Platform \cap run.allowed) \ Capabilities(declared)}
(* What makes _resolve_source_tools give up instead. *)
Unresolvable(run) ==
  \/ \E s \in run.definition.slots :
       run.selected[s.key] = NoSource /\ RequiredSlot(run.definition, s)
  \/ \E s \in SelectedSlots(run) :
       ~SourceValid(run.definition, s, run.selected[s.key]) \/ ~SourceServed(run, s, run.selected[s.key])
  \/ \E tool \in CheckoutTools(run) : ~Resolves(features, tool.cap, "git", run.definition.profile)
  \/ \E t \in DeclaredTools(run.definition, run) :
       /\ t.required
       /\ \/ t.cap \notin run.allowed
          \/ \E s \in SlotsWith(run, t.cap) :
               ~Resolves(features, t.cap, run.selected[s.key].provider, run.definition.profile)
          \/ /\ SlotsWith(run, t.cap) = {} /\ t.cap \notin EffectCapabilities \cup DocumentCapabilities
             /\ t.cap \notin Capabilities(SourceTools(run) \cup CheckoutTools(run))
             /\ ~ResolvesUnbound(features, t.cap, run.definition.profile)
  \/ \E cap \in (Platform \ DocumentCapabilities) \cap run.allowed :
       ~ResolvesUnbound(features, cap, run.definition.profile)
(* A task with document prerequisites asks for readiness, and every document it *)
(* was given must be one that some slot prepares on demand.                     *)
ChosenDocuments(run) ==
  {run.selected[s.key] : s \in {x \in SelectedSlots(run) : run.selected[x.key].kind = "documents"}}
PrerequisitesMet(run) ==
  run.definition.prerequisites =>
    /\ \E t \in run.definition.tools : t.cap = "document.readiness" /\ t.required
    /\ "document.readiness" \in run.allowed
    /\ \A source \in ChosenDocuments(run) : \A doc \in source.docs :
         \E other \in ChosenDocuments(run) : other.deferred /\ doc \in other.docs
(* The frozen permission no longer fits the deployment or the selection.        *)
SnapshotRefused(run) ==
  \/ ~PrerequisitesMet(run)
  \/ \E cap \in run.allowed : ~CapabilityEnabled(features, cap)
  \/ ~DefinitionEnabled(features, run.definition)
  \/ /\ run.definition.direct
     /\ run.operations # ResourceOperations(run.selected, run.allowed \cup {op[2] : op \in run.operations})

(* RunContextBuilder.build: the tools, then the brief that tells them. A        *)
(* segment that froze a brief goes on only with the very same one.              *)
BriefResources(run) ==
  {<<s.key, IF run.selected[s.key] = NoSource THEN "none" ELSE run.selected[s.key].cap>> :
     s \in run.definition.slots}
BriefOf(run) == {<<t.key, t.cap>> : t \in ResolvedTools(run)} \cup BriefResources(run)
FreezeBrief(run) == frozenBrief' = IF frozenBrief = {} THEN BriefOf(run) ELSE frozenBrief
BuildContext ==
  /\ frozenRun # NoRunYet /\ context = NotBuilt /\ builds < MaxBuilds
  /\ builds' = builds + 1
  /\ IF \/ SnapshotRefused(frozenRun) \/ Unresolvable(frozenRun)
        \/ frozenBrief # {} /\ frozenBrief # BriefOf(frozenRun)
     THEN /\ context' = [status |-> "refused", tools |-> {}]
          /\ UNCHANGED frozenBrief
     ELSE /\ context' = [status |-> "ready", tools |-> ResolvedTools(frozenRun)]
          /\ FreezeBrief(frozenRun)
  /\ UNCHANGED <<features, target, connection, frozenRun, reached>>

(* build_gateway_runtime: the policy and the routing check the tools once more; *)
(* several tools of one capability need a slot each.                            *)
RoutesDistinct(tools) ==
  \A t, u \in tools : t.cap = u.cap /\ t # u => t.key # u.key /\ "none" \notin {t.key, u.key}
GatewayBuilds(run, tools) ==
  /\ Capabilities(tools) \subseteq run.allowed
  /\ RoutesDistinct(tools)
  /\ \A t \in tools : NeedsAutonomy(t.cap) => run.definition.profile # "GUIDED"
StartGateway ==
  /\ context.status = "ready"
  /\ context' = IF GatewayBuilds(frozenRun, context.tools)
                THEN [context EXCEPT !.status = "started"]
                ELSE [status |-> "refused", tools |-> {}]
  /\ UNCHANGED <<features, target, connection, frozenRun, frozenBrief, builds, reached>>

(* The attempt is lost and another one starts; an answered question or an       *)
(* approved change starts a new segment with a brief of its own.                *)
AttemptLost ==
  /\ context # NotBuilt
  /\ context' = NotBuilt
  /\ UNCHANGED <<features, target, connection, frozenRun, frozenBrief, builds, reached>>
SegmentEnds ==
  /\ context.status = "started"
  /\ context' = NotBuilt
  /\ frozenBrief' = {}
  /\ UNCHANGED <<features, target, connection, frozenRun, builds, reached>>

(* ToolExecutionPolicy.authorize and load_bound_run_resource: the call names a  *)
(* tool of the context and reaches the connection as it was frozen.             *)
BoundByName(source, cap) ==    \* a mistake: the connection as it is now
  connection[source.conn].status = "ACTIVE" /\ cap \in connection[source.conn].caps
StillBound(source, cap) ==
  LET row == connection[source.conn] IN
    row.status = "ACTIVE" /\ row.revision = source.revision /\ cap \in row.caps
(* ToolRouting.resolve: a slot may be left out where only one has the tool. *)
Routed(cap, key) ==
  LET group == {t \in context.tools : t.cap = cap}
  IN  {t \in group : t.key = key \/ (key = "none" /\ Cardinality(group) = 1)}
CallTool(cap, key) ==
  /\ context.status = "started"
  /\ \E tool \in Routed(cap, key) :
       /\ tool.conn # "none"
       /\ StillBound(frozenRun.selected[tool.key],
                     IF tool.cap = "repository.workspace" THEN "repository.read" ELSE tool.cap)
       /\ reached' = reached \cup {[key |-> tool.key, conn |-> tool.conn, cap |-> tool.cap,
                                    revision |-> connection[tool.conn].revision]}
  /\ UNCHANGED <<features, target, connection, frozenRun, frozenBrief, builds, context>>
-----------------------------------------------------------------------------
(* The world moves: an administrator edits a connection or disables it (either  *)
(* takes a new revision), the deployment is restarted with other switches or    *)
(* library.                                                                     *)
EditConnection(c, caps) ==     \* update_integration
  /\ connection[c].revision <= MaxRevisions
  /\ connection' = [connection EXCEPT ![c].caps = caps, ![c].revision = @ + 1]
  /\ UNCHANGED <<features, target, frozenRun, frozenBrief, builds, context, reached>>
DisableConnection(c) ==        \* disable_integration
  /\ connection[c].revision <= MaxRevisions /\ connection[c].status = "ACTIVE"
  /\ connection' = [connection EXCEPT ![c].status = "DISABLED", ![c].revision = @ + 1]
  /\ UNCHANGED <<features, target, frozenRun, frozenBrief, builds, context, reached>>
Redeploy(on, library) ==
  /\ frozenRun # NoRunYet
  /\ features' = on /\ target' = library
  /\ context' = NotBuilt
  /\ UNCHANGED <<connection, frozenRun, frozenBrief, builds, reached>>

ContextNext ==
  \/ \E d \in Definitions :
       \E choose \in [{s.key : s \in d.slots} -> {"none", "library"} \cup Selections \cup Connections] :
         CreateContextRun(d, choose)
  \/ BuildContext \/ StartGateway \/ AttemptLost \/ SegmentEnds
  \/ \E cap \in Capabilities(context.tools), key \in {"none"} \cup {t.key : t \in context.tools} :
       CallTool(cap, key)
  \/ \E c \in Connections :
       \/ \E caps \in {Offers[c], {cap \in Offers[c] : ~IsWrite(cap)}} : EditConnection(c, caps)
       \/ DisableConnection(c)
  \/ \E on \in {{"documents", "git"}, Switches}, library \in {0, 1} : Redeploy(on, library)
ContextSpec == ContextInit /\ [][ContextNext]_contextVars
-----------------------------------------------------------------------------
ContextTypeOK ==
  /\ features \subseteq Switches /\ target \in 0..1
  /\ \A c \in Connections : connection[c].status \in {"ACTIVE", "DISABLED"}
                            /\ connection[c].caps \subseteq Offers[c]
  /\ builds \in 0..MaxBuilds
  /\ context.status \in {"none", "ready", "started", "refused"}

(* What a definition and a choice must be for a Run of them to start at all.    *)
(* Neither the publish gate nor create_task_run asks for all of it.             *)
ServesTool(run, t) ==          \* a required tool: by the slots that declare it, or without one
  LET slots == {s \in BoundSlots(run) : t.cap \in s.caps}
      unbound == Unbound(t.cap) /\ (NeedsAutonomy(t.cap) => run.definition.profile # "GUIDED")
  IN  \/ t.cap \in EffectCapabilities
      \/ /\ slots # {}
         /\ \A s \in slots : Resolves(Switches, t.cap, run.selected[s.key].provider, run.definition.profile)
      \/ /\ slots = {}
         /\ t.cap \in DocumentCapabilities \cup Capabilities(SourceTools(run) \cup CheckoutTools(run)) \/ unbound
Startable(run) ==
  LET d == run.definition
  IN  /\ PrerequisitesMet(run)
      /\ d.profile = "GUIDED" =>
           /\ Declared(d) \cap {"artifact.append", "document.files", "tool.sequence"} = {}
           /\ CheckoutTools(run) = {}
      /\ ~d.direct =>
           /\ \A s \in BoundSlots(run) : SlotReads(s) # {}
           /\ (\E s \in SelectedSlots(run) : run.selected[s.key].kind = "library") =>
                d.intents # {} \/ "change.propose" \in Declared(d)
           /\ \A t \in d.tools : t.required => ServesTool(run, t)

(* A Run of a definition that can start does start: as long as the deployment   *)
(* has not changed since create_task_run, neither the builder nor the gateway   *)
(* refuses it, whatever happens to the connections in between. And no other one *)
(* is ever started.                                                             *)
AdmittedRunStarts ==
  /\ context.status = "refused" => frozenRun.deployed # <<features, target>> \/ ~Startable(frozenRun)
  /\ context.status \in {"ready", "started"} => Startable(frozenRun)

(* The tools handed to the agent stay within the Run: all of them granted, no   *)
(* effect among them, each bound one for a connection the user selected and     *)
(* within what the slot or the connection has, and every selected source served. *)
ToolsWithinRun ==
  context.status \in {"ready", "started"} =>
    /\ Capabilities(context.tools) \subseteq frozenRun.allowed \ EffectCapabilities
    /\ \A t \in context.tools : t.conn # "none" =>
         \E s \in BoundSlots(frozenRun) :
           /\ s.key = t.key /\ frozenRun.selected[s.key].conn = t.conn
           /\ t.cap \in SlotCaps(frozenRun.definition, s, frozenRun.selected[s.key])
                         \cup ResourceCapabilities(frozenRun.selected[s.key])
    /\ \A s \in BoundSlots(frozenRun) : \E t \in context.tools : t.key = s.key

(* A call only ever uses the revision of the connection that was frozen with    *)
(* the Run, and only for what that revision could do, however late it comes.    *)
CallsUseFrozenRevision ==
  \A use \in reached :
    /\ use.revision = frozenRun.selected[use.key].revision
    /\ use.cap \in ResourceCapabilities(frozenRun.selected[use.key])

(* An admitted Run can be started, with no more tools than it was admitted      *)
(* with, and its calls reach the connection as it was then (create_run, the     *)
(* context builder, the binding check of each call).                            *)
ContextIsFrozen == AdmittedRunStarts /\ ToolsWithinRun /\ CallsUseFrozenRevision
=============================================================================
