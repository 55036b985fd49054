---------------------------- MODULE Integrations ----------------------------
(***************************************************************************)
(* One Integration of a project, its SecretReference, and the bindings of a   *)
(* resource requirement to it: the configured one (of a task or the project)  *)
(* and, in TaskAdmission, those frozen for Runs (skillmind/integrations).      *)
(*                                                                         *)
(* An edit carries the revision its author saw and is refused when the row    *)
(* has moved on. Binding a requirement reads the Integration without a lock   *)
(* and saves what it read; a later change of the Integration makes the        *)
(* binding stale, which its users detect by the revision.                     *)
(***************************************************************************)
EXTENDS Integers

CONSTANTS Editors, MaxRevision   \* MaxRevision is a bound: edits of the Integration

ASSUME IntegrationAssumption == MaxRevision \in Nat \ {0}

VARIABLES
  secret,       \* SecretReference.status: "none", "ACTIVE", "DISABLED"
  integration,  \* Integration row: status and revision
  seen,         \* the revision each editor works from, 0 when none
  configured    \* revision of the configured ResourceBinding, 0 when none

integrationVars == <<secret, integration, seen, configured>>
-----------------------------------------------------------------------------
IntegrationInit ==
  /\ secret = "ACTIVE"
  /\ integration = [status |-> "ACTIVE", revision |-> 1]
  /\ seen = [e \in Editors |-> 0]
  /\ configured = 0

(* get_integration_details, and the unlocked read of put_resource_binding.   *)
ReadIntegration(e) ==
  /\ seen[e] # integration.revision
  /\ seen' = [seen EXCEPT ![e] = integration.revision]
  /\ UNCHANGED <<secret, integration, configured>>

CurrentRevision(e) == seen[e] = integration.revision

(* update_integration: the secret must be active.                            *)
UpdateIntegration(e) ==
  /\ CurrentRevision(e) /\ integration.revision < MaxRevision
  /\ secret = "ACTIVE"
  /\ integration' = [integration EXCEPT !.revision = @ + 1]
  /\ UNCHANGED <<secret, seen, configured>>

DisableIntegration(e) ==
  /\ CurrentRevision(e) /\ integration.revision < MaxRevision
  /\ integration.status = "ACTIVE"
  /\ integration' = [status |-> "DISABLED", revision |-> integration.revision + 1]
  /\ UNCHANGED <<secret, seen, configured>>

(* put_resource_binding, with the row the editor read, however old.          *)
PutResourceBinding(e) ==
  /\ seen[e] # 0 /\ integration.status = "ACTIVE"
  /\ configured' = seen[e]
  /\ UNCHANGED <<secret, integration, seen>>

DisableSecretReference ==
  /\ secret = "ACTIVE" /\ secret' = "DISABLED"
  /\ UNCHANGED <<integration, seen, configured>>

IntegrationNext ==
  \/ \E e \in Editors : ReadIntegration(e) \/ PutResourceBinding(e)
  \/ \E e \in Editors : UpdateIntegration(e) \/ DisableIntegration(e)
  \/ DisableSecretReference
=============================================================================
