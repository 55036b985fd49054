------------------------------ MODULE Projects ------------------------------
(* One project, its members, the users who prefer it and what is stored in    *)
(* it. As in Accounts a request is admitted by the route and checked again    *)
(* by the service; here a user's session is only valid or not any more.       *)
EXTENDS Naturals

CONSTANTS
  People, Admins,     \* users, and those of them with the ADMIN role
  Tasks,              \* HTTP requests in progress
  MaxProjectVersion,  \* bound on edits of the project
  Nowhere             \* no target

ASSUME ProjectAssumption ==
  Admins \subseteq People /\ MaxProjectVersion \in Nat \ {0} /\ Nowhere \notin People

VARIABLES
  valid,     \* users whose session may be used
  project,   \* the Project row
  member,    \* ProjectMember rows
  prefers,   \* users whose preferred_project_id is the project
  audited,   \* a ProjectMemberEvent names the project
  content,   \* Runs, schedules and documents: none, all settled, or some busy
  order      \* what each request was admitted for

projectVars == <<valid, project, member, prefers, audited, content, order>>

NoProject == [status |-> "none", version |-> 0]
GoneProject == [status |-> "gone", version |-> 0]
ProjectExists == project.status \in {"ACTIVE", "ARCHIVED"}
NoOrder == [op |-> "none", by |-> Nowhere, target |-> Nowhere, version |-> 0]

ProjectInit ==
  /\ valid = People
  /\ project = NoProject
  /\ member = [u \in People |-> "none"]
  /\ prefers = {}
  /\ audited = FALSE
  /\ content = "none"
  /\ order = [t \in Tasks |-> NoOrder]

LoseSession(u) ==
  /\ u \in valid /\ valid' = valid \ {u}
  /\ UNCHANGED <<project, member, prefers, audited, content, order>>
-----------------------------------------------------------------------------
(* _accessible_model, as authorize_project_access reads it.                  *)
Accessible(u) == ProjectExists /\ (u \in Admins \/ member[u] = "ACTIVE")

Order(op, u, target, version) == [op |-> op, by |-> u, target |-> target, version |-> version]
ProjectRoutes(u) ==
  {Order(op, u, Nowhere, project.version) :
     op \in {"create", "update", "archive", "unarchive", "delete", "purge"}}
MemberRoutes(u) == {Order(op, u, v, 0) : op \in {"add_member", "remove_member"}, v \in People}
PreferenceRoutes(u) == {Order(op, u, Nowhere, 0) : op \in {"prefer", "prefer_none"}}
(* csrf_project_actor: the routes that change something in the project.      *)
ContentRoutes(u) ==
  IF Accessible(u) /\ project.status = "ACTIVE" THEN {Order("write", u, Nowhere, 0)} ELSE {}
ProjectRequests(u) ==
  IF u \notin valid THEN {}
  ELSE PreferenceRoutes(u) \cup ContentRoutes(u)
         \cup IF u \in Admins THEN ProjectRoutes(u) \cup MemberRoutes(u) ELSE {}

AdmitOrder(t) ==
  /\ order[t] = NoOrder
  /\ \E u \in People : \E r \in ProjectRequests(u) : order' = [order EXCEPT ![t] = r]
  /\ UNCHANGED <<valid, project, member, prefers, audited, content>>
(* _project_errors: a conflict, a lost authority or an error ends it.        *)
RefuseOrder(t) ==
  /\ order[t] # NoOrder
  /\ order' = [order EXCEPT ![t] = NoOrder]
  /\ UNCHANGED <<valid, project, member, prefers, audited, content>>
-----------------------------------------------------------------------------
(* _admin_transaction and _project_transaction: authority, then the version. *)
AuthorizeOrder(r) == r.by \in valid /\ r.by \in Admins
ProjectAt(r) == ProjectExists /\ project.version = r.version
others == <<valid, member, prefers, audited, content>>

CreateProject(r) ==
  /\ r.op = "create" /\ AuthorizeOrder(r) /\ project.status = "none"
  /\ project' = [status |-> "ACTIVE", version |-> 1]
  /\ UNCHANGED others

UpdateProject(r) ==
  /\ r.op = "update" /\ AuthorizeOrder(r) /\ ProjectAt(r)
  /\ project.version < MaxProjectVersion
  /\ project' = [project EXCEPT !.version = @ + 1]
  /\ UNCHANGED others

SetProjectStatus(r, op, status) ==
  /\ r.op = op /\ AuthorizeOrder(r) /\ ProjectAt(r)
  /\ project.version < MaxProjectVersion /\ project.status # status
  /\ project' = [status |-> status, version |-> project.version + 1]
  /\ UNCHANGED others

(* repository.delete and purge_project end alike: rows, members, preferences. *)
DropKeepingPreference ==
  /\ project' = GoneProject
  /\ member' = [u \in People |-> "none"]
  /\ content' = "none" /\ audited' = FALSE
  /\ UNCHANGED prefers
DropProject ==
  /\ project' = GoneProject
  /\ member' = [u \in People |-> "none"]
  /\ content' = "none" /\ audited' = FALSE
  /\ prefers' = {}

DeleteProject(r) ==
  /\ r.op = "delete" /\ AuthorizeOrder(r) /\ ProjectAt(r)
  /\ project.status = "ARCHIVED" /\ content = "none" /\ ~audited
  /\ DropProject
  /\ UNCHANGED valid
PurgeProject(r) ==
  /\ r.op = "purge" /\ AuthorizeOrder(r) /\ ProjectAt(r)
  /\ project.status = "ARCHIVED" /\ content # "busy"
  /\ DropProject
  /\ UNCHANGED valid

AddMember(r) ==
  /\ r.op = "add_member" /\ AuthorizeOrder(r) /\ project.status = "ACTIVE"
  /\ member' = [member EXCEPT ![r.target] = "ACTIVE"]
  /\ audited' = (audited \/ member[r.target] # "ACTIVE")
  /\ UNCHANGED <<valid, project, prefers, content>>
RemoveMember(r) ==
  /\ r.op = "remove_member" /\ AuthorizeOrder(r)
  /\ ProjectExists /\ member[r.target] = "ACTIVE"
  /\ member' = [member EXCEPT ![r.target] = "REMOVED"]
  /\ audited' = TRUE
  /\ UNCHANGED <<valid, project, prefers, content>>

(* set_preference looks at the project under the organization's lock, but    *)
(* not at the session again.                                                 *)
SetPreference(r) ==
  /\ \/ r.op = "prefer_none" /\ prefers' = prefers \ {r.by}
     \/ /\ r.op = "prefer" /\ Accessible(r.by) /\ project.status = "ACTIVE"
        /\ prefers' = prefers \cup {r.by}
  /\ UNCHANGED <<valid, project, member, audited, content>>

(* lock_write_access and require_active_write_access in the transaction that *)
(* adds a Run, a schedule or a document.                                     *)
WriteAsAdmitted(r) == r.by \in valid
MayWrite(r) == r.by \in valid /\ Accessible(r.by) /\ project.status = "ACTIVE"
WriteContent(r) ==
  /\ r.op = "write" /\ MayWrite(r)
  /\ content' = "busy"
  /\ UNCHANGED <<valid, project, member, prefers, audited>>
ContentSettles ==
  /\ content = "busy" /\ content' = "settled"
  /\ UNCHANGED <<valid, project, member, prefers, audited, order>>
-----------------------------------------------------------------------------
ProjectService(r) ==
  \/ CreateProject(r) \/ UpdateProject(r) \/ DeleteProject(r) \/ PurgeProject(r)
  \/ SetProjectStatus(r, "archive", "ARCHIVED") \/ SetProjectStatus(r, "unarchive", "ACTIVE")
  \/ AddMember(r) \/ RemoveMember(r) \/ SetPreference(r) \/ WriteContent(r)
ServeOrder(t) ==
  /\ ProjectService(order[t])
  /\ order' = [order EXCEPT ![t] = NoOrder]
(* A request that nothing overtakes.                                         *)
ServeOrderAtOnce ==
  \E u \in People : \E r \in ProjectRequests(u) : ProjectService(r) /\ UNCHANGED order

ProjectNext ==
  \/ \E u \in People : LoseSession(u)
  \/ \E t \in Tasks : AdmitOrder(t) \/ ServeOrder(t) \/ RefuseOrder(t)
  \/ ServeOrderAtOnce
  \/ ContentSettles
ProjectSpec == ProjectInit /\ [][ProjectNext]_projectVars
-----------------------------------------------------------------------------
(* The rows keep their types.                                                *)
ProjectTypeOK ==
  /\ valid \subseteq People /\ prefers \subseteq People /\ audited \in BOOLEAN
  /\ project \in [status : {"none", "gone", "ACTIVE", "ARCHIVED"}, version : 0..MaxProjectVersion]
  /\ member \in [People -> {"none", "ACTIVE", "REMOVED"}]
  /\ content \in {"none", "settled", "busy"}
  /\ \A t \in Tasks : order[t].by \in People \cup {Nowhere}

(* A deleted project leaves nothing behind, although requests to write to it, *)
(* to join it or to prefer it may have been admitted before it was archived   *)
(* and deleted (delete, purge_project, lock_write_access).                    *)
NothingLeftBehind ==
  ~ProjectExists =>
    /\ content = "none" /\ ~audited /\ prefers = {}
    /\ \A u \in People : member[u] = "none"
=============================================================================
