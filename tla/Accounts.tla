------------------------------ MODULE Accounts ------------------------------
(* Users, their sessions and their API keys. A request passes two checks: the *)
(* route's dependency looks at the session (api/auth_dependencies.py), and    *)
(* the service looks again inside its transaction, with the organization, the *)
(* users and the sessions locked (users/service.py). Anything may happen      *)
(* between the two. A service transaction is one step.                        *)
EXTENDS Naturals, FiniteSets

CONSTANTS
  Users, Sessions,
  HttpRequests,       \* HTTP requests in progress
  MaxRowVersion,  \* bound on edits of a row
  NoUser, NoSession

ASSUME AccountAssumption ==
  /\ MaxRowVersion \in Nat \ {0}
  /\ NoUser \notin Users /\ NoSession \notin Sessions

VARIABLES
  account,   \* User rows
  ticket,    \* AuthSession rows, those of API keys included
  http       \* what each request was admitted for

accountVars == <<account, ticket, http>>

Roles == {"ADMIN", "MEMBER"}
NoAccount == [status |-> "none", role |-> "MEMBER", version |-> 0]
NoTicket == [state |-> "none", user |-> NoUser, role |-> "MEMBER", key |-> FALSE]
NoRequestYet == [op |-> "none", session |-> NoSession, target |-> NoUser, version |-> 0]

AccountInit ==
  /\ account = [u \in Users |-> NoAccount]
  /\ ticket = [s \in Sessions |-> NoTicket]
  /\ http = [q \in HttpRequests |-> NoRequestYet]

ActiveAdmins == {u \in Users : account[u].status = "ACTIVE" /\ account[u].role = "ADMIN"}

(* validate_session_state                                                    *)
Usable(s) ==
  /\ ticket[s].state = "live"
  /\ account[ticket[s].user].status = "ACTIVE"
  /\ ticket[s].key => account[ticket[s].user].role = "ADMIN"
  /\ ticket[s].role = account[ticket[s].user].role
-----------------------------------------------------------------------------
(* bootstrap: the first administrator, under the lock of the organization.   *)
Bootstrap(u) ==
  /\ \A v \in Users : account[v].status # "none" => account[v].role # "ADMIN"
  /\ account[u].status = "none"
  /\ account' = [account EXCEPT ![u] = [NoAccount EXCEPT !.status = "ACTIVE",
                                          !.role = "ADMIN", !.version = 1]]
  /\ UNCHANGED <<ticket, http>>

(* login, once the throttle has admitted it and the password is right.       *)
Login(u, s) ==
  /\ account[u].status = "ACTIVE" /\ ticket[s] = NoTicket
  /\ ticket' = [ticket EXCEPT ![s] = [state |-> "live", user |-> u,
                                      role |-> account[u].role, key |-> FALSE]]
  /\ UNCHANGED <<account, http>>

(* Idle or absolute expiry; an API key does not expire.                      *)
SessionExpires(s) ==
  /\ ticket[s].state = "live" /\ ~ticket[s].key
  /\ ticket' = [ticket EXCEPT ![s].state = "expired"]
  /\ UNCHANGED <<account, http>>

Logout(s) ==
  /\ Usable(s) /\ ~ticket[s].key
  /\ ticket' = [ticket EXCEPT ![s].state = "revoked"]
  /\ UNCHANGED <<account, http>>
-----------------------------------------------------------------------------
(* The routes.                                                               *)
For(op, s, target, version) ==
  [op |-> op, session |-> s, target |-> target, version |-> version]
IsAdmin(s) == account[ticket[s].user].role = "ADMIN"

(* The requests each group of routes lets through for session s.             *)
UserRoutes(s) ==
  {For(op, s, u, account[u].version) :
     op \in {"create_user", "update_user", "revoke_sessions"}, u \in Users}
OwnRoutes(s) ==
  {For(op, s, ticket[s].user, account[ticket[s].user].version) :
     op \in {"change_password", "revoke_sessions"}}
KeyRoutes(s) == {For(op, s, NoUser, 0) : op \in {"create_key", "revoke_key"}}
Routes(s) ==
  IF ~Usable(s) THEN {}
  ELSE OwnRoutes(s) \cup IF IsAdmin(s) THEN UserRoutes(s) \cup KeyRoutes(s) ELSE {}

Admit(q) ==
  /\ http[q] = NoRequestYet
  /\ \E s \in Sessions : \E r \in Routes(s) : http' = [http EXCEPT ![q] = r]
  /\ UNCHANGED <<account, ticket>>

(* A conflict, a lost authority, or an error anywhere ends the request.      *)
Refuse(q) ==
  /\ http[q] # NoRequestYet
  /\ http' = [http EXCEPT ![q] = NoRequestYet]
  /\ UNCHANGED <<account, ticket>>
-----------------------------------------------------------------------------
(* The services. _transaction and _admin_transaction lock, then authorize.   *)
Actor(r) == ticket[r.session].user
AuthorizeUser(r) == Usable(r.session)
AuthorizeAdmin(r) == AuthorizeUser(r) /\ account[Actor(r)].role = "ADMIN"
AccountAt(r) ==
  /\ account[r.target].status # "none"
  /\ account[r.target].version = r.version
  /\ r.version < MaxRowVersion

(* _finish: the listed sessions of the target are those not yet revoked.     *)
RevokeLogins(u) ==
  ticket' = [s \in Sessions |->
               IF ticket[s].user = u /\ ticket[s].state \in {"live", "expired"} /\ ~ticket[s].key
               THEN [ticket[s] EXCEPT !.state = "revoked"] ELSE ticket[s]]
RevokeAll(u) ==
  ticket' = [s \in Sessions |->
               IF ticket[s].user = u /\ ticket[s].state \in {"live", "expired"}
               THEN [ticket[s] EXCEPT !.state = "revoked"] ELSE ticket[s]]

CreateUser(r) ==
  LET u == r.target IN
  /\ r.op = "create_user" /\ AuthorizeAdmin(r)
  /\ account[u].status = "none"
  /\ \E role \in Roles :
       account' = [account EXCEPT ![u] = [NoAccount EXCEPT !.status = "ACTIVE",
                                            !.role = role, !.version = 1]]
  /\ UNCHANGED ticket

HasOtherAdmin(u) == \E v \in Users \ {u} : account[v].status # "none" /\ account[v].role = "ADMIN"
HasOtherActiveAdmin(u) == ActiveAdmins \ {u} # {}
UpdateUser(r) ==
  LET u == r.target IN
  /\ r.op = "update_user" /\ AuthorizeAdmin(r) /\ AccountAt(r)
  /\ \E role \in Roles, status \in {"ACTIVE", "DISABLED"}, renamed \in BOOLEAN :
       /\ u \in ActiveAdmins /\ (role # "ADMIN" \/ status # "ACTIVE") => HasOtherActiveAdmin(u)
       /\ account' = [account EXCEPT ![u] =
            IF ~renamed /\ <<role, status>> = <<account[u].role, account[u].status>> THEN @
            ELSE [account[u] EXCEPT !.role = role, !.status = status, !.version = @ + 1]]
       /\ IF <<role, status>> # <<account[u].role, account[u].status>>
            THEN RevokeAll(u) ELSE UNCHANGED ticket

ChangePassword(r) ==
  LET u == r.target IN
  /\ r.op = "change_password" /\ AuthorizeUser(r) /\ AccountAt(r)
  /\ account' = [account EXCEPT ![u].version = @ + 1]
  /\ RevokeAll(u)

RevokeSessions(r) ==
  LET u == r.target IN
  /\ r.op = "revoke_sessions" /\ AccountAt(r)
  /\ IF u = Actor(r) THEN AuthorizeUser(r) ELSE AuthorizeAdmin(r)
  /\ account' = [account EXCEPT ![u].version = @ + 1]
  /\ RevokeAll(u)

CreateKey(r) ==
  /\ r.op = "create_key" /\ AuthorizeAdmin(r)
  /\ \E s \in Sessions :
       /\ ticket[s] = NoTicket
       /\ ticket' = [ticket EXCEPT ![s] = [state |-> "live", user |-> Actor(r),
                                           role |-> "ADMIN", key |-> TRUE]]
  /\ UNCHANGED account

RevokeKey(r) ==
  /\ r.op = "revoke_key" /\ AuthorizeAdmin(r)
  /\ \E s \in Sessions : ticket[s].key /\ ticket' = [ticket EXCEPT ![s].state = "revoked"]
  /\ UNCHANGED account
-----------------------------------------------------------------------------
Service(r) ==
  \/ CreateUser(r) \/ UpdateUser(r) \/ ChangePassword(r) \/ RevokeSessions(r)
  \/ CreateKey(r) \/ RevokeKey(r)
(* A request that anything may overtake, and one that nothing overtakes.     *)
Serve(q) ==
  /\ Service(http[q])
  /\ http' = [http EXCEPT ![q] = NoRequestYet]
ServeAtOnce == \E s \in Sessions : \E r \in Routes(s) : Service(r) /\ UNCHANGED http

AccountNext ==
  \/ \E u \in Users : Bootstrap(u) \/ \E s \in Sessions : Login(u, s)
  \/ \E s \in Sessions : SessionExpires(s) \/ Logout(s)
  \/ \E q \in HttpRequests : Admit(q) \/ Serve(q) \/ Refuse(q)
  \/ ServeAtOnce
AccountSpec == AccountInit /\ [][AccountNext]_accountVars
-----------------------------------------------------------------------------
(* The rows keep their types.                                                *)
AccountTypeOK ==
  /\ account \in [Users -> [status : {"none", "ACTIVE", "DISABLED"}, role : Roles,
                            version : 0..MaxRowVersion]]
  /\ ticket \in [Sessions -> [state : {"none", "live", "expired", "revoked"},
                              user : Users \cup {NoUser}, role : Roles, key : BOOLEAN]]

(* Once there is an account, somebody can administer it: administrators who  *)
(* demote or disable each other at the same time never remove the last one   *)
(* (update_user, has_other_active_admin).                                    *)
AdminRemains == (\E u \in Users : account[u].status # "none") => ActiveAdmins # {}

(* A live session or API key belongs to an active user and carries the role  *)
(* the user has now, whatever edits and logins overlapped (_finish, login,   *)
(* ApiKeyService.create).                                                    *)
LiveSessionsCurrent ==
  \A s \in Sessions : ticket[s].state = "live" =>
    /\ account[ticket[s].user].status = "ACTIVE"
    /\ account[ticket[s].user].role = ticket[s].role

(* No order of logins, role changes, deactivations and password changes locks   *)
(* the organisation out or leaves a session with rights its user lost.          *)
AccountsAreSafe == AdminRemains /\ LiveSessionsCurrent
=============================================================================
