--------------------------- MODULE WriteProviders ---------------------------
(***************************************************************************)
(* What the providers of effects/ do to the outside world when one approved  *)
(* effect is attempted several times: Git (repository_effect.py,             *)
(* agent/repository_client.py), Subversion, HTTP (http_provider.py), native  *)
(* SQL (postgres_native.py), structured PostgreSQL rows (database_provider.py,*)
(* postgres_write.py) and Redmine issues (redmine.py). The last two are       *)
(* implemented and tested; wiring.py does not register them.                  *)
(*                                                                         *)
(* EffectLifecycle decides when an attempt may start; here an attempt starts *)
(* when the one before was told to retry or lost its lease, and the older     *)
(* one's requests may still be on their way. Somebody else may change the     *)
(* target at any time, and authority may be withdrawn at any time.            *)
(***************************************************************************)
EXTENDS Naturals, FiniteSets

CONSTANTS
  Providers,         \* the providers checked, a subset of AllProviders
  MaxWriteAttempts,  \* bound: claims of the effect
  MaxOutside         \* bound: changes made by others

AllProviders ==
  {"git_branch", "git_direct", "svn_branch", "svn_direct", "http", "sql",
   "database", "redmine"}
WriteAttempts == 1..MaxWriteAttempts

ASSUME WriteAssumption ==
  /\ Providers \subseteq AllProviders
  /\ MaxWriteAttempts \in Nat /\ MaxOutside \in Nat

VARIABLES
  provider,    \* the provider of the approved effect
  target,      \* the branch, the head, the row or the issue the effect writes
  proof,       \* the target system can tell that this effect wrote
  applied,     \* how often it carried out the write
  overwritten, \* a write replaced what somebody else had written
  outside,     \* changes of others so far
  authority,   \* the approval, the binding and the credential still stand
  owner,       \* the attempt whose claim the EffectExecution row holds
  attempt,     \* where each attempt is, and what it reported
  requests,    \* attempts whose write has left and was not yet carried out
  answer       \* what the target system answered to each attempt's write

writeVars == <<provider, target, proof, applied, overwritten, outside, authority,
               owner, attempt, requests, answer>>
remoteSide == <<target, proof, applied, overwritten, outside, answer>>
-----------------------------------------------------------------------------
Git == {"git_branch", "git_direct"}
Svn == {"svn_branch", "svn_direct"}
OnBranch == {"git_branch", "svn_branch"}

\* The state the proposal was made against.
Expected == IF provider \in OnBranch THEN "absent" ELSE "base"
Idle == [pc |-> "idle", result |-> "none"]

WriteInit ==
  /\ provider \in Providers
  /\ target = Expected
  /\ proof = FALSE /\ applied = 0 /\ overwritten = FALSE /\ outside = 0
  /\ authority = TRUE /\ owner = 0
  /\ attempt = [n \in WriteAttempts |-> Idle]
  /\ requests = {}
  /\ answer = [n \in WriteAttempts |-> "none"]

At(n, p) == attempt[n].pc = p
GoTo(n, p) == attempt' = [attempt EXCEPT ![n].pc = p]
Report(n, r) == attempt' = [attempt EXCEPT ![n] = [pc |-> "done", result |-> r]]

\* authorize_effect_step: the lease, the approval, the bound Integration and
\* the credential are read again.
WriteAuthorized(n) == authority /\ owner = n
-----------------------------------------------------------------------------
(* Attempts.                                                               *)

\* claim_effect_execution after a retryable failure or an expired lease.
ClaimAttempt ==
  /\ owner < MaxWriteAttempts
  /\ owner # 0 => attempt[owner].result \in {"none", "RETRY"}
  /\ owner' = owner + 1
  /\ attempt' = [attempt EXCEPT ![owner + 1].pc = "claimed"]
  /\ UNCHANGED <<provider, authority, requests, remoteSide>>

\* The process dies, or the heartbeat's failure cancels the provider.
AttemptDies(n) ==
  /\ attempt[n].pc \notin {"idle", "done"}
  /\ Report(n, "none")
  /\ UNCHANGED <<provider, authority, owner, requests, remoteSide>>

Withdraw ==
  /\ authority
  /\ authority' = FALSE
  /\ UNCHANGED <<provider, owner, attempt, requests, remoteSide>>

Step(n) == UNCHANGED <<provider, authority, owner, remoteSide>>
Send(n) == requests' = requests \cup {n} /\ GoTo(n, "sent")
-----------------------------------------------------------------------------
(* The target systems.                                                     *)

\* Others commit, edit or delete. A row can be set back to what it was, a
\* revision cannot; "same" is the content of this effect from another hand.
Elsewhere ==
  CASE provider \in OnBranch   -> {"absent", "same", "other"}
    [] provider = "database"   -> {"base", "same", "other"}
    [] provider \in {"http", "sql"} -> {}
    [] OTHER                   -> {"same", "other"}

OthersWrite ==
  /\ outside < MaxOutside
  /\ \E v \in Elsewhere \ {target} :
       /\ target' = v
       /\ outside' = outside + 1
  /\ UNCHANGED <<provider, proof, applied, overwritten, authority, owner, attempt, requests,
                 answer>>

Performs(n, v) ==
  /\ target' = v
  /\ applied' = applied + 1
  /\ proof' = TRUE
  /\ overwritten' = (overwritten \/ target \in {"other", "same"})
  /\ answer' = [answer EXCEPT ![n] = "ok"]
Replies(n, a) ==
  /\ answer' = [answer EXCEPT ![n] = a]
  /\ UNCHANGED <<target, proof, applied, overwritten>>

\* A plain push whose hook compares the remote head with the expected one.
PushHandled(n) ==
  /\ provider \in Git
  /\ IF target = Expected THEN Performs(n, "ours") ELSE Replies(n, "refused")

\* svn copy fails when the branch is there.
CopyHandled(n) ==
  /\ provider = "svn_branch" /\ At(n, "copying")
  /\ IF target = "absent"
       THEN /\ target' = "copied"
            /\ answer' = [answer EXCEPT ![n] = "copied"]
            /\ UNCHANGED <<proof, applied, overwritten>>
       ELSE Replies(n, "refused")

\* svn commit sends the difference to the revision that was checked out,
\* which is the newest one (repository_client.py:811); none, no commit. It is
\* refused when others committed since that checkout.
CommitHandled(n) ==
  /\ provider \in Svn /\ ~At(n, "copying")
  /\ \/ target \in {"ours", "same"} /\ Replies(n, "ok")
     \/ target \notin {"ours", "same", "absent"} /\ Performs(n, "ours")
     \/ (target = "absent" \/ outside > 0) /\ Replies(n, "refused")

\* The issue extension: a known key is answered again, another revision
\* refused (ensure_issue_update_protocol demands both).
IssueHandled(n) ==
  /\ provider = "redmine"
  /\ \/ proof /\ Replies(n, "ok")
     \/ ~proof /\ target = "base" /\ Performs(n, "ours")
     \/ ~proof /\ target # "base" /\ Replies(n, "refused")

\* Arbitrary HTTP requests and committed SQL statements have no identity.
PlainHandled(n) ==
  /\ provider \in {"http", "sql"}
  /\ \/ Performs(n, target)
     \/ provider = "http" /\ Replies(n, "refused")

\* One transaction under the effect's advisory lock: the receipt, the row
\* compared with the observed one, the change and its receipt, rolled back
\* when authority turns out to be gone.
TransactionHandled(n) ==
  /\ provider = "database"
  /\ \/ proof /\ Replies(n, "ok")
     \/ ~proof /\ target = Expected /\ Performs(n, "ours")
     \/ ~proof /\ target # Expected /\ Replies(n, "refused")
     \/ ~WriteAuthorized(n) /\ Replies(n, "revoked")

RemoteHandles(n) ==
  /\ n \in requests
  /\ requests' = requests \ {n}
  /\ \/ PushHandled(n) \/ CopyHandled(n) \/ CommitHandled(n)
     \/ IssueHandled(n) \/ PlainHandled(n) \/ TransactionHandled(n)
  /\ UNCHANGED <<provider, outside, authority, owner, attempt>>
-----------------------------------------------------------------------------
(* Git: look at the branch, push once, fetch and compare.                   *)

\* matches_commit_identity and _matches: this effect's commit, its content.
OriginalCommit == target = "ours"

\* Mutation: pushing again when the branch is gone.
GitLooksAgain(n) ==
  /\ provider \in Git /\ At(n, "claimed")
  /\ \/ ~WriteAuthorized(n) /\ Report(n, "REVOKED")
     \/ WriteAuthorized(n) /\ target = Expected /\ GoTo(n, "ready")
     \/ WriteAuthorized(n) /\ target # Expected /\ Report(n, "CONFLICT")
  /\ UNCHANGED requests
  /\ Step(n)

GitLooks(n) ==
  /\ provider \in Git /\ At(n, "claimed")
  /\ \/ ~WriteAuthorized(n) /\ Report(n, "REVOKED")
     \/ WriteAuthorized(n) /\ Report(n, "RETRY")        \* a command timed out
     \/ /\ WriteAuthorized(n)
        /\ \/ OriginalCommit /\ Report(n, "REPLAYED")
           \/ /\ target # Expected /\ ~OriginalCommit
              /\ Report(n, IF provider = "git_direct" THEN "STALE" ELSE "CONFLICT")
           \/ target = Expected /\ n > 1 /\ Report(n, "UNCONFIRMED")
           \/ target = Expected /\ n = 1 /\ GoTo(n, "ready")
  /\ UNCHANGED requests
  /\ Step(n)

\* commit_and_push: authority is checked between the commit and the push.
GitPushes(n) ==
  /\ provider \in Git /\ At(n, "ready")
  /\ \/ ~WriteAuthorized(n) /\ Report(n, "REVOKED") /\ UNCHANGED requests
     \/ WriteAuthorized(n) /\ Send(n)
  /\ Step(n)

GitVerifies(n) ==
  /\ provider \in Git /\ At(n, "sent") /\ answer[n] # "none"
  /\ \/ answer[n] = "refused" /\ Report(n, "UNCONFIRMED")
     \/ /\ answer[n] = "ok"
        /\ \/ target # "ours" /\ Report(n, "VERIFICATION_FAILED")
           \/ target = "ours" /\ WriteAuthorized(n) /\ Report(n, "APPLIED")
           \/ target = "ours" /\ ~WriteAuthorized(n) /\ Report(n, "REVOKED")
  /\ UNCHANGED requests
  /\ Step(n)
-----------------------------------------------------------------------------
(* Subversion: the branch is copied, then a fresh working copy committed.   *)
(* info of the pegged base revision always answers that revision, so the    *)
(* comparison with the base never fails; authority is not checked again.    *)

SvnMatches == target \in {"ours", "same"}

SvnLooks(n) ==
  /\ provider \in Svn /\ At(n, "claimed")
  /\ \/ Report(n, "RETRY") /\ UNCHANGED requests
     \/ provider = "svn_direct" /\ Send(n)
     \/ provider = "svn_branch" /\ SvnMatches /\ Report(n, "REPLAYED") /\ UNCHANGED requests
     \/ provider = "svn_branch" /\ target \in {"copied", "other"}
          /\ Report(n, "CONFLICT") /\ UNCHANGED requests
     \/ provider = "svn_branch" /\ target = "absent"
          /\ requests' = requests \cup {n} /\ GoTo(n, "copying")
  /\ Step(n)

SvnCommits(n) ==
  /\ At(n, "copying") /\ answer[n] # "none"
  /\ \/ answer[n] = "copied" /\ Send(n) /\ answer' = [answer EXCEPT ![n] = "none"]
     \/ answer[n] = "refused" /\ Report(n, "UNCONFIRMED") /\ UNCHANGED <<requests, answer>>
  /\ UNCHANGED <<provider, authority, owner, target, proof, applied, overwritten, outside>>

SvnVerifies(n) ==
  /\ provider \in Svn /\ At(n, "sent") /\ answer[n] # "none"
  /\ \/ answer[n] = "refused" /\ Report(n, "UNCONFIRMED")
     \/ answer[n] = "ok" /\ SvnMatches /\ Report(n, "APPLIED")
     \/ answer[n] = "ok" /\ ~SvnMatches /\ Report(n, "VERIFICATION_FAILED")
  /\ UNCHANGED requests
  /\ Step(n)
-----------------------------------------------------------------------------
(* HTTP and native SQL: no second request, whatever became of the first.    *)

HttpRequests(n) ==
  /\ provider = "http" /\ At(n, "claimed")
  /\ \/ n > 1 /\ Report(n, "UNCONFIRMED") /\ UNCHANGED requests
     \/ n = 1 /\ ~WriteAuthorized(n) /\ Report(n, "REVOKED") /\ UNCHANGED requests
     \/ n = 1 /\ WriteAuthorized(n) /\ Send(n)
  /\ Step(n)

HttpAnswered(n) ==
  /\ provider = "http" /\ At(n, "sent") /\ answer[n] # "none"
  /\ \/ ~WriteAuthorized(n) /\ Report(n, "REVOKED")
     \/ WriteAuthorized(n) /\ Report(n, "UNCONFIRMED")     \* the response could not be saved
     \/ WriteAuthorized(n) /\ answer[n] = "ok" /\ Report(n, "APPLIED")
     \/ WriteAuthorized(n) /\ answer[n] = "refused" /\ Report(n, "ANSWERED")
  /\ UNCHANGED requests
  /\ Step(n)

\* The statement runs in an open transaction, or did not reach the server.
SqlExecutes(n) ==
  /\ provider = "sql" /\ At(n, "claimed")
  /\ \/ ~WriteAuthorized(n) /\ Report(n, "REVOKED")
     \/ WriteAuthorized(n) /\ n > 1 /\ Report(n, "UNCONFIRMED")
     \/ WriteAuthorized(n) /\ n = 1 /\ GoTo(n, "open")
     \/ WriteAuthorized(n) /\ n = 1 /\ Report(n, "NOT_SENT")
  /\ UNCHANGED requests
  /\ Step(n)

\* Mutation: an error at commit reported as a rollback.
SqlCommitsBlindly(n) ==
  /\ provider = "sql" /\ At(n, "open")
  /\ \/ ~WriteAuthorized(n) /\ Report(n, "REVOKED") /\ UNCHANGED requests
     \/ WriteAuthorized(n) /\ requests' = requests \cup {n} /\ Report(n, "ROLLED_BACK")
  /\ Step(n)

\* Its failure or a lost authority rolls back; otherwise the commit leaves.
SqlCommits(n) ==
  /\ provider = "sql" /\ At(n, "open")
  /\ \/ ~WriteAuthorized(n) /\ Report(n, "REVOKED") /\ UNCHANGED requests
     \/ WriteAuthorized(n) /\ Report(n, "ROLLED_BACK") /\ UNCHANGED requests
     \/ WriteAuthorized(n) /\ Send(n)
  /\ Step(n)

SqlCommitted(n) ==
  /\ provider = "sql" /\ At(n, "sent") /\ answer[n] = "ok"
  /\ Report(n, IF WriteAuthorized(n) THEN "APPLIED" ELSE "REVOKED")
  /\ UNCHANGED requests
  /\ Step(n)
-----------------------------------------------------------------------------
(* Structured rows and issues: the target system keeps a receipt or a key.  *)

\* A later attempt first asks for the receipt of an earlier one.
DatabaseApplies(n) ==
  /\ provider = "database" /\ At(n, "claimed")
  /\ \/ ~WriteAuthorized(n) /\ Report(n, "REVOKED") /\ UNCHANGED requests
     \/ WriteAuthorized(n) /\ n > 1 /\ proof /\ Report(n, "REPLAYED") /\ UNCHANGED requests
     \/ WriteAuthorized(n) /\ (n = 1 \/ ~proof) /\ Send(n)
     \/ WriteAuthorized(n) /\ n > 1 /\ Report(n, "RETRY") /\ UNCHANGED requests
  /\ Step(n)

DatabaseAnswered(n) ==
  /\ provider = "database" /\ At(n, "sent") /\ answer[n] # "none"
  /\ \/ answer[n] = "ok" /\ Report(n, "APPLIED")
     \/ answer[n] = "refused" /\ Report(n, "STALE")
     \/ answer[n] = "revoked" /\ Report(n, "REVOKED")
  /\ UNCHANGED requests
  /\ Step(n)

RedmineReads(n) ==
  /\ provider = "redmine" /\ At(n, "claimed")
  /\ \/ Report(n, "RETRY") /\ UNCHANGED requests
     \/ target = "base" /\ Send(n)
     \/ target \in {"ours", "same"} /\ Report(n, "REPLAYED") /\ UNCHANGED requests
     \/ target = "other" /\ Report(n, "STALE") /\ UNCHANGED requests
  /\ Step(n)

RedmineReadsBack(n) ==
  /\ provider = "redmine" /\ At(n, "sent") /\ answer[n] # "none"
  /\ \/ answer[n] = "refused" /\ Report(n, "STALE")
     \/ answer[n] = "ok" /\ target \in {"ours", "same"} /\ Report(n, "APPLIED")
     \/ answer[n] = "ok" /\ target = "other" /\ Report(n, "VERIFICATION_FAILED")
  /\ UNCHANGED requests
  /\ Step(n)

\* The answer does not come in time. The write may still be on its way.
Unanswered == IF provider \in {"http", "sql"} THEN "UNCONFIRMED" ELSE "RETRY"
NoAnswer(n) ==
  /\ attempt[n].pc \in {"sent", "copying"}
  /\ Report(n, Unanswered)
  /\ UNCHANGED requests
  /\ Step(n)

WriteNext ==
  \/ ClaimAttempt \/ Withdraw \/ OthersWrite
  \/ \E n \in WriteAttempts :
       \/ AttemptDies(n) \/ RemoteHandles(n) \/ NoAnswer(n)
       \/ GitLooks(n) \/ GitPushes(n) \/ GitVerifies(n)
       \/ SvnLooks(n) \/ SvnCommits(n) \/ SvnVerifies(n)
       \/ HttpRequests(n) \/ HttpAnswered(n)
       \/ SqlExecutes(n) \/ SqlCommits(n) \/ SqlCommitted(n)
       \/ DatabaseApplies(n) \/ DatabaseAnswered(n)
       \/ RedmineReads(n) \/ RedmineReadsBack(n)

WriteSpec == WriteInit /\ [][WriteNext]_writeVars
-----------------------------------------------------------------------------
Results ==
  {"none", "APPLIED", "REPLAYED", "STALE", "CONFLICT", "UNCONFIRMED", "RETRY", "REVOKED",
   "ANSWERED", "NOT_SENT", "ROLLED_BACK", "VERIFICATION_FAILED"}

\* The values of every variable.
WriteTypeOK ==
  /\ provider \in AllProviders
  /\ target \in {"absent", "copied", "base", "ours", "same", "other"}
  /\ proof \in BOOLEAN /\ overwritten \in BOOLEAN /\ authority \in BOOLEAN
  /\ applied \in Nat /\ outside \in 0..MaxOutside /\ owner \in 0..MaxWriteAttempts
  /\ attempt \in [WriteAttempts ->
                    [pc : {"idle", "claimed", "ready", "copying", "open", "sent", "done"},
                     result : Results]]
  /\ requests \subseteq WriteAttempts
  /\ answer \in [WriteAttempts -> {"none", "ok", "copied", "refused", "revoked"}]

\* However many attempts a lost answer, a dead worker or a late request leads
\* to, an approved change is carried out once, and except by Subversion never
\* on top of somebody else's (attempt_no checks, receipts, push guard).
WrittenAtMostOnce ==
  provider \notin Svn => applied <= 1 /\ ~overwritten

\* What an attempt reports is true of the target system: success only when
\* this effect wrote (Redmine and Subversion accept equal content for it), and
\* "not sent" or "rolled back" only when it never did and never will.
ReportIsTrue ==
  \A n \in WriteAttempts :
    /\ attempt[n].result \in {"APPLIED", "REPLAYED"} =>
         applied > 0 \/ provider \in Svn \cup {"redmine"}
    /\ attempt[n].result \in {"NOT_SENT", "ROLLED_BACK"} => applied = 0 /\ requests = {}

\* "If others have updated the same path, svn itself refuses the commit as out
\* of date" (agent/repository_client.py:805, effects/repository_effect.py:322).
SvnRefusesWhenOutOfDate ==
  provider = "svn_direct" => ~overwritten

(* Across lost answers and repeated attempts, an approved write is made at most *)
(* once and reported as what happened, by every provider's execute.             *)
WritesAreTrue == WrittenAtMostOnce /\ ReportIsTrue
=============================================================================
