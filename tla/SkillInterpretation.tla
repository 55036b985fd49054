------------------------ MODULE SkillInterpretation ------------------------
(***************************************************************************)
(* Skills: importing a source and interpreting it with the model             *)
(* (skillmind/skills/*.py).                                                  *)
(*                                                                         *)
(* A request to interpret a source is accepted in one transaction with its    *)
(* dispatch message. A worker claims it once, prepares it, and may make two   *)
(* calls of the model, the second to repair the first; every call is granted  *)
(* in a row of its own before it is made and marked returned after. The       *)
(* result is accepted in a last transaction. All of these check the session   *)
(* of the administrator who asked, which can expire at any moment, also in    *)
(* the middle of a transaction. The worker may die anywhere, the message is   *)
(* redelivered, and a sweep marks slow requests UNKNOWN.                      *)
(*                                                                         *)
(* One organization and one project. An execution key stands for the frozen   *)
(* input it is a hash of; a forced regeneration has a key of its own.         *)
(***************************************************************************)
EXTENDS Integers, Sequences, FiniteSets

CONSTANTS
  Requests,     \* interpretation requests
  Jobs,         \* worker slots that run execute_interpretation_request
  SourceKeys,   \* execution keys of ordinary (not forced) interpretations
  FileCount,    \* files of the uploaded source bundle
  NoOne

ASSUME SkillAssumption ==
  /\ Requests \cap SourceKeys = {}
  /\ NoOne \notin Requests \cup SourceKeys \cup Jobs
  /\ FileCount \in Nat

MaxCandidateRepairs == 1
ExecutionKeys == SourceKeys \cup Requests
Active == {"QUEUED", "RUNNING", "UNKNOWN"}
RequestSettled == {"SUCCEEDED", "FAILED", "REVOKED"}

VARIABLES
  signedIn,        \* the session of the administrator is valid
  bundle,          \* files of the bundle that are in storage
  source,          \* what the import has done: "none", "putting", "saved"
  request,         \* SkillInterpretationRequest rows with their calls
  job,             \* what each worker slot is doing
  interpretation   \* the model interpretation stored under each key

skillVars == <<signedIn, bundle, source, request, job, interpretation>>
importVars == <<bundle, source>>
-----------------------------------------------------------------------------
NoRequest ==
  [status |-> "none", key |-> NoOne, owner |-> NoOne, calls |-> <<>>, stored |-> FALSE]
IdleJob == [at |-> "idle", request |-> NoOne, ordinal |-> 0, outcome |-> "none"]

SkillInit ==
  /\ signedIn = TRUE
  /\ bundle = 0 /\ source = "none"
  /\ request = [q \in Requests |-> NoRequest]
  /\ job = [j \in Jobs |-> IdleJob]
  /\ interpretation = [k \in ExecutionKeys |-> "none"]

(* validate_session_state fails from now on: expiry, sign-out, lost role.    *)
Expire ==
  /\ signedIn /\ signedIn' = FALSE
  /\ UNCHANGED <<bundle, source, request, job, interpretation>>

(* _locked: the authorize() of a ledger transaction revokes a request that   *)
(* was active, also when it first fails after the row was changed. late says *)
(* that the session expires inside the transaction.                          *)
Revoked(row) == IF row.status \in Active THEN [row EXCEPT !.status = "REVOKED"] ELSE row
Expires(late) == (late => signedIn) /\ signedIn' = (signedIn /\ ~late)
Authorized(q, late, changed) ==
  request' = [request EXCEPT ![q] =
                IF ~signedIn THEN Revoked(@)
                ELSE IF late THEN [changed EXCEPT !.status = "REVOKED"] ELSE changed]
Refused(q) == request' = [request EXCEPT ![q] = IF signedIn THEN @ ELSE Revoked(@)]
Goes(j, at) == job' = [job EXCEPT ![j].at = at]
Ends(j) == job' = [job EXCEPT ![j] = IdleJob]
-----------------------------------------------------------------------------
(* save_inline and save_upload: the files go to storage one by one, each     *)
(* after a new look at the session, and the source row follows.               *)
BeginImport ==
  /\ signedIn /\ source = "none" /\ source' = "putting"
  /\ UNCHANGED <<signedIn, bundle, request, job, interpretation>>

PutSourceFile ==
  /\ signedIn /\ source = "putting" /\ bundle < FileCount
  /\ bundle' = bundle + 1
  /\ UNCHANGED <<signedIn, source, request, job, interpretation>>

SaveSource ==
  /\ signedIn /\ source = "putting" /\ bundle = FileCount
  /\ source' = "saved"
  /\ UNCHANGED <<signedIn, bundle, request, job, interpretation>>

(* A put failed or the process died: a later import starts over, on top of   *)
(* what is stored under the hash of the source.                               *)
AbandonImport ==
  /\ source = "putting" /\ source' = "none" /\ bundle' = 0
  /\ UNCHANGED <<signedIn, request, job, interpretation>>
-----------------------------------------------------------------------------
(* accept: idempotent by id, and one request per execution key for good.     *)
KeyFree(k) == \A q \in Requests : request[q].key # k
RequestKeys(q, forced) == IF forced THEN {q} ELSE SourceKeys
Accept(q, forced) ==
  /\ signedIn /\ source = "saved" /\ request[q] = NoRequest
  /\ \E k \in RequestKeys(q, forced) :
       /\ KeyFree(k)
       /\ request' = [request EXCEPT ![q] = [NoRequest EXCEPT !.status = "QUEUED", !.key = k]]
  /\ UNCHANGED <<signedIn, job, interpretation, importVars>>

(* claim, for any delivery of the message of q.                              *)
Claimable(status) == status = "QUEUED"

Claim(j, q, late) ==
  /\ job[j] = IdleJob /\ request[q].status # "none"
  /\ Expires(late)
  /\ IF signedIn /\ Claimable(request[q].status)
     THEN \/ /\ Authorized(q, late, [request[q] EXCEPT !.status = "RUNNING", !.owner = j])
             /\ job' = IF late THEN job
                       ELSE [job EXCEPT ![j] = [IdleJob EXCEPT !.at = "claimed", !.request = q]]
          \/ /\ ~late            \* the frozen input no longer matches its checksum
             /\ Authorized(q, late, [request[q] EXCEPT !.status = "FAILED"])
             /\ UNCHANGED job
     ELSE ~late /\ Refused(q) /\ UNCHANGED job
  /\ UNCHANGED <<interpretation, importVars>>

Owns(j) == request[job[j].request].owner = j
KeyOf(j) == request[job[j].request].key
CallsReturned(q) == \A i \in DOMAIN request[q].calls : request[q].calls[i] = "returned"

(* execute_interpretation_request up to the launch: the source cannot be     *)
(* loaded or no longer matches; it is unsafe; an interpretation is stored     *)
(* already; or the model is to be called.                                    *)
PrepareFails(j) ==
  /\ job[j].at = "claimed" /\ Goes(j, "unprepared")
  /\ UNCHANGED <<signedIn, request, interpretation, importVars>>

UnsafeSource(j) ==
  /\ job[j].at = "claimed"
  /\ job' = [job EXCEPT ![j].at = "finishing", ![j].outcome = "unsafe"]
  /\ UNCHANGED <<signedIn, request, interpretation, importVars>>

PrepareLaunch(j) ==
  /\ job[j].at = "claimed"
  /\ IF KeyOf(j) \in SourceKeys /\ interpretation[KeyOf(j)] # "none"
     THEN job' = [job EXCEPT ![j].at = "finishing", ![j].outcome = "reused"]
     ELSE Goes(j, "ready")
  /\ UNCHANGED <<signedIn, request, interpretation, importVars>>

(* fail_before_call                                                          *)
FailBeforeCall(j, late) ==
  LET q == job[j].request IN
  /\ job[j].at = "unprepared"
  /\ Expires(late)
  /\ IF signedIn /\ request[q].status = "RUNNING" /\ Owns(j) /\ request[q].calls = <<>>
     THEN /\ Authorized(q, late, [request[q] EXCEPT !.status = "FAILED"])
          /\ job' = [job EXCEPT ![j] = IF late THEN [@ EXCEPT !.at = "denied"] ELSE IdleJob]
     ELSE ~late /\ Refused(q) /\ Goes(j, "denied")
  /\ UNCHANGED <<interpretation, importVars>>

(* before_call and start_call                                                *)
MayCall(j) ==
  LET q == job[j].request IN
  /\ request[q].status = "RUNNING" /\ Owns(j)
  /\ Len(request[q].calls) = job[j].ordinal
  /\ CallsReturned(q)

StartCall(j, late) ==
  LET q == job[j].request IN
  /\ job[j].at = "ready"
  /\ Expires(late)
  /\ IF signedIn /\ MayCall(j)
     THEN /\ Authorized(q, late, [request[q] EXCEPT !.calls = Append(@, "granted")])
          /\ Goes(j, IF late THEN "denied" ELSE "calling")
     ELSE ~late /\ Refused(q) /\ Goes(j, "denied")
  /\ UNCHANGED <<interpretation, importVars>>

(* interpret finds its parameters or identity wrong before any call.         *)
RejectBeforeCall(j) ==
  /\ job[j].at = "ready"
  /\ job' = [job EXCEPT ![j].at = "finishing", ![j].outcome = "invalid"]
  /\ UNCHANGED <<signedIn, request, interpretation, importVars>>

(* complete answers, or times out, and record_return marks the call whatever *)
(* the status of the request, also when the session has ended: an active      *)
(* request is revoked in the same transaction. The candidate is valid, or invalid and one      *)
(* repair is left, or invalid for good.                                      *)
ModelAnswers == {"valid", "repairable", "fatal"}
NeedsMoreRepair(j, outcome) == outcome = "repairable" /\ job[j].ordinal <= MaxCandidateRepairs
NeedsRepair(j, outcome) == outcome = "repairable" /\ job[j].ordinal < MaxCandidateRepairs
RecordReturn(j, outcome, late) ==
  LET q == job[j].request IN
  /\ job[j].at = "calling"
  /\ Expires(late)
  /\ Owns(j)
  /\ request' = [request EXCEPT ![q] =
        LET answered == [@ EXCEPT !.calls[job[j].ordinal + 1] = "returned"] IN
        IF signedIn /\ ~late THEN answered ELSE Revoked(answered)]
  /\ job' = [job EXCEPT ![j].at = IF NeedsRepair(j, outcome) THEN "ready" ELSE "finishing",
                        ![j].ordinal = @ + 1,
                        ![j].outcome = IF outcome = "valid" THEN "valid" ELSE "invalid"]
  /\ UNCHANGED <<interpretation, importVars>>
-----------------------------------------------------------------------------
(* save_model_interpretation stores under a free key only.                   *)
Saved(k, outcome) ==
  IF interpretation[k] # "none" THEN interpretation[k]
  ELSE IF outcome = "valid" THEN "PREVIEW_READY" ELSE "FAILED"

(* The request takes the status of what is stored, its own candidate or not.  *)
StatusOfCandidate(k, outcome) == IF outcome = "valid" THEN "SUCCEEDED" ELSE "FAILED"
StatusOfStored(k, outcome) ==
  IF Saved(k, outcome) = "PREVIEW_READY" THEN "SUCCEEDED" ELSE "FAILED"

(* finish: RUNNING or UNKNOWN, owned, every call returned, and a result has a *)
(* call behind it unless the source was unsafe or a result is stored.         *)
RequestAcceptable(status) == status \in {"RUNNING", "UNKNOWN"}
ResultAccepted(j) ==
  LET q == job[j].request IN
  /\ RequestAcceptable(request[q].status) /\ Owns(j)
  /\ CallsReturned(q)
  /\ \/ request[q].calls # <<>>
     \/ job[j].outcome \in {"unsafe", "reused"}
     \/ interpretation[KeyOf(j)] # "none"

(* The session expiring late rolls the transaction back, and a second one     *)
(* revokes the request.                                                      *)
Finish(j, late) ==
  LET q == job[j].request IN
  /\ job[j].at = "finishing"
  /\ Expires(late)
  /\ IF signedIn /\ ResultAccepted(j)
     THEN IF late
          THEN /\ request' = [request EXCEPT ![q] = Revoked(@)]
               /\ Goes(j, "denied") /\ UNCHANGED interpretation
          ELSE /\ request' = [request EXCEPT ![q].stored = TRUE,
                    ![q].status = StatusOfStored(KeyOf(j), job[j].outcome)]
               /\ interpretation' =
                    [interpretation EXCEPT ![KeyOf(j)] = Saved(KeyOf(j), job[j].outcome)]
               /\ Ends(j)
     ELSE ~late /\ Refused(q) /\ Goes(j, "denied") /\ UNCHANGED interpretation
  /\ UNCHANGED importVars

(* mark_unknown after a denial, and after any other exception or cancelation. *)
Interrupted(j) ==
  /\ job[j].at \in {"claimed", "ready", "calling", "finishing"}
  /\ Goes(j, "denied")
  /\ UNCHANGED <<signedIn, request, interpretation, importVars>>

MarkUnknown(j) ==
  LET q == job[j].request IN
  /\ job[j].at = "denied"
  /\ IF signedIn /\ request[q].status = "RUNNING" /\ Owns(j)
     THEN request' = [request EXCEPT ![q].status = "UNKNOWN"]
     ELSE Refused(q)
  /\ Ends(j)
  /\ UNCHANGED <<signedIn, interpretation, importVars>>

WorkerDies(j) ==
  /\ job[j] # IdleJob /\ Ends(j)
  /\ UNCHANGED <<signedIn, request, interpretation, importVars>>

(* recover_unknown, for a request claimed long enough ago.                   *)
RecoverAsListed(q) ==
  /\ request[q].owner # NoOne
  /\ request' = [request EXCEPT ![q].status = IF signedIn THEN "UNKNOWN" ELSE "REVOKED"]
  /\ UNCHANGED <<signedIn, job, interpretation, importVars>>
RecoverUnknown(q) ==
  /\ request[q].status = "RUNNING"
  /\ request' = [request EXCEPT ![q].status = IF signedIn THEN "UNKNOWN" ELSE "REVOKED"]
  /\ UNCHANGED <<signedIn, job, interpretation, importVars>>

(* interpret and adjust_interpretation without a request: only the result is *)
(* stored, once (save_execution_idempotently).                               *)
InterpretDirectly(k, outcome) ==
  /\ source = "saved" /\ interpretation[k] = "none"
  /\ interpretation' = [interpretation EXCEPT ![k] = Saved(k, outcome)]
  /\ UNCHANGED <<signedIn, request, job, importVars>>
-----------------------------------------------------------------------------
ImportStep == BeginImport \/ PutSourceFile \/ SaveSource \/ AbandonImport

JobStep(j) ==
  \/ \E q \in Requests, late \in BOOLEAN : Claim(j, q, late)
  \/ PrepareFails(j) \/ UnsafeSource(j) \/ PrepareLaunch(j)
  \/ \E late \in BOOLEAN : FailBeforeCall(j, late) \/ StartCall(j, late)
  \/ RejectBeforeCall(j)
  \/ \E outcome \in ModelAnswers, late \in BOOLEAN :
       RecordReturn(j, outcome, late)
  \/ \E late \in BOOLEAN : Finish(j, late)
  \/ MarkUnknown(j) \/ Interrupted(j) \/ WorkerDies(j)

SkillNext ==
  \/ Expire
  \/ ImportStep
  \/ \E q \in Requests, forced \in BOOLEAN : Accept(q, forced)
  \/ \E j \in Jobs : JobStep(j)
  \/ \E q \in Requests : RecoverUnknown(q)
  \/ \E k \in SourceKeys, outcome \in {"valid", "fatal"} : InterpretDirectly(k, outcome)

SkillSpec == SkillInit /\ [][SkillNext]_skillVars
-----------------------------------------------------------------------------
(* The rows and the worker slots are well formed.                            *)
SkillTypeOK ==
  /\ signedIn \in BOOLEAN /\ bundle \in 0..FileCount
  /\ source \in {"none", "putting", "saved"}
  /\ \A q \in Requests :
       /\ request[q].status \in Active \cup RequestSettled \cup {"none"}
       /\ request[q].key \in ExecutionKeys \cup {NoOne}
       /\ request[q].owner \in Jobs \cup {NoOne}
       /\ \A i \in DOMAIN request[q].calls : request[q].calls[i] \in {"granted", "returned"}
  /\ \A j \in Jobs : job[j].request \in Requests \cup {NoOne}
  /\ interpretation \in [ExecutionKeys -> {"none", "PREVIEW_READY", "FAILED"}]

(* However often the message of a request is delivered and whatever a sweep   *)
(* or an expiring session does meanwhile, one worker at a time calls the      *)
(* model for it, it pays for two calls at most, and no call runs for a        *)
(* request that has its answer (claim, start_call, finish).                   *)
OneCallAtATime ==
  \A q \in Requests :
    LET calling == {j \in Jobs : job[j].request = q /\ job[j].at = "calling"} IN
    /\ Cardinality(calling) <= 1
    /\ Len(request[q].calls) <= MaxCandidateRepairs + 1
    /\ calling # {} => request[q].status \in {"RUNNING", "UNKNOWN", "REVOKED"}

(* A request that ended with a result had all its calls answered, and its     *)
(* status is that of the interpretation its key leads to, although the worker *)
(* may have been marked UNKNOWN, or another writer may have stored the        *)
(* interpretation first (finish, save_model_interpretation).                  *)
OutcomeBacked ==
  \A q \in Requests : request[q].stored =>
    /\ CallsReturned(q)
    /\ request[q].status \in {"SUCCEEDED", "FAILED"}
    /\ (request[q].status = "SUCCEEDED") <=> (interpretation[request[q].key] = "PREVIEW_READY")

(* A settled request stays as it is: a late worker, a redelivered message and *)
(* the sweep neither revive a revoked request nor overwrite a result.         *)
RequestSettledForGood ==
  [][\A q \in Requests : request[q].status \in RequestSettled =>
       /\ request'[q].status = request[q].status
       /\ request'[q].stored = request[q].stored]_skillVars
=============================================================================
