------------------------ MODULE ProposalContinuation ------------------------
(***************************************************************************)
(* How a Run goes on after it asked for something: a call of change_propose   *)
(* or of interaction_request is validated, recorded and ends its segment; the  *)
(* decision, the write or the answer creates the next segment, and the        *)
(* attempt that claims it must find out what became of the call               *)
(* (runs/proposal_continuation.py), through the rows of attempts that failed   *)
(* and were repeated in between.                                             *)
(*                                                                         *)
(* One Run. RunLifecycle has its scheduling and EffectLifecycle the write      *)
(* itself; here the rows refer to each other. A proposal that calls an MCP     *)
(* tool rests on the catalog of tools its Run has read: mcp.call/v1 stands     *)
(* for the capabilities that must cite what they were made from.              *)
(***************************************************************************)
EXTENDS Naturals, Sequences, FiniteSets

CONSTANTS
  MaxParts,       \* bound on the segments of the Run
  MaxTries,       \* attempts per segment
  Catalogs,       \* contents the tool catalog of the connection may have
  NoCall

ASSUME ContinuationAssumption == MaxParts \in Nat \ {0} /\ MaxTries \in Nat \ {0}

VARIABLES
  state,      \* Run.status
  part,       \* RunSegment rows
  try,        \* RunAttempt rows, with the parent session each was claimed with
  talk,       \* AgentSession rows
  asked,      \* ChangeProposal and UserInteraction rows, with decision and effect
  deferred,   \* the call that passed its preflight and ends the turn
  seen,       \* catalogs the Run has evidence of
  bound       \* the integration is the one the Run's binding was frozen from

continuationVars == <<state, part, try, talk, asked, deferred, seen, bound>>
-----------------------------------------------------------------------------
Ended == {"APPLIED", "STALE", "FAILED", "VERIFICATION_FAILED"}
First == [trigger |-> "INITIAL", of |-> 0, mode |-> "INITIAL", parent |-> 0, result |-> 0]
NoDeferred == [kind |-> NoCall, mode |-> "", catalog |-> NoCall, cites |-> {}]

ContinuationInit ==
  /\ state = "QUEUED"
  /\ part = <<First>>
  /\ try = <<>> /\ talk = <<>> /\ asked = <<>>
  /\ deferred = NoDeferred
  /\ seen = {} /\ bound = TRUE

Here == Len(part)
Current == try[Len(try)]
TriesOf(n) == {i \in 1..Len(try) : try[i].part = n}
-----------------------------------------------------------------------------
(* claim: an attempt resumes the parent of its segment, or after a capacity    *)
(* refusal the session of the attempt before it.                             *)
Claim ==
  /\ state \in {"QUEUED", "RETRY_PENDING"}
  /\ Cardinality(TriesOf(Here)) < MaxTries
  /\ LET again == state = "RETRY_PENDING" /\ Current.status = "CAPACITY" IN
     try' = Append(try,
       [part |-> Here, status |-> "PREPARING",
        mode |-> IF again THEN "RESUME" ELSE part[Here].mode,
        parent |-> IF again THEN Current.talk ELSE part[Here].parent,
        talk |-> 0])
  /\ state' = "RUNNING"
  /\ UNCHANGED <<part, talk, asked, deferred, seen, bound>>

(* The original parent: that of the segment, when the attempt resumes the      *)
(* session of a refused attempt of the same segment.                          *)
ClaimedParent(t) == t.parent
OriginalParent(t) ==
  IF t.parent # 0 /\ talk[t.parent].part = t.part THEN part[t.part].parent ELSE t.parent

(* _resolved_outcome: the row the segment was triggered by must say the same   *)
(* as the proposal.                                                          *)
Outcome(n) ==
  LET p == asked[part[n].of] IN
  IF part[n].trigger = "APPROVAL_TIMEOUT"
    THEN IF p.question = "EXPIRED" /\ p.status = "STALE" THEN "EXPIRED" ELSE "error"
  ELSE IF p.status = "REJECTED"
    THEN IF p.decision = "REJECTED" THEN "REJECTED" ELSE "error"
  ELSE IF /\ p.effect \in Ended /\ ~p.unknown
          /\ p.status = (IF p.effect = "VERIFICATION_FAILED" THEN "FAILED" ELSE p.effect)
          /\ (p.effect = "APPLIED") = (part[n].result = part[n].of)
    THEN p.effect ELSE "error"

(* ProposalContinuationReader.load for the attempt t: nothing to tell, the     *)
(* outcome of a proposal, or a lineage that does not hold together.           *)
LineageHolds(t) ==
  LET from == OriginalParent(t) IN
  /\ t.parent # from =>
       LET before == CHOOSE i \in TriesOf(t.part) : try[i].talk = t.parent IN
       try[before].status = "CAPACITY" /\ \A i \in TriesOf(t.part) : i > before => try[i] = t
  /\ part[t.part].parent = from
  /\ asked[part[t.part].of].talk = from
Load(t) ==
  IF t.mode # "RESUME" \/ t.parent = 0 \/ part[t.part].mode # "RESUME" THEN "nothing"
  ELSE IF part[t.part].trigger \notin {"APPROVAL_RESPONSE", "APPROVAL_TIMEOUT"} THEN "nothing"
  ELSE IF ~LineageHolds(t) THEN "error"
  ELSE Outcome(t.part)

(* load_interaction: the answer, and the question it is an answer to.          *)
LoadInteraction(t) ==
  IF t.mode # "RESUME" \/ t.parent = 0 \/ part[t.part].trigger # "INTERACTION_RESPONSE" THEN "nothing"
  ELSE LET q == asked[part[t.part].of] IN
       IF q.question = "RESPONDED" /\ q.kind = "question" /\ part[t.part].parent = q.talk
         THEN "answered" ELSE "error"

(* What the call is answered when the session replays it: the providers of      *)
(* change_propose and interaction_request give the recorded outcome.           *)
Told(t) == IF Load(t) = "nothing" THEN LoadInteraction(t) ELSE Load(t)

(* The engine starts: a resumed session goes on in the same SDK session.       *)
(* ContinuationLoads shows that what it is told can always be loaded here.     *)
StartSession ==
  /\ state = "RUNNING" /\ Current.status = "PREPARING"
  /\ talk' = Append(talk, [part |-> Here, try |-> Len(try), told |-> Told(Current),
                           sdk |-> IF Current.mode = "RESUME" THEN talk[Current.parent].sdk ELSE Len(talk) + 1])
  /\ try' = [try EXCEPT ![Len(try)].status = "RUNNING", ![Len(try)].talk = Len(talk) + 1]
  /\ UNCHANGED <<state, part, asked, deferred, seen, bound>>
-----------------------------------------------------------------------------
Working == state = "RUNNING" /\ Current.status = "RUNNING" /\ deferred = NoDeferred
Open == \E i \in 1..Len(asked) : asked[i].question = "OPEN"

(* A read of mcp.tools/v1, kept as evidence of the Run.                        *)
ReadCatalog(catalog) ==
  /\ Working /\ bound /\ catalog \notin seen /\ seen' = seen \cup {catalog}
  /\ UNCHANGED <<state, part, try, talk, asked, deferred, bound>>

(* _validate_effect_binding and validate_mcp_observation: the catalog of the    *)
(* request is one the Run has read. The evidence found is added to the         *)
(* references of the draft, which alone count afterwards.                     *)
AsCited(d) == d.cites
WithCatalog(d) == d.cites \cup {d.catalog}
StillTheBinding == bound
DraftValid(d) == StillTheBinding /\ d.catalog \in seen /\ d.cites \subseteq seen
RowValid(p) == StillTheBinding /\ p.catalog \in p.refs

(* ProposalPreflight.validate, in the hook; a refused call is answered there   *)
(* and changes nothing.                                                      *)
Defer(d) ==
  /\ Working
  /\ d.kind = "proposal" => DraftValid(d)
  /\ deferred' = d
  /\ UNCHANGED <<state, part, try, talk, asked, seen, bound>>

(* suspend_for_proposal and suspend_for_interaction: validated once more, in    *)
(* the transaction that ends the attempt. An approval may already be given.    *)
Row(d, approved) ==
  [kind |-> d.kind, part |-> Here, talk |-> Current.talk, mode |-> d.mode, catalog |-> d.catalog,
   refs |-> IF d.kind = "proposal" THEN WithCatalog(d) ELSE {},
   status |-> IF d.kind = "question" THEN "none" ELSE IF approved THEN "APPROVED" ELSE "PENDING_APPROVAL",
   question |-> IF approved THEN "none" ELSE "OPEN",
   decision |-> IF approved THEN "APPROVED" ELSE "none",
   effect |-> IF approved THEN "REQUESTED" ELSE "none", unknown |-> FALSE]
Suspend(approved) ==
  /\ state = "RUNNING" /\ deferred # NoDeferred /\ ~Open
  /\ approved => deferred.kind = "proposal"
  /\ deferred.kind = "proposal" => DraftValid(deferred)
  /\ asked' = Append(asked, Row(deferred, approved))
  /\ try' = [try EXCEPT ![Len(try)].status = "DEFERRED"]
  /\ state' = "WAITING"
  /\ deferred' = NoDeferred
  /\ UNCHANGED <<part, talk, seen, bound>>
SuspendRefused ==
  /\ state = "RUNNING" /\ deferred.kind = "proposal" /\ ~DraftValid(deferred)
  /\ try' = [try EXCEPT ![Len(try)].status = "FAILED"]
  /\ state' = "FAILED" /\ deferred' = NoDeferred
  /\ UNCHANGED <<part, talk, asked, seen, bound>>

(* The model has no capacity (retried from the session), the worker is lost     *)
(* (the segment starts again), or the turn completes the Run.                  *)
StopTurn(status, next) ==
  /\ Working
  /\ try' = [try EXCEPT ![Len(try)].status = status]
  /\ state' = next
  /\ UNCHANGED <<part, talk, asked, deferred, seen, bound>>
LoseWorker ==
  /\ state = "RUNNING" /\ Current.status \in {"PREPARING", "RUNNING"}
  /\ try' = [try EXCEPT ![Len(try)].status = "LOST"]
  /\ state' = "RETRY_PENDING" /\ deferred' = NoDeferred
  /\ UNCHANGED <<part, talk, asked, seen, bound>>
-----------------------------------------------------------------------------
Latest == Len(asked)
Waiting == state = "WAITING" /\ Here < MaxParts

(* _next_effect_segment, and its counterpart for questions: the parent is the   *)
(* session that asked, and only an applied write leaves a result.              *)
NextPart(trigger, applied) ==
  /\ part' = Append(part, [trigger |-> trigger, of |-> Latest, mode |-> asked[Latest].mode,
                           parent |-> asked[Latest].talk, result |-> IF applied THEN Latest ELSE 0])
  /\ state' = "QUEUED"

(* decide_change_proposal.                                                    *)
Reject ==
  /\ Waiting /\ asked[Latest].status = "PENDING_APPROVAL" /\ RowValid(asked[Latest])
  /\ asked' = [asked EXCEPT ![Latest].status = "REJECTED", ![Latest].decision = "REJECTED",
                            ![Latest].question = "RESPONDED"]
  /\ NextPart("APPROVAL_RESPONSE", FALSE)
  /\ UNCHANGED <<try, talk, deferred, seen, bound>>
Approve ==
  /\ Waiting /\ asked[Latest].status = "PENDING_APPROVAL" /\ RowValid(asked[Latest])
  /\ asked' = [asked EXCEPT ![Latest].status = "APPROVED", ![Latest].decision = "APPROVED",
                            ![Latest].question = "RESPONDED", ![Latest].effect = "REQUESTED"]
  /\ UNCHANGED <<state, part, try, talk, deferred, seen, bound>>
(* _expire_pending_proposal.                                                  *)
ExpireProposal ==
  /\ Waiting /\ asked[Latest].status = "PENDING_APPROVAL"
  /\ asked' = [asked EXCEPT ![Latest].status = "STALE", ![Latest].question = "EXPIRED"]
  /\ NextPart("APPROVAL_TIMEOUT", FALSE)
  /\ UNCHANGED <<try, talk, deferred, seen, bound>>

(* The effect ends: before the provider when the row is no longer valid, else   *)
(* as the provider reports. A result nobody knows stops the Run                *)
(* (_stop_run_for_unknown_effect).                                            *)
GoesOn(outcome, unknown) == TRUE
StopsIfUnknown(outcome, unknown) == ~unknown
EndEffect(outcome, unknown) ==
  /\ Waiting /\ asked[Latest].effect = "REQUESTED"
  /\ unknown => outcome # "APPLIED"
  /\ ~RowValid(asked[Latest]) => outcome = "STALE" /\ ~unknown
  /\ asked' = [asked EXCEPT ![Latest].effect = outcome, ![Latest].unknown = unknown,
        ![Latest].status = IF outcome = "VERIFICATION_FAILED" THEN "FAILED" ELSE outcome]
  /\ IF StopsIfUnknown(outcome, unknown) THEN NextPart("APPROVAL_RESPONSE", outcome = "APPLIED")
     ELSE state' = "FAILED" /\ UNCHANGED part
  /\ UNCHANGED <<try, talk, deferred, seen, bound>>

(* respond_to_interaction and the sweep of questions.                          *)
EndQuestion(answer) ==
  /\ Waiting /\ asked[Latest].kind = "question" /\ asked[Latest].question = "OPEN"
  /\ asked' = [asked EXCEPT ![Latest].question = IF answer THEN "RESPONDED" ELSE "EXPIRED"]
  /\ NextPart(IF answer THEN "INTERACTION_RESPONSE" ELSE "INTERACTION_TIMEOUT", FALSE)
  /\ UNCHANGED <<try, talk, deferred, seen, bound>>

UpdateConnection == bound /\ bound' = FALSE /\ UNCHANGED <<state, part, try, talk, asked, deferred, seen>>
-----------------------------------------------------------------------------
Drafts ==
  [kind : {"proposal"}, mode : {"RESUME", "FORK"}, catalog : Catalogs, cites : SUBSET Catalogs]
    \cup [kind : {"question"}, mode : {"RESUME"}, catalog : {NoCall}, cites : {{}}]
ContinuationNext ==
  \/ Claim \/ StartSession \/ \E catalog \in Catalogs : ReadCatalog(catalog)
  \/ \E d \in Drafts : Defer(d)
  \/ \E approved \in BOOLEAN : Suspend(approved)
  \/ SuspendRefused \/ LoseWorker
  \/ StopTurn("CAPACITY", "RETRY_PENDING") \/ StopTurn("COMPLETED", "DONE")
  \/ Reject \/ Approve \/ ExpireProposal
  \/ \E outcome \in Ended, unknown \in BOOLEAN : EndEffect(outcome, unknown)
  \/ \E answer \in BOOLEAN : EndQuestion(answer)
  \/ UpdateConnection
ContinuationSpec == ContinuationInit /\ [][ContinuationNext]_continuationVars
-----------------------------------------------------------------------------
ContinuationTypeOK ==
  /\ state \in {"QUEUED", "RUNNING", "RETRY_PENDING", "WAITING", "FAILED", "DONE"}
  /\ Len(part) \in 1..MaxParts
  /\ \A i \in 1..Len(try) : try[i].part \in 1..Len(part) /\ try[i].talk \in 0..Len(talk)
  /\ deferred = NoDeferred \/ deferred \in Drafts
  /\ seen \subseteq Catalogs /\ bound \in BOOLEAN

(* Every attempt finds out what became of the call its segment follows: none    *)
(* of the checks on the lineage ever fails, whatever the decision was and      *)
(* however often the segment was tried (runs/proposal_continuation.py:87-167,  *)
(* 263-323, 172-208). And what it is told is about the last thing the Run      *)
(* asked for, in the SDK session it continues.                                *)
ContinuationLoads ==
  state = "RUNNING" /\ Current.status = "PREPARING" =>
    /\ "error" \notin {Load(Current), LoadInteraction(Current)}
    /\ "nothing" # Load(Current) =>
         /\ part[Here].of = Len(asked)
         /\ talk[asked[Len(asked)].talk].sdk = talk[Current.parent].sdk

(* What a session was told stays true: an outcome it replayed to the model is   *)
(* the one on record from then on (runs/proposal_continuation.py:263-323,      *)
(* agent/control_providers.py:71-114).                                        *)
ToldForGood ==
  \A i \in 1..Len(talk) :
    talk[i].told \notin {"nothing", "answered"} => Outcome(talk[i].part) = talk[i].told

(* A proposal that was recorded stays fit for approval and for its write as     *)
(* long as nobody edits the connection: what it rests on is among its own      *)
(* references (effects/proposal_evidence.py:66, runs/repository_effects.py:    *)
(* 2559).                                                                    *)
RecordedProposalStaysValid ==
  \A i \in 1..Len(asked) : asked[i].kind = "proposal" /\ bound => RowValid(asked[i])
=============================================================================
