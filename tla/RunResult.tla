----------------------------- MODULE RunResult -----------------------------
(***************************************************************************)
(* The result of a Run: what the model writes is completed from the saved     *)
(* records (agent/model_result.py), every reference and every claim about a    *)
(* write is checked against them (agent/result_validation.py,                 *)
(* agent/result_references.py), and only then the Run succeeds. The records    *)
(* are read in transactions of their own, while an inline write that the turn   *)
(* left behind may still end.                                                *)
(*                                                                         *)
(* The rows of a write (proposal, approval, execution, tool call, evidence)     *)
(* are those that runs/repository_effects.py leaves; waiting for a segment to   *)
(* be claimed again is skipped (RunLifecycle has it), and so are the leases     *)
(* (EffectLifecycle). Assumption: the handler of an inline call has answered,   *)
(* or is gone, once the engine reports the end of its turn.                    *)
(***************************************************************************)
EXTENDS Naturals, FiniteSets

CONSTANTS
  Proposals,      \* the writes the Run may propose
  AutoApproved,   \* those its actor approved when the Run was started
  ToolEvidence,   \* evidence that other tools may save
  ToolArtifacts,  \* artifacts that other tools may publish
  LabelOf,        \* reference_label: the short label shown for a reference
  Cited,          \* labels the model may cite as sources
  MaxRunArtifacts \* artifacts a Run may keep

ASSUME ResultAssumption ==
  AutoApproved \subseteq Proposals /\ IsFiniteSet(ToolArtifacts) /\ MaxRunArtifacts \in Nat

VARIABLES
  running,      \* Run.status
  stopAsked,    \* a cancellation was requested
  row,          \* per proposal: ChangeProposal, ChangeApproval, EffectExecution, ToolCall
  saved,        \* Evidence rows of the Run
  published,    \* artifacts of the Run
  policy,       \* EffectPreauthorization of the connection
  check,        \* the validation of a result, step by step
  outcome       \* RunResult row

resultVars == <<running, stopAsked, row, saved, published, policy, check, outcome>>
-----------------------------------------------------------------------------
Before(p) == <<p, "before">>
After(p) == <<p, "after">>
EffectRefs == {Before(p) : p \in Proposals} \cup {After(p) : p \in Proposals}
Incomplete == {"PENDING_APPROVAL", "APPROVED", "APPLYING"}
Settled == {"REJECTED", "APPLIED", "FAILED", "STALE"}
NoProposal == [status |-> "none", source |-> "none", decision |-> "none", risk |-> "none",
          effect |-> "none", tool |-> "none", refs |-> FALSE, unknown |-> FALSE,
          retryable |-> FALSE, phase |-> "none"]
NoCheck == [step |-> "none", sources |-> {}, artifact |-> {}, effects |-> {}, proposals |-> {},
            error |-> FALSE]
NoOutcome == [evidence |-> {}, artifacts |-> {}, effects |-> {}, proposals |-> {}]

ResultInit ==
  /\ running = "RUNNING" /\ stopAsked = FALSE
  /\ row = [p \in Proposals |-> NoProposal]
  /\ saved = {} /\ published = {} /\ policy = "none"
  /\ check = NoCheck /\ outcome = NoOutcome

InTurn == running = "RUNNING" /\ check.step = "none"
Exists(p) == row[p].status # "none"
Pending == {p \in Proposals : row[p].phase = "ACTIVE"}
-----------------------------------------------------------------------------
(* Tools of the turn save evidence; publishing an artifact counts the           *)
(* artifacts of the Run in the same transaction.                               *)
SaveEvidence(e) ==
  /\ InTurn /\ Pending = {} /\ e \notin saved
  /\ saved' = saved \cup {e}
  /\ UNCHANGED <<running, stopAsked, row, published, policy, check, outcome>>
NoLimit == TRUE
ArtifactLimit == Cardinality(published) + 1 <= MaxRunArtifacts
PublishArtifact(a) ==
  /\ InTurn /\ Pending = {} /\ a \notin published
  /\ ArtifactLimit
  /\ published' = published \cup {a}
  /\ UNCHANGED <<running, stopAsked, row, saved, policy, check, outcome>>
(* list_metadata and verified_refs refuse a Run whose artifacts exceed the total. *)
ArtifactsReadable == Cardinality(published) <= MaxRunArtifacts
VerifiedRefs(refs) == IF ArtifactsReadable THEN refs \cap published ELSE {}

(* EffectPolicyRepository: a preauthorization for low risk, which ends or is      *)
(* switched off; what was approved under it stays approved.                     *)
CreatePolicy ==
  /\ policy = "none" /\ policy' = "ACTIVE"
  /\ UNCHANGED <<running, stopAsked, row, saved, published, check, outcome>>
DisablePolicy ==
  /\ policy = "ACTIVE" /\ policy' = "DISABLED"
  /\ UNCHANGED <<running, stopAsked, row, saved, published, check, outcome>>
PolicyMatchesAny(risk) == policy = "ACTIVE"
PolicyMatches(risk) == policy = "ACTIVE" /\ risk = "LOW"

(* suspend_for_proposal: approved by the start of the Run, by a policy, or not yet. *)
AuthorizationOf(p, risk) ==
  IF p \in AutoApproved THEN "RUN_START"
  ELSE IF PolicyMatches(risk) THEN "PREAUTHORIZATION" ELSE "none"
Propose(p, risk, inline) ==
  /\ InTurn /\ ~stopAsked /\ Pending = {} /\ ~Exists(p)
  /\ inline => AuthorizationOf(p, risk) = "RUN_START"
  /\ LET source == AuthorizationOf(p, risk)
         approved == source # "none" IN
     row' = [row EXCEPT ![p] =
       [NoProposal EXCEPT !.status = IF approved THEN "APPROVED" ELSE "PENDING_APPROVAL",
                     !.source = source, !.risk = risk,
                     !.decision = IF approved THEN "APPROVED" ELSE "none",
                     !.effect = IF approved THEN "REQUESTED" ELSE "none",
                     !.phase = IF inline THEN "ACTIVE" ELSE "none"]]
  /\ running' = IF inline THEN "RUNNING" ELSE "WAITING"
  /\ UNCHANGED <<stopAsked, saved, published, policy, check, outcome>>

(* decide_change_proposal and _expire_pending_proposal.                          *)
Decide(p, decision) ==
  /\ running = "WAITING" /\ row[p].status = "PENDING_APPROVAL"
  /\ row' = [row EXCEPT ![p] =
       IF decision = "APPROVED"
         THEN [@ EXCEPT !.status = "APPROVED", !.source = "USER", !.decision = decision,
                        !.effect = "REQUESTED"]
         ELSE [@ EXCEPT !.status = "REJECTED", !.source = "USER", !.decision = decision]]
  /\ running' = IF decision = "APPROVED" THEN "WAITING" ELSE "RUNNING"
  /\ UNCHANGED <<stopAsked, saved, published, policy, check, outcome>>
Expire(p) ==
  /\ running = "WAITING" /\ row[p].status = "PENDING_APPROVAL"
  /\ row' = [row EXCEPT ![p].status = "STALE"]
  /\ running' = "RUNNING"
  /\ UNCHANGED <<stopAsked, saved, published, policy, check, outcome>>

AskToStop ==
  /\ running \in {"RUNNING", "WAITING"} /\ stopAsked' = TRUE /\ ~stopAsked
  /\ UNCHANGED <<running, row, saved, published, policy, check, outcome>>
-----------------------------------------------------------------------------
(* claim_effect_execution, by the worker of the call or by a queue job.           *)
Owned(p) == row[p].phase = "ACTIVE" \/ running = "WAITING"
ClaimEffect(p) ==
  /\ row[p].effect = "REQUESTED" /\ Owned(p)
  /\ row' = [row EXCEPT ![p].effect = "APPLYING", ![p].status = "APPLYING", ![p].tool = "RUNNING"]
  /\ UNCHANGED <<running, stopAsked, saved, published, policy, check, outcome>>

(* _finish_effect_continuation, for a Run that waits for r.                       *)
Requeued(r) ==
  IF r.effect # "APPLIED" /\ r.retryable /\ ~stopAsked
    THEN [r EXCEPT !.effect = "REQUESTED", !.status = "APPROVED"] ELSE r
AfterEffect(r) ==
  IF r.unknown /\ (stopAsked \/ ~r.retryable) THEN IF stopAsked THEN "CANCELLED" ELSE "FAILED"
  ELSE IF stopAsked THEN "CANCELLED"
  ELSE IF r.effect # "APPLIED" /\ r.retryable THEN "WAITING" ELSE "RUNNING"
Settle(p, r) ==
  IF r.phase = "ACTIVE" THEN row' = [row EXCEPT ![p] = r] /\ UNCHANGED running
  ELSE row' = [row EXCEPT ![p] = Requeued(r)] /\ running' = AfterEffect(r)

(* _close_effect_before_provider.                                                *)
CloseBeforeProvider(p, status) ==
  /\ row[p].effect = "REQUESTED" /\ Owned(p)
  /\ Settle(p, [row[p] EXCEPT !.effect = status, !.status = status, !.retryable = FALSE,
                  !.tool = IF @ = "none" THEN @ ELSE "FAILED"])
  /\ UNCHANGED <<stopAsked, saved, published, policy, check, outcome>>

(* finalize_effect_execution: with the evidence before and after, or a failure    *)
(* that may be worth another try and whose result may be unknown.                *)
ApplyEffect(p) ==
  /\ row[p].effect = "APPLYING" /\ Owned(p)
  /\ saved' = saved \cup {Before(p), After(p)}
  /\ Settle(p, [row[p] EXCEPT !.effect = "APPLIED", !.status = "APPLIED", !.tool = "SUCCEEDED",
                  !.refs = TRUE, !.unknown = FALSE, !.retryable = FALSE])
  /\ UNCHANGED <<stopAsked, published, policy, check, outcome>>
FailEffect(p, status, retryable, unknown) ==
  /\ row[p].effect = "APPLYING" /\ Owned(p)
  /\ retryable => status = "FAILED"
  /\ Settle(p, [row[p] EXCEPT !.effect = status, !.tool = "FAILED", !.retryable = retryable,
                  !.status = IF status = "STALE" THEN "STALE" ELSE "FAILED",
                  !.unknown = @ \/ unknown])
  /\ UNCHANGED <<stopAsked, saved, published, policy, check, outcome>>

(* inline_receipt answers the call; otherwise the turn is parked and the write     *)
(* detached, as it is when the attempt ends (detach_inline_effect).              *)
InlineReceipt(p) ==
  /\ InTurn /\ ~stopAsked /\ row[p].phase = "ACTIVE" /\ row[p].effect = "APPLIED"
  /\ row' = [row EXCEPT ![p].phase = "DELIVERED"]
  /\ UNCHANGED <<running, stopAsked, saved, published, policy, check, outcome>>
Detach(p) ==
  LET r == [row[p] EXCEPT !.phase = "DETACHED"] IN
  IF r.effect \in {"REQUESTED", "APPLYING"}
    THEN row' = [row EXCEPT ![p] = r] /\ running' = "WAITING"
    ELSE row' = [row EXCEPT ![p] = Requeued(r)] /\ running' = AfterEffect(r)
ParkInline(p) ==
  /\ InTurn /\ row[p].phase = "ACTIVE" /\ Detach(p)
  /\ UNCHANGED <<stopAsked, saved, published, policy, check, outcome>>
-----------------------------------------------------------------------------
(* The turn ends with findings that cite labels and perhaps a deliverable.         *)
EndTurn(sources, artifact) ==
  /\ InTurn
  /\ check' = [NoCheck EXCEPT !.step = "load", !.sources = sources, !.artifact = artifact]
  /\ UNCHANGED <<running, stopAsked, row, saved, published, policy, outcome>>

(* Output that fits none of its schemas, or holds a secret, is refused at once.     *)
EndTurnMalformed ==
  /\ InTurn
  /\ check' = [NoCheck EXCEPT !.step = "save", !.error = TRUE]
  /\ UNCHANGED <<running, stopAsked, row, saved, published, policy, outcome>>

(* PostgresResultAssemblyLookup.load and assemble_model_result: labels become the   *)
(* references of the Run, and every settled write is reported as recorded.        *)
ClaimOf(p) == [of |-> p, status |-> row[p].status, refs |-> row[p].refs]
Known == saved \cup published
Ambiguous == \E r, s \in Known : r # s /\ LabelOf[r] = LabelOf[s]
Resolve(labels, refs) == {r \in refs : LabelOf[r] \in labels}
Unresolved(labels, refs) == \E l \in labels : \A r \in refs : LabelOf[r] # l
Assemble ==
  /\ check.step = "load"
  /\ check' =
       [step |-> "proposals",
        sources |-> Resolve(check.sources, saved), artifact |-> Resolve(check.artifact, published),
        effects |-> {ClaimOf(p) : p \in {q \in Proposals : row[q].status \in Settled}},
        proposals |-> {p \in Proposals : Exists(p)},
        error |-> Ambiguous \/ Unresolved(check.sources, saved) \/ Unresolved(check.artifact, published)]
  /\ UNCHANGED <<running, stopAsked, row, saved, published, policy, outcome>>

(* _matches_claim: what the records must say for a claim to stand.                 *)
ApprovalHolds(r) ==
  \/ r.source \in {"USER", "RUN_START"}
  \/ r.source = "PREAUTHORIZATION" /\ r.risk = "LOW"
ExecutionAgrees(r) ==
  /\ r.decision = "APPROVED" /\ ~r.unknown
  /\ r.effect \in (IF r.status = "FAILED" THEN {"FAILED", "VERIFICATION_FAILED"} ELSE {r.status})
  /\ IF r.status = "APPLIED" THEN r.tool = "SUCCEEDED" /\ r.refs
     ELSE ~r.refs /\ r.tool \in {"none", "FAILED"}
MatchesClaim(claim) ==
  LET r == row[claim.of] IN
  /\ claim.status = r.status /\ r.status \notin Incomplete
  /\ claim.refs => r.refs
  /\ IF r.decision = "none" THEN r.status = "STALE" /\ r.effect = "none" /\ ~claim.refs
     ELSE /\ ApprovalHolds(r)
          /\ IF r.status = "REJECTED" THEN r.decision = "REJECTED" /\ r.effect = "none"
             ELSE ExecutionAgrees(r)

(* ResultValidator.validate: evidence, artifacts and proposals, then the effects.    *)
CheckProposals ==
  /\ check.step = "proposals"
  /\ check' = [check EXCEPT !.step = "effects",
       !.error = \/ @ \/ ~(check.sources \subseteq saved)
                 \/ check.artifact # VerifiedRefs(check.artifact)
                 \/ \E p \in check.proposals : row[p].status \in Incomplete]
  /\ UNCHANGED <<running, stopAsked, row, saved, published, policy, outcome>>
CheckEffects ==
  /\ check.step = "effects"
  /\ check' = [check EXCEPT !.step = "save",
                            !.error = @ \/ \E c \in check.effects : ~MatchesClaim(c)]
  /\ UNCHANGED <<running, stopAsked, row, saved, published, policy, outcome>>

(* finalize_execution: a write that is still in doubt goes before the result.       *)
NothingPending == FALSE
WriteInDoubt == Pending # {}
SaveResult ==
  /\ check.step = "save" /\ check' = NoCheck
  /\ IF WriteInDoubt
       THEN (\E p \in Pending : Detach(p)) /\ UNCHANGED outcome
       ELSE /\ UNCHANGED row
            /\ running' = IF stopAsked THEN "CANCELLED" ELSE IF check.error THEN "FAILED" ELSE "SUCCEEDED"
            /\ outcome' = IF stopAsked \/ check.error THEN outcome
                          ELSE [evidence |-> check.sources, artifacts |-> check.artifact,
                                effects |-> check.effects, proposals |-> check.proposals]
  /\ UNCHANGED <<stopAsked, saved, published, policy>>
-----------------------------------------------------------------------------
ResultNext ==
  \/ \E e \in ToolEvidence : SaveEvidence(e)
  \/ \E a \in ToolArtifacts : PublishArtifact(a)
  \/ CreatePolicy \/ DisablePolicy \/ AskToStop
  \/ \E p \in Proposals :
       \/ \E risk \in {"LOW", "HIGH"}, inline \in BOOLEAN : Propose(p, risk, inline)
       \/ \E decision \in {"APPROVED", "REJECTED"} : Decide(p, decision)
       \/ Expire(p) \/ ClaimEffect(p) \/ ApplyEffect(p) \/ InlineReceipt(p) \/ ParkInline(p)
       \/ \E status \in {"STALE", "FAILED"} : CloseBeforeProvider(p, status)
       \/ \E status \in {"STALE", "FAILED", "VERIFICATION_FAILED"}, retryable, unknown \in BOOLEAN :
            FailEffect(p, status, retryable, unknown)
  \/ \E sources \in SUBSET Cited, artifact \in {{}} \cup {{LabelOf[a]} : a \in ToolArtifacts} :
       EndTurn(sources, artifact)
  \/ EndTurnMalformed \/ Assemble \/ CheckProposals \/ CheckEffects \/ SaveResult
ResultSpec == ResultInit /\ [][ResultNext]_resultVars
-----------------------------------------------------------------------------
ResultTypeOK ==
  /\ running \in {"RUNNING", "WAITING", "SUCCEEDED", "FAILED", "CANCELLED"}
  /\ saved \subseteq ToolEvidence \cup EffectRefs /\ published \subseteq ToolArtifacts
  /\ policy \in {"none", "ACTIVE", "DISABLED"}
  /\ ArtifactsReadable

(* A result that was saved tells the truth about the writes of its Run, and all      *)
(* of it: every proposal is named, every applied write is reported as applied, no    *)
(* write is in doubt, and what is cited was saved by this Run. It holds although the  *)
(* records were read before the transaction that saves it (runs/repository.py:1076). *)
SavedResultIsTrue ==
  running = "SUCCEEDED" =>
    /\ outcome.proposals = {p \in Proposals : Exists(p)}
    /\ outcome.effects = {ClaimOf(p) : p \in outcome.proposals}
    /\ \A p \in Proposals : Exists(p) => row[p].status \notin Incomplete /\ ~row[p].unknown
    /\ outcome.evidence \subseteq saved /\ outcome.artifacts \subseteq published

(* The checks never refuse what the platform itself recorded: the report of a        *)
(* settled write matches its rows, whoever approved it and however it ended          *)
(* (agent/result_references.py:132 against runs/repository_effects.py:1736, 2129).   *)
SettledWritesCanBeReported ==
  \A p \in Proposals :
    row[p].status \in Settled /\ ~row[p].unknown => MatchesClaim(ClaimOf(p))
=============================================================================
