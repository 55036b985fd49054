----------------------------- MODULE MCAgentRun -----------------------------
(* The parts that carry one Run from its frozen inputs to its result: the     *)
(* context built for an attempt, the two engines, what a proposal's answer    *)
(* brings back, the result, and what the web client is told of it and sends.  *)
(* They share no row, so a behaviour moves one of them and leaves the others  *)
(* where they began: the states add up.                                       *)
EXTENDS CodexSession, ClaudeSession, RunContext, ProposalContinuation, RunResult,
        RunProgress, Evaluations, WebRequests, TLC

CONSTANTS git, sql, x1, x2, p1, p2, e1, a1, a2

VARIABLE moving                \* the part that moves in this behaviour

agentVars == <<moving, codexVars, claudeVars, contextVars, continuationVars, resultVars,
               progressVars, evaluationVars, webVars>>

(* Artifacts are published while the Run has one proposal at most: the checks  *)
(* of the two read different rows.                                            *)
ArtifactsApart == published' = {} \/ \E p \in Proposals : row'[p].status = "none"

AgentInit ==
  /\ moving \in {"codex", "claude", "context", "continuation", "result", "follow",
                  "page", "watch", "submission", "history"} \cup Hooks
  /\ CodexInit
  /\ ClaudeInit
  /\ ContextInit
  /\ ContinuationInit
  /\ ResultInit
  /\ ProgressInit
  /\ EvaluationInit
  /\ WebInit
  /\ moving # "context" => features = Switches /\ target = 1   \* a part at rest starts in one way
AgentNext ==
  /\ UNCHANGED moving
  /\ \/ /\ moving = "codex" /\ CodexNext
        /\ UNCHANGED <<claudeVars, contextVars, continuationVars, resultVars,
                       progressVars, evaluationVars, webVars>>
     \/ /\ moving = "claude" /\ ClaudeNext
        /\ UNCHANGED <<codexVars, contextVars, continuationVars, resultVars,
                       progressVars, evaluationVars, webVars>>
     \/ /\ moving = "context" /\ ContextNext
        /\ UNCHANGED <<codexVars, claudeVars, continuationVars, resultVars,
                       progressVars, evaluationVars, webVars>>
     \/ /\ moving = "continuation" /\ ContinuationNext
        /\ UNCHANGED <<codexVars, claudeVars, contextVars, resultVars, progressVars,
                       evaluationVars, webVars>>
     \/ /\ moving = "result" /\ ResultNext /\ ArtifactsApart
        /\ UNCHANGED <<codexVars, claudeVars, contextVars, continuationVars,
                       progressVars, evaluationVars, webVars>>
     \/ /\ \/ moving = "follow" /\ FollowNext
           \/ moving = "page" /\ PageNext
           \/ moving = "watch" /\ WatchNext
        /\ UNCHANGED <<codexVars, claudeVars, contextVars, continuationVars, resultVars,
                       evaluationVars, webVars>>
     \/ /\ \/ moving = "submission" /\ SubmissionNext
           \/ moving = "history" /\ HistoryNext
        /\ UNCHANGED <<codexVars, claudeVars, contextVars, continuationVars, resultVars,
                       progressVars, webVars>>
     \/ /\ moving \in Hooks /\ WebNext(moving)
        /\ UNCHANGED <<codexVars, claudeVars, contextVars, continuationVars, resultVars,
                       progressVars, evaluationVars>>
AgentSpec == AgentInit /\ [][AgentNext]_agentVars

(* Every variable of every part keeps its type. *)
AgentTypeOK ==
  /\ CodexTypeOK
  /\ ClaudeTypeOK
  /\ ContextTypeOK
  /\ ContinuationTypeOK
  /\ ResultTypeOK
  /\ ProgressTypeOK
  /\ EvaluationTypeOK
  /\ WebTypeOK

(* A segment starts where the last one stopped: a parked turn is taken up, an   *)
(* interrupt reaches the turn it is meant for, a changed checkpoint is told,    *)
(* and the mirrored transcript is in order (CodexSession, ClaudeSession).       *)
EnginesResume == ParkedRunResumes /\ InterruptReachesTurn /\ CheckpointTold /\ TranscriptInOrder

(* What was proposed, decided and written comes back to the agent for good,     *)
(* and the saved result says so (ProposalContinuation, RunResult).              *)
ProposalsAreTold ==
  /\ ContinuationLoads
  /\ RecordedProposalStaysValid
  /\ ToldForGood
  /\ SavedResultIsTrue
  /\ SettledWritesCanBeReported

(* The page knows the fate of what it sent, across retries, reloads and late    *)
(* answers, and shows every evaluation once (Evaluations, WebRequests).         *)
PageIsTrue == SubmissionIsSettled /\ HistoryIsWhole /\ RequestFateIsTrue
-----------------------------------------------------------------------------
(* Five ways of describing a task: a direct one that reads a repository and    *)
(* documents and may save one, a supervised Skill, a guided one with a         *)
(* database, one that waits for a change before it reads documents, and a      *)
(* guided one that requires a tool above its profile.                          *)
Slot(key, kind, use, caps, required) ==
  [key |-> key, kind |-> kind, access |-> use, caps |-> caps, required |-> required, lead |-> "document.read"]
Listing(slot) == [slot EXCEPT !.lead = "document.list"]
Tool(cap, required) == [cap |-> cap, required |-> required]
MCDefinitions ==
  {[direct |-> TRUE, profile |-> "SUPERVISED", tools |-> {}, intents |-> {}, prerequisites |-> FALSE,
    slots |-> {Slot("code", "repository", "read", {}, TRUE), Slot("other", "other", "read", {}, TRUE),
               Slot("save", "document", "write", {}, FALSE), Slot("docs", "document", "read", {}, TRUE)}],
   [direct |-> FALSE, profile |-> "SUPERVISED", intents |-> {"code"}, prerequisites |-> FALSE,
    tools |-> {Tool("workspace.write", TRUE), Tool("repository.read", TRUE)},
    slots |-> {Slot("code", "repository", "write", {"repository.read", "repository.write"}, FALSE),
               Slot("docs", "document", "read", {"document.read"}, FALSE)}],
   [direct |-> FALSE, profile |-> "GUIDED", intents |-> {}, prerequisites |-> FALSE,
    tools |-> {Tool("database.query", TRUE), Tool("workspace.write", FALSE)},
    slots |-> {Slot("code", "repository", "read", {"repository.read"}, TRUE),
               Slot("other", "other", "read", {"database.query"}, TRUE)}],
   [direct |-> FALSE, profile |-> "SUPERVISED", intents |-> {"code"}, prerequisites |-> TRUE,
    tools |-> {Tool("document.readiness", TRUE)},
    slots |-> {Slot("code", "repository", "write", {"repository.read", "repository.write"}, TRUE),
               Slot("docs", "document", "read", {"document.read"}, FALSE),
               Listing(Slot("list", "document", "read", DocumentCapabilities, FALSE))}],
   [direct |-> FALSE, profile |-> "GUIDED", intents |-> {}, prerequisites |-> FALSE,
    tools |-> {Tool("artifact.append", TRUE)},
    slots |-> {Slot("code", "repository", "read", {"repository.read"}, FALSE),
               Slot("save", "document", "write", {"document.write"}, FALSE)}]}
MCHolds == x1 :> {1} @@ x2 :> {1, 2}
MCProvider == git :> "git" @@ sql :> "postgres"
MCOffers == git :> {"repository.read", "repository.write"} @@ sql :> {"database.query", "database.execute"}

(* The rejected proposal's receipt and the tool's evidence share a label.      *)
MCLabel ==
  e1 :> "E1" @@ After(p2) :> "E1" @@ a1 :> "A1" @@ a2 :> "A2"
    @@ After(p1) :> "E2" @@ Before(p1) :> "E3" @@ Before(p2) :> "E4"
=============================================================================
