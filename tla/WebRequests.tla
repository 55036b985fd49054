----------------------------- MODULE WebRequests -----------------------------
(* What a browser tab keeps of a request whose fate it may not know: starting *)
(* a Run (hooks/useRunSubmission.ts), answering a question                    *)
(* (useInteractionResponse.ts) and deciding a proposal                        *)
(* (useProposalDecision.ts, with its copy in the session storage). A request   *)
(* carries a key the server accepts once; answers are lost or come late; the   *)
(* tab is reloaded. The server's side is one step, as the service locks the    *)
(* organization, the project and the row (runs/service.py).                    *)
EXTENDS Naturals, FiniteSets

CONSTANTS
  SendKeys,   \* createIdempotencyKey
  MaxSends,      \* bound on the requests the tab sends
  NoSend         \* also: no key

ASSUME WebAssumption ==
  MaxSends \in Nat \ {0} /\ NoSend \notin SendKeys /\ NoSend \notin Nat

VARIABLES
  accepted,   \* what the server has accepted: the requests, by key
  subject,    \* the question or proposal: still open?
  grant,      \* what the session may do now
  wire,       \* the requests sent
  kept,       \* the request the tab keeps (pending)
  waiting,    \* the one it waits for (controller)
  barred,     \* an access failure has closed the page
  storage,    \* the session storage: works?, and the key it holds
  aside       \* keys the tab has put aside as never accepted

tabVars == <<kept, waiting, barred, storage, aside>>
webVars == <<accepted, subject, grant, wire, tabVars>>

Hooks == {"run", "answer", "decision"}
NothingKept == [key |-> NoSend, body |-> "none", phase |-> "none", uncertain |-> FALSE,
              failure |-> "none", editable |-> FALSE]
Unsent == [key |-> NoSend, body |-> "none", state |-> "unsent", reply |-> "none"]

WebInit ==
  /\ accepted = {} /\ subject = "open" /\ grant = "full"
  /\ wire = [n \in 1..MaxSends |-> Unsent]
  /\ kept = NothingKept /\ waiting = NoSend /\ barred = FALSE
  /\ storage = [works |-> TRUE, key |-> NoSend] /\ aside = {}
-----------------------------------------------------------------------------
(* The server.                                                               *)
AcceptedKey(k) == \E a \in accepted : a.key = k
AccessFailure == {"signedOut", "archived"}

(* A question and a proposal are settled once; a Run is created per key.     *)
SubjectReply ==
  IF accepted # {} THEN "conflict" ELSE IF subject = "expired" THEN "expired" ELSE "done"
(* The access, the content, a repetition of the same request, the row itself. *)
Response(h, p) ==
  CASE grant # "full" -> grant
    [] grant = "full" /\ p.body = "invalid" -> "invalid"
    [] OTHER -> IF h = "run" \/ [key |-> p.key, body |-> p.body] \in accepted
                THEN "done" ELSE SubjectReply

Arrive(h, n) ==
  /\ wire[n].state = "flying"
  /\ accepted' = IF Response(h, wire[n]) = "done"
                 THEN accepted \cup {[key |-> wire[n].key, body |-> wire[n].body]} ELSE accepted
  /\ \E returns \in BOOLEAN :
       wire' = [wire EXCEPT ![n].state = IF returns THEN "answered" ELSE "over",
                            ![n].reply = IF returns THEN Response(h, wire[n]) ELSE "none"]
  /\ UNCHANGED <<subject, grant, tabVars>>
NeverArrives(n) ==
  /\ wire[n].state = "flying" /\ wire' = [wire EXCEPT ![n].state = "over"]
  /\ UNCHANGED <<accepted, subject, grant, tabVars>>
(* Somebody else answers or decides; the subject expires; access changes.    *)
SomeoneElse(h) ==
  /\ h # "run" /\ accepted = {} /\ subject = "open"
  /\ \E body \in {"valid", "other"} : accepted' = {[key |-> NoSend, body |-> body]}
  /\ UNCHANGED <<subject, grant, wire, tabVars>>
SubjectExpires(h) ==
  /\ h # "run" /\ accepted = {} /\ subject = "open" /\ subject' = "expired"
  /\ UNCHANGED <<accepted, grant, wire, tabVars>>
GrantChanges ==
  /\ grant' \in {"full", "signedOut", "archived"} \ {grant}
  /\ UNCHANGED <<accepted, subject, wire, tabVars>>
-----------------------------------------------------------------------------
(* failedRunSubmission, interactionFailure, proposalFailurePhase             *)
RunPhase(reply) ==
  IF reply \in {"conflict", "archived"} THEN "conflict"
  ELSE IF reply = "unknown" THEN "unknown" ELSE "rejected"
AnswerPhase(reply) ==
  IF reply \in {"unknown", "conflict", "expired"} THEN reply ELSE "rejected"
DecisionPhase(reply) == RunPhase(reply)
FailurePhase(h, reply) ==
  CASE h = "run" -> RunPhase(reply) [] h = "answer" -> AnswerPhase(reply)
    [] h = "decision" -> DecisionPhase(reply)
StaysUncertain(h, reply) ==
  IF h = "answer" THEN reply = "unknown" ELSE FailurePhase(h, reply) \in {"unknown", "conflict"}

(* What the hook makes of a failure, an access failure of the page included. *)
Failing(h, reply) ==
  [kept EXCEPT !.failure = reply, !.uncertain = @ \/ StaysUncertain(h, reply),
     !.phase = IF h = "answer" /\ barred THEN "rejected" ELSE FailurePhase(h, reply)]
BarredBy(h, reply) ==
  barred \/ (h # "run" /\ reply = "signedOut")

(* removeRefusedProposalDecision: only a refusal of the content.             *)
KeepInStorage(h, reply) ==
  IF h = "decision" /\ reply = "invalid" /\ storage.works
  THEN storage' = [storage EXCEPT !.key = NoSend] ELSE UNCHANGED storage

(* The request leaves the tab: the same key, the same body.                  *)
Post(value) ==
  /\ waiting = NoSend
  /\ \E n \in 1..MaxSends :
       /\ wire[n].state = "unsent" /\ \A m \in 1..n - 1 : wire[m].state # "unsent"
       /\ wire' = [wire EXCEPT ![n] = [key |-> value.key, body |-> value.body,
                                       state |-> "flying", reply |-> "none"]]
       /\ waiting' = n
  /\ kept' = [value EXCEPT !.phase = "sending", !.failure = "none"]
  /\ UNCHANGED <<accepted, subject, grant, barred>>

(* start: a new key. A Run may be started over a request of unknown fate     *)
(* when the user says so; an answer and a decision may not.                  *)
MayStart(h) ==
  /\ ~barred
  /\ h = "run" => kept.phase # "sending"
  /\ h # "run" => kept = NothingKept
SaveDecision(h, k) ==
  IF h = "decision" /\ storage.works THEN storage' = [storage EXCEPT !.key = k]
  ELSE UNCHANGED storage
StartRequest(h) ==
  /\ MayStart(h)
  /\ \E k \in SendKeys, body \in {"valid", "invalid"} :
       /\ \A n \in 1..MaxSends : wire[n].key # k
       /\ Post([NothingKept EXCEPT !.key = k, !.body = body])
       /\ SaveDecision(h, k)
  /\ UNCHANGED aside

(* retry, confirmOriginal: a decision is never sent again.                   *)
SendAfresh(value) == [value EXCEPT !.uncertain = FALSE]
SendAgain(value) == value
MaySendAgain(h) ==
  /\ h \in {"run", "answer"} /\ kept.phase \in {"unknown", "rejected"}
  /\ h = "answer" => kept.failure \notin AccessFailure /\ ~barred
Retry(h) ==
  /\ MaySendAgain(h) /\ Post(SendAgain(kept))
  /\ UNCHANGED <<storage, aside>>

UseReply(h, n) ==
  LET reply == wire[n].reply IN
  /\ wire[n].state = "answered"
  /\ wire' = [wire EXCEPT ![n].state = "over", ![n].reply = "none"]
  /\ IF waiting # n THEN UNCHANGED <<kept, waiting, barred, storage>>
     ELSE /\ waiting' = NoSend
          /\ IF reply = "done"
             THEN /\ kept' = IF h = "run" THEN NothingKept
                             ELSE IF h = "answer" /\ barred THEN Failing(h, "unknown")
                             ELSE [kept EXCEPT !.phase = "confirmed"]
                  /\ UNCHANGED <<barred, storage>>
             ELSE /\ kept' = Failing(h, reply) /\ barred' = BarredBy(h, reply)
                  /\ KeepInStorage(h, reply)
  /\ UNCHANGED <<accepted, subject, grant, aside>>

(* Thirty seconds without an answer.                                         *)
StopWaitingFor(h) ==
  /\ waiting # NoSend /\ waiting' = NoSend /\ kept' = Failing(h, "unknown")
  /\ UNCHANGED <<accepted, subject, grant, wire, barred, storage, aside>>

(* A read of the page is refused: an answer on its way becomes uncertain.    *)
InterruptedAsRefused(h) == [kept EXCEPT !.phase = "rejected", !.failure = grant]
OnceInterrupted(h) ==
  IF waiting # NoSend THEN [Failing(h, "unknown") EXCEPT !.phase = "rejected", !.failure = grant]
  ELSE IF kept.phase \in {"none", "confirmed"} THEN kept
  ELSE [kept EXCEPT !.phase = "rejected", !.failure = grant]
ReadRefused(h) ==
  /\ h = "answer" /\ grant # "full" /\ ~barred
  /\ barred' = TRUE /\ kept' = OnceInterrupted(h) /\ waiting' = NoSend
  /\ UNCHANGED <<accepted, subject, grant, wire, storage, aside>>

(* check: the decision is looked up in the Run's detail, by its content.     *)
Observed == [kept EXCEPT !.phase = "observed"]
ObservedBy(a) == a.body = kept.body
Check(h) ==
  /\ h = "decision" /\ kept.phase \notin {"none", "sending"} /\ waiting = NoSend /\ ~barred
  /\ IF grant = "signedOut" THEN barred' = TRUE /\ UNCHANGED kept
     ELSE /\ UNCHANGED barred
          /\ kept' = IF \E a \in accepted : ObservedBy(a) THEN Observed
                     ELSE IF accepted # {} THEN [kept EXCEPT !.phase = "conflict"]
                     ELSE IF kept.phase = "rejected" /\ kept.failure = "invalid"
                          THEN [kept EXCEPT !.editable = subject = "open"]
                     ELSE [kept EXCEPT !.phase = "unknown", !.failure = "unknown"]
  /\ UNCHANGED <<accepted, subject, grant, wire, waiting, storage, aside>>

(* edit, editRejected: back to the draft.                                    *)
EditableWhenRejected(h) == h # "run" /\ kept.phase = "rejected"
Editable(h) ==
  /\ kept.phase = "rejected" /\ kept.failure = "invalid"
  /\ h = "answer" => ~kept.uncertain
  /\ h = "decision" => kept.editable /\ ~barred
  /\ h # "run" /\ waiting = NoSend
Edit(h) ==
  /\ Editable(h)
  /\ kept' = NothingKept /\ aside' = aside \cup {kept.key}
  /\ IF h = "decision" /\ storage.works THEN storage' = [storage EXCEPT !.key = NoSend]
     ELSE UNCHANGED storage
  /\ UNCHANGED <<accepted, subject, grant, wire, waiting, barred>>
-----------------------------------------------------------------------------
(* The tab is reloaded. Only a decision has a copy, restored as unknown; when *)
(* it could not be stored the user has been told, and it is not put aside.   *)
RestoreNothing(h) == NothingKept
Restore(h) ==
  IF h = "decision" /\ storage.works /\ storage.key # NoSend
  THEN [NothingKept EXCEPT !.key = storage.key, !.body = kept.body, !.phase = "unknown",
                         !.uncertain = TRUE, !.failure = "unknown"]
  ELSE NothingKept
Reload(h) ==
  /\ kept # NothingKept \/ barred
  /\ kept' = Restore(h) /\ waiting' = NoSend /\ barred' = FALSE
  /\ aside' = IF h = "decision" /\ kept # NothingKept /\ kept' = NothingKept /\ storage.works
              THEN aside \cup {kept.key} ELSE aside
  /\ UNCHANGED <<accepted, subject, grant, wire, storage>>
(* The card moves within the page: what was being sent is unknown.           *)
MoveCard(h) ==
  /\ h = "decision" /\ kept.phase = "sending"
  /\ kept' = [kept EXCEPT !.phase = "unknown", !.uncertain = TRUE] /\ waiting' = NoSend
  /\ UNCHANGED <<accepted, subject, grant, wire, barred, storage, aside>>
StorageFails(h) ==
  /\ h = "decision" /\ kept = NothingKept /\ storage.works
  /\ storage' = [works |-> FALSE, key |-> NoSend]
  /\ UNCHANGED <<accepted, subject, grant, wire, kept, waiting, barred, aside>>
-----------------------------------------------------------------------------
WebNext(h) ==
  \/ \E n \in 1..MaxSends : Arrive(h, n) \/ NeverArrives(n) \/ UseReply(h, n)
  \/ SomeoneElse(h) \/ SubjectExpires(h) \/ GrantChanges
  \/ StartRequest(h) \/ Retry(h) \/ StopWaitingFor(h) \/ ReadRefused(h) \/ Check(h) \/ Edit(h)
  \/ Reload(h) \/ MoveCard(h) \/ StorageFails(h)
WebSpec == WebInit /\ \E h \in Hooks : [][WebNext(h)]_webVars
-----------------------------------------------------------------------------
(* The tab keeps the types of its record, and shows as being sent exactly    *)
(* the request it waits for.                                                 *)
WebTypeOK ==
  /\ kept.phase \in {"none", "sending", "unknown", "rejected", "conflict", "expired",
                     "confirmed", "observed"}
  /\ waiting \in 1..MaxSends \cup {NoSend}
  /\ waiting # NoSend <=> kept.phase = "sending"
  /\ aside \subseteq SendKeys

(* What the tab tells the user of the request's fate is true, whatever was   *)
(* lost, late, repeated or reloaded: a request shown as accepted was, one    *)
(* shown as refused for certain was not and never is, and neither is one     *)
(* the user was let back to the form for (send, retry, edit, restore).       *)
RequestFateIsTrue ==
  /\ kept.phase = "confirmed" => AcceptedKey(kept.key)
  /\ kept.phase = "observed" => \E a \in accepted : a.body = kept.body
  /\ kept.phase = "rejected" /\ ~kept.uncertain => ~AcceptedKey(kept.key)
  /\ \A k \in aside : ~AcceptedKey(k)
=============================================================================
