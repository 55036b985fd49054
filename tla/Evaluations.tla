----------------------------- MODULE Evaluations -----------------------------
(* Human evaluations of a Run's result: the page that keeps one submission   *)
(* until its fate is known (web/src/hooks/useEvaluationSubmission.ts,         *)
(* useEvaluationHistory.ts over useResourceRequest.ts) and the service that   *)
(* appends at most one evaluation per submission key (evaluations/). A        *)
(* transaction of the service locks the organization first, so it is one     *)
(* step and rows appear in the order of their time. Answers travel, may be    *)
(* lost, and may come after the page has stopped waiting for them.            *)
EXTENDS Naturals, Sequences, SequencesExt, FiniteSets

CONSTANTS
  SubmissionKeys,   \* createIdempotencyKey
  MaxPosts,         \* bound on the requests one page sends
  MaxEvaluations,   \* bound on the rows
  HistoryLimit,     \* evaluations on a page of the history
  NoPost            \* also: no key, no row

ASSUME EvaluationAssumption ==
  /\ MaxPosts \in Nat \ {0} /\ MaxEvaluations \in Nat /\ HistoryLimit \in Nat \ {0}
  /\ NoPost \notin SubmissionKeys /\ NoPost \notin Nat

VARIABLES
  evaluations,   \* Evaluation rows of the result, by created_at and id
  access,        \* what the server grants this session now
  posts,         \* the POSTs, each until its answer is used or dropped
  original,      \* the submission the page keeps
  controller,    \* the POST the page waits for (useResourceMutation)
  denied,        \* the refusal that closed the page
  confirmation,  \* the GET of the original's receipt
  history,       \* what the history shows and how far it has read
  cleared        \* submissions the user put aside, and why

pageVars == <<original, controller, denied, confirmation, history, cleared>>
evaluationVars == <<evaluations, access, posts, pageVars>>

NoBody == "unknown"                         \* a key typed in: nothing to resend
ReadBlocking == {"sessionExpired", "notFound"}
AccessFailures == ReadBlocking \cup {"projectArchived"}
ClearFailures == {"invalidRequest"}
Replies == AccessFailures \cup ClearFailures \cup {"saved", "conflict", "notSeen"}

NoSubmission == [key |-> NoPost, body |-> NoBody, phase |-> "none",
                 uncertain |-> FALSE, failure |-> "none"]
UnsentPost == [key |-> NoPost, body |-> NoBody, state |-> "unsent", reply |-> "notSeen"]
NoQuery == [state |-> "idle", reply |-> "notSeen", content |-> NoBody]
(* shown: items; after: the cursor of the page on its way; next: next_cursor;  *)
(* since: the rows that were there when the reading began at the top.          *)
Ids(rows) == {rows[i].id : i \in DOMAIN rows}
OpenedHistory(rows) ==
  [shown |-> {}, state |-> "asked", after |-> NoPost, next |-> NoPost,
   page |-> <<>>, since |-> Ids(rows), whole |-> FALSE]

EvaluationInit ==
  /\ evaluations = <<>> /\ access = "granted"
  /\ posts = [n \in 1..MaxPosts |-> UnsentPost]
  /\ original = NoSubmission /\ controller = NoPost /\ denied = "none"
  /\ confirmation = NoQuery /\ history = OpenedHistory(<<>>)
  /\ cleared = [k \in SubmissionKeys |-> "no"]
-----------------------------------------------------------------------------
(* The service.                                                              *)
(* Every read converts and checks the rows it returns (_to_stored).          *)
StoredEvaluations == ToSet(evaluations)
FindSubmission(k) == {e \in StoredEvaluations : e.key = k}
Used(k) == FindSubmission(k) # {} \/ \E n \in 1..MaxPosts : posts[n].key = k

(* authorize_user_access and the project's access, locked in the transaction *)
RefusedAccess(write) ==
  CASE access = "signedOut" -> "sessionExpired"
    [] access = "removed" -> "notFound"
    [] access = "archived" /\ write -> "projectArchived"
    [] OTHER -> "none"

(* validate_evaluation_command; evaluation_request_hash                      *)
ValidBody(body) == body # "invalid"
SameSubmission(e, body) == e.body = body

EvaluationRow(k, body) == [id |-> Len(evaluations) + 1, key |-> k, body |-> body]
(* Rows of one microsecond are listed by id, in any order.                   *)
Append_(k, body) ==
  \E at \in {Len(evaluations), Len(evaluations) + 1} \ {0} :
    evaluations' = InsertAt(evaluations, at, EvaluationRow(k, body))

(* submit, create: the answer, and the row appended when there is none yet.  *)
Answer(k, body) ==
  CASE RefusedAccess(TRUE) # "none" -> RefusedAccess(TRUE)
    [] ~ValidBody(body) -> "invalidRequest"
    [] \E e \in FindSubmission(k) : ~SameSubmission(e, body) -> "conflict"
    [] OTHER -> "saved"
SubmitUnseen(k, body) ==
  IF Answer(k, body) = "saved"
  THEN Len(evaluations) < MaxEvaluations /\ Append_(k, body)
  ELSE UNCHANGED evaluations
Submit(k, body) ==
  IF Answer(k, body) = "saved" /\ FindSubmission(k) = {}
  THEN Len(evaluations) < MaxEvaluations /\ Append_(k, body)
  ELSE UNCHANGED evaluations

Over(p) == [UnsentPost EXCEPT !.key = p.key, !.state = "over"]
ServePost(n) ==
  /\ posts[n].state = "flying"
  /\ Submit(posts[n].key, posts[n].body)
  /\ \E arrives \in BOOLEAN :
       posts' = [posts EXCEPT ![n] =
                   IF arrives THEN [@ EXCEPT !.state = "answered",
                                           !.reply = Answer(posts[n].key, posts[n].body)]
                   ELSE Over(@)]
  /\ UNCHANGED <<access, pageVars>>
LosePost(n) ==
  /\ posts[n].state = "flying"
  /\ posts' = [posts EXCEPT ![n] = Over(@)]
  /\ UNCHANGED <<evaluations, access, pageVars>>

(* Another client of the user, or another user without a key to share.       *)
OtherClient ==
  /\ \E k \in SubmissionKeys : Used(k) /\ Answer(k, "other") = "saved" /\ Submit(k, "other")
  /\ UNCHANGED <<access, posts, pageVars>>
OtherUser ==
  /\ Len(evaluations) < MaxEvaluations /\ Append_(NoPost, "other")
  /\ UNCHANGED <<access, posts, pageVars>>

AccessChanges ==
  /\ access' \in {"granted", "archived", "signedOut", "removed"} \ {access}
  /\ UNCHANGED <<evaluations, posts, pageVars>>
-----------------------------------------------------------------------------
(* The page's submission.                                                    *)
Keep(value) == original' = value
(* Of a failure the page tells apart only those the user can correct.        *)
Kind(failure) == IF failure \in ClearFailures THEN failure ELSE "other"
Failed(value, failure) ==
  LET uncertain == value.uncertain \/ failure \in {"unknown", "conflict"} IN
  [value EXCEPT !.uncertain = uncertain, !.failure = Kind(failure),
                !.phase = IF uncertain THEN "unknown" ELSE "refused"]
Unknown(value) ==
  [value EXCEPT !.phase = "unknown", !.uncertain = TRUE, !.failure = Kind("unknown")]
Confirmed(value) == [value EXCEPT !.phase = "confirmed", !.failure = "none"]
Deny(failure) == denied' = IF failure \in AccessFailures THEN failure ELSE denied

(* A receipt is added to the history; the cursor of its reading stays.       *)
Remember(k) == [history EXCEPT !.shown = @ \cup {e.id : e \in FindSubmission(k)}]

(* send: the gates, then one POST; anything sent earlier stays on its way.   *)
Send(value) ==
  /\ denied = "none" /\ confirmation.state = "idle" /\ controller = NoPost
  /\ original.phase # "sending" /\ value.body # NoBody
  /\ \E n \in 1..MaxPosts :
       /\ posts[n].state = "unsent" /\ \A m \in 1..n - 1 : posts[m].state # "unsent"
       /\ posts' = [posts EXCEPT ![n] = [key |-> value.key, body |-> value.body,
                                         state |-> "flying", reply |-> "notSeen"]]
       /\ controller' = n
  /\ Keep([value EXCEPT !.phase = "sending", !.failure = "none"])
  /\ UNCHANGED <<evaluations, access, denied, confirmation, history, cleared>>

(* What the form lets through: the server may still find it invalid.         *)
EvaluationDrafts == {"valid", "invalid"}
StartSubmission ==
  /\ original = NoSubmission
  /\ \E k \in SubmissionKeys, body \in EvaluationDrafts :
       /\ ~Used(k) /\ cleared[k] = "no"
       /\ Send([NoSubmission EXCEPT !.key = k, !.body = body])
ResendSubmission == original.phase = "unknown" /\ Send(original)

(* The answer to the POST the page waits for; an answer to an older one is   *)
(* dropped. Success shows the row in the history (onSaved, remember).        *)
UseAnswer(n) ==
  LET reply == posts[n].reply IN
  /\ posts[n].state = "answered"
  /\ posts' = [posts EXCEPT ![n] = Over(@)]
  /\ IF controller # n THEN UNCHANGED <<original, controller, denied, history>>
     ELSE /\ controller' = NoPost
          /\ CASE reply = "saved" /\ denied = "none" ->
                    /\ Keep(Confirmed(original)) /\ UNCHANGED denied
                    /\ history' = Remember(original.key)
               [] reply = "saved" /\ denied # "none" ->
                    Keep(Unknown(original)) /\ UNCHANGED <<denied, history>>
               [] OTHER -> Keep(Failed(original, reply)) /\ Deny(reply) /\ UNCHANGED history
  /\ UNCHANGED <<evaluations, access, confirmation, cleared>>

(* Thirty seconds without an answer, or the user stops waiting.              *)
StopWaiting ==
  /\ controller # NoPost
  /\ controller' = NoPost /\ Keep(Failed(original, "unknown"))
  /\ UNCHANGED <<evaluations, access, posts, denied, confirmation, history, cleared>>

(* confirm: a GET of the receipt, never a POST.                              *)
Ask(value) ==
  /\ confirmation.state = "idle" /\ denied \notin ReadBlocking
  /\ confirmation' = [NoQuery EXCEPT !.state = "asked"]
  /\ Keep([value EXCEPT !.phase = "checking", !.failure = "none"])
  /\ UNCHANGED <<evaluations, access, posts, controller, denied, history, cleared>>
Confirm == original.phase \in {"unknown", "refused"} /\ Ask(original)
LookUp ==
  /\ original = NoSubmission
  /\ \E k \in SubmissionKeys : Used(k) /\ Ask([NoSubmission EXCEPT !.key = k, !.uncertain = TRUE])

GetSubmission(k) ==
  LET refused == RefusedAccess(FALSE)  saved == FindSubmission(k) IN
  CASE refused # "none" -> [reply |-> refused, content |-> NoBody]
    [] refused = "none" /\ saved = {} -> [reply |-> "notSeen", content |-> NoBody]
    [] OTHER -> [reply |-> "saved", content |-> (CHOOSE e \in saved : TRUE).body]
AnswerQuery ==
  LET receipt == GetSubmission(original.key) IN
  /\ confirmation.state = "asked"
  /\ confirmation' = [state |-> "answered", reply |-> receipt.reply, content |-> receipt.content]
  /\ UNCHANGED <<evaluations, access, posts, original, controller, denied, history, cleared>>

(* matchesEvaluationReceipt                                                  *)
MatchesIdentity(value, content) == TRUE
Matches(value, content) == value.body \in {NoBody, content}
UseReceipt ==
  LET q == confirmation IN
  /\ q.state = "answered" /\ confirmation' = NoQuery
  /\ Deny(q.reply)
  /\ IF denied' \notin ReadBlocking /\ q.reply = "saved" /\ Matches(original, q.content)
     THEN /\ Keep(Confirmed(original))
          /\ history' = Remember(original.key)
     ELSE Keep(Unknown(original)) /\ UNCHANGED history
  /\ UNCHANGED <<evaluations, access, posts, controller, cleared>>
StopChecking ==
  /\ confirmation.state # "idle" /\ confirmation' = NoQuery
  /\ Keep(Unknown(original))
  /\ UNCHANGED <<evaluations, access, posts, controller, denied, history, cleared>>

(* clear, closeLookup: the ways back to an empty form.                       *)
ClearableUnlessSending == original.phase \in {"confirmed", "refused", "unknown"}
Clearable ==
  \/ original.phase = "confirmed"
  \/ original.phase = "refused" /\ ~original.uncertain /\ original.failure \in ClearFailures
Clear ==
  /\ Clearable
  /\ cleared' = IF original.body = NoBody THEN cleared
                ELSE [cleared EXCEPT ![original.key] =
                        IF original.phase = "confirmed" THEN "saved" ELSE original.body]
  /\ Keep(NoSubmission)
  /\ UNCHANGED <<evaluations, access, posts, controller, denied, confirmation, history>>
CloseLookup ==
  /\ original.key # NoPost /\ original.body = NoBody
  /\ Keep(NoSubmission) /\ confirmation' = NoQuery
  /\ UNCHANGED <<evaluations, access, posts, controller, denied, history, cleared>>

(* The page is left; the POSTs go on.                                        *)
LeavePage ==
  /\ Keep(NoSubmission) /\ controller' = NoPost /\ denied' = "none"
  /\ confirmation' = NoQuery /\ history' = OpenedHistory(evaluations)
  /\ UNCHANGED <<evaluations, access, posts, cleared>>
-----------------------------------------------------------------------------
(* The history.                                                              *)
Position(id) == CHOOSE i \in DOMAIN evaluations : evaluations[i].id = id
Least(a, b) == IF a < b THEN a ELSE b
Rest(after) ==
  IF after = NoPost THEN evaluations
  ELSE SubSeq(evaluations, Position(after) + 1, Len(evaluations))

(* refresh begins again at the top and forgets nothing.                      *)
Refresh ==
  /\ history.state = "ready"
  /\ history' = [history EXCEPT !.state = "asked", !.after = NoPost, !.whole = FALSE,
                                !.since = Ids(evaluations)]
  /\ UNCHANGED <<evaluations, access, posts, original, controller, denied, confirmation, cleared>>
LastShown ==
  IF history.next = NoPost \/ history.shown = {} THEN history.next
  ELSE CHOOSE x \in history.shown : \A y \in history.shown : Position(y) <= Position(x)
NextCursor == history.next
More ==
  /\ history.state = "ready" /\ NextCursor # NoPost
  /\ history' = [history EXCEPT !.state = "asked", !.after = NextCursor]
  /\ UNCHANGED <<evaluations, access, posts, original, controller, denied, confirmation, cleared>>

(* list_page: one row more than the page, to know whether there is a next.   *)
ListPage ==
  /\ history.state = "asked" /\ RefusedAccess(FALSE) = "none"
  /\ LET rest == Rest(history.after)  items == SubSeq(rest, 1, Least(HistoryLimit, Len(rest))) IN
     history' = [history EXCEPT !.state = "answered", !.page = items,
                   !.next = IF Len(rest) > HistoryLimit THEN Last(items).id ELSE NoPost]
  /\ UNCHANGED <<evaluations, access, posts, original, controller, denied, confirmation, cleared>>
UsePage ==
  /\ history.state = "answered"
  /\ history' = [history EXCEPT !.state = "ready", !.page = <<>>,
                   !.shown = @ \cup Ids(history.page), !.whole = history.next = NoPost]
  /\ UNCHANGED <<evaluations, access, posts, original, controller, denied, confirmation, cleared>>

PageFails ==
  /\ history.state # "ready"
  /\ history' = [history EXCEPT !.state = "ready", !.page = <<>>, !.next = NoPost]
  /\ UNCHANGED <<evaluations, access, posts, original, controller, denied, confirmation, cleared>>

(* rejectAccess: a read that is refused closes the page to writing, and what *)
(* is on its way becomes unknown.                                            *)
RefusedRead ==
  LET refusal == RefusedAccess(FALSE) IN
  /\ history.state = "asked" /\ refusal # "none"
  /\ history' = [history EXCEPT !.state = "ready", !.next = NoPost]
  /\ denied' = refusal /\ controller' = NoPost /\ confirmation' = NoQuery
  /\ Keep(CASE controller # NoPost -> Failed(original, "unknown")
            [] confirmation.state # "idle" -> Unknown(original)
            [] original.phase = "refused" /\ refusal = "sessionExpired" -> Failed(original, refusal)
            [] OTHER -> original)
  /\ UNCHANGED <<evaluations, access, posts, cleared>>
(* The workspace saw the project archived: writing closes, reading goes on.  *)
WorkspaceArchived ==
  /\ access = "archived" /\ denied = "none"
  /\ denied' = "projectArchived" /\ controller' = NoPost
  /\ Keep(IF controller # NoPost THEN Failed(original, "unknown") ELSE original)
  /\ UNCHANGED <<evaluations, access, posts, confirmation, history, cleared>>
-----------------------------------------------------------------------------
Transport == \E n \in 1..MaxPosts : ServePost(n) \/ LosePost(n) \/ UseAnswer(n)
(* A submission and its fate, beside a history that may lose its access; and  *)
(* a history read page by page while rows and one receipt arrive.            *)
SubmissionNext ==
  \/ Transport \/ OtherClient \/ AccessChanges
  \/ StartSubmission \/ ResendSubmission \/ StopWaiting \/ Confirm \/ LookUp \/ AnswerQuery \/ UseReceipt
  \/ StopChecking \/ Clear \/ CloseLookup \/ LeavePage \/ RefusedRead \/ WorkspaceArchived
HistoryNext ==
  \/ Transport \/ OtherUser \/ StartSubmission
  \/ Refresh \/ More \/ ListPage \/ UsePage \/ PageFails
EvaluationSpec == EvaluationInit /\ [][SubmissionNext \/ HistoryNext]_evaluationVars
-----------------------------------------------------------------------------
(* The rows, the requests and the page keep their types; a page that waits   *)
(* for a POST shows it as being sent.                                        *)
EvaluationTypeOK ==
  /\ Len(evaluations) <= MaxEvaluations
  /\ access \in {"granted", "archived", "signedOut", "removed"}
  /\ original.phase \in {"none", "sending", "checking", "unknown", "refused", "confirmed"}
  /\ controller \in 1..MaxPosts \cup {NoPost}
  /\ controller # NoPost <=> original.phase = "sending"
  /\ confirmation.state # "idle" <=> original.phase = "checking"
  /\ denied \in AccessFailures \cup {"none"}

(* Whatever was lost, late or resent, a key has one row; a submission shown  *)
(* as saved is a row with the content the user sent; and one put aside as    *)
(* refused is never saved afterwards (submit, clear, matchesReceipt).        *)
SubmissionIsSettled ==
  /\ \A i, j \in DOMAIN evaluations :
       evaluations[i].key = evaluations[j].key /\ evaluations[i].key # NoPost => i = j
  /\ original.phase = "confirmed" =>
       \E e \in FindSubmission(original.key) : original.body \in {NoBody, e.body}
  /\ \A k \in SubmissionKeys :
       CASE cleared[k] = "no" -> TRUE
         [] cleared[k] = "saved" -> FindSubmission(k) # {}
         [] OTHER -> \A e \in FindSubmission(k) : e.body # cleared[k]

(* A history read to its last page shows every evaluation that was there     *)
(* when the reading began, although rows arrive and receipts are added       *)
(* between its pages (list_page, more, remember).                            *)
HistoryIsWhole == history.whole => history.since \subseteq history.shown
=============================================================================
