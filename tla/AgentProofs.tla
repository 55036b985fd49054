----------------------------- MODULE AgentProofs ----------------------------
(***************************************************************************)
(* Proofs about the parts that carry one Run from its frozen inputs to its    *)
(* result (MCAgentRun): what became of the proposals and questions of a Run   *)
(* comes back to its agent for good (ProposalContinuation), and the saved     *)
(* result says so (RunResult); a segment starts where the last one stopped, on *)
(* either engine, and never waits twice for an answer (CodexSession,           *)
(* ClaudeSession); the pages a person writes on show what      *)
(* became of what was sent (Evaluations, WebRequests), and whoever follows a  *)
(* Run gets what its ledger says (RunProgress).                               *)
(***************************************************************************)
EXTENDS MCAgentRun, FiniteSetTheorems, SequenceTheorems, TLAPS

-----------------------------------------------------------------------------
(* How a Run goes on (ProposalContinuation), for any bound on segments and     *)
(* attempts and any catalogs. Each segment after the first follows the request  *)
(* its predecessor ended with: row n - 1 of asked belongs to segment n, and is  *)
(* settled before segment n exists. Attempts and sessions name each other.      *)

Triggers == {"INITIAL", "APPROVAL_RESPONSE", "APPROVAL_TIMEOUT", "INTERACTION_RESPONSE",
             "INTERACTION_TIMEOUT"}
Modes == {"INITIAL", "RESUME", "FORK"}
Tellings == {"nothing", "answered", "error", "EXPIRED", "REJECTED"} \cup Ended
PartRows == [trigger : Triggers, of : Nat, mode : Modes, parent : Nat, result : Nat]
TryRows == [part : Nat, mode : Modes, parent : Nat, talk : Nat,
            status : {"PREPARING", "RUNNING", "DEFERRED", "CAPACITY", "LOST", "COMPLETED", "FAILED"}]
TalkRows == [part : Nat, try : Nat, told : Tellings, sdk : Nat]
AskedRows ==
  [kind : {"proposal", "question"}, part : Nat, talk : Nat, mode : {"RESUME", "FORK"},
   catalog : Catalogs \cup {NoCall}, refs : SUBSET (Catalogs \cup {NoCall}),
   status : {"none", "PENDING_APPROVAL", "APPROVED", "REJECTED"} \cup Ended,
   question : {"none", "OPEN", "RESPONDED", "EXPIRED"}, decision : {"none", "APPROVED", "REJECTED"},
   effect : {"none", "REQUESTED"} \cup Ended, unknown : BOOLEAN]
ContinuationRows ==
  /\ part \in Seq(PartRows) /\ try \in Seq(TryRows) /\ talk \in Seq(TalkRows) /\ asked \in Seq(AskedRows)
  /\ Len(part) \in 1..MaxParts /\ part[1] = First
  /\ seen \subseteq Catalogs /\ bound \in BOOLEAN
  /\ deferred \in Drafts \cup {NoDeferred}

\* What triggered segment n, and what it says of the request before it.
FollowsRequest(s, n, p) ==
  /\ s.of = n - 1 /\ s.parent = p.talk /\ s.mode = p.mode
  /\ \/ s.trigger = "APPROVAL_TIMEOUT" /\ p.status = "STALE" /\ p.question = "EXPIRED"
     \/ s.trigger = "APPROVAL_RESPONSE" /\ p.status = "REJECTED" /\ p.decision = "REJECTED"
     \/ /\ s.trigger = "APPROVAL_RESPONSE" /\ p.effect \in Ended /\ ~p.unknown
        /\ p.status = (IF p.effect = "VERIFICATION_FAILED" THEN "FAILED" ELSE p.effect)
        /\ (p.effect = "APPLIED") = (s.result = n - 1)
     \/ s.trigger = "INTERACTION_RESPONSE" /\ p.kind = "question" /\ p.question = "RESPONDED"
     \/ s.trigger = "INTERACTION_TIMEOUT"
PartsFollow ==
  /\ Len(asked) = Len(part) - 1 \/ Len(asked) = Len(part)
  /\ state = "WAITING" => Len(asked) = Len(part)
  /\ state \in {"QUEUED", "RUNNING", "RETRY_PENDING"} => Len(asked) = Len(part) - 1
  /\ \A n \in 2..Len(part) : FollowsRequest(part[n], n, asked[n - 1])

\* A request names the session that asked, and rests on what it cites.
AskedWhere ==
  \A i \in 1..Len(asked) :
    /\ asked[i].talk \in 1..Len(talk) /\ talk[asked[i].talk].part = i
    /\ asked[i].kind = "proposal" => asked[i].catalog \in asked[i].refs

\* Attempts and sessions name each other.
TriesKnow ==
  \A i \in 1..Len(try) :
    /\ try[i].part \in 1..Len(part) /\ try[i].talk \in 0..Len(talk)
    /\ try[i].status = "CAPACITY" => try[i].talk # 0
    /\ try[i].talk # 0 => talk[try[i].talk].part = try[i].part /\ talk[try[i].talk].try = i

\* A segment that resumes stays in the SDK session that asked; what was told stays true.
TalksKnow ==
  \A j \in 1..Len(talk) :
    /\ talk[j].part \in 1..Len(part)
    /\ part[talk[j].part].mode = "RESUME" => talk[j].sdk = talk[part[talk[j].part].parent].sdk
    /\ talk[j].told \notin {"nothing", "answered"} =>
         talk[j].part \in 2..Len(part) /\ Outcome(talk[j].part) = talk[j].told

\* The attempt that is at work, and what it was claimed with.
ClaimedFromPart(t) == t.mode = part[Here].mode /\ t.parent = part[Here].parent
ClaimedAgain(t) ==
  /\ t.mode = "RESUME" /\ Len(try) - 1 \in 1..Len(try)
  /\ LET before == try[Len(try) - 1] IN
     before.part = Here /\ before.status = "CAPACITY" /\ t.parent = before.talk
AttemptAtWork ==
  /\ state \in {"QUEUED", "RUNNING", "RETRY_PENDING", "WAITING", "FAILED", "DONE"}
  /\ state \in {"RUNNING", "RETRY_PENDING"} => Len(try) \in 1..Len(try) /\ Current.part = Here
  /\ state = "RUNNING" =>
       \/ Current.status = "RUNNING" /\ Current.talk # 0
       \/ /\ Current.status = "PREPARING" /\ Current.talk = 0
          /\ ClaimedFromPart(Current) \/ ClaimedAgain(Current)
  /\ deferred # NoDeferred => state = "RUNNING" /\ Current.status = "RUNNING"

ContinuationKept ==
  /\ ContinuationRows /\ PartsFollow /\ AskedWhere /\ TriesKnow /\ TalksKnow /\ AttemptAtWork

\* A sequence with one more member.
LEMMA AppendFacts ==
  ASSUME NEW S, NEW s \in Seq(S), NEW x \in S
  PROVE  /\ Append(s, x) \in Seq(S) /\ Len(Append(s, x)) = Len(s) + 1
         /\ Append(s, x)[Len(s) + 1] = x
         /\ \A i \in 1..Len(s) : Append(s, x)[i] = s[i]
         /\ Len(s) \in Nat /\ \A i \in 1..Len(s) : s[i] \in S
  OBVIOUS

\* A sequence with one member replaced.
LEMMA ReplaceFacts ==
  ASSUME NEW S, NEW s \in Seq(S), NEW k \in 1..Len(s), NEW x \in S
  PROVE  /\ [s EXCEPT ![k] = x] \in Seq(S) /\ Len([s EXCEPT ![k] = x]) = Len(s)
         /\ [s EXCEPT ![k] = x][k] = x
         /\ \A i \in 1..Len(s) : i # k => [s EXCEPT ![k] = x][i] = s[i]
  OBVIOUS

\* The rows of the sequences have their types.
LEMMA RowTypes ==
  ASSUME ContinuationKept
  PROVE  /\ Len(part) \in Nat /\ Len(try) \in Nat /\ Len(talk) \in Nat /\ Len(asked) \in Nat
         /\ Len(part) >= 1 /\ \A n \in 1..Len(part) : part[n] \in PartRows
         /\ \A i \in 1..Len(try) : try[i] \in TryRows
         /\ \A j \in 1..Len(talk) : talk[j] \in TalkRows
         /\ \A i \in 1..Len(asked) : asked[i] \in AskedRows
  BY DEF ContinuationKept, ContinuationRows

\* What the request before a segment came to is told, and is no error.
LEMMA OutcomeIsKnown ==
  ASSUME ContinuationKept, NEW n \in 2..Len(part),
         part[n].trigger \in {"APPROVAL_RESPONSE", "APPROVAL_TIMEOUT"}
  PROVE  Outcome(n) \in Tellings \ {"error", "nothing", "answered"}
  <1>. DEFINE p == asked[n - 1]
  <1>1. FollowsRequest(part[n], n, p) /\ part[n].of = n - 1
    BY DEF ContinuationKept, PartsFollow, FollowsRequest
  <1>. HIDE DEF p
  <1>2. asked[part[n].of] = p
    BY <1>1 DEF p
  <1>3. CASE part[n].trigger = "APPROVAL_TIMEOUT"
    BY <1>1, <1>2, <1>3 DEF FollowsRequest, Outcome, Tellings
  <1>4. CASE part[n].trigger = "APPROVAL_RESPONSE" /\ p.status = "REJECTED" /\ p.decision = "REJECTED"
    BY <1>1, <1>2, <1>4 DEF Outcome, Tellings
  <1>5. CASE /\ part[n].trigger = "APPROVAL_RESPONSE" /\ p.effect \in Ended /\ ~p.unknown
             /\ p.status = (IF p.effect = "VERIFICATION_FAILED" THEN "FAILED" ELSE p.effect)
             /\ (p.effect = "APPLIED") = (part[n].result = n - 1)
    <2>1. p.status # "REJECTED"
      BY <1>5 DEF Ended
    <2>2. Outcome(n) = p.effect
      BY <1>1, <1>2, <1>5, <2>1 DEF Outcome
    <2>. QED
      BY <1>5, <2>2 DEF Tellings, Ended
  <1>. QED
    BY <1>1, <1>3, <1>4, <1>5 DEF FollowsRequest

\* The lineage of the attempt about to start holds together, so the outcome it is told is the
\* one on record, in the SDK session it goes on with.
LEMMA LoadIsRight ==
  ASSUME ContinuationKept, state = "RUNNING", Current.status = "PREPARING"
  PROVE  /\ Load(Current) # "nothing" =>
              /\ Here \in 2..Len(part) /\ part[Here].mode = "RESUME" /\ Load(Current) = Outcome(Here)
              /\ Outcome(Here) \in Tellings \ {"error", "nothing", "answered"}
              /\ part[Here].of = Len(asked)
              /\ talk[asked[Len(asked)].talk].sdk = talk[Current.parent].sdk
         /\ LoadInteraction(Current) \in {"nothing", "answered"}
         /\ Current.mode = "RESUME" => Current.parent \in 1..Len(talk)
         /\ Current.mode = "RESUME" /\ part[Here].mode = "RESUME" =>
              talk[Current.parent].sdk = talk[part[Here].parent].sdk
  <1>. DEFINE t == Current
              n == Here
              k == Len(try)
              from == part[n].parent
  <1>1. /\ Len(part) \in Nat /\ Len(try) \in Nat /\ Len(talk) \in Nat /\ Len(asked) \in Nat
        /\ n = Len(part) /\ n >= 1 /\ n \in 1..Len(part) /\ part[n] \in PartRows
        /\ k \in 1..Len(try) /\ t = try[k] /\ t \in TryRows
    BY RowTypes DEF ContinuationKept, AttemptAtWork, Here, Current
  <1>2. /\ t.part = n /\ t.talk = 0
        /\ ClaimedFromPart(t) \/ ClaimedAgain(t)
        /\ part[1] = First /\ Len(asked) = n - 1
    BY <1>1 DEF ContinuationKept, AttemptAtWork, PartsFollow, ContinuationRows, Here
  <1>3. n >= 2 => /\ n \in 2..Len(part) /\ FollowsRequest(part[n], n, asked[n - 1]) /\ part[n].of = n - 1
                  /\ from = asked[n - 1].talk /\ from \in 1..Len(talk) /\ talk[from].part = n - 1
                  /\ from # 0 /\ n - 1 \in 1..Len(asked)
    <2>. SUFFICES ASSUME n >= 2
                  PROVE  /\ n \in 2..Len(part) /\ FollowsRequest(part[n], n, asked[n - 1]) /\ part[n].of = n - 1
                         /\ from = asked[n - 1].talk /\ from \in 1..Len(talk) /\ talk[from].part = n - 1
                         /\ from # 0 /\ n - 1 \in 1..Len(asked)
      OBVIOUS
    <2>1. n \in 2..Len(part) /\ n - 1 \in 1..Len(asked)
      BY <1>1, <1>2
    <2>2. FollowsRequest(part[n], n, asked[n - 1])
      BY <2>1 DEF ContinuationKept, PartsFollow
    <2>3. part[n].of = n - 1 /\ from = asked[n - 1].talk
      BY <2>2 DEF FollowsRequest
    <2>4. asked[n - 1].talk \in 1..Len(talk) /\ talk[asked[n - 1].talk].part = n - 1
      BY <2>1 DEF ContinuationKept, AskedWhere
    <2>. QED
      BY <1>1, <2>1, <2>2, <2>3, <2>4
  <1>4. n = 1 => part[n].mode = "INITIAL" /\ from = 0 /\ part[n].trigger = "INITIAL"
    BY <1>2 DEF First
  <1>. HIDE DEF n, k, t, from
  <1>5. CASE ClaimedFromPart(t)
    <2>1. t.mode = part[n].mode /\ t.parent = from
      BY <1>5 DEF ClaimedFromPart, n, from
    <2>2. n = 1 => Load(t) = "nothing" /\ LoadInteraction(t) = "nothing" /\ t.mode # "RESUME"
      BY <1>4, <2>1 DEF Load, LoadInteraction
    <2>3. ASSUME n >= 2
          PROVE  /\ LineageHolds(t)
                 /\ Load(t) \in {"nothing", Outcome(n)}
                 /\ LoadInteraction(t) \in {"nothing", "answered"}
                 /\ t.parent \in 1..Len(talk)
      <3>1. talk[t.parent].part # t.part
        BY <1>1, <1>2, <1>3, <2>1, <2>3
      <3>2. OriginalParent(t) = t.parent
        BY <3>1 DEF OriginalParent
      <3>3. LineageHolds(t)
        BY <1>2, <1>3, <2>1, <2>3, <3>2 DEF LineageHolds, n, from
      <3>4. Load(t) \in {"nothing", Outcome(n)}
        BY <1>2, <3>3 DEF Load
      <3>5. part[n].trigger = "INTERACTION_RESPONSE" =>
              /\ asked[n - 1].kind = "question" /\ asked[n - 1].question = "RESPONDED"
        BY <1>3, <2>3 DEF FollowsRequest
      <3>6. LoadInteraction(t) \in {"nothing", "answered"}
        BY <1>2, <1>3, <2>3, <3>5 DEF LoadInteraction, from
      <3>. QED
        BY <1>3, <2>1, <2>3, <3>3, <3>4, <3>6
    <2>. QED
      BY <1>1, <1>2, <1>3, <1>4, <2>1, <2>2, <2>3, OutcomeIsKnown DEF Load, n, t, k, from
  <1>6. CASE ClaimedAgain(t)
    <2>. DEFINE b == k - 1
    <2>1. /\ t.mode = "RESUME" /\ b \in 1..Len(try) /\ try[b].part = n /\ try[b].status = "CAPACITY"
          /\ t.parent = try[b].talk
      BY <1>6 DEF ClaimedAgain, n, k
    <2>2. /\ t.parent \in 1..Len(talk) /\ talk[t.parent].part = n /\ talk[t.parent].try = b
          /\ t.parent # 0
      <3>1. try[b].talk # 0 /\ try[b].talk \in 0..Len(talk)
        BY <2>1 DEF ContinuationKept, TriesKnow
      <3>2. talk[try[b].talk].part = try[b].part /\ talk[try[b].talk].try = b
        BY <2>1, <3>1 DEF ContinuationKept, TriesKnow
      <3>. QED
        BY <1>1, <2>1, <3>1, <3>2
    <2>3. OriginalParent(t) = from
      BY <1>2, <2>2 DEF OriginalParent, from, n
    <2>4. \A i \in TriesOf(n) : try[i].talk = t.parent => i = b
      <3>. SUFFICES ASSUME NEW i \in TriesOf(n), try[i].talk = t.parent PROVE i = b
        OBVIOUS
      <3>1. i \in 1..Len(try) /\ try[i].talk # 0
        BY <2>2 DEF TriesOf
      <3>2. talk[try[i].talk].try = i
        BY <3>1 DEF ContinuationKept, TriesKnow
      <3>. QED
        BY <2>2, <3>2
    <2>5. (CHOOSE i \in TriesOf(n) : try[i].talk = t.parent) = b
      <3>1. b \in TriesOf(n) /\ try[b].talk = t.parent
        BY <2>1 DEF TriesOf
      <3>. QED
        BY <2>4, <3>1
    <2>6. \A i \in TriesOf(n) : i > b => try[i] = t
      <3>. SUFFICES ASSUME NEW i \in TriesOf(n), i > b PROVE try[i] = t
        OBVIOUS
      <3>1. i \in 1..Len(try) /\ i \in Nat /\ k = Len(try)
        BY <1>1 DEF TriesOf, k
      <3>2. i = k
        BY <1>1, <3>1
      <3>. QED
        BY <1>1, <3>2
    <2>7. ASSUME n >= 2
          PROVE  LineageHolds(t)
      <3>1. part[t.part].parent = from /\ asked[part[t.part].of].talk = from
        BY <1>2, <1>3, <2>7 DEF n, from
      <3>. QED
        BY <1>2, <2>1, <2>3, <2>5, <2>6, <3>1 DEF LineageHolds
    <2>8. n >= 2 => Load(t) \in {"nothing", Outcome(n)}
      BY <1>2, <2>7 DEF Load
    <2>9. n = 1 => Load(t) = "nothing" /\ LoadInteraction(t) = "nothing"
      BY <1>2, <1>4 DEF Load, LoadInteraction
    <2>10. n >= 2 /\ part[n].trigger = "INTERACTION_RESPONSE" =>
             /\ asked[n - 1].kind = "question" /\ asked[n - 1].question = "RESPONDED"
      BY <1>3 DEF FollowsRequest
    <2>11. n >= 2 => LoadInteraction(t) \in {"nothing", "answered"}
      BY <1>2, <1>3, <2>10 DEF LoadInteraction, from
    <2>12. part[n].mode = "RESUME" => talk[t.parent].sdk = talk[from].sdk
      BY <2>2 DEF ContinuationKept, TalksKnow, from
    <2>13. Load(t) # "nothing" =>
             part[n].mode = "RESUME" /\ part[n].trigger \in {"APPROVAL_RESPONSE", "APPROVAL_TIMEOUT"}
      BY <1>2 DEF Load
    <2>. QED
      BY <1>1, <1>2, <1>3, <1>4, <2>1, <2>2, <2>8, <2>9, <2>11, <2>12, <2>13, OutcomeIsKnown
         DEF n, t, from
  <1>. QED
    BY <1>2, <1>5, <1>6 DEF t


\* What a segment was told by stays as it is while its rows do.
LEMMA OutcomeStays ==
  ASSUME NEW n, part'[n] = part[n], asked'[part[n].of] = asked[part[n].of]
  PROVE  Outcome(n)' = Outcome(n)
  BY DEF Outcome

\* A segment that resumes goes on from a session of the segment before it.
LEMMA ParentIsThere ==
  ASSUME ContinuationKept, NEW n \in 1..Len(part)
  PROVE  /\ part[n].mode = "RESUME" => n \in 2..Len(part) /\ part[n].parent \in 1..Len(talk)
         /\ n \in 2..Len(part) => part[n].of = n - 1 /\ n - 1 \in 1..Len(asked)
  <1>1. Len(part) \in Nat /\ Len(asked) \in Nat /\ part[1] = First
    BY RowTypes DEF ContinuationKept, ContinuationRows
  <1>2. part[n].mode = "RESUME" => n \in 2..Len(part)
    BY <1>1 DEF First
  <1>3. ASSUME n \in 2..Len(part)
        PROVE  part[n].of = n - 1 /\ part[n].parent \in 1..Len(talk) /\ n - 1 \in 1..Len(asked)
    <2>1. FollowsRequest(part[n], n, asked[n - 1]) /\ n - 1 \in 1..Len(asked)
      BY <1>1, <1>3 DEF ContinuationKept, PartsFollow
    <2>2. asked[n - 1].talk \in 1..Len(talk)
      BY <2>1 DEF ContinuationKept, AskedWhere
    <2>. QED
      BY <2>1, <2>2 DEF FollowsRequest
  <1>. QED
    BY <1>2, <1>3

\* While segments and requests stay, so does all that sessions were told.
LEMMA TalksStay ==
  ASSUME ContinuationKept, UNCHANGED talk,
         Len(part') \in Nat, Len(part) <= Len(part'),
         \A n \in 1..Len(part) : part'[n] = part[n],
         \A i \in 1..Len(part) - 1 : asked'[i] = asked[i]
  PROVE  TalksKnow'
  <1>1. ASSUME NEW n \in 1..Len(part)
        PROVE  /\ n \in 1..Len(part') /\ part'[n] = part[n]
               /\ n \in 2..Len(part) => Outcome(n)' = Outcome(n) /\ n \in 2..Len(part')
    <2>1. Len(part) \in Nat /\ n \in 1..Len(part') /\ part'[n] = part[n]
      BY <1>1, RowTypes
    <2>2. ASSUME n \in 2..Len(part)
          PROVE  Outcome(n)' = Outcome(n) /\ n \in 2..Len(part')
      <3>1. part[n].of = n - 1 /\ n - 1 \in 1..Len(part) - 1
        BY <2>1, <2>2, ParentIsThere
      <3>2. asked'[part[n].of] = asked[part[n].of]
        BY <3>1
      <3>. QED
        BY <2>1, <2>2, <3>2, OutcomeStays
    <2>. QED
      BY <2>1, <2>2
  <1>. SUFFICES ASSUME NEW j \in 1..Len(talk)
                PROVE  /\ talk[j].part \in 1..Len(part')
                       /\ part'[talk[j].part].mode = "RESUME" =>
                            talk[j].sdk = talk[part'[talk[j].part].parent].sdk
                       /\ talk[j].told \notin {"nothing", "answered"} =>
                            talk[j].part \in 2..Len(part') /\ Outcome(talk[j].part)' = talk[j].told
    BY DEF TalksKnow
  <1>2. PICK n \in 1..Len(part) : n = talk[j].part
    BY DEF ContinuationKept, TalksKnow
  <1>3. /\ part[n].mode = "RESUME" => talk[j].sdk = talk[part[n].parent].sdk
        /\ talk[j].told \notin {"nothing", "answered"} => n \in 2..Len(part) /\ Outcome(n) = talk[j].told
    BY <1>2 DEF ContinuationKept, TalksKnow
  <1>4. Outcome(talk[j].part)' = Outcome(n)'
    BY <1>2 DEF Outcome
  <1>. QED
    BY <1>1, <1>2, <1>3, <1>4

\* The attempt at work gets another status.
LEMMA AttemptMoves ==
  ASSUME ContinuationKept, state = "RUNNING", NEW new \in TryRows,
         try' = [try EXCEPT ![Len(try)] = new], UNCHANGED <<part, talk>>,
         new.part = Current.part, new.talk = Current.talk, new.status = "CAPACITY" => new.talk # 0
  PROVE  /\ TriesKnow' /\ try' \in Seq(TryRows) /\ Len(try') = Len(try)
         /\ try'[Len(try')] = new /\ Current' = new /\ Len(try) \in 1..Len(try)
  <1>1. Len(try) \in 1..Len(try) /\ try \in Seq(TryRows)
    BY DEF ContinuationKept, AttemptAtWork, ContinuationRows
  <1>2. /\ try' \in Seq(TryRows) /\ Len(try') = Len(try) /\ try'[Len(try)] = new
        /\ \A i \in 1..Len(try) : i # Len(try) => try'[i] = try[i]
    BY <1>1, ReplaceFacts
  <1>3. TriesKnow'
    <2>. SUFFICES ASSUME NEW i \in 1..Len(try)
                  PROVE  /\ try'[i].part \in 1..Len(part) /\ try'[i].talk \in 0..Len(talk)
                         /\ try'[i].status = "CAPACITY" => try'[i].talk # 0
                         /\ try'[i].talk # 0 => /\ talk[try'[i].talk].part = try'[i].part
                                                /\ talk[try'[i].talk].try = i
      BY <1>2 DEF TriesKnow
    <2>1. /\ try[i].part \in 1..Len(part) /\ try[i].talk \in 0..Len(talk)
          /\ try[i].status = "CAPACITY" => try[i].talk # 0
          /\ try[i].talk # 0 => talk[try[i].talk].part = try[i].part /\ talk[try[i].talk].try = i
      BY DEF ContinuationKept, TriesKnow
    <2>2. CASE i # Len(try)
      BY <1>2, <2>1, <2>2
    <2>3. CASE i = Len(try)
      BY <1>2, <2>1, <2>3 DEF Current
    <2>. QED
      BY <2>2, <2>3
  <1>. QED
    BY <1>1, <1>2, <1>3 DEF Current

\* The attempt at work ends, and its request, if it made one, is not recorded.
LEMMA AttemptEnds ==
  ASSUME ContinuationKept, state = "RUNNING",
         NEW status \in {"CAPACITY", "LOST", "COMPLETED", "FAILED"},
         try' = [try EXCEPT ![Len(try)].status = status],
         status = "CAPACITY" => Current.status = "RUNNING",
         UNCHANGED <<part, talk, asked, seen, bound>>, deferred' = NoDeferred,
         state' \in {"RETRY_PENDING", "FAILED", "DONE"}
  PROVE  ContinuationKept'
  <1>. DEFINE new == [Current EXCEPT !.status = status]
  <1>1. Current \in TryRows /\ Len(try) \in 1..Len(try)
    BY RowTypes DEF ContinuationKept, AttemptAtWork, Current
  <1>2. /\ new \in TryRows /\ new.part = Current.part /\ new.talk = Current.talk
        /\ new.status = status
    BY <1>1 DEF TryRows
  <1>3. try' = [try EXCEPT ![Len(try)] = new]
    BY <1>1 DEF Current
  <1>4. status = "CAPACITY" => new.talk # 0
    BY <1>2 DEF ContinuationKept, AttemptAtWork
  <1>. HIDE DEF new
  <1>5. /\ TriesKnow' /\ try' \in Seq(TryRows) /\ Len(try') = Len(try) /\ Current' = new
    BY <1>2, <1>3, <1>4, AttemptMoves
  <1>6. ContinuationRows'
    BY <1>5 DEF ContinuationKept, ContinuationRows
  <1>7. TalksKnow'
    BY RowTypes, TalksStay
  <1>8. PartsFollow' /\ AskedWhere'
    BY DEF ContinuationKept, PartsFollow, AskedWhere
  <1>9. AttemptAtWork'
    BY <1>1, <1>2, <1>5 DEF ContinuationKept, AttemptAtWork, Here
  <1>. QED
    BY <1>5, <1>6, <1>7, <1>8, <1>9 DEF ContinuationKept

\* The latest request settles: the Run waits on, stops, or goes on with a segment that
\* follows from what the request came to.
LEMMA RequestSettles ==
  ASSUME ContinuationKept, state = "WAITING", NEW p \in AskedRows,
         asked' = [asked EXCEPT ![Latest] = p],
         p.talk = asked[Latest].talk, p.kind = asked[Latest].kind,
         p.catalog = asked[Latest].catalog, p.refs = asked[Latest].refs,
         UNCHANGED <<try, talk, deferred, seen, bound>>,
         \/ UNCHANGED part /\ state' \in {"WAITING", "FAILED"}
         \/ /\ Here < MaxParts /\ state' = "QUEUED"
            /\ \E s \in PartRows :
                 part' = Append(part, s) /\ FollowsRequest(s, Here + 1, p)
  PROVE  ContinuationKept'
  <1>1. /\ Len(part) \in Nat /\ Len(asked) = Len(part) /\ Len(part) \in 1..Len(part)
        /\ asked \in Seq(AskedRows) /\ part \in Seq(PartRows) /\ Len(part) \in 1..MaxParts
        /\ part[1] = First /\ Latest = Len(part) /\ Latest \in 1..Len(asked) /\ Here = Len(part)
    BY RowTypes DEF ContinuationKept, ContinuationRows, PartsFollow, Latest, Here
  <1>2. /\ asked' \in Seq(AskedRows) /\ Len(asked') = Len(asked) /\ asked'[Latest] = p
        /\ \A i \in 1..Len(asked) : i # Latest => asked'[i] = asked[i]
    BY <1>1, ReplaceFacts
  <1>3. /\ part' \in Seq(PartRows) /\ Len(part') \in 1..MaxParts /\ Len(part) <= Len(part')
        /\ \A n \in 1..Len(part) : part'[n] = part[n]
        /\ \/ Len(part') = Len(part) /\ state' \in {"WAITING", "FAILED"}
           \/ /\ Len(part') = Len(part) + 1 /\ state' = "QUEUED"
              /\ FollowsRequest(part'[Len(part) + 1], Len(part) + 1, p)
    <2>1. CASE UNCHANGED part /\ state' \in {"WAITING", "FAILED"}
      BY <1>1, <2>1
    <2>2. CASE /\ Here < MaxParts /\ state' = "QUEUED"
               /\ \E s \in PartRows :
                    part' = Append(part, s) /\ FollowsRequest(s, Here + 1, p)
      <3>1. PICK s \in PartRows : part' = Append(part, s) /\ FollowsRequest(s, Here + 1, p)
        BY <2>2
      <3>2. /\ part' \in Seq(PartRows) /\ Len(part') = Len(part) + 1 /\ part'[Len(part) + 1] = s
            /\ \A n \in 1..Len(part) : part'[n] = part[n]
        BY <1>1, <3>1, AppendFacts
      <3>3. MaxParts \in Nat
        BY ContinuationAssumption
      <3>. QED
        BY <1>1, <2>2, <3>1, <3>2, <3>3
    <2>. QED
      BY <2>1, <2>2
  <1>4. ContinuationRows'
    <2>1. part'[1] = First
      BY <1>1, <1>3
    <2>. QED
      BY <1>2, <1>3, <2>1 DEF ContinuationKept, ContinuationRows
  <1>5. PartsFollow'
    <2>1. \A n \in 2..Len(part') : FollowsRequest(part'[n], n, asked'[n - 1])
      <3>. SUFFICES ASSUME NEW n \in 2..Len(part')
                    PROVE  FollowsRequest(part'[n], n, asked'[n - 1])
        OBVIOUS
      <3>1. CASE n \in 2..Len(part)
        <4>1. n - 1 \in 1..Len(asked) /\ n - 1 # Latest /\ n \in 1..Len(part)
          BY <1>1, <3>1
        <4>2. FollowsRequest(part[n], n, asked[n - 1])
          BY <3>1 DEF ContinuationKept, PartsFollow
        <4>. QED
          BY <1>2, <1>3, <4>1, <4>2
      <3>2. CASE n \notin 2..Len(part)
        <4>1. n = Len(part) + 1 /\ n - 1 = Latest
          BY <1>1, <1>3, <3>2
        <4>. QED
          BY <1>1, <1>2, <1>3, <4>1
      <3>. QED
        BY <3>1, <3>2
    <2>. QED
      BY <1>1, <1>2, <1>3, <2>1 DEF PartsFollow
  <1>6. AskedWhere'
    <2>. SUFFICES ASSUME NEW i \in 1..Len(asked)
                  PROVE  /\ asked'[i].talk \in 1..Len(talk) /\ talk[asked'[i].talk].part = i
                         /\ asked'[i].kind = "proposal" => asked'[i].catalog \in asked'[i].refs
      BY <1>2 DEF AskedWhere
    <2>1. /\ asked[i].talk \in 1..Len(talk) /\ talk[asked[i].talk].part = i
          /\ asked[i].kind = "proposal" => asked[i].catalog \in asked[i].refs
      BY DEF ContinuationKept, AskedWhere
    <2>2. /\ asked'[i].talk = asked[i].talk /\ asked'[i].kind = asked[i].kind
          /\ asked'[i].catalog = asked[i].catalog /\ asked'[i].refs = asked[i].refs
      BY <1>2
    <2>. QED
      BY <2>1, <2>2
  <1>7. TriesKnow'
    BY <1>1, <1>3 DEF ContinuationKept, TriesKnow
  <1>8. TalksKnow'
    <2>1. \A i \in 1..Len(part) - 1 : asked'[i] = asked[i]
      BY <1>1, <1>2
    <2>2. Len(part') \in Nat
      BY <1>3
    <2>. QED
      BY <1>3, <2>1, <2>2, TalksStay
  <1>9. AttemptAtWork'
    BY <1>3 DEF ContinuationKept, AttemptAtWork
  <1>. QED
    BY <1>4, <1>5, <1>6, <1>7, <1>8, <1>9 DEF ContinuationKept


\* A segment that follows a request, part by part.
LEMMA FollowsOf ==
  ASSUME NEW s, NEW p, NEW n \in Nat, s.of = n, s.parent = p.talk, s.mode = p.mode
  PROVE  /\ s.trigger = "APPROVAL_TIMEOUT" /\ p.status = "STALE" /\ p.question = "EXPIRED" =>
              FollowsRequest(s, n + 1, p)
         /\ s.trigger = "APPROVAL_RESPONSE" /\ p.status = "REJECTED" /\ p.decision = "REJECTED" =>
              FollowsRequest(s, n + 1, p)
         /\ ( /\ s.trigger = "APPROVAL_RESPONSE" /\ p.effect \in Ended /\ p.unknown = FALSE
              /\ p.effect = "VERIFICATION_FAILED" => p.status = "FAILED"
              /\ p.effect # "VERIFICATION_FAILED" => p.status = p.effect
              /\ p.effect = "APPLIED" => s.result = n
              /\ p.effect # "APPLIED" => s.result # n ) => FollowsRequest(s, n + 1, p)
         /\ s.trigger = "INTERACTION_RESPONSE" /\ p.kind = "question" /\ p.question = "RESPONDED" =>
              FollowsRequest(s, n + 1, p)
         /\ s.trigger = "INTERACTION_TIMEOUT" => FollowsRequest(s, n + 1, p)
  <1>1. n + 1 - 1 = n
    OBVIOUS
  <1>. QED
    BY <1>1 DEF FollowsRequest

\* The segment that follows the latest request.
LEMMA NextPartFollows ==
  ASSUME ContinuationKept, state = "WAITING", NEW trigger \in Triggers, NEW applied \in BOOLEAN,
         NextPart(trigger, applied)
  PROVE  /\ Latest = Here /\ Latest \in 1..Len(asked) /\ asked[Latest] \in AskedRows /\ state' = "QUEUED"
         /\ \E s \in PartRows :
              /\ part' = Append(part, s) /\ s.of = Latest /\ s.trigger = trigger
              /\ s.mode = asked[Latest].mode /\ s.parent = asked[Latest].talk
              /\ applied => s.result = Latest
              /\ ~applied => s.result = 0
  <1>. DEFINE s == [trigger |-> trigger, of |-> Latest, mode |-> asked[Latest].mode,
                    parent |-> asked[Latest].talk, result |-> IF applied THEN Latest ELSE 0]
  <1>1. Latest = Here /\ Latest \in 1..Len(asked) /\ asked[Latest] \in AskedRows /\ Latest \in Nat
    BY RowTypes DEF ContinuationKept, PartsFollow, Latest, Here
  <1>2. s \in PartRows
    <2>1. asked[Latest].mode \in Modes /\ asked[Latest].talk \in Nat
      BY <1>1 DEF AskedRows, Modes
    <2>2. (IF applied THEN Latest ELSE 0) \in Nat
      BY <1>1
    <2>. QED
      BY <1>1, <2>1, <2>2 DEF PartRows
  <1>3. /\ s.of = Latest /\ s.trigger = trigger
        /\ s.mode = asked[Latest].mode /\ s.parent = asked[Latest].talk
        /\ applied => s.result = Latest
        /\ ~applied => s.result = 0
    OBVIOUS
  <1>4. part' = Append(part, s) /\ state' = "QUEUED"
    BY DEF NextPart
  <1>. HIDE DEF s
  <1>. QED
    BY <1>1, <1>2, <1>3, <1>4

\* decide_change_proposal refuses.
LEMMA RejectKeeps ==
  ASSUME ContinuationKept, Reject
  PROVE  ContinuationKept'
  <1>. DEFINE q == asked[Latest]
              p == [q EXCEPT !.status = "REJECTED", !.decision = "REJECTED", !.question = "RESPONDED"]
  <1>1. state = "WAITING" /\ Here < MaxParts /\ NextPart("APPROVAL_RESPONSE", FALSE)
    BY DEF Reject, Waiting
  <1>2. "APPROVAL_RESPONSE" \in Triggers
    BY DEF Triggers
  <1>3. /\ Latest = Here /\ Latest \in 1..Len(asked) /\ q \in AskedRows /\ state' = "QUEUED"
        /\ \E s \in PartRows :
             /\ part' = Append(part, s) /\ s.of = Latest /\ s.trigger = "APPROVAL_RESPONSE"
             /\ s.mode = q.mode /\ s.parent = q.talk
    BY <1>1, <1>2, NextPartFollows
  <1>4. /\ p \in AskedRows /\ p.talk = q.talk /\ p.kind = q.kind /\ p.catalog = q.catalog
        /\ p.refs = q.refs /\ p.mode = q.mode /\ p.status = "REJECTED" /\ p.decision = "REJECTED"
    BY <1>3 DEF AskedRows
  <1>5. asked' = [asked EXCEPT ![Latest] = p]
    BY DEF Reject
  <1>6. UNCHANGED <<try, talk, deferred, seen, bound>>
    BY DEF Reject
  <1>. HIDE DEF p
  <1>7. \E s \in PartRows : part' = Append(part, s) /\ FollowsRequest(s, Here + 1, p)
    <2>1. PICK s \in PartRows :
             /\ part' = Append(part, s) /\ s.of = Latest /\ s.trigger = "APPROVAL_RESPONSE"
             /\ s.mode = q.mode /\ s.parent = q.talk
      BY <1>3
    <2>2. s.of = Here /\ Here \in Nat
      BY <1>3, <2>1, RowTypes DEF Here
    <2>3. FollowsRequest(s, Here + 1, p)
      BY <1>4, <2>1, <2>2, FollowsOf
    <2>. QED
      BY <2>1, <2>3
  <1>. QED
    BY <1>1, <1>3, <1>4, <1>5, <1>6, <1>7, RequestSettles

\* decide_change_proposal agrees; the Run waits for the write.
LEMMA ApproveKeeps ==
  ASSUME ContinuationKept, Approve
  PROVE  ContinuationKept'
  <1>. DEFINE q == asked[Latest]
              p == [q EXCEPT !.status = "APPROVED", !.decision = "APPROVED",
                             !.question = "RESPONDED", !.effect = "REQUESTED"]
  <1>1. state = "WAITING"
    BY DEF Approve, Waiting
  <1>2. q \in AskedRows
    BY <1>1, RowTypes DEF ContinuationKept, PartsFollow, Latest
  <1>3. /\ p \in AskedRows /\ p.talk = q.talk /\ p.kind = q.kind /\ p.catalog = q.catalog
        /\ p.refs = q.refs
    BY <1>2 DEF AskedRows
  <1>4. asked' = [asked EXCEPT ![Latest] = p] /\ UNCHANGED <<state, part, try, talk, deferred, seen, bound>>
    BY DEF Approve
  <1>. HIDE DEF p
  <1>. QED
    BY <1>1, <1>3, <1>4, RequestSettles

\* _expire_pending_proposal.
LEMMA ExpireKeeps ==
  ASSUME ContinuationKept, ExpireProposal
  PROVE  ContinuationKept'
  <1>. DEFINE q == asked[Latest]
              p == [q EXCEPT !.status = "STALE", !.question = "EXPIRED"]
  <1>1. state = "WAITING" /\ Here < MaxParts /\ NextPart("APPROVAL_TIMEOUT", FALSE)
    BY DEF ExpireProposal, Waiting
  <1>2. "APPROVAL_TIMEOUT" \in Triggers
    BY DEF Triggers
  <1>3. /\ Latest = Here /\ Latest \in 1..Len(asked) /\ q \in AskedRows /\ state' = "QUEUED"
        /\ \E s \in PartRows :
             /\ part' = Append(part, s) /\ s.of = Latest /\ s.trigger = "APPROVAL_TIMEOUT"
             /\ s.mode = q.mode /\ s.parent = q.talk
    BY <1>1, <1>2, NextPartFollows
  <1>4. /\ p \in AskedRows /\ p.talk = q.talk /\ p.kind = q.kind /\ p.catalog = q.catalog
        /\ p.refs = q.refs /\ p.mode = q.mode /\ p.status = "STALE" /\ p.question = "EXPIRED"
    <2>1. "STALE" \in {"none", "PENDING_APPROVAL", "APPROVED", "REJECTED"} \cup Ended
      BY DEF Ended
    <2>. QED
      BY <1>3, <2>1 DEF AskedRows
  <1>5. asked' = [asked EXCEPT ![Latest] = p]
    BY DEF ExpireProposal
  <1>6. UNCHANGED <<try, talk, deferred, seen, bound>>
    BY DEF ExpireProposal
  <1>. HIDE DEF p
  <1>7. \E s \in PartRows : part' = Append(part, s) /\ FollowsRequest(s, Here + 1, p)
    <2>1. PICK s \in PartRows :
             /\ part' = Append(part, s) /\ s.of = Latest /\ s.trigger = "APPROVAL_TIMEOUT"
             /\ s.mode = q.mode /\ s.parent = q.talk
      BY <1>3
    <2>2. s.of = Here /\ Here \in Nat
      BY <1>3, <2>1, RowTypes DEF Here
    <2>3. FollowsRequest(s, Here + 1, p)
      BY <1>4, <2>1, <2>2, FollowsOf
    <2>. QED
      BY <2>1, <2>3
  <1>. QED
    BY <1>1, <1>3, <1>4, <1>5, <1>6, <1>7, RequestSettles

\* The write ends; a result nobody knows stops the Run.
LEMMA EffectEnds ==
  ASSUME ContinuationKept, NEW ended \in Ended, NEW unknown \in BOOLEAN, EndEffect(ended, unknown)
  PROVE  ContinuationKept'
  <1>. DEFINE q == asked[Latest]
              status == IF ended = "VERIFICATION_FAILED" THEN "FAILED" ELSE ended
              p == [q EXCEPT !.effect = ended, !.unknown = unknown, !.status = status]
              applied == ended = "APPLIED"
  <1>1. state = "WAITING" /\ Here < MaxParts
    BY DEF EndEffect, Waiting
  <1>2. q \in AskedRows /\ Latest \in Nat /\ Latest >= 1 /\ Latest = Here
    BY <1>1, RowTypes DEF ContinuationKept, PartsFollow, Latest, Here
  <1>3. status \in Ended
    BY DEF Ended
  <1>4. asked' = [asked EXCEPT ![Latest] = p] /\ UNCHANGED <<try, talk, deferred, seen, bound>>
    BY DEF EndEffect
  <1>5. \/ ~unknown /\ NextPart("APPROVAL_RESPONSE", applied)
        \/ state' = "FAILED" /\ UNCHANGED part
    BY DEF EndEffect, StopsIfUnknown
  <1>. HIDE DEF status
  <1>6. /\ p \in AskedRows /\ p.talk = q.talk /\ p.kind = q.kind /\ p.catalog = q.catalog
        /\ p.refs = q.refs /\ p.mode = q.mode /\ p.effect = ended /\ p.unknown = unknown
        /\ p.status = status
    BY <1>2, <1>3 DEF AskedRows
  <1>. HIDE DEF p
  <1>7. CASE ~unknown /\ NextPart("APPROVAL_RESPONSE", applied)
    <2>1. "APPROVAL_RESPONSE" \in Triggers /\ applied \in BOOLEAN
      BY DEF Triggers
    <2>2. PICK s \in PartRows :
             /\ part' = Append(part, s) /\ s.of = Latest /\ s.trigger = "APPROVAL_RESPONSE"
             /\ s.mode = q.mode /\ s.parent = q.talk
             /\ applied => s.result = Latest
             /\ ~applied => s.result = 0
      BY <1>1, <1>7, <2>1, NextPartFollows
    <2>3. /\ s.of = Here /\ Here \in Nat
          /\ ended = "APPLIED" => s.result = Here
          /\ ended # "APPLIED" => s.result # Here
          /\ ended = "VERIFICATION_FAILED" => status = "FAILED"
          /\ ended # "VERIFICATION_FAILED" => status = ended
      BY <1>2, <2>2 DEF status
    <2>4. FollowsRequest(s, Here + 1, p)
      BY <1>6, <1>7, <2>2, <2>3, FollowsOf
    <2>5. state' = "QUEUED"
      BY <1>7 DEF NextPart
    <2>. QED
      BY <1>1, <1>4, <1>6, <2>2, <2>4, <2>5, RequestSettles
  <1>8. CASE state' = "FAILED" /\ UNCHANGED part
    BY <1>1, <1>4, <1>6, <1>8, RequestSettles
  <1>. QED
    BY <1>5, <1>7, <1>8

\* A question is answered, or its time is over.
LEMMA QuestionEnds ==
  ASSUME ContinuationKept, NEW answer \in BOOLEAN, EndQuestion(answer)
  PROVE  ContinuationKept'
  <1>. DEFINE q == asked[Latest]
              told == IF answer THEN "RESPONDED" ELSE "EXPIRED"
              trigger == IF answer THEN "INTERACTION_RESPONSE" ELSE "INTERACTION_TIMEOUT"
              p == [q EXCEPT !.question = told]
  <1>1. state = "WAITING" /\ Here < MaxParts /\ NextPart(trigger, FALSE) /\ q.kind = "question"
    BY DEF EndQuestion, Waiting
  <1>2. trigger \in Triggers
    BY DEF Triggers
  <1>3. /\ told \in {"RESPONDED", "EXPIRED"}
        /\ \/ trigger = "INTERACTION_RESPONSE" /\ told = "RESPONDED"
           \/ trigger = "INTERACTION_TIMEOUT"
    OBVIOUS
  <1>4. asked' = [asked EXCEPT ![Latest] = p] /\ UNCHANGED <<try, talk, deferred, seen, bound>>
    BY DEF EndQuestion
  <1>. HIDE DEF told, trigger
  <1>5. /\ Latest = Here /\ Latest \in 1..Len(asked) /\ q \in AskedRows /\ state' = "QUEUED"
        /\ \E s \in PartRows :
             /\ part' = Append(part, s) /\ s.of = Latest /\ s.trigger = trigger
             /\ s.mode = q.mode /\ s.parent = q.talk
    BY <1>1, <1>2, NextPartFollows
  <1>6. /\ p \in AskedRows /\ p.talk = q.talk /\ p.kind = q.kind /\ p.catalog = q.catalog
        /\ p.refs = q.refs /\ p.mode = q.mode /\ p.question = told
    BY <1>3, <1>5 DEF AskedRows
  <1>. HIDE DEF p
  <1>7. \E s \in PartRows : part' = Append(part, s) /\ FollowsRequest(s, Here + 1, p)
    <2>1. PICK s \in PartRows :
             /\ part' = Append(part, s) /\ s.of = Latest /\ s.trigger = trigger
             /\ s.mode = q.mode /\ s.parent = q.talk
      BY <1>5
    <2>2. s.of = Here /\ Here \in Nat
      BY <1>5, <2>1, RowTypes DEF Here
    <2>3. FollowsRequest(s, Here + 1, p)
      BY <1>1, <1>3, <1>6, <2>1, <2>2, FollowsOf
    <2>. QED
      BY <2>1, <2>3
  <1>. QED
    BY <1>1, <1>4, <1>5, <1>6, <1>7, RequestSettles


\* claim: an attempt resumes the parent of its segment, or the session that met no capacity.
LEMMA ClaimKeeps ==
  ASSUME ContinuationKept, Claim
  PROVE  ContinuationKept'
  <1>. DEFINE again == state = "RETRY_PENDING" /\ Current.status = "CAPACITY"
              added == [part |-> Here, status |-> "PREPARING",
                        mode |-> IF again THEN "RESUME" ELSE part[Here].mode,
                        parent |-> IF again THEN Current.talk ELSE part[Here].parent,
                        talk |-> 0]
  <1>1. /\ state \in {"QUEUED", "RETRY_PENDING"} /\ try' = Append(try, added) /\ state' = "RUNNING"
        /\ UNCHANGED <<part, talk, asked, deferred, seen, bound>>
    BY DEF Claim
  <1>2. /\ Len(part) \in Nat /\ Len(try) \in Nat /\ Len(talk) \in Nat /\ Here = Len(part)
        /\ Here \in 1..Len(part) /\ part[Here] \in PartRows /\ try \in Seq(TryRows)
        /\ again => /\ Len(try) \in 1..Len(try) /\ Current = try[Len(try)] /\ Current \in TryRows
                    /\ Current.part = Here
    BY RowTypes DEF ContinuationKept, AttemptAtWork, ContinuationRows, Here, Current
  <1>3. PICK mode \in Modes, parent \in Nat :
          /\ added = [part |-> Here, status |-> "PREPARING", mode |-> mode, parent |-> parent, talk |-> 0]
          /\ again => mode = "RESUME" /\ parent = Current.talk
          /\ ~again => mode = part[Here].mode /\ parent = part[Here].parent
    <2>1. CASE again
      BY <1>2, <2>1 DEF Modes, TryRows
    <2>2. CASE ~again
      BY <1>2, <2>2 DEF PartRows
    <2>. QED
      BY <2>1, <2>2
  <1>4. PICK t \in TryRows :
          /\ t = added /\ t.part = Here /\ t.status = "PREPARING" /\ t.mode = mode
          /\ t.parent = parent /\ t.talk = 0
    BY <1>2, <1>3 DEF TryRows
  <1>. HIDE DEF added
  <1>5. /\ try' \in Seq(TryRows) /\ Len(try') = Len(try) + 1 /\ try'[Len(try) + 1] = t
        /\ \A i \in 1..Len(try) : try'[i] = try[i]
    BY <1>1, <1>2, <1>4, AppendFacts
  <1>6. ContinuationRows' /\ PartsFollow' /\ AskedWhere'
    BY <1>1, <1>5 DEF ContinuationKept, ContinuationRows, PartsFollow, AskedWhere
  <1>7. TriesKnow'
    <2>. SUFFICES ASSUME NEW i \in 1..Len(try) + 1
                  PROVE  /\ try'[i].part \in 1..Len(part) /\ try'[i].talk \in 0..Len(talk)
                         /\ try'[i].status = "CAPACITY" => try'[i].talk # 0
                         /\ try'[i].talk # 0 => /\ talk[try'[i].talk].part = try'[i].part
                                                /\ talk[try'[i].talk].try = i
      BY <1>1, <1>5 DEF TriesKnow
    <2>1. CASE i \in 1..Len(try)
      <3>1. /\ try[i].part \in 1..Len(part) /\ try[i].talk \in 0..Len(talk)
            /\ try[i].status = "CAPACITY" => try[i].talk # 0
            /\ try[i].talk # 0 => talk[try[i].talk].part = try[i].part /\ talk[try[i].talk].try = i
        BY <2>1 DEF ContinuationKept, TriesKnow
      <3>. QED
        BY <1>5, <2>1, <3>1
    <2>2. CASE i = Len(try) + 1
      BY <1>2, <1>4, <1>5, <2>2
    <2>. QED
      BY <1>2, <2>1, <2>2
  <1>8. TalksKnow'
    BY <1>1, RowTypes, TalksStay
  <1>9. AttemptAtWork'
    <2>1. Len(try') \in 1..Len(try') /\ Current' = t /\ Here' = Here
      BY <1>1, <1>2, <1>5 DEF Current, Here
    <2>2. deferred' = NoDeferred
      BY <1>1 DEF ContinuationKept, AttemptAtWork
    <2>3. \/ Current'.mode = part'[Here'].mode /\ Current'.parent = part'[Here'].parent
          \/ /\ Current'.mode = "RESUME" /\ Len(try') - 1 \in 1..Len(try')
             /\ try'[Len(try') - 1].part = Here' /\ try'[Len(try') - 1].status = "CAPACITY"
             /\ Current'.parent = try'[Len(try') - 1].talk
      <3>1. CASE again
        <4>1. Len(try') - 1 = Len(try) /\ Len(try') - 1 \in 1..Len(try')
          BY <1>2, <1>5, <3>1
        <4>2. try'[Len(try') - 1] = Current
          BY <1>2, <1>5, <3>1, <4>1
        <4>. QED
          BY <1>2, <1>3, <1>4, <2>1, <3>1, <4>1, <4>2
      <3>2. CASE ~again
        BY <1>1, <1>3, <1>4, <2>1, <3>2
      <3>. QED
        BY <3>1, <3>2
    <2>4. (ClaimedFromPart(Current) \/ ClaimedAgain(Current))'
      BY <2>3 DEF ClaimedFromPart, ClaimedAgain
    <2>. QED
      BY <1>1, <1>4, <2>1, <2>2, <2>4 DEF AttemptAtWork
  <1>. QED
    BY <1>6, <1>7, <1>8, <1>9 DEF ContinuationKept

\* The engine starts: the session is told what its segment follows.
LEMMA StartKeeps ==
  ASSUME ContinuationKept, StartSession
  PROVE  ContinuationKept'
  <1>. DEFINE k == Len(try)
              m == Len(talk) + 1
              sdk == IF Current.mode = "RESUME" THEN talk[Current.parent].sdk ELSE Len(talk) + 1
              added == [part |-> Here, try |-> Len(try), told |-> Told(Current), sdk |-> sdk]
              new == [Current EXCEPT !.status = "RUNNING", !.talk = m]
  <1>1. /\ state = "RUNNING" /\ Current.status = "PREPARING" /\ talk' = Append(talk, added)
        /\ try' = [try EXCEPT ![Len(try)].status = "RUNNING", ![Len(try)].talk = Len(talk) + 1]
        /\ UNCHANGED <<state, part, asked, deferred, seen, bound>>
    BY DEF StartSession
  <1>2. /\ Len(part) \in Nat /\ Len(try) \in Nat /\ Len(talk) \in Nat /\ Len(asked) \in Nat
        /\ Here = Len(part) /\ Here \in 1..Len(part) /\ Here \in Nat
        /\ try \in Seq(TryRows) /\ talk \in Seq(TalkRows)
        /\ k \in 1..Len(try) /\ Current = try[k] /\ Current \in TryRows /\ Current.part = Here
    BY <1>1, RowTypes DEF ContinuationKept, AttemptAtWork, ContinuationRows, Here, Current
  <1>3. /\ new \in TryRows /\ new.part = Here /\ new.talk = m /\ new.status = "RUNNING"
    <2>1. m \in Nat
      BY <1>2
    <2>. HIDE DEF m
    <2>2. new \in TryRows
      BY <1>2, <2>1 DEF TryRows
    <2>3. new.part = Here /\ new.talk = m /\ new.status = "RUNNING"
      BY <1>2 DEF TryRows
    <2>. QED
      BY <2>2, <2>3
  <1>4. try' = [try EXCEPT ![k] = new]
    BY <1>1, <1>2
  <1>. HIDE DEF new
  <1>5. /\ try' \in Seq(TryRows) /\ Len(try') = Len(try) /\ try'[k] = new
        /\ \A i \in 1..Len(try) : i # k => try'[i] = try[i]
    BY <1>2, <1>3, <1>4, ReplaceFacts
  <1>6. sdk \in Nat /\ (part[Here].mode = "RESUME" => sdk = talk[part[Here].parent].sdk)
    <2>1. Current.mode = "RESUME" => Current.parent \in 1..Len(talk)
      BY <1>1, LoadIsRight
    <2>2. part[Here].mode = "RESUME" => Current.mode = "RESUME"
      BY <1>1 DEF ContinuationKept, AttemptAtWork, ClaimedFromPart, ClaimedAgain
    <2>3. Current.mode = "RESUME" => talk[Current.parent].sdk \in Nat
      BY <2>1, RowTypes DEF TalkRows
    <2>. QED
      BY <1>1, <1>2, <2>2, <2>3, LoadIsRight
  <1>7. /\ Told(Current) \in Tellings
        /\ Told(Current) \notin {"nothing", "answered"} =>
             Here \in 2..Len(part) /\ Outcome(Here) = Told(Current)
    <2>1. CASE Load(Current) = "nothing"
      BY <1>1, <2>1, LoadIsRight DEF Told, Tellings
    <2>2. CASE Load(Current) # "nothing"
      BY <1>1, <2>2, LoadIsRight DEF Told
    <2>. QED
      BY <2>1, <2>2
  <1>8. PICK s \in TalkRows :
          /\ s = added /\ s.part = Here /\ s.try = k /\ s.told = Told(Current) /\ s.sdk = sdk
    <2>1. Len(try) \in Nat /\ Here \in Nat
      BY <1>2
    <2>. HIDE DEF sdk
    <2>2. added \in TalkRows
      BY <1>6, <1>7, <2>1 DEF TalkRows
    <2>3. added.part = Here /\ added.try = k /\ added.told = Told(Current) /\ added.sdk = sdk
      OBVIOUS
    <2>. QED
      BY <2>2, <2>3
  <1>. HIDE DEF added, sdk
  <1>9. /\ talk' \in Seq(TalkRows) /\ Len(talk') = m /\ talk'[m] = s
        /\ \A j \in 1..Len(talk) : talk'[j] = talk[j]
    BY <1>1, <1>2, <1>8, AppendFacts
  <1>10. ContinuationRows' /\ PartsFollow'
    BY <1>1, <1>5, <1>9 DEF ContinuationKept, ContinuationRows, PartsFollow
  <1>11. AskedWhere'
    <2>. SUFFICES ASSUME NEW i \in 1..Len(asked)
                  PROVE  /\ asked[i].talk \in 1..Len(talk') /\ talk'[asked[i].talk].part = i
                         /\ asked[i].kind = "proposal" => asked[i].catalog \in asked[i].refs
      BY <1>1 DEF AskedWhere
    <2>1. /\ asked[i].talk \in 1..Len(talk) /\ talk[asked[i].talk].part = i
          /\ asked[i].kind = "proposal" => asked[i].catalog \in asked[i].refs
      BY DEF ContinuationKept, AskedWhere
    <2>. QED
      BY <1>2, <1>9, <2>1
  <1>12. TriesKnow'
    <2>. SUFFICES ASSUME NEW i \in 1..Len(try)
                  PROVE  /\ try'[i].part \in 1..Len(part) /\ try'[i].talk \in 0..Len(talk')
                         /\ try'[i].status = "CAPACITY" => try'[i].talk # 0
                         /\ try'[i].talk # 0 => /\ talk'[try'[i].talk].part = try'[i].part
                                                /\ talk'[try'[i].talk].try = i
      BY <1>1, <1>5 DEF TriesKnow
    <2>1. CASE i # k
      <3>1. /\ try[i].part \in 1..Len(part) /\ try[i].talk \in 0..Len(talk)
            /\ try[i].status = "CAPACITY" => try[i].talk # 0
            /\ try[i].talk # 0 => talk[try[i].talk].part = try[i].part /\ talk[try[i].talk].try = i
        BY DEF ContinuationKept, TriesKnow
      <3>2. try[i].talk \in 0..Len(talk') /\ (try[i].talk # 0 => try[i].talk \in 1..Len(talk))
        BY <1>2, <1>9, <3>1
      <3>. QED
        BY <1>5, <1>9, <2>1, <3>1, <3>2
    <2>2. CASE i = k
      <3>1. m \in 0..Len(talk')
        BY <1>2, <1>9
      <3>. QED
        BY <1>2, <1>3, <1>5, <1>8, <1>9, <2>2, <3>1
    <2>. QED
      BY <2>1, <2>2
  <1>13. TalksKnow'
    <2>0. \A n \in 1..Len(part) : Outcome(n)' = Outcome(n)
      BY <1>1, OutcomeStays
    <2>1. \A n \in 1..Len(part) :
            part[n].mode = "RESUME" => talk'[part[n].parent].sdk = talk[part[n].parent].sdk
      BY <1>9, ParentIsThere
    <2>. SUFFICES ASSUME NEW j \in 1..Len(talk) + 1
                  PROVE  /\ talk'[j].part \in 1..Len(part)
                         /\ part[talk'[j].part].mode = "RESUME" =>
                              talk'[j].sdk = talk'[part[talk'[j].part].parent].sdk
                         /\ talk'[j].told \notin {"nothing", "answered"} =>
                              talk'[j].part \in 2..Len(part) /\ Outcome(talk[j].part)' = talk'[j].told
      BY <1>1, <1>9 DEF TalksKnow
    <2>2. PICK n \in 1..Len(part) :
            /\ n = talk'[j].part
            /\ part[n].mode = "RESUME" => talk'[j].sdk = talk[part[n].parent].sdk
            /\ talk'[j].told \notin {"nothing", "answered"} =>
                 n \in 2..Len(part) /\ Outcome(n) = talk'[j].told
      <3>1. CASE j \in 1..Len(talk)
        BY <1>9, <3>1 DEF ContinuationKept, TalksKnow
      <3>2. CASE j = Len(talk) + 1
        BY <1>2, <1>6, <1>7, <1>8, <1>9, <3>2
      <3>. QED
        BY <1>2, <3>1, <3>2
    <2>3. Outcome(talk[j].part)' = Outcome(n)'
      BY <2>2 DEF Outcome
    <2>. QED
      BY <2>0, <2>1, <2>2, <2>3
  <1>14. AttemptAtWork'
    <2>1. Current' = new /\ Here' = Here
      BY <1>1, <1>5 DEF Current, Here
    <2>2. deferred = NoDeferred
      BY <1>1 DEF ContinuationKept, AttemptAtWork
    <2>3. m # 0
      BY <1>2
    <2>. QED
      BY <1>1, <1>2, <1>3, <1>5, <2>1, <2>2, <2>3 DEF AttemptAtWork
  <1>. QED
    BY <1>10, <1>11, <1>12, <1>13, <1>14 DEF ContinuationKept

\* suspend_for_proposal and suspend_for_interaction: the request is recorded.
LEMMA SuspendKeeps ==
  ASSUME ContinuationKept, NEW approved \in BOOLEAN, Suspend(approved)
  PROVE  ContinuationKept'
  <1>. DEFINE d == deferred
              new == [Current EXCEPT !.status = "DEFERRED"]
  <1>1. /\ state = "RUNNING" /\ d # NoDeferred /\ state' = "WAITING" /\ deferred' = NoDeferred
        /\ asked' = Append(asked, Row(d, approved)) /\ UNCHANGED <<part, talk, seen, bound>>
        /\ try' = [try EXCEPT ![Len(try)].status = "DEFERRED"]
    BY DEF Suspend
  <1>2. /\ d \in Drafts /\ Current.status = "RUNNING" /\ Current.talk # 0
        /\ Len(try) \in 1..Len(try) /\ Current = try[Len(try)] /\ Current.part = Here
        /\ Len(asked) = Len(part) - 1 /\ Len(part) \in Nat /\ Len(part) >= 1 /\ Len(asked) \in Nat
        /\ Here = Len(part) /\ Current \in TryRows /\ asked \in Seq(AskedRows)
    BY <1>1, RowTypes
       DEF ContinuationKept, ContinuationRows, AttemptAtWork, PartsFollow, Here, Current
  <1>3. /\ Current.talk \in 1..Len(talk) /\ talk[Current.talk].part = Here /\ Current.talk \in Nat
    BY <1>2, RowTypes DEF ContinuationKept, TriesKnow
  <1>4. /\ new \in TryRows /\ new.part = Current.part /\ new.talk = Current.talk
        /\ new.status = "DEFERRED"
    BY <1>2 DEF TryRows
  <1>5. try' = [try EXCEPT ![Len(try)] = new]
    BY <1>1, <1>2
  <1>. HIDE DEF new
  <1>6. /\ TriesKnow' /\ try' \in Seq(TryRows) /\ Len(try') = Len(try) /\ Current' = new
    BY <1>1, <1>4, <1>5, AttemptMoves
  <1>7. PICK p \in AskedRows :
          /\ p = Row(d, approved) /\ p.talk = Current.talk
          /\ p.kind = "proposal" => p.catalog \in p.refs
    <2>. DEFINE refs == IF d.kind = "proposal" THEN WithCatalog(d) ELSE {}
                status == IF d.kind = "question" THEN "none"
                          ELSE IF approved THEN "APPROVED" ELSE "PENDING_APPROVAL"
                question == IF approved THEN "none" ELSE "OPEN"
                decision == IF approved THEN "APPROVED" ELSE "none"
                effect == IF approved THEN "REQUESTED" ELSE "none"
                p == [kind |-> d.kind, part |-> Here, talk |-> Current.talk, mode |-> d.mode,
                      catalog |-> d.catalog, refs |-> refs, status |-> status,
                      question |-> question, decision |-> decision, effect |-> effect,
                      unknown |-> FALSE]
    <2>1. /\ d.kind \in {"proposal", "question"} /\ d.mode \in {"RESUME", "FORK"}
          /\ d.catalog \in Catalogs \cup {NoCall} /\ d.cites \subseteq Catalogs
      BY <1>2 DEF Drafts
    <2>2. refs \subseteq Catalogs \cup {NoCall} /\ (d.kind = "proposal" => d.catalog \in refs)
      BY <2>1 DEF WithCatalog
    <2>3. /\ status \in {"none", "PENDING_APPROVAL", "APPROVED", "REJECTED"} \cup Ended
          /\ question \in {"none", "OPEN", "RESPONDED", "EXPIRED"}
          /\ decision \in {"none", "APPROVED", "REJECTED"}
          /\ effect \in {"none", "REQUESTED"} \cup Ended
      OBVIOUS
    <2>4. p = Row(d, approved)
      BY DEF Row
    <2>. HIDE DEF refs, status, question, decision, effect, d
    <2>5. p \in AskedRows
      BY <1>2, <1>3, <2>1, <2>2, <2>3 DEF AskedRows
    <2>6. p.talk = Current.talk /\ (p.kind = "proposal" => p.catalog \in p.refs)
      BY <2>2
    <2>. QED
      BY <2>4, <2>5, <2>6
  <1>8. /\ asked' \in Seq(AskedRows) /\ Len(asked') = Len(asked) + 1 /\ asked'[Len(asked) + 1] = p
        /\ \A i \in 1..Len(asked) : asked'[i] = asked[i]
    BY <1>1, <1>2, <1>7, AppendFacts
  <1>9. ContinuationRows'
    BY <1>1, <1>6, <1>8 DEF ContinuationKept, ContinuationRows
  <1>10. PartsFollow'
    <2>1. \A n \in 2..Len(part) : FollowsRequest(part[n], n, asked'[n - 1])
      <3>. SUFFICES ASSUME NEW n \in 2..Len(part)
                    PROVE  FollowsRequest(part[n], n, asked'[n - 1])
        OBVIOUS
      <3>1. FollowsRequest(part[n], n, asked[n - 1])
        BY DEF ContinuationKept, PartsFollow
      <3>2. n - 1 \in 1..Len(asked)
        BY <1>2
      <3>. QED
        BY <1>8, <3>1, <3>2
    <2>2. Len(asked') = Len(part')
      BY <1>1, <1>2, <1>8
    <2>. QED
      BY <1>1, <2>1, <2>2 DEF PartsFollow
  <1>11. AskedWhere'
    <2>. SUFFICES ASSUME NEW i \in 1..Len(asked) + 1
                  PROVE  /\ asked'[i].talk \in 1..Len(talk) /\ talk[asked'[i].talk].part = i
                         /\ asked'[i].kind = "proposal" => asked'[i].catalog \in asked'[i].refs
      BY <1>1, <1>8 DEF AskedWhere
    <2>1. CASE i \in 1..Len(asked)
      <3>1. /\ asked[i].talk \in 1..Len(talk) /\ talk[asked[i].talk].part = i
            /\ asked[i].kind = "proposal" => asked[i].catalog \in asked[i].refs
        BY <2>1 DEF ContinuationKept, AskedWhere
      <3>. QED
        BY <1>8, <2>1, <3>1
    <2>2. CASE i = Len(asked) + 1
      <3>1. i = Here
        BY <1>2, <2>2
      <3>. QED
        BY <1>3, <1>7, <1>8, <2>2, <3>1
    <2>. QED
      BY <1>2, <2>1, <2>2
  <1>12. TalksKnow'
    BY <1>1, <1>2, <1>8, TalksStay
  <1>13. AttemptAtWork'
    BY <1>1 DEF AttemptAtWork
  <1>. QED
    BY <1>6, <1>9, <1>10, <1>11, <1>12, <1>13 DEF ContinuationKept


\* Reads, checks and edits of the connection leave segments, attempts and requests alone.
LEMMA RowsStay ==
  ASSUME ContinuationKept, UNCHANGED <<state, part, try, talk, asked>>,
         seen' \subseteq Catalogs, bound' \in BOOLEAN, deferred' \in Drafts \cup {NoDeferred},
         deferred' # NoDeferred => state = "RUNNING" /\ Current.status = "RUNNING"
  PROVE  ContinuationKept'
  <1>1. ContinuationRows' /\ PartsFollow' /\ AskedWhere' /\ TriesKnow'
    BY DEF ContinuationKept, ContinuationRows, PartsFollow, AskedWhere, TriesKnow
  <1>2. TalksKnow'
    BY RowTypes, TalksStay
  <1>3. AttemptAtWork'
    <2>1. Current' = Current /\ Here' = Here
      BY DEF Current, Here
    <2>2. (ClaimedFromPart(Current) \/ ClaimedAgain(Current))' = (ClaimedFromPart(Current) \/ ClaimedAgain(Current))
      BY <2>1 DEF ClaimedFromPart, ClaimedAgain
    <2>. QED
      BY <2>1, <2>2 DEF ContinuationKept, AttemptAtWork
  <1>. QED
    BY <1>1, <1>2, <1>3 DEF ContinuationKept

\* One segment, no attempt, nothing asked.
LEMMA ContinuationStarts ==
  ASSUME ContinuationInit
  PROVE  ContinuationKept
  <1>1. First \in PartRows
    BY DEF First, PartRows, Triggers, Modes
  <1>2. /\ part = <<First>> /\ try = <<>> /\ talk = <<>> /\ asked = <<>> /\ state = "QUEUED"
        /\ deferred = NoDeferred /\ seen = {} /\ bound = TRUE
    BY DEF ContinuationInit
  <1>3. /\ part \in Seq(PartRows) /\ Len(part) = 1 /\ part[1] = First /\ 1 \in 1..MaxParts
        /\ try \in Seq(TryRows) /\ talk \in Seq(TalkRows) /\ asked \in Seq(AskedRows)
        /\ Len(try) = 0 /\ Len(talk) = 0 /\ Len(asked) = 0
    BY <1>1, <1>2, ContinuationAssumption
  <1>4. ContinuationRows
    BY <1>2, <1>3 DEF ContinuationRows
  <1>5. PartsFollow /\ AskedWhere /\ TriesKnow /\ TalksKnow
    BY <1>2, <1>3 DEF PartsFollow, AskedWhere, TriesKnow, TalksKnow
  <1>6. AttemptAtWork
    BY <1>2 DEF AttemptAtWork
  <1>. QED
    BY <1>4, <1>5, <1>6 DEF ContinuationKept

\* Every step leaves the lineage whole.
LEMMA ContinuationNextKeeps ==
  ASSUME ContinuationKept, [ContinuationNext]_continuationVars
  PROVE  ContinuationKept'
  <1>0. /\ seen \subseteq Catalogs /\ bound \in BOOLEAN /\ deferred \in Drafts \cup {NoDeferred}
        /\ deferred # NoDeferred => state = "RUNNING" /\ Current.status = "RUNNING"
    BY DEF ContinuationKept, ContinuationRows, AttemptAtWork
  <1>1. CASE Claim
    BY <1>1, ClaimKeeps
  <1>2. CASE StartSession
    BY <1>2, StartKeeps
  <1>3. CASE \E catalog \in Catalogs : ReadCatalog(catalog)
    BY <1>0, <1>3, RowsStay DEF ReadCatalog
  <1>4. CASE \E d \in Drafts : Defer(d)
    BY <1>0, <1>4, RowsStay DEF Defer, Working
  <1>5. CASE \E approved \in BOOLEAN : Suspend(approved)
    BY <1>5, SuspendKeeps
  <1>6. CASE SuspendRefused
    BY <1>6, AttemptEnds DEF SuspendRefused
  <1>7. CASE LoseWorker
    BY <1>7, AttemptEnds DEF LoseWorker
  <1>8. ASSUME NEW status \in {"CAPACITY", "COMPLETED"}, NEW next \in {"RETRY_PENDING", "DONE"},
               StopTurn(status, next)
        PROVE  ContinuationKept'
    <2>1. /\ state = "RUNNING" /\ Current.status = "RUNNING" /\ deferred' = NoDeferred
          /\ state' \in {"RETRY_PENDING", "FAILED", "DONE"}
          /\ try' = [try EXCEPT ![Len(try)].status = status]
          /\ UNCHANGED <<part, talk, asked, seen, bound>>
      BY <1>8 DEF StopTurn, Working
    <2>. QED
      BY <2>1, AttemptEnds
  <1>9. CASE Reject
    BY <1>9, RejectKeeps
  <1>10. CASE Approve
    BY <1>10, ApproveKeeps
  <1>11. CASE ExpireProposal
    BY <1>11, ExpireKeeps
  <1>12. CASE \E ended \in Ended, unknown \in BOOLEAN : EndEffect(ended, unknown)
    BY <1>12, EffectEnds
  <1>13. CASE \E answer \in BOOLEAN : EndQuestion(answer)
    BY <1>13, QuestionEnds
  <1>14. CASE UpdateConnection
    BY <1>0, <1>14, RowsStay DEF UpdateConnection
  <1>15. CASE UNCHANGED continuationVars
    BY <1>0, <1>15, RowsStay DEF continuationVars
  <1>. QED
    BY <1>1, <1>2, <1>3, <1>4, <1>5, <1>6, <1>7, <1>8, <1>9, <1>10, <1>11, <1>12, <1>13, <1>14,
       <1>15 DEF ContinuationNext

\* However often its segments are tried, and whatever becomes of its requests, the rows of a
\* Run name each other the way runs/proposal_continuation.py reads them.
THEOREM ContinuationInductive == ContinuationSpec => []ContinuationKept
  BY ContinuationStarts, ContinuationNextKeeps, PTL DEF ContinuationSpec

\* None of the checks on the lineage ever fails: an attempt that starts can load what became of
\* the request its segment follows, in the SDK session it goes on with
\* (runs/proposal_continuation.py:87-167, 263-323, 172-208).
THEOREM OutcomesLoad == ContinuationSpec => []ContinuationLoads
  <1>1. ContinuationKept => ContinuationLoads
    BY LoadIsRight DEF ContinuationLoads
  <1>. QED
    BY <1>1, ContinuationInductive, PTL

\* The outcome a session replayed to the model is the one on record from then on
\* (runs/proposal_continuation.py:263-323, agent/control_providers.py:71-114).
THEOREM OutcomesStayTrue == ContinuationSpec => []ToldForGood
  <1>1. ContinuationKept => ToldForGood
    BY DEF ContinuationKept, TalksKnow, ToldForGood
  <1>. QED
    BY <1>1, ContinuationInductive, PTL

\* What a proposal was made from is among its own references, so it stays fit for approval and
\* for its write until somebody edits the connection (effects/proposal_evidence.py:66).
THEOREM ProposalsStayValid == ContinuationSpec => []RecordedProposalStaysValid
  <1>1. ContinuationKept => RecordedProposalStaysValid
    BY DEF ContinuationKept, AskedWhere, RecordedProposalStaysValid, RowValid, StillTheBinding
  <1>. QED
    BY <1>1, ContinuationInductive, PTL
-----------------------------------------------------------------------------
(* The result of a Run (RunResult), for any proposals, references, labels and  *)
(* limits. The rows of a write always say one of a few things; while a result   *)
(* is checked only an inline write can still move, and then nothing is saved.  *)

ProposalRows ==
  [status : {"none"} \cup Incomplete \cup Settled,
   source : {"none", "USER", "RUN_START", "PREAUTHORIZATION"},
   decision : {"none", "APPROVED", "REJECTED"}, risk : {"none", "LOW", "HIGH"},
   effect : {"none", "REQUESTED", "APPLYING", "APPLIED", "STALE", "FAILED", "VERIFICATION_FAILED"},
   tool : {"none", "RUNNING", "SUCCEEDED", "FAILED"}, refs : BOOLEAN, unknown : BOOLEAN,
   retryable : BOOLEAN, phase : {"none", "ACTIVE", "DELIVERED", "DETACHED"}]

\* A proposal nobody has approved.
NotApproved(r) ==
  /\ r.effect = "none" /\ r.tool = "none" /\ ~r.refs /\ ~r.unknown /\ r.phase = "none"
  /\ \/ r.status \in {"none", "PENDING_APPROVAL", "STALE"} /\ r.decision = "none"
     \/ r.status = "REJECTED" /\ r.decision = "REJECTED" /\ r.source = "USER"
\* One that was: the status of the proposal follows that of its execution.
ApprovedAgrees(r) ==
  /\ r.decision = "APPROVED" /\ ApprovalHolds(r)
  /\ \/ r.status = "APPROVED" /\ r.effect = "REQUESTED" /\ r.tool \in {"none", "FAILED"} /\ ~r.refs
     \/ r.status = "APPLYING" /\ r.effect = "APPLYING" /\ r.tool = "RUNNING" /\ ~r.refs
     \/ /\ r.status = "APPLIED" /\ r.effect = "APPLIED" /\ r.tool = "SUCCEEDED"
        /\ r.refs /\ ~r.unknown
     \/ /\ r.status = "FAILED" /\ r.effect \in {"FAILED", "VERIFICATION_FAILED"}
        /\ r.tool \in {"none", "FAILED"} /\ ~r.refs
     \/ r.status = "STALE" /\ r.effect = "STALE" /\ r.tool \in {"none", "FAILED"} /\ ~r.refs
RowAgrees(r) == r \in ProposalRows /\ (NotApproved(r) \/ ApprovedAgrees(r))

ResultRows ==
  /\ row \in [Proposals -> ProposalRows]
  /\ \A p \in Proposals : RowAgrees(row[p])
  /\ running \in {"RUNNING", "WAITING", "SUCCEEDED", "FAILED", "CANCELLED"}
  /\ stopAsked \in BOOLEAN
  /\ check = [step |-> check.step, sources |-> check.sources, artifact |-> check.artifact,
              effects |-> check.effects, proposals |-> check.proposals, error |-> check.error]

\* What a check has established, unless a write is still in doubt.
Existing == {p \in Proposals : Exists(p)}
Reported == {ClaimOf(p) : p \in {q \in Proposals : row[q].status \in Settled}}
CheckHolds ==
  /\ check.step # "none" => running = "RUNNING"
  /\ check.step \in {"none", "load", "proposals", "effects", "save"} /\ check.error \in BOOLEAN
  /\ check.step \in {"proposals", "effects", "save"} /\ ~check.error =>
       /\ check.sources \subseteq saved /\ check.artifact \subseteq published
       /\ Pending = {} =>
            /\ check.proposals = Existing /\ check.effects = Reported
            /\ check.step # "proposals" => \A p \in Existing : row[p].status \notin Incomplete
            /\ check.step = "save" => \A c \in Reported : MatchesClaim(c)

ResultKept ==
  /\ ResultRows /\ CheckHolds
  /\ SavedResultIsTrue /\ (running = "SUCCEEDED" => Pending = {})

\* The report of a settled write matches its rows.
LEMMA SettledRowMatches ==
  ASSUME NEW p \in Proposals, RowAgrees(row[p]), row[p].status \in Settled, ~row[p].unknown
  PROVE  MatchesClaim(ClaimOf(p))
  <1>. DEFINE r == row[p]
  <1>1. /\ ClaimOf(p).of = p /\ ClaimOf(p).status = r.status /\ ClaimOf(p).refs = r.refs
        /\ r.status \notin Incomplete
    BY DEF ClaimOf, Settled, Incomplete
  <1>2. CASE NotApproved(r)
    BY <1>1, <1>2 DEF NotApproved, MatchesClaim, ApprovalHolds, Settled
  <1>3. CASE ApprovedAgrees(r)
    <2>1. ApprovalHolds(r) /\ r.decision = "APPROVED" /\ r.status # "REJECTED"
      BY <1>3 DEF ApprovedAgrees
    <2>2. ExecutionAgrees(r)
      BY <1>1, <1>3 DEF ApprovedAgrees, ExecutionAgrees, Incomplete
    <2>. QED
      BY <1>1, <2>1, <2>2 DEF MatchesClaim
  <1>. QED
    BY <1>2, <1>3 DEF RowAgrees

\* A write whose report matches its rows is not in doubt.
LEMMA MatchedIsKnown ==
  ASSUME NEW p \in Proposals, RowAgrees(row[p]), row[p].status \in Settled, MatchesClaim(ClaimOf(p))
  PROVE  ~row[p].unknown
  <1>1. ClaimOf(p).of = p
    BY DEF ClaimOf
  <1>2. CASE NotApproved(row[p])
    BY <1>2 DEF NotApproved
  <1>3. CASE ApprovedAgrees(row[p])
    <2>1. row[p].decision = "APPROVED" /\ row[p].status # "REJECTED"
      BY <1>3 DEF ApprovedAgrees
    <2>. QED
      BY <1>1, <2>1 DEF MatchesClaim, ExecutionAgrees
  <1>. QED
    BY <1>2, <1>3 DEF RowAgrees

\* A step on the row of one proposal: outside a check, or on an inline write in doubt.
LEMMA RowMoves ==
  ASSUME ResultKept, NEW p \in Proposals, NEW r, RowAgrees(r),
         row' = [row EXCEPT ![p] = r], UNCHANGED <<stopAsked, published, check, outcome>>,
         saved \subseteq saved', running' \in {"RUNNING", "WAITING", "FAILED", "CANCELLED", running},
         \/ check.step = "none" /\ running \in {"RUNNING", "WAITING"}
         \/ row[p].phase = "ACTIVE" /\ r.phase = "ACTIVE" /\ UNCHANGED running
  PROVE  ResultKept'
  <1>1. /\ row \in [Proposals -> ProposalRows] /\ r \in ProposalRows
        /\ \A q \in Proposals : RowAgrees(row[q])
    BY DEF ResultKept, ResultRows, RowAgrees
  <1>2. /\ row' \in [Proposals -> ProposalRows] /\ row'[p] = r
        /\ \A q \in Proposals : q # p => row'[q] = row[q]
    BY <1>1
  <1>3. \A q \in Proposals : RowAgrees(row'[q])
    BY <1>1, <1>2
  <1>4. ResultRows'
    BY <1>2, <1>3 DEF ResultKept, ResultRows
  <1>5. CASE check.step = "none" /\ running \in {"RUNNING", "WAITING"}
    <2>1. running' # "SUCCEEDED"
      BY <1>5
    <2>2. CheckHolds'
      BY <1>5 DEF ResultKept, CheckHolds
    <2>. QED
      BY <1>4, <2>1, <2>2 DEF ResultKept, SavedResultIsTrue
  <1>6. CASE row[p].phase = "ACTIVE" /\ r.phase = "ACTIVE" /\ UNCHANGED running
    <2>1. Pending # {} /\ Pending' # {}
      BY <1>2, <1>6 DEF Pending
    <2>2. CheckHolds'
      BY <1>6, <2>1 DEF ResultKept, CheckHolds
    <2>. QED
      BY <1>4, <1>6, <2>1, <2>2 DEF ResultKept, SavedResultIsTrue
  <1>. QED
    BY <1>5, <1>6

\* What is saved, published or asked for beside the writes changes no row and no check.
LEMMA RecordsGrow ==
  ASSUME ResultKept, UNCHANGED <<running, row, check, outcome>>, stopAsked' \in BOOLEAN,
         saved \subseteq saved', published \subseteq published'
  PROVE  ResultKept'
  <1>1. ResultRows'
    BY DEF ResultKept, ResultRows
  <1>2. Pending' = Pending /\ Existing' = Existing /\ Reported' = Reported
    BY DEF Pending, Existing, Exists, Reported, ClaimOf
  <1>3. \A c : MatchesClaim(c) => MatchesClaim(c)'
    BY DEF MatchesClaim
  <1>4. CheckHolds'
    BY <1>2, <1>3 DEF ResultKept, CheckHolds
  <1>5. SavedResultIsTrue'
    <2>1. \A p \in Proposals : ClaimOf(p)' = ClaimOf(p) /\ Exists(p)' = Exists(p)
      BY DEF ClaimOf, Exists
    <2>. QED
      BY <2>1 DEF ResultKept, SavedResultIsTrue
  <1>. QED
    BY <1>1, <1>2, <1>4, <1>5 DEF ResultKept

\* A write that ends outside the turn: it is queued again, or the Run goes on or stops.
LEMMA RequeuedAgrees ==
  ASSUME NEW r, RowAgrees(r), ApprovedAgrees(r), r.status \notin {"APPLYING"}
  PROVE  RowAgrees(Requeued(r)) /\ AfterEffect(r) \in {"RUNNING", "WAITING", "FAILED", "CANCELLED"}
  <1>1. r \in ProposalRows
    BY DEF RowAgrees
  <1>2. CASE Requeued(r) = r
    BY <1>2 DEF AfterEffect
  <1>3. CASE /\ r.effect # "APPLIED" /\ r.retryable /\ ~stopAsked
             /\ Requeued(r) = [r EXCEPT !.effect = "REQUESTED", !.status = "APPROVED"]
    <2>. DEFINE again == [r EXCEPT !.effect = "REQUESTED", !.status = "APPROVED"]
    <2>1. /\ again \in ProposalRows /\ again.status = "APPROVED" /\ again.effect = "REQUESTED"
          /\ again.tool = r.tool /\ again.refs = r.refs /\ again.decision = r.decision
          /\ again.source = r.source /\ again.risk = r.risk
      BY <1>1 DEF ProposalRows, Incomplete
    <2>2. r.tool \in {"none", "FAILED"} /\ ~r.refs
      BY <1>3 DEF ApprovedAgrees
    <2>. HIDE DEF again
    <2>3. ApprovedAgrees(again)
      BY <2>1, <2>2 DEF ApprovedAgrees, ApprovalHolds
    <2>. QED
      BY <1>3, <2>1, <2>3 DEF RowAgrees, AfterEffect, again
  <1>. QED
    BY <1>2, <1>3 DEF Requeued

\* A write settles, in its turn or outside of it.
LEMMA SettleKeeps ==
  ASSUME ResultKept, NEW p \in Proposals, NEW r, RowAgrees(r), ApprovedAgrees(r),
         r.status \notin {"APPLYING"}, r.phase = row[p].phase, Owned(p), Settle(p, r),
         UNCHANGED <<stopAsked, published, check, outcome>>, saved \subseteq saved'
  PROVE  ResultKept'
  <1>1. CASE r.phase = "ACTIVE"
    BY <1>1, RowMoves DEF Settle
  <1>2. CASE r.phase # "ACTIVE"
    <2>1. running = "WAITING" /\ check.step = "none"
      BY <1>2 DEF Owned, ResultKept, CheckHolds
    <2>. DEFINE next == Requeued(r)
    <2>2. RowAgrees(next) /\ AfterEffect(r) \in {"RUNNING", "WAITING", "FAILED", "CANCELLED"}
      BY RequeuedAgrees
    <2>3. row' = [row EXCEPT ![p] = next] /\ running' = AfterEffect(r)
      BY <1>2 DEF Settle
    <2>. HIDE DEF next
    <2>. QED
      BY <2>1, <2>2, <2>3, RowMoves
  <1>. QED
    BY <1>1, <1>2

\* Who proposes is approved at once, or waits.
LEMMA ProposeKeeps ==
  ASSUME ResultKept, NEW p \in Proposals, NEW risk \in {"LOW", "HIGH"}, NEW inline \in BOOLEAN,
         Propose(p, risk, inline)
  PROVE  ResultKept'
  <1>. DEFINE source == AuthorizationOf(p, risk)
              approved == source # "none"
              r == [NoProposal EXCEPT !.status = IF approved THEN "APPROVED" ELSE "PENDING_APPROVAL",
                     !.source = source, !.risk = risk,
                     !.decision = IF approved THEN "APPROVED" ELSE "none",
                     !.effect = IF approved THEN "REQUESTED" ELSE "none",
                     !.phase = IF inline THEN "ACTIVE" ELSE "none"]
  <1>1. /\ row' = [row EXCEPT ![p] = r]
        /\ inline => source = "RUN_START"
        /\ running = "RUNNING" /\ check.step = "none" /\ running' \in {"RUNNING", "WAITING"}
        /\ UNCHANGED <<stopAsked, saved, published, check, outcome>>
    BY DEF Propose, InTurn
  <1>2. /\ source \in {"none", "RUN_START", "PREAUTHORIZATION"}
        /\ source = "PREAUTHORIZATION" => risk = "LOW"
    BY DEF AuthorizationOf, PolicyMatches
  <1>. HIDE DEF source
  <1>3. /\ r \in ProposalRows /\ r.source = source /\ r.risk = risk
        /\ ~r.refs /\ ~r.unknown /\ r.tool = "none"
        /\ approved => r.status = "APPROVED" /\ r.decision = "APPROVED" /\ r.effect = "REQUESTED"
        /\ ~approved => r.status = "PENDING_APPROVAL" /\ r.decision = "none" /\ r.effect = "none"
        /\ ~inline => r.phase = "none"
    BY <1>2 DEF ProposalRows, NoProposal, Incomplete
  <1>. HIDE DEF r
  <1>4. RowAgrees(r)
    <2>1. CASE approved
      <3>1. ApprovedAgrees(r)
        BY <1>2, <1>3, <2>1 DEF ApprovedAgrees, ApprovalHolds
      <3>. QED
        BY <1>3, <3>1 DEF RowAgrees
    <2>2. CASE ~approved
      <3>1. ~inline /\ source = "none"
        BY <1>1, <2>2
      <3>2. r.status = "PENDING_APPROVAL" /\ r.decision = "none" /\ r.effect = "none" /\ r.phase = "none"
        BY <1>3, <2>2, <3>1
      <3>3. NotApproved(r)
        BY <1>3, <3>2 DEF NotApproved
      <3>. QED
        BY <1>3, <3>3 DEF RowAgrees
    <2>. QED
      BY <2>1, <2>2
  <1>5. /\ check.step = "none" /\ running \in {"RUNNING", "WAITING"} /\ saved \subseteq saved'
        /\ running' \in {"RUNNING", "WAITING", "FAILED", "CANCELLED", running}
        /\ row' = [row EXCEPT ![p] = r] /\ UNCHANGED <<stopAsked, published, check, outcome>>
    BY <1>1
  <1>. QED
    BY <1>4, <1>5, RowMoves

\* A user decides, or nobody does in time.
LEMMA DecideKeeps ==
  ASSUME ResultKept, NEW p \in Proposals,
         Expire(p) \/ \E decision \in {"APPROVED", "REJECTED"} : Decide(p, decision)
  PROVE  ResultKept'
  <1>. DEFINE old == row[p]
  <1>1. /\ old \in ProposalRows /\ row \in [Proposals -> ProposalRows]
        /\ old.status = "PENDING_APPROVAL" /\ NotApproved(old) /\ old.decision = "none"
        /\ running = "WAITING" /\ check.step = "none"
        /\ UNCHANGED <<stopAsked, saved, published, check, outcome>>
        /\ running' \in {"RUNNING", "WAITING"}
    BY DEF Expire, Decide, ResultKept, ResultRows, CheckHolds, RowAgrees, ApprovedAgrees, NotApproved
  <1>2. CASE Expire(p)
    <2>. DEFINE r == [old EXCEPT !.status = "STALE"]
    <2>1. /\ r \in ProposalRows /\ r.status = "STALE" /\ r.effect = old.effect
          /\ r.refs = old.refs /\ r.tool = old.tool
          /\ r.unknown = old.unknown /\ r.phase = old.phase /\ r.decision = old.decision
      BY <1>1 DEF ProposalRows, Settled
    <2>2. row' = [row EXCEPT ![p] = r]
      BY <1>2 DEF Expire
    <2>. HIDE DEF r
    <2>3. RowAgrees(r)
      BY <1>1, <2>1 DEF RowAgrees, NotApproved
    <2>. QED
      BY <1>1, <2>2, <2>3, RowMoves
  <1>3. CASE Decide(p, "APPROVED")
    <2>. DEFINE r == [old EXCEPT !.status = "APPROVED", !.source = "USER", !.decision = "APPROVED",
                                 !.effect = "REQUESTED"]
    <2>1. /\ r \in ProposalRows /\ r.status = "APPROVED" /\ r.effect = "REQUESTED"
          /\ r.source = "USER" /\ r.decision = "APPROVED" /\ r.refs = old.refs /\ r.tool = old.tool
      BY <1>1 DEF ProposalRows, Incomplete
    <2>2. row' = [row EXCEPT ![p] = r]
      BY <1>3 DEF Decide
    <2>. HIDE DEF r
    <2>3. old.tool = "none" /\ ~old.refs
      BY <1>1 DEF NotApproved
    <2>4. RowAgrees(r)
      BY <2>1, <2>3 DEF RowAgrees, ApprovedAgrees, ApprovalHolds
    <2>. QED
      BY <1>1, <2>2, <2>4, RowMoves
  <1>4. CASE Decide(p, "REJECTED")
    <2>. DEFINE r == [old EXCEPT !.status = "REJECTED", !.source = "USER", !.decision = "REJECTED"]
    <2>1. /\ r \in ProposalRows /\ r.status = "REJECTED" /\ r.effect = old.effect
          /\ r.refs = old.refs /\ r.tool = old.tool
          /\ r.unknown = old.unknown /\ r.phase = old.phase /\ r.decision = "REJECTED"
          /\ r.source = "USER"
      BY <1>1 DEF ProposalRows, Settled
    <2>2. row' = [row EXCEPT ![p] = r]
      BY <1>4 DEF Decide
    <2>. HIDE DEF r
    <2>3. RowAgrees(r)
      BY <1>1, <2>1 DEF RowAgrees, NotApproved
    <2>. QED
      BY <1>1, <2>2, <2>3, RowMoves
  <1>. QED
    BY <1>2, <1>3, <1>4


\* What a proposal has is told by the status of its execution.
LEMMA ExecutionOf ==
  ASSUME ResultKept, NEW p \in Proposals, row[p].effect \in {"REQUESTED", "APPLYING"}
  PROVE  /\ row \in [Proposals -> ProposalRows] /\ row[p] \in ProposalRows
         /\ ApprovedAgrees(row[p]) /\ ~row[p].refs
         /\ row[p].effect = "REQUESTED" => row[p].tool \in {"none", "FAILED"} /\ row[p].status = "APPROVED"
         /\ row[p].effect = "APPLYING" => row[p].tool = "RUNNING" /\ row[p].status = "APPLYING"
  <1>1. row \in [Proposals -> ProposalRows] /\ RowAgrees(row[p])
    BY DEF ResultKept, ResultRows
  <1>2. ApprovedAgrees(row[p])
    BY <1>1 DEF RowAgrees, NotApproved
  <1>. QED
    BY <1>1, <1>2 DEF ApprovedAgrees, RowAgrees

\* A worker starts the write, gives it up before the provider, makes it or fails.
LEMMA EffectKeeps ==
  ASSUME ResultKept, NEW p \in Proposals,
         \/ ClaimEffect(p) \/ ApplyEffect(p)
         \/ \E status \in {"STALE", "FAILED"} : CloseBeforeProvider(p, status)
         \/ \E status \in {"STALE", "FAILED", "VERIFICATION_FAILED"}, retryable, unknown \in BOOLEAN :
              FailEffect(p, status, retryable, unknown)
  PROVE  ResultKept'
  <1>. DEFINE old == row[p]
  <1>1. /\ row \in [Proposals -> ProposalRows] /\ old \in ProposalRows
        /\ ApprovedAgrees(old) /\ ~old.refs /\ old.decision = "APPROVED" /\ ApprovalHolds(old)
        /\ old.effect = "REQUESTED" => old.tool \in {"none", "FAILED"}
    <2>1. old.effect \in {"REQUESTED", "APPLYING"}
      BY DEF ClaimEffect, ApplyEffect, CloseBeforeProvider, FailEffect
    <2>. QED
      BY <2>1, ExecutionOf DEF ApprovedAgrees
  <1>2. \A new : new.source = old.source /\ new.risk = old.risk => ApprovalHolds(new)
    BY <1>1 DEF ApprovalHolds
  <1>3. CASE ClaimEffect(p)
    <2>. DEFINE r == [old EXCEPT !.effect = "APPLYING", !.status = "APPLYING", !.tool = "RUNNING"]
    <2>1. /\ r \in ProposalRows /\ r.effect = "APPLYING" /\ r.status = "APPLYING" /\ r.tool = "RUNNING"
          /\ r.refs = old.refs /\ r.decision = old.decision /\ r.phase = old.phase
          /\ r.source = old.source /\ r.risk = old.risk
      BY <1>1 DEF ProposalRows, Incomplete
    <2>2. /\ row' = [row EXCEPT ![p] = r] /\ Owned(p)
          /\ UNCHANGED <<running, stopAsked, saved, published, check, outcome>>
      BY <1>3 DEF ClaimEffect
    <2>. HIDE DEF r
    <2>3. RowAgrees(r)
      BY <1>1, <1>2, <2>1 DEF RowAgrees, ApprovedAgrees
    <2>4. \/ check.step = "none" /\ running \in {"RUNNING", "WAITING"}
          \/ old.phase = "ACTIVE" /\ r.phase = "ACTIVE"
      BY <2>1, <2>2 DEF Owned, ResultKept, CheckHolds
    <2>. QED
      BY <2>2, <2>3, <2>4, RowMoves
  <1>4. CASE ApplyEffect(p)
    <2>. DEFINE r == [old EXCEPT !.effect = "APPLIED", !.status = "APPLIED", !.tool = "SUCCEEDED",
                                 !.refs = TRUE, !.unknown = FALSE, !.retryable = FALSE]
    <2>1. /\ r \in ProposalRows /\ r.effect = "APPLIED" /\ r.status = "APPLIED" /\ r.tool = "SUCCEEDED"
          /\ r.refs /\ ~r.unknown /\ r.decision = old.decision /\ r.phase = old.phase
          /\ r.source = old.source /\ r.risk = old.risk
      BY <1>1 DEF ProposalRows, Settled
    <2>2. /\ Settle(p, r) /\ Owned(p) /\ saved \subseteq saved'
          /\ UNCHANGED <<stopAsked, published, check, outcome>>
      BY <1>4 DEF ApplyEffect
    <2>. HIDE DEF r
    <2>3. ApprovedAgrees(r) /\ RowAgrees(r) /\ r.status \notin {"APPLYING"}
      BY <1>1, <1>2, <2>1 DEF RowAgrees, ApprovedAgrees
    <2>. QED
      BY <2>1, <2>2, <2>3, SettleKeeps
  <1>5. ASSUME NEW status \in {"STALE", "FAILED"}, CloseBeforeProvider(p, status)
        PROVE  ResultKept'
    <2>. DEFINE tool == IF old.tool = "none" THEN old.tool ELSE "FAILED"
                r == [old EXCEPT !.effect = status, !.status = status, !.retryable = FALSE, !.tool = tool]
    <2>1. tool \in {"none", "FAILED"}
      BY <1>1, <1>5 DEF CloseBeforeProvider
    <2>2. /\ Settle(p, r) /\ Owned(p) /\ saved \subseteq saved'
          /\ UNCHANGED <<stopAsked, published, check, outcome>>
      BY <1>5 DEF CloseBeforeProvider
    <2>. HIDE DEF tool
    <2>0. status \in {"none"} \cup Incomplete \cup Settled
      BY DEF Settled
    <2>3. /\ r \in ProposalRows /\ r.effect = status /\ r.status = status /\ r.tool \in {"none", "FAILED"}
          /\ r.refs = old.refs /\ r.decision = old.decision /\ r.phase = old.phase
          /\ r.source = old.source /\ r.risk = old.risk
      BY <1>1, <2>1, <2>0 DEF ProposalRows
    <2>. HIDE DEF r
    <2>4. ApprovedAgrees(r) /\ RowAgrees(r) /\ r.status \notin {"APPLYING"}
      BY <1>1, <1>2, <2>3 DEF RowAgrees, ApprovedAgrees
    <2>. QED
      BY <2>2, <2>3, <2>4, SettleKeeps
  <1>6. ASSUME NEW status \in {"STALE", "FAILED", "VERIFICATION_FAILED"},
               NEW retryable \in BOOLEAN, NEW unknown \in BOOLEAN,
               FailEffect(p, status, retryable, unknown)
        PROVE  ResultKept'
    <2>. DEFINE to == IF status = "STALE" THEN "STALE" ELSE "FAILED"
                doubt == old.unknown \/ unknown
                r == [old EXCEPT !.effect = status, !.tool = "FAILED", !.retryable = retryable,
                                 !.status = to, !.unknown = doubt]
    <2>1. doubt \in BOOLEAN /\ to \in {"STALE", "FAILED"}
      BY <1>1 DEF ProposalRows
    <2>2. /\ Settle(p, r) /\ Owned(p) /\ saved \subseteq saved'
          /\ UNCHANGED <<stopAsked, published, check, outcome>>
      BY <1>6 DEF FailEffect
    <2>3. \/ to = "STALE" /\ status = "STALE"
          \/ to = "FAILED" /\ status \in {"FAILED", "VERIFICATION_FAILED"}
      BY <1>6
    <2>. HIDE DEF to, doubt
    <2>0. to \in {"none"} \cup Incomplete \cup Settled
      BY <2>1 DEF Settled
    <2>4. /\ r \in ProposalRows /\ r.effect = status /\ r.status = to /\ r.tool = "FAILED"
          /\ r.refs = old.refs /\ r.decision = old.decision /\ r.phase = old.phase
          /\ r.source = old.source /\ r.risk = old.risk
      <3>1. /\ r.effect = status /\ r.status = to /\ r.tool = "FAILED"
            /\ r.refs = old.refs /\ r.decision = old.decision /\ r.phase = old.phase
            /\ r.source = old.source /\ r.risk = old.risk
        BY <1>1 DEF ProposalRows
      <3>. DEFINE new == [old EXCEPT !.retryable = retryable, !.unknown = doubt]
      <3>2. new \in ProposalRows
        BY <1>1, <2>1 DEF ProposalRows
      <3>3. r = [new EXCEPT !.effect = status, !.tool = "FAILED", !.status = to]
        BY <1>1 DEF ProposalRows
      <3>. HIDE DEF new, r
      <3>4. r \in ProposalRows
        BY <2>0, <3>2, <3>3 DEF ProposalRows
      <3>. QED
        BY <3>1, <3>4
    <2>. HIDE DEF r
    <2>5. ApprovedAgrees(r) /\ RowAgrees(r) /\ r.status \notin {"APPLYING"}
      BY <1>1, <1>2, <2>3, <2>4 DEF RowAgrees, ApprovedAgrees
    <2>. QED
      BY <2>2, <2>4, <2>5, SettleKeeps
  <1>. QED
    BY <1>3, <1>4, <1>5, <1>6

\* The inline write is told to the model, or the turn goes on without it.
LEMMA InlineKeeps ==
  ASSUME ResultKept, NEW p \in Proposals, row[p].phase = "ACTIVE",
         running = "RUNNING", UNCHANGED <<stopAsked, saved, published, outcome>>,
         \/ /\ check.step = "none" /\ row' = [row EXCEPT ![p].phase = "DELIVERED"]
            /\ UNCHANGED <<running, check>>
         \/ Detach(p) /\ ((check.step = "none" /\ UNCHANGED check) \/ check' = NoCheck)
  PROVE  ResultKept'
  <1>. DEFINE old == row[p]
  <1>1. row \in [Proposals -> ProposalRows] /\ old \in ProposalRows /\ RowAgrees(old)
    BY DEF ResultKept, ResultRows
  <1>2. ApprovedAgrees(old)
    BY <1>1 DEF RowAgrees, NotApproved
  <1>3. ASSUME NEW phase \in {"DELIVERED", "DETACHED"}
        PROVE  LET r == [old EXCEPT !.phase = phase] IN
               /\ RowAgrees(r) /\ ApprovedAgrees(r) /\ r.effect = old.effect /\ r.status = old.status
    <2>. DEFINE r == [old EXCEPT !.phase = phase]
    <2>1. /\ r \in ProposalRows /\ r.effect = old.effect /\ r.status = old.status /\ r.tool = old.tool
          /\ r.refs = old.refs /\ r.unknown = old.unknown /\ r.decision = old.decision
          /\ r.source = old.source /\ r.risk = old.risk
      BY <1>1 DEF ProposalRows
    <2>. HIDE DEF r
    <2>2. ApprovedAgrees(r)
      BY <1>2, <2>1 DEF ApprovedAgrees, ApprovalHolds
    <2>3. RowAgrees(r)
      BY <2>1, <2>2 DEF RowAgrees
    <2>. QED
      BY <2>1, <2>2, <2>3 DEF r
  <1>4. CASE check.step = "none" /\ row' = [row EXCEPT ![p].phase = "DELIVERED"] /\ UNCHANGED <<running, check>>
    <2>. DEFINE r == [old EXCEPT !.phase = "DELIVERED"]
    <2>1. row' = [row EXCEPT ![p] = r] /\ RowAgrees(r)
      BY <1>3, <1>4
    <2>. HIDE DEF r
    <2>. QED
      BY <1>4, <2>1, RowMoves
  <1>5. ASSUME Detach(p), (check.step = "none" /\ UNCHANGED check) \/ check' = NoCheck
        PROVE  ResultKept'
    <2>. DEFINE detached == [old EXCEPT !.phase = "DETACHED"]
    <2>1. RowAgrees(detached) /\ ApprovedAgrees(detached)
          /\ detached.effect = old.effect /\ detached.status = old.status
      BY <1>3
    <2>2. PICK r : /\ row' = [row EXCEPT ![p] = r] /\ RowAgrees(r)
                   /\ running' \in {"RUNNING", "WAITING", "FAILED", "CANCELLED"}
      <3>1. CASE old.effect \in {"REQUESTED", "APPLYING"}
        BY <1>5, <2>1, <3>1 DEF Detach
      <3>2. CASE old.effect \notin {"REQUESTED", "APPLYING"}
        <4>1. detached.status # "APPLYING"
          BY <1>2, <2>1, <3>2 DEF ApprovedAgrees
        <4>2. row' = [row EXCEPT ![p] = Requeued(detached)] /\ running' = AfterEffect(detached)
          BY <1>5, <2>1, <3>2 DEF Detach
        <4>. HIDE DEF detached
        <4>. QED
          BY <2>1, <4>1, <4>2, RequeuedAgrees
      <3>. QED
        BY <3>1, <3>2
    <2>3. /\ row' \in [Proposals -> ProposalRows]
          /\ \A q \in Proposals : RowAgrees(row'[q])
      BY <1>1, <2>2 DEF ResultKept, ResultRows, RowAgrees
    <2>4. /\ check'.step = "none" /\ check'.error \in BOOLEAN
          /\ check' = [step |-> check'.step, sources |-> check'.sources, artifact |-> check'.artifact,
                       effects |-> check'.effects, proposals |-> check'.proposals, error |-> check'.error]
      <3>1. CASE check' = NoCheck
        BY <3>1 DEF NoCheck
      <3>2. CASE check.step = "none" /\ UNCHANGED check
        BY <3>2 DEF ResultKept, ResultRows, CheckHolds
      <3>. QED
        BY <1>5, <3>1, <3>2
    <2>5. ResultRows' /\ CheckHolds'
      BY <2>2, <2>3, <2>4 DEF ResultKept, ResultRows, CheckHolds
    <2>. QED
      BY <2>2, <2>5 DEF ResultKept, SavedResultIsTrue
  <1>. QED
    BY <1>4, <1>5


\* The steps of a check, over records that only an inline write can still move.
LEMMA CheckKeeps ==
  ASSUME ResultKept,
         \/ \E sources, artifact : EndTurn(sources, artifact)
         \/ EndTurnMalformed \/ Assemble \/ CheckProposals \/ CheckEffects
  PROVE  ResultKept'
  <1>1. /\ UNCHANGED <<running, stopAsked, row, saved, published, outcome>>
        /\ running = "RUNNING"
    BY DEF EndTurn, EndTurnMalformed, InTurn, Assemble, CheckProposals, CheckEffects,
         ResultKept, CheckHolds
  <1>2. /\ Pending' = Pending /\ Existing' = Existing /\ Reported' = Reported
        /\ \A c : MatchesClaim(c)' = MatchesClaim(c)
    BY <1>1 DEF Pending, Existing, Exists, Reported, ClaimOf, MatchesClaim
  <1>. DEFINE Shape(k) == k = [step |-> k.step, sources |-> k.sources, artifact |-> k.artifact,
                               effects |-> k.effects, proposals |-> k.proposals, error |-> k.error]
  <1>3. SUFFICES /\ Shape(check')
                 /\ check'.step \in {"none", "load", "proposals", "effects", "save"}
                 /\ check'.error \in BOOLEAN
                 /\ check'.step \in {"proposals", "effects", "save"} /\ ~check'.error =>
                      /\ check'.sources \subseteq saved /\ check'.artifact \subseteq published
                      /\ Pending = {} =>
                           /\ check'.proposals = Existing /\ check'.effects = Reported
                           /\ check'.step # "proposals" =>
                                \A p \in Existing : row[p].status \notin Incomplete
                           /\ check'.step = "save" => \A c \in Reported : MatchesClaim(c)
    <2>1. ResultRows'
      BY <1>1, <1>3 DEF ResultKept, ResultRows
    <2>2. CheckHolds'
      BY <1>1, <1>2, <1>3 DEF CheckHolds
    <2>. QED
      BY <1>1, <2>1, <2>2 DEF ResultKept, SavedResultIsTrue
  <1>4. CASE \E sources, artifact : EndTurn(sources, artifact)
    <2>1. PICK sources, artifact :
            check' = [NoCheck EXCEPT !.step = "load", !.sources = sources, !.artifact = artifact]
      BY <1>4 DEF EndTurn
    <2>. QED
      BY <2>1 DEF NoCheck
  <1>5. CASE EndTurnMalformed
    BY <1>5 DEF EndTurnMalformed, NoCheck
  <1>6. CASE Assemble
    <2>. DEFINE wrong == Ambiguous \/ Unresolved(check.sources, saved) \/ Unresolved(check.artifact, published)
    <2>1. check' = [step |-> "proposals", sources |-> Resolve(check.sources, saved),
                    artifact |-> Resolve(check.artifact, published), effects |-> Reported,
                    proposals |-> Existing, error |-> wrong]
      BY <1>6 DEF Assemble, Reported, Existing
    <2>2. wrong \in BOOLEAN
      BY DEF Ambiguous, Unresolved
    <2>3. Resolve(check.sources, saved) \subseteq saved /\ Resolve(check.artifact, published) \subseteq published
      BY DEF Resolve
    <2>. HIDE DEF wrong
    <2>. QED
      BY <2>1, <2>2, <2>3
  <1>7. CASE CheckProposals
    <2>. DEFINE wrong == \/ check.error \/ ~(check.sources \subseteq saved)
                         \/ check.artifact # VerifiedRefs(check.artifact)
                         \/ \E p \in check.proposals : row[p].status \in Incomplete
    <2>1. /\ check' = [check EXCEPT !.step = "effects", !.error = wrong] /\ check.step = "proposals"
          /\ Shape(check)
      BY <1>7 DEF CheckProposals, ResultKept, ResultRows
    <2>2. wrong \in BOOLEAN
      BY DEF ResultKept, CheckHolds
    <2>3. ~wrong => ~check.error /\ \A p \in check.proposals : row[p].status \notin Incomplete
      OBVIOUS
    <2>. HIDE DEF wrong
    <2>4. /\ Shape(check') /\ check'.step = "effects" /\ check'.error = wrong
          /\ check'.sources = check.sources /\ check'.artifact = check.artifact
          /\ check'.effects = check.effects /\ check'.proposals = check.proposals
      BY <2>1
    <2>. QED
      BY <2>1, <2>2, <2>3, <2>4 DEF ResultKept, CheckHolds
  <1>8. CASE CheckEffects
    <2>. DEFINE wrong == check.error \/ \E c \in check.effects : ~MatchesClaim(c)
    <2>1. /\ check' = [check EXCEPT !.step = "save", !.error = wrong] /\ check.step = "effects"
          /\ Shape(check)
      BY <1>8 DEF CheckEffects, ResultKept, ResultRows
    <2>2. wrong \in BOOLEAN
      BY DEF ResultKept, CheckHolds
    <2>3. ~wrong => ~check.error /\ \A c \in check.effects : MatchesClaim(c)
      OBVIOUS
    <2>. HIDE DEF wrong
    <2>4. /\ Shape(check') /\ check'.step = "save" /\ check'.error = wrong
          /\ check'.sources = check.sources /\ check'.artifact = check.artifact
          /\ check'.effects = check.effects /\ check'.proposals = check.proposals
      BY <2>1
    <2>. QED
      BY <2>1, <2>2, <2>3, <2>4 DEF ResultKept, CheckHolds
  <1>. QED
    BY <1>4, <1>5, <1>6, <1>7, <1>8

\* The result is saved, unless a write is in doubt: that one goes first.
LEMMA SaveKeeps ==
  ASSUME ResultKept, SaveResult
  PROVE  ResultKept'
  <1>1. /\ check.step = "save" /\ check' = NoCheck /\ running = "RUNNING"
        /\ UNCHANGED <<stopAsked, saved, published>>
    BY DEF SaveResult, ResultKept, CheckHolds
  <1>2. CASE WriteInDoubt
    <2>1. PICK p \in Pending : Detach(p) /\ UNCHANGED outcome
      BY <1>2 DEF SaveResult
    <2>2. p \in Proposals /\ row[p].phase = "ACTIVE"
      BY <2>1 DEF Pending
    <2>. QED
      BY <1>1, <2>1, <2>2, InlineKeeps
  <1>3. CASE ~WriteInDoubt
    <2>1. /\ UNCHANGED row
          /\ running' = IF stopAsked THEN "CANCELLED" ELSE IF check.error THEN "FAILED" ELSE "SUCCEEDED"
          /\ outcome' = IF stopAsked \/ check.error THEN outcome
                        ELSE [evidence |-> check.sources, artifacts |-> check.artifact,
                              effects |-> check.effects, proposals |-> check.proposals]
      BY <1>3 DEF SaveResult
    <2>2. Pending = {} /\ Pending' = {}
      BY <1>3, <2>1 DEF WriteInDoubt, Pending
    <2>3. ResultRows' /\ CheckHolds'
      BY <1>1, <2>1 DEF ResultKept, ResultRows, CheckHolds, NoCheck
    <2>4. ASSUME running' = "SUCCEEDED"
          PROVE  SavedResultIsTrue'
      <3>1. /\ ~check.error
            /\ outcome' = [evidence |-> check.sources, artifacts |-> check.artifact,
                           effects |-> check.effects, proposals |-> check.proposals]
        BY <2>1, <2>4
      <3>2. /\ check.sources \subseteq saved /\ check.artifact \subseteq published
            /\ check.proposals = Existing /\ check.effects = Reported
            /\ \A p \in Existing : row[p].status \notin Incomplete
            /\ \A c \in Reported : MatchesClaim(c)
        BY <1>1, <2>2, <3>1 DEF ResultKept, CheckHolds
      <3>3. \A p \in Proposals : RowAgrees(row[p]) /\ row[p] \in ProposalRows
        BY DEF ResultKept, ResultRows
      <3>4. \A p \in Proposals : Exists(p) <=> row[p].status \in Settled
        BY <3>2, <3>3 DEF Existing, Exists, ProposalRows, Settled
      <3>5. \A p \in Existing : ClaimOf(p) \in Reported /\ MatchesClaim(ClaimOf(p))
        BY <3>2, <3>4 DEF Existing, Reported
      <3>6. \A p \in Existing : ~row[p].unknown
        BY <3>3, <3>4, <3>5, MatchedIsKnown DEF Existing
      <3>7. Reported = {ClaimOf(p) : p \in Existing}
        BY <3>4 DEF Reported, Existing
      <3>8. \A p \in Proposals : ClaimOf(p)' = ClaimOf(p) /\ Exists(p)' = Exists(p)
        BY <2>1 DEF ClaimOf, Exists
      <3>9. /\ outcome'.proposals = Existing /\ outcome'.effects = {ClaimOf(p) : p \in Existing}
            /\ outcome'.evidence \subseteq saved /\ outcome'.artifacts \subseteq published
        BY <3>1, <3>2, <3>7
      <3>10. /\ outcome'.proposals = {p \in Proposals : Exists(p)'}
             /\ outcome'.effects = {ClaimOf(p)' : p \in outcome'.proposals}
        BY <3>8, <3>9 DEF Existing
      <3>11. \A p \in Proposals : Exists(p)' => row'[p].status \notin Incomplete /\ ~row'[p].unknown
        BY <2>1, <3>2, <3>6, <3>8 DEF Existing
      <3>. QED
        BY <1>1, <3>9, <3>10, <3>11 DEF SavedResultIsTrue
    <2>5. CASE running' # "SUCCEEDED"
      BY <2>3, <2>5 DEF ResultKept, SavedResultIsTrue
    <2>. QED
      BY <2>2, <2>3, <2>4, <2>5 DEF ResultKept
  <1>. QED
    BY <1>2, <1>3

\* Every step preserves the invariant.
LEMMA ResultNextKeeps ==
  ASSUME ResultKept, [ResultNext]_resultVars
  PROVE  ResultKept'
  <1>1. \/ \E e \in ToolEvidence : SaveEvidence(e)
        \/ \E a \in ToolArtifacts : PublishArtifact(a)
        \/ CreatePolicy \/ DisablePolicy \/ AskToStop \/ UNCHANGED resultVars
        => ResultKept'
    <2>. SUFFICES ASSUME \/ \E e \in ToolEvidence : SaveEvidence(e)
                         \/ \E a \in ToolArtifacts : PublishArtifact(a)
                         \/ CreatePolicy \/ DisablePolicy \/ AskToStop \/ UNCHANGED resultVars
                  PROVE  ResultKept'
      OBVIOUS
    <2>1. /\ UNCHANGED <<running, row, check, outcome>>
          /\ saved \subseteq saved' /\ published \subseteq published'
          /\ stopAsked' = stopAsked \/ stopAsked'
      BY DEF SaveEvidence, PublishArtifact, CreatePolicy, DisablePolicy, AskToStop, resultVars
    <2>2. stopAsked' \in BOOLEAN
      BY DEF SaveEvidence, PublishArtifact, CreatePolicy, DisablePolicy, AskToStop, resultVars,
           ResultKept, ResultRows
    <2>. QED
      BY <2>1, <2>2, RecordsGrow
  <1>2. ASSUME NEW p \in Proposals,
               \/ \E risk \in {"LOW", "HIGH"}, inline \in BOOLEAN : Propose(p, risk, inline)
               \/ Expire(p) \/ \E decision \in {"APPROVED", "REJECTED"} : Decide(p, decision)
               \/ ClaimEffect(p) \/ ApplyEffect(p)
               \/ \E status \in {"STALE", "FAILED"} : CloseBeforeProvider(p, status)
               \/ \E status \in {"STALE", "FAILED", "VERIFICATION_FAILED"}, retryable, unknown \in BOOLEAN :
                    FailEffect(p, status, retryable, unknown)
        PROVE  ResultKept'
    BY <1>2, ProposeKeeps, DecideKeeps, EffectKeeps
  <1>3. ASSUME NEW p \in Proposals, InlineReceipt(p) \/ ParkInline(p)
        PROVE  ResultKept'
    <2>1. /\ row[p].phase = "ACTIVE" /\ running = "RUNNING" /\ check.step = "none"
          /\ UNCHANGED <<stopAsked, saved, published, outcome, check>>
          /\ \/ row' = [row EXCEPT ![p].phase = "DELIVERED"] /\ UNCHANGED running
             \/ Detach(p)
      BY <1>3 DEF InlineReceipt, ParkInline, InTurn
    <2>. QED
      BY <2>1, InlineKeeps
  <1>4. ASSUME \/ \E sources, artifact : EndTurn(sources, artifact)
               \/ EndTurnMalformed \/ Assemble \/ CheckProposals \/ CheckEffects \/ SaveResult
        PROVE  ResultKept'
    BY <1>4, CheckKeeps, SaveKeeps
  <1>. QED
    BY <1>1, <1>2, <1>3, <1>4 DEF ResultNext

\* A Run that starts has nothing to report.
LEMMA ResultInitial == ResultInit => ResultKept
  <1>. SUFFICES ASSUME ResultInit PROVE ResultKept
    OBVIOUS
  <1>1. NoProposal \in ProposalRows /\ NotApproved(NoProposal)
    BY DEF NoProposal, ProposalRows, NotApproved
  <1>2. \A p \in Proposals : row[p] = NoProposal
    BY DEF ResultInit
  <1>3. ResultRows
    BY <1>1, <1>2 DEF ResultInit, ResultRows, RowAgrees, NoCheck
  <1>4. CheckHolds
    BY DEF ResultInit, CheckHolds, NoCheck
  <1>. QED
    BY <1>3, <1>4 DEF ResultInit, ResultKept, SavedResultIsTrue

\* The rows of every write agree, and a check holds as far as it has come.
THEOREM ResultInductive == ResultSpec => []ResultKept
  BY ResultInitial, ResultNextKeeps, PTL DEF ResultSpec

\* A saved result tells the whole truth about the writes of its Run, although the records
\* were read before the transaction that saves it (finalize_execution).
THEOREM ResultsStayTrue == ResultSpec => []SavedResultIsTrue
  <1>1. ResultKept => SavedResultIsTrue
    BY DEF ResultKept
  <1>. QED
    BY <1>1, ResultInductive, PTL

\* The checks never refuse what the platform itself recorded (_matches_claim).
THEOREM SettledWritesReported == ResultSpec => []SettledWritesCanBeReported
  <1>1. ResultKept => SettledWritesCanBeReported
    BY SettledRowMatches DEF ResultKept, ResultRows, SettledWritesCanBeReported
  <1>. QED
    BY <1>1, ResultInductive, PTL
-----------------------------------------------------------------------------
(* The parts together: a step of the Run is a step of one part.                *)

\* What was proposed, decided and written comes back to the agent for good, and the saved result
\* says so, whichever part of the Run moves (runs/proposal_continuation.py, runs/result.py).
THEOREM ProposalsStayTold == AgentSpec => []ProposalsAreTold
  <1>1. AgentInit => ContinuationInit /\ ResultInit
    BY DEF AgentInit
  <1>2. [AgentNext]_agentVars => [ContinuationNext]_continuationVars
    BY DEF AgentNext, agentVars
  <1>3. [AgentNext]_agentVars => [ResultNext]_resultVars
    BY DEF AgentNext, agentVars
  <1>4. AgentSpec => ContinuationSpec /\ ResultSpec
    BY <1>1, <1>2, <1>3, PTL DEF AgentSpec, ContinuationSpec, ResultSpec
  <1>5. ContinuationSpec /\ ResultSpec =>
          [](/\ ContinuationLoads /\ RecordedProposalStaysValid /\ ToldForGood
             /\ SavedResultIsTrue /\ SettledWritesCanBeReported)
    BY OutcomesLoad, ProposalsStayValid, OutcomesStayTrue, ResultsStayTrue, SettledWritesReported, PTL
  <1>6. ( /\ ContinuationLoads /\ RecordedProposalStaysValid /\ ToldForGood
          /\ SavedResultIsTrue /\ SettledWritesCanBeReported ) => ProposalsAreTold
    BY DEF ProposalsAreTold
  <1>. QED
    BY <1>4, <1>5, <1>6, PTL

-----------------------------------------------------------------------------
(* The Claude engine's answers (ClaudeSession), for any set of tool uses and   *)
(* any bounds. A call that was ever deferred stands in the CLI's transcript;    *)
(* only the one the Run was resumed for is issued again.                        *)

Stands(id) == \E i \in DOMAIN entries : entries[i].id = id
UseIds == ClaudeUses \cup {NoToolUse}
Lines == [uuid : Nat, kind : {"tool_use", "tool_result", "hook_deferred"}, id : UseIds]
EngineRows ==
  [phase : {"closed", "open", "ended"}, seg : 0..MaxClaudeSegments, interrupt : BOOLEAN,
   resolved : UseIds]
ClaudeRows ==
  /\ engine \in EngineRows
  /\ entries \in Seq(Lines)
  /\ using \in [id : UseIds, decision : {"none", "deny", "allow", "defer"}]
  /\ replays \in UseIds
\* What has been answered, or is waited for, stands in the transcript.
AnsweredStand == \A id \in answered \cup {engine.resolved} : id = NoToolUse \/ Stands(id)
\* The call in hand: a new one, or the one that was resumed.
CallInHand ==
  /\ engine.phase = "closed" => using = NoUsing
  /\ replays # NoToolUse => replays = engine.resolved /\ using = NoUsing
  /\ using # NoUsing => using.id = engine.resolved \/ using.id \notin answered
  /\ using # NoUsing => using.id # NoToolUse /\ Stands(using.id)
  /\ using.decision = "defer" => using.id \notin answered
AnswersKept == ClaudeRows /\ AnsweredStand /\ CallInHand

\* A call the transcript has is still in it when the next line is written.
LEMMA StandsLonger ==
  ASSUME ClaudeRows, NEW kind \in {"tool_use", "tool_result", "hook_deferred"}, NEW n \in ClaudeUses,
         Note(kind, n)
  PROVE  /\ entries' \in Seq(Lines)
         /\ \A id : Stands(id) => Stands(id)'
         /\ Stands(n)'
  <1>. DEFINE line == [uuid |-> Len(entries) + 1, kind |-> kind, id |-> n]
  <1>1. /\ line \in Lines
        /\ line.id = n
    BY DEF Lines, UseIds
  <1>2. entries' = Append(entries, line)
    BY DEF Note
  <1>. HIDE DEF line
  <1>3. entries \in Seq(Lines)
    BY DEF ClaudeRows
  <1>4. /\ entries' \in Seq(Lines) /\ Len(entries') = Len(entries) + 1
        /\ entries'[Len(entries) + 1] = line
        /\ \A i \in 1..Len(entries) : entries'[i] = entries[i]
    BY <1>1, <1>2, <1>3, AppendFacts
  <1>5. /\ Len(entries) \in Nat
        /\ DOMAIN entries = 1..Len(entries) /\ DOMAIN entries' = 1..(Len(entries) + 1)
    BY <1>3, <1>4
  <1>. QED
    BY <1>1, <1>4, <1>5 DEF Stands

\* Every step of the Run on this engine keeps the calls in order.
LEMMA ClaudeKeeps ==
  ASSUME AnswersKept, [ClaudeNext]_claudeVars
  PROVE  AnswersKept'
  <1>. USE ClaudeAssumption
  <1>1. CASE FlushMirror \/ UNCHANGED claudeVars
    <2>1. UNCHANGED <<engine, entries, using, replays, answered>>
      BY <1>1 DEF FlushMirror, claudeVars
    <2>. QED
      BY <2>1 DEF AnswersKept, ClaudeRows, AnsweredStand, CallInHand, Stands
  <1>2. CASE BeginClaude
    <2>1. UNCHANGED <<entries, using, answered>> /\ engine.phase = "closed" /\ using = NoUsing
      BY <1>2 DEF BeginClaude, AnswersKept, CallInHand
    <2>2. /\ engine' \in EngineRows
          /\ engine'.resolved = engine.resolved
      <3>1. /\ engine \in EngineRows /\ engine.seg < MaxClaudeSegments
            /\ \/ UNCHANGED engine
               \/ engine' = [engine EXCEPT !.phase = "open", !.seg = @ + 1, !.interrupt = FALSE]
        BY <1>2 DEF BeginClaude, AnswersKept, ClaudeRows, EngineRows
      <3>2. engine.seg + 1 \in 0..MaxClaudeSegments
        BY <3>1 DEF EngineRows
      <3>. QED
        BY <3>1, <3>2 DEF EngineRows
    <2>3. replays' \in UseIds /\ (replays' # NoToolUse => replays' = engine.resolved)
      BY <1>2 DEF BeginClaude, AnswersKept, ClaudeRows, EngineRows, CallInHand, UseIds
    <2>4. ClaudeRows'
      BY <2>1, <2>2, <2>3 DEF AnswersKept, ClaudeRows
    <2>5. AnsweredStand'
      BY <2>1, <2>2 DEF AnswersKept, AnsweredStand, Stands
    <2>6. CallInHand'
      BY <2>1, <2>2, <2>3 DEF CallInHand, NoUsing
    <2>. QED
      BY <2>4, <2>5, <2>6 DEF AnswersKept
  <1>3. CASE AnswerArrives
    <2>1. /\ UNCHANGED <<engine, entries, using, replays>> /\ using = NoUsing
          /\ answered' = answered \cup {engine.resolved}
      BY <1>3 DEF AnswerArrives, AnswersKept, CallInHand
    <2>. QED
      BY <2>1 DEF AnswersKept, ClaudeRows, AnsweredStand, CallInHand, Stands, NoUsing
  <1>4. ASSUME NEW id \in ClaudeUses, UseTool(id)
        PROVE  AnswersKept'
    <2>1. /\ UNCHANGED <<engine, answered>> /\ engine.phase = "open" /\ using = NoUsing
          /\ using' = [id |-> id, decision |-> "none"] /\ replays' = NoToolUse
      BY <1>4 DEF UseTool
    <2>2. /\ entries' \in Seq(Lines)
          /\ \A i : Stands(i) => Stands(i)'
          /\ Stands(id)'
          /\ id = engine.resolved \/ id \notin answered
      <3>1. CASE replays # NoToolUse
        <4>1. id = engine.resolved /\ UNCHANGED entries /\ id # NoToolUse
          BY <1>4, <3>1 DEF UseTool, AnswersKept, CallInHand
        <4>. QED
          BY <4>1 DEF AnswersKept, ClaudeRows, AnsweredStand, Stands
      <3>2. CASE replays = NoToolUse
        <4>1. Note("tool_use", id) /\ ~Stands(id)
          BY <1>4, <3>2 DEF UseTool, Stands
        <4>2. id # NoToolUse
          OBVIOUS
        <4>. QED
          BY <4>1, <4>2, StandsLonger DEF AnswersKept, AnsweredStand
      <3>. QED
        BY <3>1, <3>2
    <2>3. ClaudeRows'
      BY <2>1, <2>2 DEF AnswersKept, ClaudeRows, UseIds
    <2>4. AnsweredStand'
      BY <2>1, <2>2 DEF AnswersKept, AnsweredStand
    <2>5. CallInHand'
      BY <2>1, <2>2 DEF CallInHand
    <2>. QED
      BY <2>3, <2>4, <2>5 DEF AnswersKept
  <1>5. CASE PermissionHook
    <2>1. /\ UNCHANGED <<engine, entries, replays, answered>> /\ using # NoUsing
          /\ engine.phase = "open"
      BY <1>5 DEF PermissionHook
    <2>2. /\ using' \in [id : UseIds, decision : {"none", "deny", "allow", "defer"}]
          /\ using'.id = using.id
          /\ using'.decision = "defer" => ~IsResolved(using.id)
      BY <1>5 DEF PermissionHook, AnswersKept, ClaudeRows, EngineRows
    <2>3. using'.decision = "defer" => using.id \notin answered
      BY <2>1, <2>2 DEF IsResolved, AnswersKept, CallInHand
    <2>4. replays = NoToolUse
      BY <2>1 DEF AnswersKept, CallInHand
    <2>. QED
      BY <2>1, <2>2, <2>3, <2>4 DEF AnswersKept, ClaudeRows, AnsweredStand, CallInHand, Stands
  <1>6. CASE ToolResult \/ DeferredResult
    <2>1. using # NoUsing /\ using.id \in ClaudeUses /\ using.id # NoToolUse /\ Stands(using.id)
      BY <1>6 DEF ToolResult, DeferredResult, NoUsing, AnswersKept, CallInHand, ClaudeRows, UseIds
    <2>2. Note("tool_result", using.id) \/ Note("hook_deferred", using.id)
      BY <1>6 DEF ToolResult, DeferredResult
    <2>3. /\ entries' \in Seq(Lines)
          /\ \A i : Stands(i) => Stands(i)'
      BY <2>1, <2>2, StandsLonger DEF AnswersKept
    <2>4. using' = NoUsing /\ UNCHANGED <<replays, answered>> /\ replays = NoToolUse
      BY <1>6, <2>1 DEF ToolResult, DeferredResult, AnswersKept, CallInHand
    <2>5. /\ engine' \in EngineRows
          /\ engine'.resolved \in {engine.resolved, using.id}
      BY <1>6 DEF ToolResult, DeferredResult, AnswersKept, ClaudeRows, EngineRows
    <2>6. NoUsing \in [id : UseIds, decision : {"none", "deny", "allow", "defer"}]
      BY DEF NoUsing, UseIds
    <2>7. ClaudeRows'
      BY <2>3, <2>4, <2>5, <2>6 DEF AnswersKept, ClaudeRows
    <2>8. AnsweredStand'
      BY <2>1, <2>3, <2>4, <2>5 DEF AnswersKept, AnsweredStand
    <2>9. CallInHand'
      BY <2>4 DEF CallInHand, NoUsing
    <2>. QED
      BY <2>7, <2>8, <2>9 DEF AnswersKept
  <1>7. CASE FinalResult \/ InterruptClaude
    <2>1. /\ UNCHANGED <<entries, using, replays, answered>> /\ engine.phase = "open"
          /\ engine'.resolved = engine.resolved /\ engine'.phase # "closed"
          /\ engine' \in EngineRows
      BY <1>7 DEF FinalResult, InterruptClaude, AnswersKept, ClaudeRows, EngineRows
    <2>. QED
      BY <2>1 DEF AnswersKept, ClaudeRows, AnsweredStand, CallInHand, Stands
  <1>8. CASE EngineStops
    <2>1. /\ UNCHANGED <<entries, replays, answered>> /\ using' = NoUsing
          /\ engine'.resolved = engine.resolved
          /\ engine' \in EngineRows
      BY <1>8 DEF EngineStops, AnswersKept, ClaudeRows, EngineRows
    <2>2. NoUsing \in [id : UseIds, decision : {"none", "deny", "allow", "defer"}]
      BY DEF NoUsing, UseIds
    <2>. QED
      BY <2>1, <2>2 DEF AnswersKept, ClaudeRows, AnsweredStand, CallInHand, Stands, NoUsing
  <1>. QED
    BY <1>1, <1>2, <1>3, <1>4, <1>5, <1>6, <1>7, <1>8 DEF ClaudeNext

\* Nothing has been asked when the Run begins.
LEMMA ClaudeInitial == ClaudeInit => AnswersKept
  BY ClaudeAssumption
  DEF ClaudeInit, AnswersKept, ClaudeRows, EngineRows, AnsweredStand, CallInHand, NoUsing, UseIds

\* Only a deferred result parks a Run, and a call whose answer the Run has is not deferred.
LEMMA ParkedForNewCall ==
  ASSUME AnswersKept, [ClaudeNext]_claudeVars, runEnd = "running", runEnd' = "parked"
  PROVE  engine'.resolved \notin answered
  <1>1. DeferredResult
    BY DEF ClaudeNext, claudeVars, FlushMirror, BeginClaude, AnswerArrives, UseTool, PermissionHook,
         ToolResult, FinalResult, InterruptClaude, EngineStops, MapResult
  <1>2. using.decision = "defer" /\ engine'.resolved = using.id
    BY <1>1 DEF DeferredResult, MapResult, AnswersKept, ClaudeRows, EngineRows
  <1>. QED
    BY <1>2 DEF AnswersKept, CallInHand

\* The call in hand is a new one or the one the Run was resumed for (enforce_tool_boundary).
THEOREM AnswersInductive == ClaudeSpec => []AnswersKept
  BY ClaudeInitial, ClaudeKeeps, PTL DEF ClaudeSpec

\* A Run never waits again for an answer it has, whatever of the transcript was stored
\* (enforce_tool_boundary, prepare_proposal_resume).
THEOREM AnswersNotAskedAgain == AgentSpec => AnswerNotAskedAgain
  <1>1. AgentInit => ClaudeInit
    BY DEF AgentInit
  <1>2. [AgentNext]_agentVars => [ClaudeNext]_claudeVars
    BY DEF AgentNext, agentVars
  <1>3. AgentSpec => ClaudeSpec
    BY <1>1, <1>2, PTL DEF AgentSpec, ClaudeSpec
  <1>4. AnswersKept /\ [ClaudeNext]_claudeVars
          => [runEnd = "running" /\ runEnd' = "parked" => engine.resolved' \notin answered]_claudeVars
    BY ParkedForNewCall
  <1>5. ClaudeSpec => AnswerNotAskedAgain
    BY <1>4, AnswersInductive, PTL DEF ClaudeSpec, AnswerNotAskedAgain
  <1>. QED
    BY <1>3, <1>5, PTL

-----------------------------------------------------------------------------
(* The Codex engine, segment after segment (CodexSession). A segment that ends   *)
(* parked leaves a session that the next one can take up; what the conversation  *)
(* was told is the checkpoint its last start carries.                            *)

Contexts == [field : {"none", "x"}, list : Seq(Facts)]
Prompts == [field : {"none", "x"}, clear : BOOLEAN, list : Seq(Facts), replace : BOOLEAN]
Entries == [type : {"start", "deferred", "terminal"}, seg : Nat, call : CodexCalls \cup {NoCodexCall},
            context : Contexts]
GenRows == [phase : {"thread", "started", "turn", "ended", "closed"}, seg : 0..MaxCodexSegments,
            prompt : Prompts]
BridgeRows == [accepting : BOOLEAN, calls : 0..MaxCodexTurns, deferred : CodexCalls \cup {NoCodexCall},
               stop : BOOLEAN, limit : BOOLEAN, parked : BOOLEAN]
CodexRows ==
  /\ gen \in GenRows
  /\ active \in [interrupted : BOOLEAN, turn : BOOLEAN]
  /\ turn \in {"none", "running", "told", "completed", "failed", "overloaded", "interrupted"}
  /\ bridge \in BridgeRows
  /\ codexCall \in [CodexCalls -> {"none", "done", "gateway", "ask", "propose", "park", "inline"}]
  /\ transcript \in Seq(Entries)
  /\ verdict \in {"none", "interrupted", "limit", "deferred", "capacity", "result", "error"}
  /\ segmentOutcome \in {"queued", "running", "parked", "retry", "cancelled", "succeeded", "failed"}
  /\ cancel \in [requested : BOOLEAN, seen : BOOLEAN]
  /\ checkpoint \in Contexts /\ toldContext \in Contexts

\* One call at most is being handled, none of a turn that ended of its own accord, and none
\* once a call has parked the turn; an interrupted turn has been told so.
TurnAgrees ==
  /\ \A c, d \in CodexCalls :
       codexCall[c] \notin {"none", "done"} /\ codexCall[d] \notin {"none", "done"} => c = d
  /\ turn \in {"none", "completed", "failed", "overloaded"} => ~Busy
  /\ bridge.deferred # NoCodexCall => ~bridge.accepting /\ ~Busy
  /\ segmentOutcome = "running" => gen.phase # "closed"
  /\ gen.phase \in {"thread", "started", "turn"} => segmentOutcome = "running"
  /\ segmentOutcome = "running" /\ gen.phase = "ended" => verdict # "none"
  /\ segmentOutcome = "queued" => gen.seg = 0
  /\ gen.phase = "thread" => turn = "none"
  /\ gen.phase = "turn" => active.turn /\ (active.interrupted => turn # "running")

\* A call that waits for an answer is recorded once in its segment.
Records(i, c) == transcript[i].type = "deferred" /\ transcript[i].seg = gen.seg /\ transcript[i].call = c
DeferredOnce ==
  /\ \A i \in 1..Len(transcript) : transcript[i].seg <= gen.seg
  /\ \A i, j \in 1..Len(transcript), c \in CodexCalls : Records(i, c) /\ Records(j, c) => i = j
  /\ \A i \in 1..Len(transcript), c \in CodexCalls :
       Records(i, c) => codexCall[c] \in {"park", "inline", "done"}
  /\ \A c \in CodexCalls : codexCall[c] \in {"park", "inline"} \/ bridge.deferred = c
       => \E i \in 1..Len(transcript) : Records(i, c)

\* The last start of the transcript is of the present segment and carries this context.
StartHolds(what) ==
  \E s \in 1..Len(transcript) :
    /\ transcript[s].type = "start" /\ transcript[s].seg = gen.seg /\ transcript[s].context = what
    /\ \A i \in 1..Len(transcript) : transcript[i].type = "start" => i <= s
Resumable ==
  \/ segmentOutcome \in {"parked", "retry"}
  \/ segmentOutcome = "running" /\ gen.phase = "ended" /\ verdict \in {"deferred", "capacity"}
ConversationKnows ==
  /\ gen.phase = "thread" => ToldInFull(toldContext, gen.prompt) = checkpoint
  /\ gen.phase = "started" =>
       /\ StartHolds(checkpoint)
       /\ IF turn = "none" THEN ToldInFull(toldContext, gen.prompt) = checkpoint
                           ELSE toldContext = checkpoint
  /\ gen.phase = "turn" => StartHolds(checkpoint) /\ toldContext = checkpoint
  /\ Resumable => /\ StartHolds(toldContext) /\ ~Busy /\ turn \notin {"running", "told"}
                  /\ transcript[Len(transcript)].type = "terminal"
CodexKept == CodexRows /\ TurnAgrees /\ DeferredOnce /\ ConversationKnows

\* The changes of a checkpoint, told to who holds the old one, make the new one.
LEMMA DeltaTellsAll ==
  ASSUME NEW old \in Contexts, NEW new \in Contexts
  PROVE  /\ ContextDelta(old, new) \in Prompts
         /\ ToldInFull(old, ContextDelta(old, new)) = new
  <1>1. /\ old.list \in Seq(Facts) /\ new.list \in Seq(Facts)
        /\ Len(old.list) \in Nat /\ Len(new.list) \in Nat
        /\ old.field \in {"none", "x"} /\ new.field \in {"none", "x"}
    BY DEF Contexts
  <1>2. new = [field |-> new.field, list |-> new.list]
    BY DEF Contexts
  <1>3. CASE IsPrefix(old.list, new.list)
    <2>1. /\ Len(old.list) <= Len(new.list)
          /\ SubSeq(old.list, 1, Len(old.list)) = SubSeq(new.list, 1, Len(old.list))
      BY <1>3 DEF IsPrefix
    <2>2. SubSeq(new.list, Len(old.list) + 1, Len(new.list)) \in Seq(Facts)
      BY <1>1, <2>1
    <2>3. old.list \o SubSeq(new.list, Len(old.list) + 1, Len(new.list)) = new.list
      <3>1. SubSeq(old.list, 1, Len(old.list)) = old.list /\ SubSeq(new.list, 1, Len(new.list)) = new.list
        BY <1>1, SubSeqFull
      <3>2. SubSeq(new.list, 1, Len(old.list)) \o SubSeq(new.list, Len(old.list) + 1, Len(new.list))
              = SubSeq(new.list, 1, Len(new.list))
        <4>1. /\ 1 \in 1..Len(new.list) + 1 /\ Len(old.list) \in 1 - 1..Len(new.list)
              /\ Len(new.list) \in Len(old.list)..Len(new.list)
          BY <1>1, <2>1
        <4>. QED
          BY <1>1, <4>1, ConcatAdjacentSubSeq
      <3>. QED
        BY <2>1, <3>1, <3>2
    <2>. QED
      BY <1>1, <1>2, <1>3, <2>2, <2>3 DEF ContextDelta, ToldInFull, Prompts
  <1>4. CASE ~IsPrefix(old.list, new.list)
    BY <1>1, <1>2, <1>4 DEF ContextDelta, ToldInFull, Prompts
  <1>. QED
    BY <1>3, <1>4

\* The first segment is told the whole checkpoint.
LEMMA WholeTellsAll ==
  ASSUME NEW old \in Contexts, NEW new \in Contexts
  PROVE  Whole(new) \in Prompts /\ ToldInFull(old, Whole(new)) = new
  BY DEF Whole, ToldInFull, Prompts, Contexts

\* A session that can be taken up again is: its parent is valid.
LEMMA ParentIsValid ==
  ASSUME CodexKept, segmentOutcome \in {"parked", "retry"}
  PROVE  ValidParent /\ LastStart.context = toldContext
  <1>1. PICK s \in 1..Len(transcript) :
          /\ transcript[s].type = "start" /\ transcript[s].seg = gen.seg /\ transcript[s].context = toldContext
          /\ \A i \in 1..Len(transcript) : transcript[i].type = "start" => i <= s
    BY DEF CodexKept, ConversationKnows, Resumable, StartHolds
  <1>2. DOMAIN transcript = 1..Len(transcript) /\ Len(transcript) \in Nat /\ transcript # <<>>
    BY <1>1 DEF CodexKept, CodexRows
  <1>3. Max(Starts) = s
    <2>1. s \in Starts /\ \A i \in Starts : i \in Nat /\ i <= s
      BY <1>1, <1>2 DEF Starts
    <2>2. \A m \in Starts : (\A i \in Starts : m >= i) => m = s
      BY <2>1
    <2>3. \A i \in Starts : s >= i
      BY <2>1
    <2>. QED
      BY <2>1, <2>2, <2>3 DEF Max
  <1>4. LastStart = transcript[s]
    BY <1>3 DEF LastStart
  <1>5. Last(transcript).type = "terminal"
    BY DEF CodexKept, ConversationKnows, Resumable, Last
  <1>6. ASSUME bridge.deferred # NoCodexCall
        PROVE  Cardinality({i \in DeferredIn(gen.seg) : transcript[i].call = bridge.deferred}) = 1
    <2>1. bridge.deferred \in CodexCalls
      BY <1>6 DEF CodexKept, CodexRows, BridgeRows
    <2>2. PICK i \in 1..Len(transcript) : Records(i, bridge.deferred)
      BY <2>1 DEF CodexKept, DeferredOnce
    <2>3. {j \in DeferredIn(gen.seg) : transcript[j].call = bridge.deferred} = {i}
      BY <2>1, <2>2, <1>2 DEF CodexKept, DeferredOnce, Records, DeferredIn
    <2>. QED
      BY <2>3, FS_Singleton
  <1>. QED
    BY <1>1, <1>2, <1>4, <1>5, <1>6 DEF ValidParent, Starts

\* How a step changes the transcript: not at all, or by one entry.
LEMMA TranscriptStep ==
  ASSUME CodexRows, CodexNext
  PROVE  \/ transcript' = transcript
         \/ \E e \in Entries : /\ transcript' = Append(transcript, e) /\ gen'.seg = gen.seg
                               /\ e.seg = gen.seg
                               /\ \/ ThreadStarted /\ e.type = "start" /\ e.context = checkpoint
                                  \/ TurnEnds /\ e.type = "terminal"
                                  \/ \E c \in CodexCalls : ValidateDeferred(c) /\ e.type = "deferred" /\ e.call = c
  <1>. USE CodexAssumption
  <1>1. gen.seg \in Nat /\ checkpoint \in Contexts /\ NoContext \in Contexts
        /\ [gen EXCEPT !.phase = "started"].seg = gen.seg /\ [gen EXCEPT !.phase = "ended"].seg = gen.seg
    BY DEF CodexRows, Contexts, NoContext, GenRows
  <1>2. CASE ThreadStarted
    <2>. DEFINE e == [Entry("start", NoCodexCall) EXCEPT !.context = checkpoint]
    <2>1. e \in Entries /\ e.seg = gen.seg /\ e.type = "start" /\ e.context = checkpoint
      BY <1>1 DEF Entry, Entries
    <2>2. transcript' = Append(transcript, e) /\ gen'.seg = gen.seg
      BY <1>1, <1>2 DEF ThreadStarted
    <2>. HIDE DEF e
    <2>. QED
      BY <1>2, <2>1, <2>2
  <1>3. CASE TurnEnds
    <2>. DEFINE e == Entry("terminal", NoCodexCall)
    <2>1. e \in Entries /\ e.seg = gen.seg /\ e.type = "terminal"
      BY <1>1 DEF Entry, Entries
    <2>2. transcript' = Append(transcript, e) /\ gen'.seg = gen.seg
      BY <1>1, <1>3 DEF TurnEnds, Yield
    <2>. HIDE DEF e
    <2>. QED
      BY <1>3, <2>1, <2>2
  <1>4. ASSUME NEW c \in CodexCalls, ValidateDeferred(c)
        PROVE  transcript' = transcript \/ \E e \in Entries :
                 /\ transcript' = Append(transcript, e) /\ gen'.seg = gen.seg
                 /\ e.seg = gen.seg /\ e.type = "deferred" /\ e.call = c
    BY <1>1, <1>4 DEF ValidateDeferred, Entry, Entries
  <1>5. CASE ~ThreadStarted /\ ~TurnEnds /\ ~\E c \in CodexCalls : ValidateDeferred(c)
    BY <1>5 DEF CodexNext, BeginSegment, ChangeCheckpoint, EngineError, SendTurn, TurnKnown, InvokeRefused,
         InvokeAtLimit, Invoke, GatewayAnswers, InlineEffect, Park, StopForDeferred, OutputLimit,
         CodexEndsTurn, CancelRequested, MonitorCancellation, ConsumeEngine, GiveUp, CloseEngine, ScopeEnds
  <1>. QED
    BY <1>2, <1>3, <1>4, <1>5

\* A segment begins, from a session that can be taken up or from none.
LEMMA SegmentBegins ==
  ASSUME CodexKept, BeginSegment
  PROVE  /\ segmentOutcome' = "running" /\ gen'.phase = "thread" /\ gen'.seg = gen.seg + 1
         /\ gen.phase = "closed" /\ gen' \in GenRows
         /\ ToldInFull(toldContext, gen'.prompt) = checkpoint
         /\ active' = NewExecution /\ bridge' = NewBridge /\ turn' = "none" /\ verdict' = "none"
         /\ codexCall' = [c \in CodexCalls |-> "none"]
         /\ UNCHANGED <<transcript, cancel, checkpoint, toldContext>>
  <1>1. toldContext \in Contexts /\ checkpoint \in Contexts /\ gen.seg \in Nat
    BY CodexAssumption DEF CodexKept, CodexRows, GenRows
  <1>2. CASE Resumes
    <2>1. segmentOutcome \in {"parked", "retry"}
      BY <1>2 DEF BeginSegment, Resumes, CodexKept, TurnAgrees
    <2>2. ValidParent /\ LastStart.context = toldContext
      BY <2>1, ParentIsValid
    <2>. QED
      BY <1>1, <1>2, <2>2, DeltaTellsAll, CodexAssumption DEF BeginSegment, CodexKept, CodexRows, GenRows
  <1>3. CASE ~Resumes
    BY <1>1, <1>3, WholeTellsAll, CodexAssumption DEF BeginSegment, CodexKept, CodexRows, GenRows
  <1>. QED
    BY <1>2, <1>3

\* What the last event of a segment can be, and what the executor makes of it.
LEMMA VerdictFacts ==
  ASSUME CodexRows, NEW status
  PROVE  /\ VerdictOf(status) \in {"interrupted", "limit", "deferred", "capacity", "result", "error"}
         /\ VerdictOf(status) = "deferred" => bridge.deferred # NoCodexCall
         /\ VerdictOf(status) = "capacity" => status = "overloaded"
  BY DEF VerdictOf, CodexRows, BridgeRows

\* A segment is parked or tried again only for a deferred call or for want of capacity.
LEMMA OutcomeFacts ==
  ASSUME CodexRows, NEW v \in {"interrupted", "limit", "deferred", "capacity", "result", "error"}
  PROVE  /\ OutcomeOf(v) \subseteq {"parked", "retry", "cancelled", "succeeded", "failed"}
         /\ OutcomeOf(v) \cap {"parked", "retry"} # {} => v \in {"deferred", "capacity"}
  BY DEF OutcomeOf, CodexRows

\* The rows keep their types.
LEMMA CodexRowsKept ==
  ASSUME CodexKept, [CodexNext]_codexVars
  PROVE  CodexRows'
  <1>. USE CodexAssumption
  <1>1. CodexRows
    BY DEF CodexKept
  <1>2. CASE UNCHANGED codexVars
    BY <1>1, <1>2 DEF codexVars, CodexRows
  <1>4. \A p \in {"started", "turn", "ended", "closed"} : [gen EXCEPT !.phase = p] \in GenRows
    BY <1>1 DEF CodexRows, GenRows
  <1>3. CASE CodexNext
    <2>1. transcript' \in Seq(Entries)
      <3>1. transcript' = transcript \/ \E e \in Entries : transcript' = Append(transcript, e)
        BY <1>1, <1>3, TranscriptStep
      <3>2. transcript \in Seq(Entries)
        BY <1>1 DEF CodexRows
      <3>. QED
        BY <3>1, <3>2, AppendFacts
    <2>2. CASE BeginSegment
      <3>1. NewBridge \in BridgeRows /\ NewExecution \in [interrupted : BOOLEAN, turn : BOOLEAN]
        BY DEF NewBridge, NewExecution, BridgeRows
      <3>. QED
        BY <1>1, <2>1, <2>2, <3>1, SegmentBegins DEF CodexRows
    <2>3. CASE ChangeCheckpoint
      <3>1. checkpoint' \in Contexts
        <4>1. checkpoint.list \in Seq(Facts)
          BY <1>1 DEF CodexRows, Contexts
        <4>2. \A x \in Facts : Append(checkpoint.list, x) \in Seq(Facts) /\ <<x>> \in Seq(Facts)
          BY <4>1
        <4>. QED
          <5>1. PICK f \in {"x", "none"}, l \in {checkpoint.list} \cup
                  {Append(checkpoint.list, x) : x \in Facts} \cup {<<x>> : x \in Facts} :
                    checkpoint' = [field |-> f, list |-> l]
            BY <2>3 DEF ChangeCheckpoint
          <5>2. l \in Seq(Facts)
            BY <4>1, <4>2
          <5>. QED
            BY <5>1, <5>2 DEF Contexts
      <3>. QED
        BY <1>1, <2>1, <2>3, <3>1 DEF ChangeCheckpoint, CodexRows, bridgeVars
    <2>4. CASE ThreadStarted \/ EngineError
      BY <1>1, <2>1, <1>4, <2>4 DEF ThreadStarted, EngineError, CodexRows, bridgeVars, runVars, Yield
    <2>9. CASE TurnKnown
      BY <1>1, <2>1, <1>4, <2>9 DEF TurnKnown, CodexRows, bridgeVars, runVars, Interrupted
    <2>10. CASE StopForDeferred \/ OutputLimit \/ CodexEndsTurn
      BY <1>1, <2>1, <2>10 DEF StopForDeferred, OutputLimit, CodexEndsTurn, CodexRows, BridgeRows, runVars
    <2>5. CASE SendTurn
      <3>1. toldContext' \in Contexts
        BY <1>1, <2>5 DEF SendTurn, CodexKept, ConversationKnows, CodexRows
      <3>. QED
        BY <1>1, <2>1, <1>4, <2>5, <3>1 DEF SendTurn, CodexRows, Yield
    <2>6. ASSUME NEW c \in CodexCalls,
                 InvokeRefused(c) \/ InvokeAtLimit(c) \/ Invoke(c) \/ GatewayAnswers(c)
                   \/ ValidateDeferred(c) \/ InlineEffect(c) \/ Park(c)
          PROVE  CodexRows'
      <3>1. /\ codexCall' \in [CodexCalls -> {"none", "done", "gateway", "ask", "propose", "park", "inline"}]
            /\ UNCHANGED <<gen, active, turn, verdict, runVars>>
        BY <1>1, <2>6 DEF InvokeRefused, InvokeAtLimit, Invoke, GatewayAnswers, ValidateDeferred,
           InlineEffect, Park, Goes, CodexRows
      <3>2. bridge' \in BridgeRows
        <4>1. CASE Invoke(c)
          <5>1. bridge.calls + 1 \in 0..MaxCodexTurns
            BY <1>1, <4>1 DEF Invoke, CodexRows, BridgeRows
          <5>. QED
            BY <1>1, <4>1, <5>1 DEF Invoke, CodexRows, BridgeRows
        <4>2. CASE InvokeAtLimit(c) \/ Park(c)
          BY <1>1, <4>2 DEF InvokeAtLimit, Park, CodexRows, BridgeRows
        <4>. QED
          BY <1>1, <2>6, <4>1, <4>2 DEF InvokeRefused, GatewayAnswers, ValidateDeferred, InlineEffect, CodexRows
      <3>. QED
        BY <1>1, <2>1, <3>1, <3>2 DEF CodexRows, runVars
    <2>7. CASE TurnEnds
      BY <1>1, <2>1, <1>4, <2>7, VerdictFacts DEF TurnEnds, CodexRows, bridgeVars, runVars, Yield
    <2>11. CASE CancelRequested \/ MonitorCancellation
      BY <1>1, <2>1, <2>11 DEF CancelRequested, MonitorCancellation, CodexRows, BridgeRows, bridgeVars,
           InterruptTurn, Interrupted
    <2>12. CASE ConsumeEngine \/ GiveUp
      <3>1. segmentOutcome' \in {"parked", "retry", "cancelled", "succeeded", "failed"}
        BY <1>1, <2>12, OutcomeFacts DEF ConsumeEngine, GiveUp, CodexKept, TurnAgrees, CodexRows
      <3>. QED
        BY <1>1, <2>1, <1>4, <2>12, <3>1 DEF ConsumeEngine, GiveUp, CodexRows, bridgeVars
    <2>8. CASE CloseEngine \/ ScopeEnds
      BY <1>1, <2>1, <1>4, <2>8 DEF CloseEngine, ScopeEnds, CodexRows, BridgeRows, bridgeVars
    <2>. QED
      BY <1>3, <2>2, <2>3, <2>4, <2>5, <2>6, <2>7, <2>8, <2>9, <2>10, <2>11, <2>12 DEF CodexNext
  <1>. QED
    BY <1>2, <1>3

\* Every step leaves the calls, the turn and the phases in agreement.
LEMMA TurnAgreesKept ==
  ASSUME CodexKept, [CodexNext]_codexVars
  PROVE  TurnAgrees'
  <1>. USE CodexAssumption
  <1>1. CodexRows /\ TurnAgrees
    BY DEF CodexKept
  <1>2. CASE UNCHANGED codexVars
    BY <1>1, <1>2 DEF codexVars, TurnAgrees, Busy
  <1>3. CASE BeginSegment
    <2>1. /\ \A c \in CodexCalls : codexCall'[c] = "none"
          /\ bridge'.deferred = NoCodexCall
      BY <1>3, SegmentBegins DEF NewBridge
    <2>. QED
      BY <2>1, <1>3, SegmentBegins DEF TurnAgrees, Busy
  <1>4. CASE ChangeCheckpoint \/ CancelRequested \/ ScopeEnds
    BY <1>1, <1>4 DEF ChangeCheckpoint, CancelRequested, ScopeEnds, TurnAgrees, Busy, bridgeVars
  <1>5. CASE ThreadStarted \/ EngineError
    BY <1>1, <1>5 DEF ThreadStarted, EngineError, TurnAgrees, Busy, bridgeVars, runVars, Yield, CodexRows, GenRows
  <1>6. CASE SendTurn
    BY <1>1, <1>6 DEF SendTurn, TurnAgrees, Busy, Yield, CodexRows, GenRows
  <1>7. CASE TurnKnown
    BY <1>1, <1>7 DEF TurnKnown, TurnAgrees, Busy, runVars, Interrupted, CodexRows, GenRows
  <1>8. ASSUME NEW c \in CodexCalls, InvokeRefused(c) \/ InvokeAtLimit(c) \/ Invoke(c)
        PROVE  TurnAgrees'
    <2>1. /\ ~Busy /\ turn \in {"running", "told"} /\ UNCHANGED <<gen, active, turn, verdict, segmentOutcome>>
          /\ \A d \in CodexCalls : d # c => codexCall'[d] = codexCall[d]
      BY <1>1, <1>8 DEF InvokeRefused, InvokeAtLimit, Invoke, MayCall, Goes, runVars, CodexRows
    <2>2. bridge'.deferred # NoCodexCall => ~bridge'.accepting /\ codexCall'[c] = "done"
      <3>1. CASE InvokeRefused(c)
        BY <1>1, <3>1 DEF InvokeRefused, Goes, CodexRows, BridgeRows
      <3>2. CASE InvokeAtLimit(c) \/ Invoke(c)
        <4>1. bridge.deferred = NoCodexCall
          BY <1>1, <3>2 DEF InvokeAtLimit, Invoke, TurnAgrees
        <4>. QED
          BY <1>1, <3>2, <4>1 DEF InvokeAtLimit, Invoke, CodexRows, BridgeRows
      <3>. QED
        BY <1>8, <3>1, <3>2
    <2>3. \A d \in CodexCalls : codexCall'[d] \notin {"none", "done"} => d = c
      BY <2>1 DEF Busy
    <2>. QED
      BY <1>1, <2>1, <2>2, <2>3 DEF TurnAgrees, Busy
  <1>9. ASSUME NEW c \in CodexCalls, GatewayAnswers(c) \/ ValidateDeferred(c) \/ InlineEffect(c) \/ Park(c)
        PROVE  TurnAgrees'
    <2>1. /\ codexCall[c] \notin {"none", "done"} /\ UNCHANGED <<gen, active, turn, verdict, segmentOutcome>>
          /\ \A d \in CodexCalls : d # c => codexCall'[d] = codexCall[d]
      BY <1>1, <1>9 DEF GatewayAnswers, ValidateDeferred, InlineEffect, Park, Goes, runVars, CodexRows
    <2>2. \A d \in CodexCalls : d # c => codexCall'[d] \in {"none", "done"}
      BY <1>1, <2>1 DEF TurnAgrees
    <2>3. bridge'.deferred # NoCodexCall => ~bridge'.accepting /\ codexCall'[c] = "done"
      BY <1>1, <1>9, <2>1 DEF GatewayAnswers, ValidateDeferred, InlineEffect, Park, Goes, TurnAgrees, Busy,
         CodexRows, BridgeRows
    <2>4. turn \in {"running", "told", "interrupted"}
      BY <1>1, <2>1 DEF TurnAgrees, Busy, CodexRows
    <2>. QED
      BY <1>1, <2>1, <2>2, <2>3, <2>4 DEF TurnAgrees, Busy
  <1>10. CASE StopForDeferred \/ OutputLimit
    BY <1>1, <1>10 DEF StopForDeferred, OutputLimit, TurnAgrees, Busy, runVars, CodexRows, BridgeRows
  <1>11. CASE CodexEndsTurn
    BY <1>1, <1>11 DEF CodexEndsTurn, TurnAgrees, Busy, runVars
  <1>12. CASE TurnEnds
    <2>1. verdict' # "none" /\ gen'.phase = "ended" /\ gen'.seg = gen.seg
      BY <1>1, <1>12, VerdictFacts DEF TurnEnds, Yield, CodexRows, GenRows
    <2>. QED
      BY <1>1, <1>12, <2>1 DEF TurnEnds, TurnAgrees, Busy, bridgeVars, runVars
  <1>13. CASE MonitorCancellation
    BY <1>1, <1>13 DEF MonitorCancellation, InterruptTurn, Interrupted, TurnAgrees, Busy, CodexRows, BridgeRows
  <1>14. CASE ConsumeEngine \/ GiveUp
    <2>1. segmentOutcome' \in {"parked", "retry", "cancelled", "succeeded", "failed"}
      BY <1>1, <1>14, OutcomeFacts DEF ConsumeEngine, GiveUp, TurnAgrees, CodexRows
    <2>. QED
      BY <1>1, <1>14, <2>1 DEF ConsumeEngine, GiveUp, TurnAgrees, Busy, bridgeVars, CodexRows, GenRows
  <1>15. CASE CloseEngine
    <2>1. gen'.phase = "closed" /\ gen'.seg = gen.seg /\ ~bridge'.accepting
          /\ \A c \in CodexCalls : codexCall'[c] \in {"none", "done"}
      BY <1>1, <1>15 DEF CloseEngine, CodexRows, GenRows, BridgeRows
    <2>. QED
      BY <1>1, <1>15, <2>1 DEF CloseEngine, TurnAgrees, Busy
  <1>. QED
    BY <1>2, <1>3, <1>4, <1>5, <1>6, <1>7, <1>8, <1>9, <1>10, <1>11, <1>12, <1>13, <1>14, <1>15 DEF CodexNext

\* What is recorded of the calls stays when the transcript does.
LEMMA RecordsStay ==
  ASSUME CodexRows, DeferredOnce, UNCHANGED transcript, gen'.seg = gen.seg,
         \A c \in CodexCalls : codexCall[c] \in {"park", "inline", "done"}
           => codexCall'[c] \in {"park", "inline", "done"},
         \A c \in CodexCalls : codexCall'[c] \in {"park", "inline"} \/ bridge'.deferred = c
           => codexCall[c] \in {"park", "inline"} \/ bridge.deferred = c
  PROVE  DeferredOnce'
  BY DEF DeferredOnce, Records

\* Every step leaves a deferred call recorded once.
LEMMA DeferredOnceKept ==
  ASSUME CodexKept, [CodexNext]_codexVars
  PROVE  DeferredOnce'
  <1>. USE CodexAssumption
  <1>1. CodexRows /\ TurnAgrees /\ DeferredOnce
    BY DEF CodexKept
  <1>2. CASE UNCHANGED codexVars
    BY <1>1, <1>2 DEF codexVars, DeferredOnce, Records
  <1>3. CASE BeginSegment
    <2>1. /\ \A c \in CodexCalls : codexCall'[c] = "none" /\ bridge'.deferred # c
          /\ transcript' = transcript /\ gen'.seg = gen.seg + 1 /\ gen.seg \in Nat
          /\ \A i \in 1..Len(transcript) : transcript[i].seg \in Nat
      <3>1. \A c \in CodexCalls : codexCall'[c] = "none" /\ bridge'.deferred # c
        BY <1>3, SegmentBegins DEF NewBridge
      <3>2. \A i \in 1..Len(transcript) : transcript[i].seg \in Nat
        <4>1. \A i \in 1..Len(transcript) : transcript[i] \in Entries
          BY <1>1 DEF CodexRows
        <4>. QED
          BY <4>1 DEF Entries
      <3>. QED
        BY <1>1, <1>3, <3>1, <3>2, SegmentBegins DEF CodexRows, GenRows
    <2>2. \A i \in 1..Len(transcript') : transcript'[i].seg <= gen'.seg /\ transcript'[i].seg # gen'.seg
      BY <1>1, <2>1 DEF DeferredOnce
    <2>3. \A i \in 1..Len(transcript'), c \in CodexCalls : ~Records(i, c)'
      BY <2>2 DEF Records
    <2>. QED
      BY <2>1, <2>2, <2>3 DEF DeferredOnce
  <1>4. ASSUME NEW e \in Entries, transcript' = Append(transcript, e), gen'.seg = gen.seg, e.seg = gen.seg,
               ThreadStarted \/ TurnEnds, e.type # "deferred"
        PROVE  DeferredOnce'
    <2>1. UNCHANGED <<codexCall, bridge>>
      BY <1>4 DEF ThreadStarted, TurnEnds, bridgeVars
    <2>2. /\ Len(transcript') = Len(transcript) + 1 /\ Len(transcript) \in Nat
          /\ transcript'[Len(transcript) + 1] = e
          /\ \A i \in 1..Len(transcript) : transcript'[i] = transcript[i]
      BY <1>1, <1>4, AppendFacts DEF CodexRows
    <2>3. gen.seg \in Nat
      BY <1>1 DEF CodexRows, GenRows
    <2>. QED
      BY <1>1, <1>4, <2>1, <2>2, <2>3 DEF DeferredOnce, Records
  <1>5. ASSUME NEW e \in Entries, transcript' = Append(transcript, e), gen'.seg = gen.seg, e.seg = gen.seg,
               NEW c \in CodexCalls, ValidateDeferred(c), e.type = "deferred", e.call = c
        PROVE  DeferredOnce'
    <2>1. /\ codexCall[c] \in {"ask", "propose"} /\ bridge' = bridge
          /\ codexCall'[c] \in {"park", "inline", "done"}
          /\ \A d \in CodexCalls : d # c => codexCall'[d] = codexCall[d]
      BY <1>1, <1>5 DEF ValidateDeferred, Goes, CodexRows
    <2>2. /\ Len(transcript') = Len(transcript) + 1 /\ Len(transcript) \in Nat
          /\ transcript'[Len(transcript) + 1] = e
          /\ \A i \in 1..Len(transcript) : transcript'[i] = transcript[i]
      BY <1>1, <1>5, AppendFacts DEF CodexRows
    <2>3. gen.seg \in Nat
      BY <1>1 DEF CodexRows, GenRows
    <2>4. \A i \in 1..Len(transcript) : ~Records(i, c)
      BY <1>1, <2>1 DEF DeferredOnce
    <2>5. \A i \in 1..Len(transcript'), d \in CodexCalls :
            Records(i, d)' <=> (i \in 1..Len(transcript) /\ Records(i, d)) \/ (i = Len(transcript) + 1 /\ d = c)
      BY <1>5, <2>2, <2>4 DEF Records
    <2>6. \A i, j \in 1..Len(transcript'), d \in CodexCalls : Records(i, d)' /\ Records(j, d)' => i = j
      BY <1>1, <2>4, <2>5 DEF DeferredOnce
    <2>7. \A i \in 1..Len(transcript'), d \in CodexCalls :
            Records(i, d)' => codexCall'[d] \in {"park", "inline", "done"}
      BY <1>1, <2>1, <2>5 DEF DeferredOnce
    <2>8. ASSUME NEW d \in CodexCalls, codexCall'[d] \in {"park", "inline"} \/ bridge'.deferred = d
          PROVE  \E i \in 1..Len(transcript') : Records(i, d)'
      <3>1. CASE d = c
        BY <2>2, <2>5, <3>1
      <3>2. CASE d # c
        <4>1. PICK i \in 1..Len(transcript) : Records(i, d)
          BY <1>1, <2>1, <2>8, <3>2 DEF DeferredOnce
        <4>. QED
          BY <2>2, <2>5, <4>1
      <3>. QED
        BY <3>1, <3>2
    <2>9. \A i \in 1..Len(transcript') : transcript'[i].seg <= gen'.seg
      BY <1>1, <1>5, <2>2, <2>3 DEF DeferredOnce
    <2>. QED
      BY <2>6, <2>7, <2>8, <2>9 DEF DeferredOnce
  <1>6. CASE CodexNext /\ transcript' = transcript /\ ~BeginSegment
    <2>1. gen'.seg = gen.seg
      BY <1>1, <1>6 DEF CodexNext, ChangeCheckpoint, ThreadStarted, EngineError, SendTurn, TurnKnown, InvokeRefused,
         InvokeAtLimit, Invoke, GatewayAnswers, ValidateDeferred, InlineEffect, Park, StopForDeferred, OutputLimit,
         CodexEndsTurn, TurnEnds, CancelRequested, MonitorCancellation, ConsumeEngine, GiveUp, CloseEngine,
         ScopeEnds, Yield, CodexRows, GenRows
    <2>2. ASSUME NEW c \in CodexCalls,
                 InvokeRefused(c) \/ InvokeAtLimit(c) \/ Invoke(c) \/ GatewayAnswers(c)
                   \/ ValidateDeferred(c) \/ InlineEffect(c) \/ Park(c)
          PROVE  DeferredOnce'
      <3>1. \A d \in CodexCalls : d # c => codexCall'[d] = codexCall[d]
        BY <1>1, <2>2 DEF InvokeRefused, InvokeAtLimit, Invoke, GatewayAnswers, ValidateDeferred,
           InlineEffect, Park, Goes, CodexRows
      <3>2. \/ codexCall[c] = "none" /\ codexCall'[c] \in {"done", "gateway", "ask", "propose"}
               /\ bridge'.deferred = bridge.deferred
            \/ codexCall[c] # "none" /\ codexCall'[c] = "done" /\ bridge'.deferred = bridge.deferred
            \/ codexCall[c] = "inline" /\ codexCall'[c] = "park" /\ bridge'.deferred = bridge.deferred
            \/ codexCall[c] = "park" /\ codexCall'[c] = "done" /\ bridge'.deferred = c
        <4>1. CASE ValidateDeferred(c)
          <5>1. transcript' # Append(transcript, Entry("deferred", c))
            BY <1>1, <1>6 DEF CodexRows
          <5>. QED
            BY <1>1, <4>1, <5>1 DEF ValidateDeferred, Goes, CodexRows
        <4>2. CASE InvokeRefused(c) \/ InvokeAtLimit(c) \/ Invoke(c) \/ GatewayAnswers(c)
          BY <1>1, <4>2 DEF InvokeRefused, InvokeAtLimit, Invoke, GatewayAnswers, Goes, CodexRows, BridgeRows
        <4>3. CASE InlineEffect(c) \/ Park(c)
          BY <1>1, <4>3 DEF InlineEffect, Park, Goes, CodexRows, BridgeRows
        <4>. QED
          BY <2>2, <4>1, <4>2, <4>3
      <3>. QED
        BY <1>1, <1>6, <2>1, <3>1, <3>2, RecordsStay
    <2>3. CASE CloseEngine
      <3>1. bridge'.deferred = bridge.deferred
            /\ \A c \in CodexCalls : codexCall'[c] = IF codexCall[c] = "none" THEN "none" ELSE "done"
        BY <1>1, <2>3 DEF CloseEngine, CodexRows, BridgeRows
      <3>. QED
        BY <1>1, <1>6, <2>1, <3>1, RecordsStay
    <2>4. CASE ~CloseEngine /\ ~\E c \in CodexCalls :
                 InvokeRefused(c) \/ InvokeAtLimit(c) \/ Invoke(c) \/ GatewayAnswers(c)
                   \/ ValidateDeferred(c) \/ InlineEffect(c) \/ Park(c)
      <3>1. UNCHANGED codexCall /\ bridge'.deferred = bridge.deferred
        BY <1>1, <1>6, <2>4 DEF CodexNext, ChangeCheckpoint, ThreadStarted, EngineError, SendTurn, TurnKnown,
           StopForDeferred, OutputLimit, CodexEndsTurn, TurnEnds, CancelRequested, MonitorCancellation,
           ConsumeEngine, GiveUp, ScopeEnds, bridgeVars, InterruptTurn, CodexRows, BridgeRows
      <3>. QED
        BY <1>1, <1>6, <2>1, <3>1, RecordsStay
    <2>. QED
      BY <2>2, <2>3, <2>4
  <1>7. CASE CodexNext /\ transcript' # transcript
    BY <1>1, <1>4, <1>5, <1>7, TranscriptStep
  <1>. QED
    BY <1>2, <1>3, <1>6, <1>7

\* The last start of the transcript stays the last when another kind of entry is added.
LEMMA StartStays ==
  ASSUME CodexRows, gen'.seg = gen.seg, NEW what, StartHolds(what),
         \/ transcript' = transcript
         \/ \E e \in Entries : transcript' = Append(transcript, e) /\ e.type # "start"
  PROVE  /\ \E s \in 1..Len(transcript') :
              /\ transcript'[s].type = "start" /\ transcript'[s].seg = gen'.seg
              /\ transcript'[s].context = what
              /\ \A i \in 1..Len(transcript') : transcript'[i].type = "start" => i <= s
  <1>1. CASE transcript' = transcript
    BY <1>1 DEF StartHolds
  <1>2. ASSUME NEW e \in Entries, transcript' = Append(transcript, e), e.type # "start"
        PROVE  \E s \in 1..Len(transcript') :
                 /\ transcript'[s].type = "start" /\ transcript'[s].seg = gen'.seg
                 /\ transcript'[s].context = what
                 /\ \A i \in 1..Len(transcript') : transcript'[i].type = "start" => i <= s
    <2>1. /\ Len(transcript') = Len(transcript) + 1 /\ Len(transcript) \in Nat
          /\ transcript'[Len(transcript) + 1] = e
          /\ \A i \in 1..Len(transcript) : transcript'[i] = transcript[i]
      BY <1>2, AppendFacts DEF CodexRows
    <2>2. PICK s \in 1..Len(transcript) :
            /\ transcript[s].type = "start" /\ transcript[s].seg = gen.seg /\ transcript[s].context = what
            /\ \A i \in 1..Len(transcript) : transcript[i].type = "start" => i <= s
      BY DEF StartHolds
    <2>. QED
      BY <1>2, <2>1, <2>2
  <1>. QED
    BY <1>1, <1>2

\* Every step leaves the conversation with what it was told.
LEMMA ConversationKept ==
  ASSUME CodexKept, [CodexNext]_codexVars
  PROVE  ConversationKnows'
  <1>. USE CodexAssumption
  <1>1. CodexRows /\ TurnAgrees /\ ConversationKnows
    BY DEF CodexKept
  <1>2. CASE UNCHANGED codexVars
    BY <1>1, <1>2 DEF codexVars, ConversationKnows, StartHolds, Resumable, Busy
  <1>3. CASE BeginSegment
    BY <1>3, SegmentBegins DEF ConversationKnows, Resumable
  <1>4. CASE ThreadStarted
    <2>1. PICK e \in Entries : /\ transcript' = Append(transcript, e) /\ e.seg = gen.seg
                               /\ e.type = "start" /\ e.context = checkpoint
      <3>1. ~TurnEnds /\ ~\E c \in CodexCalls : ValidateDeferred(c)
        BY <1>1, <1>4 DEF ThreadStarted, TurnEnds, ValidateDeferred, TurnAgrees, Busy, CodexRows
      <3>2. transcript' # transcript
        BY <1>1, <1>4 DEF ThreadStarted, CodexRows
      <3>3. CodexNext
        BY <1>4 DEF CodexNext
      <3>. QED
        BY <1>1, <3>1, <3>2, <3>3, TranscriptStep
    <2>2. /\ Len(transcript') = Len(transcript) + 1 /\ Len(transcript) \in Nat
          /\ transcript'[Len(transcript) + 1] = e
      BY <1>1, <2>1, AppendFacts DEF CodexRows
    <2>3. /\ gen'.phase = "started" /\ gen'.seg = gen.seg /\ gen'.prompt = gen.prompt
          /\ turn = "none" /\ segmentOutcome = "running" /\ gen.phase = "thread"
          /\ UNCHANGED <<turn, toldContext, checkpoint, segmentOutcome>>
      BY <1>1, <1>4 DEF ThreadStarted, CodexRows, GenRows, TurnAgrees, bridgeVars, runVars
    <2>4. StartHolds(checkpoint)'
      BY <2>1, <2>2, <2>3 DEF StartHolds
    <2>. QED
      BY <1>1, <2>3, <2>4 DEF ConversationKnows, Resumable
  <1>5. CASE TurnEnds
    <2>1. /\ gen.phase = "turn" /\ gen'.phase = "ended" /\ gen'.seg = gen.seg
          /\ turn \in {"completed", "failed", "overloaded", "interrupted"}
          /\ verdict' = VerdictOf(turn)
          /\ UNCHANGED <<turn, codexCall, toldContext, checkpoint, segmentOutcome>>
          /\ segmentOutcome = "running"
      BY <1>1, <1>5 DEF TurnEnds, Yield, CodexRows, GenRows, bridgeVars, runVars, TurnAgrees
    <2>2. verdict' \in {"deferred", "capacity"} => ~Busy
      BY <1>1, <2>1, VerdictFacts DEF TurnAgrees
    <2>3. PICK e \in Entries : transcript' = Append(transcript, e) /\ e.type = "terminal"
      <3>1. ~ThreadStarted /\ CodexNext
        BY <1>5 DEF CodexNext, TurnEnds, ThreadStarted
      <3>2. ~\E c \in CodexCalls : ValidateDeferred(c)
        BY <2>1 DEF ValidateDeferred
      <3>3. transcript' # transcript
        BY <1>1, <1>5 DEF TurnEnds, CodexRows
      <3>. QED
        BY <1>1, <3>1, <3>2, <3>3, TranscriptStep
    <2>4. /\ Len(transcript') = Len(transcript) + 1
          /\ transcript'[Len(transcript) + 1] = e
      BY <1>1, <2>3, AppendFacts DEF CodexRows
    <2>5. StartHolds(toldContext)'
      <3>1. StartHolds(toldContext)
        BY <1>1, <2>1 DEF ConversationKnows
      <3>. QED
        BY <1>1, <2>1, <2>3, <3>1, StartStays DEF StartHolds
    <2>. QED
      BY <2>1, <2>2, <2>3, <2>4, <2>5 DEF ConversationKnows, Resumable, Busy
  <1>6. ASSUME NEW c \in CodexCalls,
               InvokeRefused(c) \/ InvokeAtLimit(c) \/ Invoke(c) \/ GatewayAnswers(c)
                 \/ ValidateDeferred(c) \/ InlineEffect(c) \/ Park(c)
        PROVE  ConversationKnows'
    <2>1. UNCHANGED <<gen, active, turn, verdict, segmentOutcome, checkpoint, toldContext>>
      BY <1>6 DEF InvokeRefused, InvokeAtLimit, Invoke, GatewayAnswers, ValidateDeferred, InlineEffect, Park,
         runVars
    <2>2. ~Resumable
      <3>1. CASE InvokeRefused(c) \/ InvokeAtLimit(c) \/ Invoke(c)
        BY <1>1, <3>1 DEF InvokeRefused, InvokeAtLimit, Invoke, MayCall, ConversationKnows
      <3>2. CASE GatewayAnswers(c) \/ ValidateDeferred(c) \/ InlineEffect(c) \/ Park(c)
        BY <1>1, <3>2 DEF GatewayAnswers, ValidateDeferred, InlineEffect, Park, ConversationKnows, Busy
      <3>. QED
        BY <1>6, <3>1, <3>2
    <2>3. \/ transcript' = transcript
          \/ \E e \in Entries : transcript' = Append(transcript, e) /\ e.type # "start"
      <3>1. CASE ValidateDeferred(c)
        <4>1. Entry("deferred", c) \in Entries /\ Entry("deferred", c).type = "deferred"
          BY <1>1 DEF Entry, Entries, Contexts, NoContext, CodexRows, GenRows
        <4>. QED
          BY <3>1, <4>1 DEF ValidateDeferred
      <3>. QED
        BY <1>6, <3>1 DEF InvokeRefused, InvokeAtLimit, Invoke, GatewayAnswers, InlineEffect, Park
    <2>4. StartHolds(checkpoint) => StartHolds(checkpoint)'
      BY <1>1, <2>1, <2>3, StartStays DEF StartHolds
    <2>. QED
      BY <1>1, <2>1, <2>2, <2>4 DEF ConversationKnows, Resumable
  <1>7. CASE UNCHANGED transcript /\ CodexNext /\ ~BeginSegment /\ ~ThreadStarted /\ ~TurnEnds
             /\ ~\E c \in CodexCalls :
                  InvokeRefused(c) \/ InvokeAtLimit(c) \/ Invoke(c) \/ GatewayAnswers(c)
                    \/ ValidateDeferred(c) \/ InlineEffect(c) \/ Park(c)
    <2>1. gen'.seg = gen.seg /\ gen'.prompt = gen.prompt
      BY <1>1, <1>7 DEF CodexNext, ChangeCheckpoint, EngineError, SendTurn, TurnKnown, StopForDeferred,
         OutputLimit, CodexEndsTurn, CancelRequested, MonitorCancellation, ConsumeEngine, GiveUp, CloseEngine,
         ScopeEnds, Yield, CodexRows, GenRows
    <2>2. \A what : StartHolds(what) <=> StartHolds(what)'
      BY <1>7, <2>1 DEF StartHolds
    <2>3. CASE ChangeCheckpoint
      BY <1>1, <1>7, <2>2, <2>3 DEF ChangeCheckpoint, ConversationKnows, StartHolds, Resumable, Busy, bridgeVars
    <2>4. CASE EngineError
      <3>1. gen'.phase = "ended" /\ verdict' = "error" /\ segmentOutcome' = "running"
        BY <1>1, <2>4 DEF EngineError, Yield, CodexRows, GenRows, TurnAgrees, runVars
      <3>. QED
        BY <3>1 DEF ConversationKnows, Resumable
    <2>5. CASE SendTurn
      <3>1. segmentOutcome' = "running" /\ gen.phase = "started" /\ turn = "none" /\ UNCHANGED checkpoint
        BY <1>1, <2>5 DEF SendTurn, TurnAgrees
      <3>2. CASE active.interrupted
        <4>1. gen'.phase = "ended" /\ verdict' = "interrupted"
          BY <1>1, <2>5, <3>2 DEF SendTurn, Yield, CodexRows, GenRows
        <4>. QED
          BY <3>1, <4>1 DEF ConversationKnows, Resumable
      <3>3. CASE ~active.interrupted
        <4>1. gen' = gen /\ turn' = "running" /\ toldContext' = checkpoint
          BY <1>1, <2>5, <3>1, <3>3 DEF SendTurn, ConversationKnows
        <4>. QED
          BY <1>1, <2>2, <3>1, <4>1 DEF ConversationKnows, Resumable
      <3>. QED
        BY <3>2, <3>3
    <2>6. CASE TurnKnown
      <3>1. /\ gen'.phase = "turn" /\ segmentOutcome' = "running" /\ gen.phase = "started" /\ turn # "none"
            /\ UNCHANGED <<toldContext, checkpoint>>
        BY <1>1, <2>6 DEF TurnKnown, TurnAgrees, runVars, CodexRows, GenRows
      <3>. QED
        BY <1>1, <2>2, <3>1 DEF ConversationKnows, Resumable
    <2>7. CASE StopForDeferred \/ OutputLimit
      <3>1. /\ gen.phase = "turn" /\ segmentOutcome = "running"
            /\ UNCHANGED <<gen, toldContext, checkpoint, segmentOutcome>>
        BY <1>1, <2>7 DEF StopForDeferred, OutputLimit, TurnAgrees, runVars
      <3>. QED
        BY <1>1, <2>2, <3>1 DEF ConversationKnows, Resumable
    <2>8. CASE CodexEndsTurn
      <3>1. /\ turn \in {"running", "told"} /\ turn' # "none"
            /\ UNCHANGED <<gen, toldContext, checkpoint, segmentOutcome, verdict>>
        BY <2>8 DEF CodexEndsTurn, runVars
      <3>2. ~Resumable
        BY <1>1, <3>1 DEF ConversationKnows
      <3>. QED
        BY <1>1, <2>2, <3>1, <3>2 DEF ConversationKnows, Resumable
    <2>9. CASE CancelRequested \/ ScopeEnds
      <3>1. UNCHANGED <<gen, turn, codexCall, toldContext, checkpoint, segmentOutcome, verdict>>
        BY <2>9 DEF CancelRequested, ScopeEnds, bridgeVars
      <3>. QED
        BY <1>1, <1>7, <2>2, <3>1 DEF ConversationKnows, Resumable, Busy
    <2>10. CASE MonitorCancellation
      <3>1. /\ UNCHANGED <<gen, codexCall, toldContext, checkpoint, segmentOutcome, verdict>>
            /\ turn' # turn => turn = "running" /\ turn' = "told"
        BY <2>10 DEF MonitorCancellation, InterruptTurn, Interrupted
      <3>. QED
        BY <1>1, <1>7, <2>2, <3>1 DEF ConversationKnows, Resumable, Busy
    <2>11. CASE ConsumeEngine
      <3>1. /\ gen.phase = "ended" /\ segmentOutcome = "running"
            /\ UNCHANGED <<gen, turn, codexCall, toldContext, checkpoint, verdict>>
            /\ segmentOutcome' \in {"parked", "retry"} => verdict \in {"deferred", "capacity"}
            /\ segmentOutcome' # "running"
        BY <1>1, <2>11, OutcomeFacts DEF ConsumeEngine, TurnAgrees, CodexRows, bridgeVars
      <3>. QED
        BY <1>1, <1>7, <2>2, <3>1 DEF ConversationKnows, Resumable, Busy
    <2>12. CASE GiveUp
      <3>1. gen'.phase = "ended" /\ segmentOutcome' \in {"cancelled", "failed"}
        BY <1>1, <2>12 DEF GiveUp, CodexRows, GenRows
      <3>. QED
        BY <3>1 DEF ConversationKnows, Resumable
    <2>13. CASE CloseEngine
      <3>1. /\ gen'.phase = "closed" /\ segmentOutcome # "running" /\ turn' = "none"
            /\ UNCHANGED <<toldContext, checkpoint, segmentOutcome>>
            /\ \A c \in CodexCalls : codexCall'[c] \in {"none", "done"}
        BY <1>1, <2>13 DEF CloseEngine, CodexRows, GenRows
      <3>. QED
        BY <1>1, <1>7, <2>2, <3>1 DEF ConversationKnows, Resumable, Busy
    <2>. QED
      BY <1>7, <2>3, <2>4, <2>5, <2>6, <2>7, <2>8, <2>9, <2>10, <2>11, <2>12, <2>13 DEF CodexNext
  <1>8. CASE CodexNext /\ transcript' # transcript
    BY <1>1, <1>4, <1>5, <1>6, <1>8, TranscriptStep
  <1>. QED
    BY <1>2, <1>3, <1>4, <1>5, <1>6, <1>7, <1>8

\* A Run begins with nothing told and no session.
LEMMA CodexStarts == CodexInit => CodexKept
  <1>. SUFFICES ASSUME CodexInit PROVE CodexKept
    OBVIOUS
  <1>. USE CodexAssumption
  <1>1. (CHOOSE x \in Facts : TRUE) \in Facts
    OBVIOUS
  <1>2. Whole(NoContext) \in Prompts /\ NoContext \in Contexts /\ checkpoint \in Contexts
    BY <1>1 DEF CodexInit, Whole, Prompts, NoContext, Contexts
  <1>3. CodexRows
    BY <1>2 DEF CodexInit, CodexRows, GenRows, BridgeRows, NewExecution, NewBridge
  <1>4. TurnAgrees
    BY DEF CodexInit, TurnAgrees, Busy, NewBridge, NewExecution
  <1>5. DeferredOnce /\ ConversationKnows
    BY DEF CodexInit, DeferredOnce, ConversationKnows, Resumable, NewBridge
  <1>. QED
    BY <1>3, <1>4, <1>5 DEF CodexKept

\* On Codex, a parked Run resumes, an interrupt reaches its turn and a changed checkpoint is told.
LEMMA CodexResumes == CodexSpec => [](CodexKept /\ ParkedRunResumes /\ InterruptReachesTurn /\ CheckpointTold)
  <1>1. CodexKept /\ [CodexNext]_codexVars => CodexKept'
    BY CodexRowsKept, TurnAgreesKept, DeferredOnceKept, ConversationKept DEF CodexKept
  <1>2. CodexKept => ParkedRunResumes /\ InterruptReachesTurn /\ CheckpointTold
    BY DEF CodexKept, CodexRows, TurnAgrees, ConversationKnows, ParkedRunResumes, InterruptReachesTurn,
       CheckpointTold
  <1>. QED
    BY <1>1, <1>2, CodexStarts, PTL DEF CodexSpec

-----------------------------------------------------------------------------
(* The transcript the Claude SDK mirrors (ClaudeSession). Rows beyond what the   *)
(* SDK believes it has handed over are there without a gap, so a batch sent      *)
(* again adds its last entries only.                                             *)

MirrorRows ==
  /\ mirror \in 0..Len(entries) /\ store \in Seq(Lines)
  /\ \A i \in 1..Len(entries) : entries[i].uuid = i
MirrorOrder ==
  /\ \A i, j \in 1..Len(store) : i < j => store[i].uuid < store[j].uuid
  /\ \A i \in 1..Len(store) : store[i].uuid <= Len(entries)
Handed(u) == \E j \in 1..Len(store) : store[j].uuid = u
MirrorCovers ==
  \A i \in 1..Len(store) : \A u \in mirror + 1..store[i].uuid : Handed(u)
MirrorKept == MirrorRows /\ MirrorOrder /\ MirrorCovers

\* A batch that was stored up to some entry adds those after it.
LEMMA BatchPlanned ==
  ASSUME AnswersKept, MirrorKept, mirror < Len(entries)
  PROVE  \E top \in mirror..Len(entries) :
           LET new == PlanNewEntries(Batch(mirror, Len(entries)), store) IN
           /\ \A i \in 1..Len(store) : store[i].uuid <= top
           /\ \A u \in mirror + 1..top : Handed(u)
           /\ new \in Seq(Lines) /\ Len(new) = Len(entries) - top
           /\ \A k \in 1..Len(new) : new[k].uuid = top + k
  <1>1. /\ mirror \in Nat /\ Len(entries) \in Nat /\ Len(store) \in Nat
        /\ \A i \in 1..Len(entries) : entries[i] \in Lines
        /\ \A i \in 1..Len(store) : store[i] \in Lines /\ store[i].uuid \in Nat
        /\ DOMAIN store = 1..Len(store)
    <2>1. mirror \in 0..Len(entries) /\ entries \in Seq(Lines) /\ store \in Seq(Lines)
      BY DEF AnswersKept, ClaudeRows, MirrorKept, MirrorRows
    <2>2. /\ \A i \in 1..Len(entries) : entries[i] \in Lines
          /\ \A i \in 1..Len(store) : store[i] \in Lines
      BY <2>1
    <2>3. \A line \in Lines : line.uuid \in Nat
      BY DEF Lines
    <2>. QED
      BY <2>1, <2>2, <2>3
  <1>2. PICK top \in mirror..Len(entries) :
          /\ \A i \in 1..Len(store) : store[i].uuid <= top
          /\ \A u \in mirror + 1..top : Handed(u)
    <2>1. CASE \A i \in 1..Len(store) : store[i].uuid <= mirror
      BY <1>1, <2>1 DEF MirrorKept, MirrorRows
    <2>2. ASSUME NEW i \in 1..Len(store), store[i].uuid > mirror
          PROVE  \E top \in mirror..Len(entries) :
                   /\ \A j \in 1..Len(store) : store[j].uuid <= top
                   /\ \A u \in mirror + 1..top : Handed(u)
      <3>. DEFINE top == store[Len(store)].uuid
      <3>1. \A j \in 1..Len(store) : store[j].uuid <= top
        <4>1. ASSUME NEW j \in 1..Len(store)
              PROVE  store[j].uuid <= store[Len(store)].uuid
          <5>1. CASE j = Len(store)
            BY <1>1, <5>1
          <5>2. CASE j < Len(store)
            <6>1. Len(store) \in 1..Len(store)
              BY <1>1, <2>2
            <6>2. store[j].uuid < store[Len(store)].uuid
              BY <5>2, <6>1 DEF MirrorKept, MirrorOrder
            <6>. QED
              BY <1>1, <6>1, <6>2
          <5>3. j = Len(store) \/ j < Len(store)
            <6>1. Len(store) \in Nat
              BY <1>1
            <6>. QED
              BY <6>1
          <5>. QED
            BY <5>1, <5>2, <5>3
        <4>. QED
          BY <4>1
      <3>2. Len(store) \in 1..Len(store) /\ top \in mirror..Len(entries)
        BY <1>1, <2>2, <3>1 DEF MirrorKept, MirrorOrder
      <3>3. \A u \in mirror + 1..top : Handed(u)
        BY <3>2 DEF MirrorKept, MirrorCovers
      <3>. QED
        BY <3>1, <3>2, <3>3
    <2>. QED
      BY <1>1, <2>1, <2>2
  <1>. DEFINE n == Len(entries) - mirror
              batch == Batch(mirror, Len(entries))
              new == NewEntries(batch, store)
              past == top - mirror
              Nth(k) == CHOOSE i \in new : Cardinality({j \in new : j <= i}) = k
              plan == PlanNewEntries(batch, store)
  <1>3. /\ DOMAIN batch = 1..n /\ n \in Nat /\ past \in 0..n
        /\ \A i \in 1..n : batch[i] \in Lines /\ batch[i].uuid = mirror + i
    BY <1>1, <1>2 DEF Batch, MirrorKept, MirrorRows
  <1>4. new = past + 1..n
    <2>1. \A i \in 1..n : i \in new <=> \A j \in 1..Len(store) : store[j].uuid # mirror + i
      BY <1>1, <1>3 DEF NewEntries
    <2>2. new \subseteq 1..n
      BY <1>3 DEF NewEntries
    <2>3. \A i \in 1..n : i <= past => mirror + i \in mirror + 1..top
      BY <1>1, <1>2
    <2>4. \A i \in 1..n : i > past => mirror + i > top /\ mirror + i \in Nat
      BY <1>1, <1>2
    <2>. HIDE DEF new, n, past, batch
    <2>5. \A i \in 1..n : i <= past => i \notin new
      BY <1>2, <2>1, <2>3 DEF Handed
    <2>6. \A i \in 1..n : i > past => i \in new
      <3>1. ASSUME NEW i \in 1..n, i > past
            PROVE  \A j \in 1..Len(store) : store[j].uuid # mirror + i
        BY <1>1, <1>2, <2>4, <3>1
      <3>. QED
        BY <2>1, <3>1
    <2>7. n \in Nat /\ past \in Nat /\ past <= n
      BY <1>3
    <2>8. \A i \in new : i \in past + 1..n
      BY <2>2, <2>5, <2>7
    <2>9. \A i \in past + 1..n : i \in 1..n /\ i > past
      BY <2>7
    <2>. QED
      BY <2>6, <2>8, <2>9
  <1>5. Cardinality(new) = n - past
    BY <1>3, <1>4, FS_Interval
  <1>6. \A i \in new : Cardinality({j \in new : j <= i}) = i - past
    <2>. HIDE DEF new, n, past, batch
    <2>1. n \in Nat /\ past \in Nat
      BY <1>3
    <2>2. \A i \in new : {j \in new : j <= i} = past + 1..i /\ i \in Int /\ past + 1 <= i
      BY <1>4, <2>1
    <2>3. \A i \in new : Cardinality(past + 1..i) = i - (past + 1) + 1
      BY <2>1, <2>2, FS_Interval
    <2>4. \A i \in new : i - (past + 1) + 1 = i - past
      BY <2>1, <2>2
    <2>. QED
      BY <2>2, <2>3, <2>4
  <1>7. ASSUME NEW k \in 1..n - past
        PROVE  Nth(k) = past + k
    <2>1. past + k \in new
      BY <1>3, <1>4
    <2>2. \A i \in new : Cardinality({j \in new : j <= i}) = k <=> i = past + k
      <3>1. \A i \in new : i \in Int /\ past \in Int /\ k \in Int
        BY <1>3, <1>4
      <3>. HIDE DEF new, n, past, batch
      <3>2. \A i \in new : i - past = k <=> i = past + k
        BY <3>1
      <3>. QED
        BY <1>6, <3>2
    <2>. QED
      BY <2>1, <2>2
  <1>8. plan = [k \in 1..n - past |-> batch[Nth(k)]]
    BY <1>5 DEF PlanNewEntries
  <1>9. \A k \in 1..n - past : plan[k] \in Lines /\ plan[k].uuid = top + k
    <2>1. \A k \in 1..n - past : past + k \in 1..n /\ mirror + (past + k) = top + k
      BY <1>1, <1>2, <1>3
    <2>. HIDE DEF new, n, past, batch, Nth, plan
    <2>. QED
      BY <1>3, <1>7, <1>8, <2>1
  <1>10. plan \in Seq(Lines) /\ Len(plan) = n - past
    <2>1. n - past \in Nat
      BY <1>3
    <2>. HIDE DEF new, n, past, batch, Nth, plan
    <2>2. plan \in [1..n - past -> Lines]
      BY <1>8, <1>9
    <2>. QED
      BY <2>1, <2>2
  <1>11. n - past = Len(entries) - top
    BY <1>1, <1>2
  <1>. QED
    <2>. HIDE DEF new, n, past, batch, Nth
    <2>1. plan \in Seq(Lines) /\ Len(plan) = Len(entries) - top /\ \A k \in 1..Len(plan) : plan[k].uuid = top + k
      BY <1>9, <1>10, <1>11
    <2>. QED
      BY <1>2, <2>1 DEF batch

\* Every step leaves the stored transcript in order.
LEMMA MirrorKeeps ==
  ASSUME AnswersKept, MirrorKept, AnswersKept', [ClaudeNext]_claudeVars
  PROVE  MirrorKept'
  <1>1. /\ entries \in Seq(Lines) /\ Len(entries) \in Nat /\ Len(store) \in Nat /\ mirror \in Nat
        /\ store \in Seq(Lines) /\ \A i \in 1..Len(store) : store[i].uuid \in Nat
    <2>1. mirror \in 0..Len(entries) /\ entries \in Seq(Lines) /\ store \in Seq(Lines)
      BY DEF AnswersKept, ClaudeRows, MirrorKept, MirrorRows
    <2>2. \A i \in 1..Len(store) : store[i] \in Lines
      BY <2>1
    <2>3. \A line \in Lines : line.uuid \in Nat
      BY DEF Lines
    <2>. QED
      BY <2>1, <2>2, <2>3
  <1>2. CASE UNCHANGED <<entries, mirror, store>>
    BY <1>2 DEF MirrorKept, MirrorRows, MirrorOrder, MirrorCovers, Handed
  <1>3. ASSUME NEW kind, NEW id, Note(kind, id), UNCHANGED <<mirror, store>>
        PROVE  MirrorKept'
    <2>1. /\ Len(entries') = Len(entries) + 1 /\ entries'[Len(entries) + 1].uuid = Len(entries) + 1
          /\ \A i \in 1..Len(entries) : entries'[i] = entries[i]
      BY <1>1, <1>3 DEF Note
    <2>2. MirrorRows'
      <3>1. \A i \in 1..Len(entries') : i \in 1..Len(entries) \/ i = Len(entries) + 1
        BY <1>1, <2>1
      <3>2. \A i \in 1..Len(entries') : entries'[i].uuid = i
        BY <2>1, <3>1 DEF MirrorKept, MirrorRows
      <3>3. mirror' \in 0..Len(entries') /\ store' \in Seq(Lines)
        BY <1>1, <1>3, <2>1 DEF MirrorKept, MirrorRows
      <3>. QED
        BY <3>2, <3>3 DEF MirrorRows
    <2>3. MirrorOrder'
      BY <1>1, <1>3, <2>1 DEF MirrorKept, MirrorOrder
    <2>4. MirrorCovers'
      BY <1>3 DEF MirrorKept, MirrorCovers, Handed
    <2>. QED
      BY <2>2, <2>3, <2>4 DEF MirrorKept
  <1>4. CASE FlushMirror
    <2>1. mirror < Len(entries) /\ entries' = entries
      BY <1>4 DEF FlushMirror
    <2>. DEFINE new == PlanNewEntries(Batch(mirror, Len(entries)), store)
    <2>2. PICK top \in mirror..Len(entries) :
            /\ \A i \in 1..Len(store) : store[i].uuid <= top
            /\ \A u \in mirror + 1..top : Handed(u)
            /\ new \in Seq(Lines) /\ Len(new) = Len(entries) - top
            /\ \A k \in 1..Len(new) : new[k].uuid = top + k
      BY <2>1, BatchPlanned
    <2>3. CASE store' = store /\ mirror' = Len(entries)
      BY <1>1, <2>1, <2>3 DEF MirrorKept, MirrorRows, MirrorOrder, MirrorCovers, Handed
    <2>4. CASE store' = store \o new /\ mirror' \in {mirror, Len(entries)}
      <3>. HIDE DEF new
      <3>1. /\ store' \in Seq(Lines) /\ Len(store') = Len(store) + Len(new)
            /\ \A i \in 1..Len(store) : store'[i] = store[i]
            /\ \A k \in 1..Len(new) : store'[Len(store) + k] = new[k]
        <4>1. /\ store \o new \in Seq(Lines) /\ Len(store \o new) = Len(store) + Len(new)
              /\ \A i \in 1..Len(store) + Len(new) : (store \o new)[i] =
                   IF i <= Len(store) THEN store[i] ELSE new[i - Len(store)]
          BY <1>1, <2>2, ConcatProperties
        <4>2. Len(new) \in Nat
          BY <2>2
        <4>3. \A k \in 1..Len(new) : /\ Len(store) + k \in 1..Len(store) + Len(new) /\ ~(Len(store) + k <= Len(store))
                                     /\ Len(store) + k - Len(store) = k
          BY <1>1, <4>2
        <4>. QED
          BY <1>1, <2>4, <4>1, <4>2, <4>3
      <3>2. /\ Len(new) \in Nat /\ top \in Nat /\ top <= Len(entries)
            /\ \A k \in 1..Len(new) : store'[Len(store) + k].uuid = top + k
            /\ \A i \in 1..Len(store') : i \in 1..Len(store) \/ i - Len(store) \in 1..Len(new)
        BY <1>1, <2>2, <3>1
      <3>3. \A i \in 1..Len(store') :
              \/ i \in 1..Len(store) /\ store'[i] = store[i]
              \/ i > Len(store) /\ i - Len(store) \in 1..Len(new)
                   /\ store'[i].uuid = top + (i - Len(store))
        <4>1. ASSUME NEW i \in 1..Len(store'), i > Len(store)
              PROVE  i - Len(store) \in 1..Len(new) /\ store'[i].uuid = top + (i - Len(store))
          <5>1. i - Len(store) \in 1..Len(new) /\ Len(store) + (i - Len(store)) = i
            BY <1>1, <3>1, <3>2, <4>1
          <5>. QED
            BY <3>2, <5>1
        <4>. QED
          BY <1>1, <3>1, <3>2, <4>1
      <3>4. MirrorOrder'
        <4>1. \A i, j \in 1..Len(store') : i < j => store'[i].uuid < store'[j].uuid
          <5>1. ASSUME NEW i \in 1..Len(store'), NEW j \in 1..Len(store'), i < j
                PROVE  store'[i].uuid < store'[j].uuid
            <6>1. CASE j <= Len(store)
              <7>1. /\ i \in 1..Len(store) /\ j \in 1..Len(store)
                    /\ store'[i] = store[i] /\ store'[j] = store[j]
                BY <1>1, <3>1, <5>1, <6>1
              <7>. QED
                BY <5>1, <7>1 DEF MirrorKept, MirrorOrder
            <6>2. CASE j > Len(store)
              <7>1. j - Len(store) \in 1..Len(new) /\ store'[j].uuid = top + (j - Len(store))
                BY <1>1, <3>3, <6>2
              <7>2. CASE i <= Len(store)
                <8>1. i \in 1..Len(store) /\ store'[i] = store[i]
                  BY <1>1, <3>1, <5>1, <7>2
                <8>2. store[i].uuid <= top /\ store[i].uuid \in Nat
                  BY <1>1, <2>2, <8>1
                <8>3. top + (j - Len(store)) > top
                  BY <3>2, <7>1
                <8>. QED
                  BY <3>2, <7>1, <8>1, <8>2, <8>3
              <7>3. CASE i > Len(store)
                <8>1. store'[i].uuid = top + (i - Len(store))
                  BY <1>1, <3>3, <7>3
                <8>. QED
                  BY <1>1, <3>1, <3>2, <5>1, <7>1, <8>1
              <7>. QED
                BY <1>1, <5>1, <7>2, <7>3
            <6>. QED
              BY <1>1, <5>1, <6>1, <6>2
          <5>. QED
            BY <5>1
        <4>2. \A i \in 1..Len(store') : store'[i].uuid <= Len(entries')
          BY <1>1, <2>1, <2>2, <3>2, <3>3
        <4>. QED
          BY <4>1, <4>2 DEF MirrorOrder
      <3>5. \A u \in mirror + 1..Len(entries) : Handed(u)'
        <4>1. ASSUME NEW u \in mirror + 1..Len(entries)
              PROVE  Handed(u)'
          <5>1. CASE u <= top
            <6>1. PICK j \in 1..Len(store) : store[j].uuid = u
              BY <1>1, <2>2, <3>2, <4>1, <5>1 DEF Handed
            <6>2. j \in 1..Len(store') /\ store'[j].uuid = u
              BY <1>1, <3>1, <3>2, <6>1
            <6>. QED
              BY <6>2 DEF Handed
          <5>2. CASE u > top
            <6>1. u - top \in 1..Len(new) /\ Len(store) + (u - top) \in 1..Len(store') /\ top + (u - top) = u
              BY <1>1, <2>2, <3>1, <3>2, <4>1, <5>2
            <6>. QED
              BY <3>2, <6>1 DEF Handed
          <5>. QED
            BY <1>1, <3>2, <4>1, <5>1, <5>2
        <4>. QED
          BY <4>1
      <3>6. MirrorCovers'
        <4>1. mirror' \in Nat /\ mirror <= mirror'
          BY <1>1, <2>1, <2>4
        <4>2. \A i \in 1..Len(store') : store'[i].uuid \in Nat /\ store'[i].uuid <= Len(entries)
          BY <1>1, <2>1, <3>2, <3>3, <3>4 DEF MirrorOrder
        <4>. QED
          BY <1>1, <3>5, <4>1, <4>2 DEF MirrorCovers
      <3>7. MirrorRows'
        BY <1>1, <2>1, <2>4, <3>1 DEF MirrorKept, MirrorRows
      <3>. QED
        BY <3>4, <3>6, <3>7 DEF MirrorKept
    <2>. QED
      BY <1>4, <2>3, <2>4 DEF FlushMirror
  <1>. QED
    <2>1. CASE ClaudeNext /\ ~FlushMirror
      <3>1. \/ UNCHANGED <<entries, mirror, store>>
            \/ UNCHANGED <<mirror, store>> /\ \E kind \in {"tool_use", "tool_result", "hook_deferred"}, id \in
                 ClaudeUses \cup {using.id} : Note(kind, id)
        BY <2>1 DEF ClaudeNext, BeginClaude, AnswerArrives, UseTool, PermissionHook, ToolResult, DeferredResult,
           FinalResult, InterruptClaude, EngineStops
      <3>. QED
        BY <1>2, <1>3, <3>1
    <2>. QED
      BY <1>2, <1>4, <2>1 DEF claudeVars

\* A segment starts where the last one stopped, whatever call, limit, interrupt or lost answer
\* came in between (_validate_parent, invoke, interrupt, continuation_prompt, _plan_new_entries).
THEOREM EnginesStayResumable == AgentSpec => []EnginesResume
  <1>1. AgentInit => CodexInit /\ ClaudeInit
    BY DEF AgentInit
  <1>2. [AgentNext]_agentVars => [CodexNext]_codexVars /\ [ClaudeNext]_claudeVars
    BY DEF AgentNext, agentVars
  <1>3. AgentSpec => CodexSpec /\ ClaudeSpec
    BY <1>1, <1>2, PTL DEF AgentSpec, CodexSpec, ClaudeSpec
  <1>4. ClaudeInit => MirrorKept
    BY DEF ClaudeInit, MirrorKept, MirrorRows, MirrorOrder, MirrorCovers
  <1>5. ClaudeSpec => []MirrorKept
    BY <1>4, AnswersInductive, MirrorKeeps, PTL DEF ClaudeSpec
  <1>6. MirrorKept => TranscriptInOrder
    BY DEF MirrorKept, MirrorRows, MirrorOrder, TranscriptInOrder
  <1>7. ParkedRunResumes /\ InterruptReachesTurn /\ CheckpointTold /\ TranscriptInOrder => EnginesResume
    BY DEF EnginesResume
  <1>. QED
    BY <1>3, <1>5, <1>6, <1>7, CodexResumes, PTL

-----------------------------------------------------------------------------
(* The evaluations of a result (Evaluations), for any keys, requests and rows.  *)
(* The page waits for one POST at a time and knows what it carries; a row, once  *)
(* appended, stays, and keeps its place among the others; a page of the history  *)
(* ends where the rows it did not show begin.                                    *)

EvalRow == [id : Nat, key : SubmissionKeys \cup {NoPost}, body : {"valid", "other"}]
SentBodies == {"valid", "invalid"}
PostRows ==
  [key : SubmissionKeys \cup {NoPost}, body : SentBodies \cup {NoBody},
   state : {"unsent", "flying", "answered", "over"}, reply : Replies]
OriginalRows ==
  [key : SubmissionKeys \cup {NoPost}, body : SentBodies \cup {NoBody},
   phase : {"none", "sending", "checking", "unknown", "refused", "confirmed"},
   uncertain : BOOLEAN, failure : ClearFailures \cup {"none", "other"}]
QueryRows ==
  [state : {"idle", "asked", "answered"}, reply : Replies, content : {"valid", "other", NoBody}]
HistoryRows ==
  [shown : SUBSET Nat, state : {"asked", "answered", "ready"}, after : Nat \cup {NoPost},
   next : Nat \cup {NoPost}, page : Seq(EvalRow), since : SUBSET Nat, whole : BOOLEAN]

\* Rows have an id and, when the page sent them, a key of their own.
RowsAgree ==
  /\ evaluations \in Seq(EvalRow)
  /\ \A i \in DOMAIN evaluations : evaluations[i].id <= Len(evaluations)
  /\ \A i, j \in DOMAIN evaluations :
       \/ evaluations[i].id = evaluations[j].id
       \/ evaluations[i].key = evaluations[j].key /\ evaluations[i].key # NoPost
       => i = j
SavedAs(k, body) == \E e \in FindSubmission(k) : e.body = body
OnItsWay(n) == posts[n].state \in {"flying", "answered"}
\* What a POST carries, and what its answer means.
PostsAgree ==
  /\ posts \in [1..MaxPosts -> PostRows]
  /\ \A n \in 1..MaxPosts : OnItsWay(n) => posts[n].key \in SubmissionKeys /\ posts[n].body \in SentBodies
  /\ \A n \in 1..MaxPosts : posts[n].state = "answered" /\ posts[n].reply = "saved" =>
       SavedAs(posts[n].key, posts[n].body)
  /\ \A n \in 1..MaxPosts : posts[n].state = "answered" /\ posts[n].reply \in ClearFailures =>
       posts[n].body = "invalid"
\* The submission the page keeps, the POST and the receipt it waits for.
PageAgrees ==
  /\ original \in OriginalRows /\ controller \in 1..MaxPosts \cup {NoPost}
  /\ confirmation \in QueryRows /\ cleared \in [SubmissionKeys -> {"no", "saved", "invalid"}]
  /\ original.key = NoPost => original = NoSubmission
  /\ controller # NoPost <=> original.phase = "sending"
  /\ confirmation.state # "idle" <=> original.phase = "checking"
  /\ controller # NoPost /\ OnItsWay(controller) =>
       posts[controller].key = original.key /\ posts[controller].body = original.body
  /\ original.phase = "sending" => original.body # NoBody
  /\ original.failure \in ClearFailures => original.body = "invalid"
  /\ original.phase = "confirmed" => \E e \in FindSubmission(original.key) : original.body \in {NoBody, e.body}
  /\ confirmation.state = "answered" /\ confirmation.reply = "saved" =>
       SavedAs(original.key, confirmation.content)
  /\ \A k \in SubmissionKeys : cleared[k] = "saved" => FindSubmission(k) # {}

Precedes(a, b) ==
  \E i, j \in DOMAIN evaluations : i < j /\ evaluations[i].id = a /\ evaluations[j].id = b
\* What the history has not shown comes after its cursor.
HistoryCovers ==
  /\ history \in HistoryRows /\ history.since \subseteq Ids(evaluations)
  /\ history.after \in Ids(evaluations) \cup {NoPost} /\ history.next \in Ids(evaluations) \cup {NoPost}
  /\ history.state # "ready" => ~history.whole
  /\ history.whole => history.next = NoPost /\ history.since \subseteq history.shown
  /\ history.state = "asked" /\ history.after # NoPost =>
       \A x \in history.since \ history.shown : Precedes(history.after, x)
  /\ history.state = "answered" =>
       \A x \in history.since \ (history.shown \cup Ids(history.page)) :
         history.next # NoPost /\ Precedes(history.next, x)
  /\ history.state = "ready" /\ history.next # NoPost =>
       \A x \in history.since \ history.shown : Precedes(history.next, x)
EvaluationKept == RowsAgree /\ PostsAgree /\ PageAgrees /\ HistoryCovers

\* A member put into a sequence moves those after it up by one place.
LEMMA InsertFacts ==
  ASSUME NEW S, NEW s \in Seq(S), NEW x \in S, NEW at \in 1..Len(s) + 1
  PROVE  /\ InsertAt(s, at, x) \in Seq(S) /\ Len(InsertAt(s, at, x)) = Len(s) + 1
         /\ InsertAt(s, at, x)[at] = x
         /\ \A i \in 1..Len(s) : (i < at => InsertAt(s, at, x)[i] = s[i])
              /\ (~(i < at) => InsertAt(s, at, x)[i + 1] = s[i])
  <1>. DEFINE left == SubSeq(s, 1, at - 1)
              right == SubSeq(s, at, Len(s))
  <1>1. left \in Seq(S) /\ Len(left) = at - 1 /\ \A i \in 1..at - 1 : left[i] = s[i]
    OBVIOUS
  <1>2. /\ right \in Seq(S) /\ Len(right) = Len(s) + 1 - at
        /\ \A i \in 1..Len(s) + 1 - at : right[i] = s[at - 1 + i]
    OBVIOUS
  <1>3. <<x>> \in Seq(S) /\ Len(<<x>>) = 1 /\ <<x>>[1] = x
    OBVIOUS
  <1>. HIDE DEF left, right
  <1>4. (left \o <<x>>) \in Seq(S) /\ Len(left \o <<x>>) = at /\ (left \o <<x>>)[at] = x
        /\ \A i \in 1..at - 1 : (left \o <<x>>)[i] = left[i]
    BY <1>1, <1>3
  <1>. DEFINE front == left \o <<x>>
  <1>. HIDE DEF front
  <1>5. /\ front \in Seq(S) /\ Len(front) = at /\ front[at] = x
        /\ \A i \in 1..at - 1 : front[i] = s[i]
    BY <1>1, <1>4 DEF front
  <1>6. /\ (front \o right) \in Seq(S) /\ Len(front \o right) = Len(s) + 1
        /\ \A i \in 1..at : (front \o right)[i] = front[i]
        /\ \A i \in 1..Len(s) + 1 - at : (front \o right)[at + i] = right[i]
    BY <1>2, <1>5
  <1>7. InsertAt(s, at, x) = front \o right
    BY DEF InsertAt, front, left, right
  <1>8. ASSUME NEW i \in 1..Len(s), i < at
        PROVE  (front \o right)[i] = s[i]
    BY <1>5, <1>6, <1>8
  <1>9. ASSUME NEW i \in 1..Len(s), ~(i < at)
        PROVE  (front \o right)[i + 1] = s[i]
    <2>1. i + 1 - at \in 1..Len(s) + 1 - at /\ i + 1 = at + (i + 1 - at) /\ i = at - 1 + (i + 1 - at)
      BY <1>9
    <2>. QED
      BY <1>2, <1>6, <2>1
  <1>. QED
    BY <1>5, <1>6, <1>7, <1>8, <1>9

\* The rows grow: each keeps its place among the others.
RowsGrow ==
  /\ RowsAgree' /\ Ids(evaluations) \subseteq Ids(evaluations')
  /\ StoredEvaluations \subseteq StoredEvaluations'
  /\ \A a, b : Precedes(a, b) => Precedes(a, b)'

\* append: a key that has no row yet, or none at all.
LEMMA RowAdded ==
  ASSUME RowsAgree, NEW k \in SubmissionKeys \cup {NoPost}, NEW body \in {"valid", "other"},
         k = NoPost \/ FindSubmission(k) = {}, Append_(k, body)
  PROVE  /\ RowsGrow
         /\ \E e \in StoredEvaluations' : e.key = k /\ e.body = body
  <1>1. PICK at \in {Len(evaluations), Len(evaluations) + 1} \ {0} :
          evaluations' = InsertAt(evaluations, at, EvaluationRow(k, body))
    BY DEF Append_
  <1>. DEFINE row_ == EvaluationRow(k, body)
  <1>2. /\ evaluations \in Seq(EvalRow) /\ Len(evaluations) \in Nat
        /\ DOMAIN evaluations = 1..Len(evaluations)
    BY DEF RowsAgree
  <1>3. row_ \in EvalRow /\ row_.id = Len(evaluations) + 1 /\ row_.key = k /\ row_.body = body
    BY <1>2 DEF EvaluationRow, EvalRow
  <1>4. at \in 1..Len(evaluations) + 1
    BY <1>2
  <1>. DEFINE n == Len(evaluations)
              moved == [i \in 1..n |-> IF i < at THEN i ELSE i + 1]
  <1>n. n \in Nat /\ n = Len(evaluations) /\ at \in 1..n + 1
    BY <1>2, <1>4
  <1>5. evaluations' = InsertAt(evaluations, at, row_)
    BY <1>1
  <1>. HIDE DEF row_
  <1>6. /\ evaluations' \in Seq(EvalRow) /\ Len(evaluations') = Len(evaluations) + 1
        /\ evaluations'[at] = row_
        /\ \A i \in 1..Len(evaluations) : evaluations'[IF i < at THEN i ELSE i + 1] = evaluations[i]
    <2>. HIDE DEF n, moved
    <2>. DEFINE longer == InsertAt(evaluations, at, row_)
    <2>1. /\ longer \in Seq(EvalRow) /\ Len(longer) = Len(evaluations) + 1 /\ longer[at] = row_
          /\ \A i \in 1..Len(evaluations) : (i < at => longer[i] = evaluations[i])
                /\ (~(i < at) => longer[i + 1] = evaluations[i])
      <3>1. \A s \in Seq(EvalRow), x \in EvalRow : \A m \in 1..Len(s) + 1 :
              /\ InsertAt(s, m, x) \in Seq(EvalRow) /\ Len(InsertAt(s, m, x)) = Len(s) + 1
              /\ InsertAt(s, m, x)[m] = x
              /\ \A i \in 1..Len(s) : (i < m => InsertAt(s, m, x)[i] = s[i])
                   /\ (~(i < m) => InsertAt(s, m, x)[i + 1] = s[i])
        BY InsertFacts
      <3>2. evaluations \in Seq(EvalRow) /\ row_ \in EvalRow
        BY <1>2, <1>3
      <3>. QED
        BY <1>4, <3>1, <3>2
    <2>2. evaluations' = longer
      BY <1>5
    <2>. HIDE DEF longer
    <2>. QED
      BY <2>1, <2>2
  <1>. HIDE DEF n
  <1>7. DOMAIN evaluations' = 1..n + 1 /\ DOMAIN evaluations = 1..n
    <2>1. DOMAIN evaluations' = 1..Len(evaluations')
      BY <1>6
    <2>. QED
      BY <1>2, <1>6, <1>n, <2>1
  <1>a. \A i \in 1..n : moved[i] = IF i < at THEN i ELSE i + 1
    OBVIOUS
  <1>. HIDE DEF moved
  <1>b. \A i \in 1..n : evaluations'[moved[i]] = evaluations[i]
    BY <1>6, <1>a, <1>n
  <1>8. /\ \A i \in 1..n : moved[i] \in 1..n + 1
        /\ \A i, j \in 1..n : i < j => moved[i] < moved[j]
        /\ \A j \in 1..n + 1 : j = at \/ \E i \in 1..n : moved[i] = j
    <2>1. ASSUME NEW j \in 1..n + 1, j # at
          PROVE  \E i \in 1..n : moved[i] = j
      <3>1. CASE j < at
        <4>1. j \in 1..n /\ moved[j] = j
          BY <1>n, <1>a, <2>1, <3>1
        <4>. QED
          BY <4>1
      <3>2. CASE at < j
        <4>1. j - 1 \in 1..n /\ ~(j - 1 < at) /\ j - 1 + 1 = j
          BY <1>n, <2>1, <3>2
        <4>2. moved[j - 1] = j
          BY <1>a, <4>1
        <4>. QED
          BY <4>1, <4>2
      <3>. QED
        BY <1>n, <2>1, <3>1, <3>2
    <2>2. \A i \in 1..n : moved[i] \in 1..n + 1
      BY <1>n, <1>a
    <2>3. \A i, j \in 1..n : i < j => moved[i] < moved[j]
      BY <1>n, <1>a
    <2>. QED
      BY <2>1, <2>2, <2>3
  <1>9. \A i \in 1..n : evaluations[i].id <= n /\ evaluations[i].id \in Nat /\ evaluations[i] \in EvalRow
    <2>1. \A i \in 1..n : evaluations[i].id <= n
      BY <1>7, <1>n DEF RowsAgree
    <2>2. \A i \in 1..Len(evaluations) : evaluations[i] \in EvalRow
      BY <1>2
    <2>3. \A i \in 1..n : evaluations[i] \in EvalRow
      BY <2>2, <1>n
    <2>. QED
      BY <2>1, <2>3 DEF EvalRow
  <1>10. \A j \in 1..n + 1 : evaluations'[j].id <= n + 1
    BY <1>n, <1>3, <1>b, <1>6, <1>8, <1>9
  <1>11. \A i \in 1..n : evaluations[i].key # k \/ k = NoPost
    BY <1>2, <1>7 DEF FindSubmission, StoredEvaluations, ToSet
  <1>12. ASSUME NEW i \in 1..n + 1, NEW j \in 1..n + 1,
                \/ evaluations'[i].id = evaluations'[j].id
                \/ evaluations'[i].key = evaluations'[j].key /\ evaluations'[i].key # NoPost
         PROVE  i = j
    <2>1. CASE i = at /\ j # at
      <3>1. PICK l \in 1..n : moved[l] = j
        BY <1>8, <2>1
      <3>2. evaluations'[j] = evaluations[l] /\ evaluations'[i] = row_
        BY <1>6, <1>b, <2>1, <3>1
      <3>. QED
        BY <1>n, <1>3, <1>9, <1>11, <1>12, <3>2
    <2>2. CASE j = at /\ i # at
      <3>1. PICK l \in 1..n : moved[l] = i
        BY <1>8, <2>2
      <3>2. evaluations'[i] = evaluations[l] /\ evaluations'[j] = row_
        BY <1>6, <1>b, <2>2, <3>1
      <3>. QED
        BY <1>n, <1>3, <1>9, <1>11, <1>12, <3>2
    <2>3. CASE i # at /\ j # at
      <3>1. PICK l \in 1..n, m \in 1..n : moved[l] = i /\ moved[m] = j
        BY <1>8, <2>3
      <3>2. evaluations'[i] = evaluations[l] /\ evaluations'[j] = evaluations[m]
        BY <1>b, <3>1
      <3>3. l = m
        BY <1>7, <1>12, <3>2 DEF RowsAgree
      <3>. QED
        BY <3>1, <3>3
    <2>. QED
      BY <2>1, <2>2, <2>3
  <1>13. RowsAgree'
    BY <1>n, <1>6, <1>7, <1>10, <1>12 DEF RowsAgree
  <1>14. \A i \in 1..n : \E j \in 1..n + 1 : evaluations'[j] = evaluations[i]
    BY <1>b, <1>8
  <1>15. Ids(evaluations) \subseteq Ids(evaluations') /\ StoredEvaluations \subseteq StoredEvaluations'
    BY <1>2, <1>7, <1>14 DEF Ids, StoredEvaluations, ToSet
  <1>16. ASSUME NEW a, NEW b, Precedes(a, b)
         PROVE  Precedes(a, b)'
    <2>1. PICK i \in 1..n, j \in 1..n : i < j /\ evaluations[i].id = a /\ evaluations[j].id = b
      BY <1>7, <1>16 DEF Precedes
    <2>2. /\ moved[i] \in 1..n + 1 /\ moved[j] \in 1..n + 1 /\ moved[i] < moved[j]
          /\ evaluations'[moved[i]].id = a /\ evaluations'[moved[j]].id = b
      BY <1>b, <1>8, <2>1
    <2>. QED
      BY <1>7, <2>2 DEF Precedes
  <1>17. at \in DOMAIN evaluations' /\ evaluations'[at].key = k /\ evaluations'[at].body = body
    BY <1>3, <1>n, <1>6, <1>7
  <1>18. \E e \in StoredEvaluations' : e.key = k /\ e.body = body
    BY <1>17 DEF StoredEvaluations, ToSet
  <1>. QED
    BY <1>13, <1>15, <1>16, <1>18 DEF RowsGrow

\* Nothing happens to the rows.
LEMMA RowsKeep == ASSUME RowsAgree, UNCHANGED evaluations PROVE RowsGrow
  BY DEF RowsGrow, RowsAgree, Ids, StoredEvaluations, ToSet, Precedes

\* What was found is found again.
LEMMA FoundAgain ==
  ASSUME RowsGrow
  PROVE  /\ \A k : FindSubmission(k) \subseteq {e \in StoredEvaluations' : e.key = k}
         /\ \A k, body : SavedAs(k, body) => \E e \in StoredEvaluations' : e.key = k /\ e.body = body
  BY DEF RowsGrow, FindSubmission, SavedAs

\* The history at rest covers what it covered.
LEMMA HistoryStays ==
  ASSUME HistoryCovers, RowsGrow, UNCHANGED history
  PROVE  HistoryCovers'
  <1>1. Ids(evaluations) \subseteq Ids(evaluations') /\ \A a, b : Precedes(a, b) => Precedes(a, b)'
    BY DEF RowsGrow
  <1>2. \A x : Precedes(history.after, x) => Precedes(history.after, x)'
    BY <1>1 DEF Precedes
  <1>3. \A x : Precedes(history.next, x) => Precedes(history.next, x)'
    BY <1>1 DEF Precedes
  <1>. QED
    BY <1>1, <1>2, <1>3 DEF HistoryCovers

\* submit: what the service answers, and what the answer says of the body.
LEMMA AnswerFacts ==
  ASSUME NEW k, NEW body
  PROVE  /\ Answer(k, body) \in Replies
         /\ Answer(k, body) = "saved" => ValidBody(body) /\ \A e \in FindSubmission(k) : e.body = body
         /\ Answer(k, body) \in ClearFailures => ~ValidBody(body)
  <1>1. RefusedAccess(TRUE) \in AccessFailures \cup {"none"}
    BY DEF RefusedAccess, AccessFailures, ReadBlocking
  <1>. QED
    BY <1>1 DEF Answer, Replies, AccessFailures, ReadBlocking, ClearFailures, SameSubmission

\* A request that is served adds a row for its key or none.
LEMMA SubmitGrows ==
  ASSUME RowsAgree, NEW k \in SubmissionKeys, NEW body \in {"valid", "invalid", "other"}, Submit(k, body)
  PROVE  RowsGrow /\ (Answer(k, body) = "saved" => \E e \in StoredEvaluations' : e.key = k /\ e.body = body)
  <1>1. Answer(k, body) = "saved" => body \in {"valid", "other"} /\ \A e \in FindSubmission(k) : e.body = body
    BY AnswerFacts DEF ValidBody
  <1>2. CASE Answer(k, body) = "saved" /\ FindSubmission(k) = {}
    <2>1. Append_(k, body)
      BY <1>2 DEF Submit
    <2>. QED
      BY <1>1, <1>2, <2>1, RowAdded
  <1>3. CASE ~(Answer(k, body) = "saved" /\ FindSubmission(k) = {})
    <2>1. UNCHANGED evaluations
      BY <1>3 DEF Submit
    <2>2. RowsGrow
      BY <2>1, RowsKeep
    <2>3. ASSUME Answer(k, body) = "saved"
          PROVE  \E e \in StoredEvaluations' : e.key = k /\ e.body = body
      <3>1. PICK e \in FindSubmission(k) : e.body = body
        BY <1>1, <1>3, <2>3
      <3>2. e \in StoredEvaluations' /\ e.key = k
        BY <2>2, <3>1 DEF FindSubmission, RowsGrow
      <3>. QED
        BY <3>1, <3>2
    <2>. QED
      BY <2>2, <2>3
  <1>. QED
    BY <1>2, <1>3

\* Whatever happens, rows are only added.
LEMMA RowsOnlyGrow ==
  ASSUME RowsAgree, PostsAgree, SubmissionNext \/ HistoryNext
  PROVE  RowsGrow
  <1>1. ASSUME NEW n \in 1..MaxPosts, ServePost(n)
        PROVE  RowsGrow
    <2>1. posts[n].key \in SubmissionKeys /\ posts[n].body \in SentBodies /\ Submit(posts[n].key, posts[n].body)
      BY <1>1 DEF ServePost, PostsAgree, OnItsWay
    <2>. QED
      BY <2>1, SubmitGrows DEF SentBodies
  <1>2. ASSUME OtherClient
        PROVE  RowsGrow
    BY <1>2, SubmitGrows DEF OtherClient
  <1>3. ASSUME OtherUser
        PROVE  RowsGrow
    BY <1>3, RowAdded DEF OtherUser
  <1>4. ASSUME UNCHANGED evaluations
        PROVE  RowsGrow
    BY <1>4, RowsKeep
  <1>5. \/ \E n \in 1..MaxPosts : ServePost(n)
        \/ OtherClient \/ OtherUser \/ UNCHANGED evaluations
    BY DEF SubmissionNext, HistoryNext, Transport, LosePost, UseAnswer, AccessChanges, StartSubmission,
           ResendSubmission, Send, StopWaiting, Confirm, LookUp, Ask, AnswerQuery, UseReceipt, StopChecking,
           Clear, CloseLookup, LeavePage, RefusedRead, WorkspaceArchived, Refresh, More, ListPage, UsePage,
           PageFails
  <1>. QED
    BY <1>1, <1>2, <1>3, <1>4, <1>5

\* The POSTs that do not change keep what they say.
LEMMA PostsStay == ASSUME PostsAgree, RowsGrow, UNCHANGED posts PROVE PostsAgree'
  BY FoundAgain DEF PostsAgree, OnItsWay, SavedAs, FindSubmission

\* One POST changes, and says what is so.
LEMMA PostChanges ==
  ASSUME PostsAgree, RowsGrow, NEW n \in 1..MaxPosts, NEW p \in PostRows, posts' = [posts EXCEPT ![n] = p],
         p.state \in {"flying", "answered"} => p.key \in SubmissionKeys /\ p.body \in SentBodies,
         p.state = "answered" /\ p.reply = "saved" => \E e \in StoredEvaluations' : e.key = p.key /\ e.body = p.body,
         p.state = "answered" /\ p.reply \in ClearFailures => p.body = "invalid"
  PROVE  PostsAgree'
  <1>1. posts' \in [1..MaxPosts -> PostRows] /\ posts'[n] = p
    BY DEF PostsAgree
  <1>2. \A m \in 1..MaxPosts : m # n => posts'[m] = posts[m]
    BY DEF PostsAgree
  <1>3. \A k, body : SavedAs(k, body) => \E e \in StoredEvaluations' : e.key = k /\ e.body = body
    BY FoundAgain
  <1>4. ASSUME NEW m \in 1..MaxPosts
        PROVE  /\ posts'[m].state \in {"flying", "answered"} =>
                    posts'[m].key \in SubmissionKeys /\ posts'[m].body \in SentBodies
               /\ posts'[m].state = "answered" /\ posts'[m].reply = "saved" =>
                    \E e \in StoredEvaluations' : e.key = posts'[m].key /\ e.body = posts'[m].body
               /\ posts'[m].state = "answered" /\ posts'[m].reply \in ClearFailures => posts'[m].body = "invalid"
    <2>1. CASE m = n
      BY <1>1, <2>1
    <2>2. CASE m # n
      BY <1>2, <1>3, <2>2 DEF PostsAgree, OnItsWay
    <2>. QED
      BY <2>1, <2>2
  <1>. QED
    BY <1>1, <1>4 DEF PostsAgree, OnItsWay, SavedAs, FindSubmission

\* A POST whose answer nobody waits for any more.
LEMMA OverFacts ==
  ASSUME NEW p \in PostRows
  PROVE  Over(p) \in PostRows /\ Over(p).state = "over"
  BY DEF Over, UnsentPost, PostRows, NoBody, Replies

\* The POSTs after a step.
LEMMA PostsKeep ==
  ASSUME PostsAgree, RowsAgree, original \in OriginalRows, RowsGrow, SubmissionNext \/ HistoryNext,
         original.key = NoPost => original = NoSubmission
  PROVE  PostsAgree'
  <1>1. ASSUME NEW n \in 1..MaxPosts, ServePost(n)
        PROVE  PostsAgree'
    <2>1. /\ posts[n] \in PostRows /\ posts[n].key \in SubmissionKeys /\ posts[n].body \in SentBodies
          /\ Submit(posts[n].key, posts[n].body)
      BY <1>1 DEF ServePost, PostsAgree, OnItsWay
    <2>. DEFINE answer == Answer(posts[n].key, posts[n].body)
                told == [posts[n] EXCEPT !.state = "answered", !.reply = answer]
    <2>2. /\ answer \in Replies /\ (answer \in ClearFailures => posts[n].body = "invalid")
          /\ (answer = "saved" => \E e \in StoredEvaluations' : e.key = posts[n].key /\ e.body = posts[n].body)
      BY <2>1, AnswerFacts, SubmitGrows DEF ValidBody, SentBodies
    <2>3. posts' = [posts EXCEPT ![n] = told] \/ posts' = [posts EXCEPT ![n] = Over(posts[n])]
      BY <1>1, <2>1 DEF ServePost, PostsAgree
    <2>. HIDE DEF answer
    <2>4. told \in PostRows /\ told.state = "answered" /\ told.reply = answer
          /\ told.key = posts[n].key /\ told.body = posts[n].body
      BY <2>1, <2>2 DEF PostRows
    <2>. HIDE DEF told
    <2>5. CASE posts' = [posts EXCEPT ![n] = told]
      BY <2>1, <2>2, <2>4, <2>5, PostChanges
    <2>6. CASE posts' = [posts EXCEPT ![n] = Over(posts[n])]
      BY <2>1, <2>6, OverFacts, PostChanges
    <2>. QED
      BY <2>3, <2>5, <2>6
  <1>2. ASSUME NEW n \in 1..MaxPosts, LosePost(n) \/ UseAnswer(n)
        PROVE  PostsAgree'
    <2>1. posts' = [posts EXCEPT ![n] = Over(posts[n])] /\ posts[n] \in PostRows
      BY <1>2 DEF LosePost, UseAnswer, PostsAgree
    <2>. QED
      BY <2>1, OverFacts, PostChanges
  <1>3. ASSUME NEW value \in OriginalRows, value.key \in SubmissionKeys, Send(value)
        PROVE  PostsAgree'
    <2>. DEFINE sent == [key |-> value.key, body |-> value.body, state |-> "flying", reply |-> "notSeen"]
    <2>1. PICK n \in 1..MaxPosts : posts' = [posts EXCEPT ![n] = sent]
      BY <1>3 DEF Send
    <2>2. value.body \in SentBodies
      BY <1>3 DEF Send, OriginalRows
    <2>3. sent \in PostRows /\ sent.state = "flying" /\ sent.key \in SubmissionKeys /\ sent.body \in SentBodies
      BY <1>3, <2>2 DEF PostRows, Replies
    <2>. HIDE DEF sent
    <2>. QED
      BY <2>1, <2>3, PostChanges
  <1>4. ASSUME StartSubmission
        PROVE  PostsAgree'
    <2>1. PICK k \in SubmissionKeys, body \in EvaluationDrafts : Send([NoSubmission EXCEPT !.key = k, !.body = body])
      BY <1>4 DEF StartSubmission
    <2>2. [NoSubmission EXCEPT !.key = k, !.body = body] \in OriginalRows
          /\ [NoSubmission EXCEPT !.key = k, !.body = body].key = k
      BY DEF NoSubmission, OriginalRows, EvaluationDrafts, SentBodies, NoBody
    <2>. QED
      BY <1>3, <2>1, <2>2
  <1>5. ASSUME ResendSubmission
        PROVE  PostsAgree'
    <2>1. original.key \in SubmissionKeys
      BY <1>5 DEF ResendSubmission, NoSubmission, OriginalRows
    <2>. QED
      BY <1>3, <1>5, <2>1 DEF ResendSubmission
  <1>6. ASSUME UNCHANGED posts
        PROVE  PostsAgree'
    BY <1>6, PostsStay
  <1>7. \/ \E n \in 1..MaxPosts : ServePost(n) \/ LosePost(n) \/ UseAnswer(n)
        \/ StartSubmission \/ ResendSubmission \/ UNCHANGED posts
    BY DEF SubmissionNext, HistoryNext, Transport, OtherClient, OtherUser, AccessChanges,
           StopWaiting, Confirm, LookUp, Ask, AnswerQuery, UseReceipt, StopChecking,
           Clear, CloseLookup, LeavePage, RefusedRead, WorkspaceArchived, Refresh, More, ListPage, UsePage,
           PageFails
  <1>. QED
    BY <1>1, <1>2, <1>4, <1>5, <1>6, <1>7

\* What the page writes of its submission leaves its key and its body.
LEMMA ValueFacts ==
  ASSUME NEW v \in OriginalRows
  PROVE  /\ \A f : /\ Failed(v, f) \in OriginalRows /\ Failed(v, f).key = v.key /\ Failed(v, f).body = v.body
                   /\ Failed(v, f).phase \in {"unknown", "refused"}
                   /\ Failed(v, f).failure \in ClearFailures => f \in ClearFailures
         /\ Unknown(v) \in OriginalRows /\ Unknown(v).key = v.key /\ Unknown(v).body = v.body
         /\ Unknown(v).phase = "unknown" /\ Unknown(v).failure \notin ClearFailures
         /\ Confirmed(v) \in OriginalRows /\ Confirmed(v).key = v.key /\ Confirmed(v).body = v.body
         /\ Confirmed(v).phase = "confirmed" /\ Confirmed(v).failure \notin ClearFailures
  <1>1. ASSUME NEW f
        PROVE  /\ Failed(v, f) \in OriginalRows /\ Failed(v, f).key = v.key /\ Failed(v, f).body = v.body
               /\ Failed(v, f).phase \in {"unknown", "refused"}
               /\ Failed(v, f).failure \in ClearFailures => f \in ClearFailures
    <2>. DEFINE sure == v.uncertain \/ f \in {"unknown", "conflict"}
                kind == Kind(f)
                phase == IF sure THEN "unknown" ELSE "refused"
    <2>1. kind \in ClearFailures \cup {"none", "other"} /\ (kind \in ClearFailures => f \in ClearFailures)
      BY DEF Kind, ClearFailures
    <2>2. sure \in BOOLEAN /\ phase \in {"unknown", "refused"}
      BY DEF OriginalRows
    <2>3. Failed(v, f) = [v EXCEPT !.uncertain = sure, !.failure = kind, !.phase = phase]
      BY DEF Failed
    <2>. HIDE DEF sure, kind, phase
    <2>. QED
      BY <2>1, <2>2, <2>3 DEF OriginalRows
  <1>2. /\ Unknown(v) \in OriginalRows /\ Unknown(v).key = v.key /\ Unknown(v).body = v.body
        /\ Unknown(v).phase = "unknown" /\ Unknown(v).failure \notin ClearFailures
    BY DEF Unknown, OriginalRows, Kind, ClearFailures
  <1>3. /\ Confirmed(v) \in OriginalRows /\ Confirmed(v).key = v.key /\ Confirmed(v).body = v.body
        /\ Confirmed(v).phase = "confirmed" /\ Confirmed(v).failure \notin ClearFailures
    BY DEF Confirmed, OriginalRows, ClearFailures
  <1>. QED
    BY <1>1, <1>2, <1>3

\* The page at rest, while its POST may be answered or lost.
LEMMA PageRests ==
  ASSUME PageAgrees, RowsGrow, UNCHANGED <<original, controller, confirmation, cleared>>,
         \A n \in 1..MaxPosts : posts'[n].state \in {"flying", "answered"} =>
           OnItsWay(n) /\ posts'[n].key = posts[n].key /\ posts'[n].body = posts[n].body
  PROVE  PageAgrees'
  <1>1. \A k : FindSubmission(k) \subseteq {e \in StoredEvaluations' : e.key = k}
    BY FoundAgain
  <1>2. controller # NoPost /\ posts'[controller].state \in {"flying", "answered"} =>
          posts'[controller].key = original.key /\ posts'[controller].body = original.body
    BY DEF PageAgrees
  <1>3. original.phase = "confirmed" =>
          \E e \in {x \in StoredEvaluations' : x.key = original.key} : original.body \in {NoBody, e.body}
    BY <1>1 DEF PageAgrees
  <1>4. confirmation.state = "answered" /\ confirmation.reply = "saved" =>
          \E e \in {x \in StoredEvaluations' : x.key = original.key} : e.body = confirmation.content
    BY <1>1 DEF PageAgrees, SavedAs
  <1>5. \A k \in SubmissionKeys : cleared[k] = "saved" => {x \in StoredEvaluations' : x.key = k} # {}
    BY <1>1 DEF PageAgrees
  <1>. QED
    BY <1>2, <1>3, <1>4, <1>5 DEF PageAgrees, OnItsWay, SavedAs, FindSubmission

\* The page's submission changes while it waits for no POST; the rest stays.
LEMMA PageChanges ==
  ASSUME PageAgrees, RowsGrow, UNCHANGED cleared, controller' = NoPost,
         NEW v \in OriginalRows, original' = v, v.phase # "sending", v.key = NoPost => v = NoSubmission,
         v.failure \in ClearFailures => v.body = "invalid",
         v.phase = "confirmed" => \E e \in StoredEvaluations' : e.key = v.key /\ v.body \in {NoBody, e.body},
         NEW q \in QueryRows, confirmation' = q, q.state # "idle" <=> v.phase = "checking",
         q.state = "answered" /\ q.reply = "saved" =>
           \E e \in StoredEvaluations' : e.key = v.key /\ e.body = q.content
  PROVE  PageAgrees'
  <1>1. \A k : FindSubmission(k) \subseteq {e \in StoredEvaluations' : e.key = k}
    BY FoundAgain
  <1>2. \A k \in SubmissionKeys : cleared[k] = "saved" => {x \in StoredEvaluations' : x.key = k} # {}
    BY <1>1 DEF PageAgrees
  <1>. QED
    BY <1>2 DEF PageAgrees, OnItsWay, SavedAs, FindSubmission

\* send: the page waits for the POST that carries its submission.
LEMMA SendKeepsPage ==
  ASSUME PageAgrees, RowsGrow, NEW v \in OriginalRows, v.key \in SubmissionKeys, v.failure \in ClearFailures => v.body = "invalid",
         Send(v), PostsAgree
  PROVE  PageAgrees'
  <1>. DEFINE sent == [v EXCEPT !.phase = "sending", !.failure = "none"]
  <1>1. PICK n \in 1..MaxPosts :
          /\ posts' = [posts EXCEPT ![n] = [key |-> v.key, body |-> v.body,
                                            state |-> "flying", reply |-> "notSeen"]]
          /\ controller' = n
    BY DEF Send
  <1>2. posts'[n].key = v.key /\ posts'[n].body = v.body
    BY <1>1 DEF PostsAgree
  <1>3. /\ original' = sent /\ UNCHANGED <<confirmation, cleared>> /\ confirmation.state = "idle" /\ v.body # NoBody
    BY DEF Send, Keep
  <1>4. /\ sent \in OriginalRows /\ sent.key = v.key /\ sent.body = v.body /\ sent.phase = "sending"
        /\ sent.failure = "none"
    BY DEF OriginalRows
  <1>. HIDE DEF sent
  <1>5. \A k : FindSubmission(k) \subseteq {e \in StoredEvaluations' : e.key = k}
    BY FoundAgain
  <1>6. \A k \in SubmissionKeys : cleared[k] = "saved" => {x \in StoredEvaluations' : x.key = k} # {}
    BY <1>5 DEF PageAgrees
  <1>7. NoPost \notin SubmissionKeys /\ n # NoPost /\ "none" \notin ClearFailures
    BY EvaluationAssumption DEF ClearFailures
  <1>8. original' = sent /\ controller' = n /\ posts'[n].key = sent.key /\ posts'[n].body = sent.body
    BY <1>1, <1>2, <1>3, <1>4
  <1>9. confirmation \in QueryRows /\ cleared \in [SubmissionKeys -> {"no", "saved", "invalid"}]
    BY DEF PageAgrees
  <1>. QED
    BY <1>3, <1>4, <1>6, <1>7, <1>8, <1>9 DEF PageAgrees, OnItsWay, SavedAs, FindSubmission

\* The answer the page waits for.
LEMMA AnswerKeepsPage ==
  ASSUME PageAgrees, RowsAgree, PostsAgree, RowsGrow, NEW n \in 1..MaxPosts, UseAnswer(n)
  PROVE  PageAgrees'
  <1>1. /\ posts[n].state = "answered" /\ posts[n] \in PostRows
        /\ posts' = [posts EXCEPT ![n] = Over(posts[n])] /\ UNCHANGED <<confirmation, cleared>>
    BY DEF UseAnswer, PostsAgree
  <1>2. CASE controller # n
    <2>1. UNCHANGED <<original, controller>>
      BY <1>2 DEF UseAnswer
    <2>2. posts'[n].state = "over" /\ \A m \in 1..MaxPosts : m # n => posts'[m] = posts[m]
      BY <1>1, OverFacts DEF PostsAgree
    <2>. QED
      BY <1>1, <2>1, <2>2, PageRests DEF OnItsWay
  <1>3. CASE controller = n
    <2>. DEFINE reply == posts[n].reply
    <2>1. /\ n # NoPost /\ original.phase = "sending" /\ original.key # NoPost /\ original \in OriginalRows
          /\ posts[n].key = original.key /\ posts[n].body = original.body
          /\ confirmation \in QueryRows /\ confirmation.state = "idle"
      BY <1>1, <1>3, EvaluationAssumption DEF PageAgrees, OnItsWay, NoSubmission
    <2>2. /\ controller' = NoPost
          /\ \/ reply = "saved" /\ original' = Confirmed(original)
             \/ reply = "saved" /\ original' = Unknown(original)
             \/ original' = Failed(original, reply)
      BY <1>3 DEF UseAnswer, Keep
    <2>3. CASE reply = "saved" /\ original' = Confirmed(original)
      <3>1. \E e \in StoredEvaluations' : e.key = original.key /\ e.body = original.body
        BY <1>1, <2>1, <2>3, FoundAgain DEF PostsAgree
      <3>. QED
        BY <1>1, <2>1, <2>2, <2>3, <3>1, ValueFacts, PageChanges
    <2>4. CASE original' = Unknown(original)
      BY <1>1, <2>1, <2>2, <2>4, ValueFacts, PageChanges
    <2>5. CASE original' = Failed(original, reply)
      <3>1. reply \in ClearFailures => original.body = "invalid"
        BY <1>1, <2>1 DEF PostsAgree
      <3>. DEFINE v == Failed(original, reply)
      <3>2. /\ v \in OriginalRows /\ v.key = original.key /\ v.body = original.body /\ v.phase \in {"unknown", "refused"}
            /\ v.failure \in ClearFailures => v.body = "invalid"
        BY <2>1, <3>1, ValueFacts
      <3>3. original' = v
        BY <2>5
      <3>. HIDE DEF v
      <3>. QED
        BY <1>1, <2>1, <2>2, <3>2, <3>3, PageChanges
    <2>. QED
      BY <2>2, <2>3, <2>4, <2>5
  <1>. QED
    BY <1>2, <1>3

\* The page stops waiting: its submission is failed or unknown.
LEMMA LetGo ==
  ASSUME PageAgrees, RowsGrow, UNCHANGED cleared, controller' = NoPost, original.phase # "none",
         NEW f, f \notin ClearFailures, original' = Failed(original, f) \/ original' = Unknown(original),
         NEW q \in QueryRows, confirmation' = q, q.state = "idle"
  PROVE  PageAgrees'
  <1>1. original \in OriginalRows /\ original.key # NoPost
    BY DEF PageAgrees, NoSubmission
  <1>2. CASE original' = Failed(original, f)
    <2>. DEFINE v == Failed(original, f)
    <2>1. /\ v \in OriginalRows /\ v.key = original.key /\ v.phase \in {"unknown", "refused"}
          /\ v.failure \notin ClearFailures
      BY <1>1, ValueFacts
    <2>2. original' = v
      BY <1>2
    <2>. HIDE DEF v
    <2>. QED
      BY <1>1, <2>1, <2>2, PageChanges
  <1>3. CASE original' = Unknown(original)
    <2>. DEFINE v == Unknown(original)
    <2>1. /\ v \in OriginalRows /\ v.key = original.key /\ v.phase = "unknown"
          /\ v.failure \notin ClearFailures
      BY <1>1, ValueFacts
    <2>2. original' = v
      BY <1>3
    <2>. HIDE DEF v
    <2>. QED
      BY <1>1, <2>1, <2>2, PageChanges
  <1>. QED
    BY <1>2, <1>3

\* The empty form, with nothing asked.
LEMMA FormEmptied ==
  ASSUME PageAgrees, RowsGrow, UNCHANGED cleared, controller' = NoPost, original' = NoSubmission,
         NEW q \in QueryRows, confirmation' = q, q.state = "idle"
  PROVE  PageAgrees'
  <1>1. /\ NoSubmission \in OriginalRows /\ NoSubmission.phase = "none" /\ NoSubmission.failure = "none"
    BY DEF NoSubmission, OriginalRows
  <1>. QED
    BY <1>1, PageChanges DEF ClearFailures

\* No question, and a question just asked.
LEMMA QueryFacts ==
  /\ NoQuery \in QueryRows /\ NoQuery.state = "idle"
  /\ [NoQuery EXCEPT !.state = "asked"] \in QueryRows /\ [NoQuery EXCEPT !.state = "asked"].state = "asked"
  BY DEF NoQuery, QueryRows, Replies, NoBody

\* confirm: the receipt is asked for, found or not, and used.
LEMMA ReceiptKeepsPage ==
  ASSUME PageAgrees, RowsAgree, RowsGrow, Confirm \/ LookUp \/ AnswerQuery \/ UseReceipt \/ StopChecking
  PROVE  PageAgrees'
  <1>. USE EvaluationAssumption DEF NoSubmission
  <1>1. original \in OriginalRows /\ (original.key = NoPost => original.phase = "none") /\ controller \in 1..MaxPosts \cup {NoPost}
        /\ (controller # NoPost <=> original.phase = "sending")
        /\ (confirmation.state # "idle" <=> original.phase = "checking") /\ confirmation \in QueryRows
    BY DEF PageAgrees
  <1>2. ASSUME NEW v \in OriginalRows, v.key \in SubmissionKeys, Ask(v), original.phase # "sending"
        PROVE  PageAgrees'
    <2>. DEFINE looking == [v EXCEPT !.phase = "checking", !.failure = "none"]
                q == [NoQuery EXCEPT !.state = "asked"]
    <2>1. original' = looking /\ confirmation' = q /\ controller' = NoPost /\ UNCHANGED cleared
      BY <1>1, <1>2 DEF Ask, Keep
    <2>2. looking \in OriginalRows /\ looking.key = v.key /\ looking.phase = "checking" /\ looking.failure = "none"
      BY <1>2 DEF OriginalRows
    <2>3. q \in QueryRows /\ q.state = "asked"
      BY QueryFacts
    <2>4. v.key # NoPost /\ "none" \notin ClearFailures
      BY <1>2 DEF ClearFailures
    <2>. HIDE DEF looking, q
    <2>. QED
      BY <2>1, <2>2, <2>3, <2>4, PageChanges
  <1>3. ASSUME Confirm
        PROVE  PageAgrees'
    <2>1. original.key \in SubmissionKeys
      BY <1>1, <1>3 DEF Confirm, OriginalRows
    <2>. QED
      BY <1>1, <1>2, <1>3, <2>1 DEF Confirm
  <1>4. ASSUME LookUp
        PROVE  PageAgrees'
    <2>1. PICK k \in SubmissionKeys : Ask([NoSubmission EXCEPT !.key = k, !.uncertain = TRUE])
      BY <1>4 DEF LookUp
    <2>2. /\ [NoSubmission EXCEPT !.key = k, !.uncertain = TRUE] \in OriginalRows
          /\ [NoSubmission EXCEPT !.key = k, !.uncertain = TRUE].key = k
      BY DEF OriginalRows, NoBody
    <2>3. original.phase # "sending"
      BY <1>4 DEF LookUp
    <2>. QED
      BY <1>2, <2>1, <2>2, <2>3
  <1>5. ASSUME AnswerQuery
        PROVE  PageAgrees'
    <2>. DEFINE receipt == GetSubmission(original.key)
                q == [state |-> "answered", reply |-> receipt.reply, content |-> receipt.content]
                found == FindSubmission(original.key)
                one == CHOOSE e \in found : TRUE
    <2>1. /\ original' = original /\ UNCHANGED cleared /\ controller' = controller /\ confirmation' = q
          /\ confirmation.state = "asked"
      BY <1>5 DEF AnswerQuery
    <2>2. found # {} => one \in found
      OBVIOUS
    <2>3. \A e \in found : e.body \in {"valid", "other"}
      <3>1. \A e \in StoredEvaluations : e \in EvalRow
        BY DEF StoredEvaluations, ToSet, RowsAgree
      <3>2. \A e \in found : e \in EvalRow
        BY <3>1 DEF FindSubmission
      <3>. QED
        BY <3>2 DEF EvalRow
    <2>4. /\ receipt.reply \in Replies /\ receipt.content \in {"valid", "other", NoBody}
          /\ receipt.reply = "saved" => \E e \in found : e.body = receipt.content
      <3>. DEFINE refused == RefusedAccess(FALSE)
      <3>1. refused \in {"none", "sessionExpired", "notFound"}
        BY DEF RefusedAccess
      <3>. HIDE DEF one, found
      <3>2. \/ receipt = [reply |-> refused, content |-> NoBody] /\ refused # "none"
            \/ receipt = [reply |-> "notSeen", content |-> NoBody]
            \/ receipt = [reply |-> "saved", content |-> one.body] /\ found # {}
        BY DEF GetSubmission, one, found
      <3>. HIDE DEF receipt, refused
      <3>3. receipt.reply \in Replies
        BY <3>1, <3>2 DEF Replies, AccessFailures, ReadBlocking
      <3>4. CASE receipt = [reply |-> "saved", content |-> one.body] /\ found # {}
        <4>1. one \in found /\ one.body \in {"valid", "other"} /\ receipt.content = one.body
          BY <2>2, <2>3, <3>4
        <4>. QED
          BY <3>3, <4>1
      <3>5. CASE receipt.reply # "saved" /\ receipt.content = NoBody
        BY <3>3, <3>5
      <3>. QED
        BY <3>1, <3>2, <3>4, <3>5
    <2>5. found \subseteq {e \in StoredEvaluations' : e.key = original.key}
      BY FoundAgain
    <2>. HIDE DEF receipt
    <2>6. q \in QueryRows /\ q.state = "answered" /\ q.reply = receipt.reply /\ q.content = receipt.content
      BY <2>4 DEF QueryRows
    <2>7. q.reply = "saved" => \E e \in StoredEvaluations' : e.key = original.key /\ e.body = q.content
      BY <2>4, <2>5, <2>6
    <2>. HIDE DEF q, found
    <2>8. original.phase = "checking" /\ controller = NoPost
      BY <1>1, <2>1
    <2>. QED
      BY <1>1, <2>1, <2>6, <2>7, <2>8, PageChanges DEF PageAgrees
  <1>6. ASSUME UseReceipt
        PROVE  PageAgrees'
    <2>1. /\ confirmation.state = "answered" /\ original.phase = "checking" /\ controller = NoPost
          /\ controller' = NoPost /\ confirmation' = NoQuery /\ UNCHANGED cleared
      BY <1>1, <1>6 DEF UseReceipt
    <2>2. CASE original' = Unknown(original)
      <3>1. "other" \notin ClearFailures
        BY DEF ClearFailures
      <3>. QED
        BY <2>1, <2>2, <3>1, LetGo, QueryFacts
    <2>3. CASE original' = Confirmed(original) /\ confirmation.reply = "saved" /\ Matches(original, confirmation.content)
      <3>1. \E e \in StoredEvaluations' : e.key = original.key /\ e.body = confirmation.content
        BY <2>1, <2>3, FoundAgain DEF PageAgrees
      <3>. DEFINE v == Confirmed(original)
      <3>2. /\ v \in OriginalRows /\ v.key = original.key /\ v.body = original.body /\ v.phase = "confirmed"
            /\ v.failure \notin ClearFailures
        BY <1>1, ValueFacts
      <3>3. \E e \in StoredEvaluations' : e.key = v.key /\ v.body \in {NoBody, e.body}
        BY <2>3, <3>1, <3>2 DEF Matches
      <3>4. original' = v
        BY <2>3
      <3>. HIDE DEF v
      <3>. QED
        BY <1>1, <2>1, <3>2, <3>3, <3>4, QueryFacts, PageChanges
    <2>. QED
      BY <1>6, <2>2, <2>3 DEF UseReceipt, Keep
  <1>7. ASSUME StopChecking
        PROVE  PageAgrees'
    <2>1. /\ original.phase = "checking" /\ controller = NoPost /\ original' = Unknown(original)
          /\ controller' = NoPost /\ confirmation' = NoQuery /\ UNCHANGED cleared
      BY <1>1, <1>7 DEF StopChecking, Keep
    <2>2. "other" \notin ClearFailures
      BY DEF ClearFailures
    <2>. QED
      BY <2>1, <2>2, LetGo, QueryFacts
  <1>. QED
    BY <1>3, <1>4, <1>5, <1>6, <1>7

\* clear: a submission put aside was saved, or found invalid.
LEMMA ClearKeepsPage ==
  ASSUME PageAgrees, RowsGrow, UNCHANGED <<evaluations, controller, confirmation>>, Clear
  PROVE  PageAgrees'
  <1>1. /\ original \in OriginalRows /\ original.phase \in {"confirmed", "refused"} /\ original.key \in SubmissionKeys
        /\ controller = NoPost /\ confirmation.state = "idle" /\ confirmation \in QueryRows
    BY EvaluationAssumption DEF Clear, Clearable, PageAgrees, OriginalRows, NoSubmission
  <1>2. original.phase = "confirmed" => FindSubmission(original.key) # {}
    BY DEF PageAgrees
  <1>3. original.phase # "confirmed" => original.body = "invalid"
    BY DEF Clear, Clearable, PageAgrees
  <1>. DEFINE why == IF original.phase = "confirmed" THEN "saved" ELSE original.body
  <1>4. cleared' = cleared \/ cleared' = [cleared EXCEPT ![original.key] = why]
    BY DEF Clear
  <1>5. why \in {"saved", "invalid"} /\ (why = "saved" => FindSubmission(original.key) # {})
    BY <1>1, <1>2, <1>3
  <1>. HIDE DEF why
  <1>6. /\ cleared' \in [SubmissionKeys -> {"no", "saved", "invalid"}]
        /\ \A k \in SubmissionKeys : cleared'[k] = "saved" => FindSubmission(k) # {}
    BY <1>1, <1>4, <1>5 DEF PageAgrees
  <1>7. /\ original' = NoSubmission /\ NoSubmission \in OriginalRows /\ NoSubmission.phase = "none"
        /\ NoSubmission.failure = "none" /\ "none" \notin ClearFailures
    BY DEF Clear, Keep, NoSubmission, OriginalRows, ClearFailures
  <1>8. \A k \in SubmissionKeys : cleared'[k] = "saved" => {e \in StoredEvaluations' : e.key = k} # {}
    BY <1>6, FoundAgain
  <1>. QED
    BY <1>1, <1>6, <1>7, <1>8 DEF PageAgrees, OnItsWay, SavedAs, FindSubmission

\* The page after a step.
LEMMA PageKeeps ==
  ASSUME PageAgrees, RowsAgree, PostsAgree, RowsGrow, SubmissionNext \/ HistoryNext
  PROVE  PageAgrees'
  <1>1. /\ original \in OriginalRows /\ (original.key = NoPost => original = NoSubmission)
        /\ controller \in 1..MaxPosts \cup {NoPost}
        /\ (controller # NoPost <=> original.phase = "sending") /\ (original.phase = "sending" => original.body # NoBody)
        /\ (confirmation.state # "idle" <=> original.phase = "checking") /\ confirmation \in QueryRows
        /\ (original.failure \in ClearFailures => original.body = "invalid")
    BY DEF PageAgrees
  <1>n. {"unknown", "other", "sessionExpired", "none"} \cap ClearFailures = {}
    BY DEF ClearFailures
  <1>2. ASSUME NEW n \in 1..MaxPosts, ServePost(n) \/ LosePost(n)
        PROVE  PageAgrees'
    <2>1. UNCHANGED <<original, controller, confirmation, cleared>> /\ posts[n].state = "flying"
      BY <1>2 DEF ServePost, LosePost, pageVars
    <2>2. \A m \in 1..MaxPosts : m # n => posts'[m] = posts[m]
      BY <1>2 DEF ServePost, LosePost, PostsAgree
    <2>3. posts[n] \in PostRows
      BY DEF PostsAgree
    <2>. DEFINE answer == Answer(posts[n].key, posts[n].body)
                told == [posts[n] EXCEPT !.state = "answered", !.reply = answer]
    <2>4. told.key = posts[n].key /\ told.body = posts[n].body
      BY <2>3 DEF PostRows
    <2>. HIDE DEF answer
    <2>5. posts'[n] = told \/ posts'[n] = Over(posts[n])
      BY <1>2 DEF ServePost, LosePost, PostsAgree, answer
    <2>. HIDE DEF told
    <2>6. posts'[n].state \in {"flying", "answered"} => posts'[n].key = posts[n].key /\ posts'[n].body = posts[n].body
      BY <2>3, <2>4, <2>5, OverFacts
    <2>. QED
      BY <2>1, <2>2, <2>6, PageRests DEF OnItsWay
  <1>3. ASSUME NEW n \in 1..MaxPosts, UseAnswer(n)
        PROVE  PageAgrees'
    BY <1>3, AnswerKeepsPage
  <1>4. ASSUME StartSubmission
        PROVE  PageAgrees'
    <2>1. PICK k \in SubmissionKeys, body \in EvaluationDrafts : Send([NoSubmission EXCEPT !.key = k, !.body = body])
      BY <1>4 DEF StartSubmission
    <2>. DEFINE v == [NoSubmission EXCEPT !.key = k, !.body = body]
    <2>2. v \in OriginalRows /\ v.key = k /\ v.failure = "none"
      BY DEF NoSubmission, OriginalRows, EvaluationDrafts, SentBodies, NoBody
    <2>3. Send(v)
      BY <2>1
    <2>. HIDE DEF v
    <2>. QED
      BY <1>n, <2>2, <2>3, SendKeepsPage
  <1>5. ASSUME ResendSubmission
        PROVE  PageAgrees'
    <2>1. original.key \in SubmissionKeys
      BY <1>1, <1>5 DEF ResendSubmission, NoSubmission, OriginalRows
    <2>. QED
      BY <1>1, <1>5, <2>1, SendKeepsPage DEF ResendSubmission
  <1>6. ASSUME StopWaiting
        PROVE  PageAgrees'
    <2>1. /\ original.phase = "sending" /\ controller' = NoPost /\ original' = Failed(original, "unknown")
          /\ UNCHANGED <<confirmation, cleared>>
      BY <1>1, <1>6 DEF StopWaiting, Keep
    <2>. QED
      BY <1>1, <1>n, <2>1, LetGo
  <1>7. ASSUME Confirm \/ LookUp \/ AnswerQuery \/ UseReceipt \/ StopChecking
        PROVE  PageAgrees'
    BY <1>7, ReceiptKeepsPage
  <1>8. ASSUME Clear
        PROVE  PageAgrees'
    BY <1>8, ClearKeepsPage DEF Clear
  <1>9. ASSUME CloseLookup \/ LeavePage
        PROVE  PageAgrees'
    <2>1. original' = NoSubmission /\ confirmation' = NoQuery /\ controller' = NoPost /\ UNCHANGED cleared
      BY <1>1, <1>9 DEF CloseLookup, LeavePage, Keep
    <2>. QED
      BY <2>1, QueryFacts, FormEmptied
  <1>10. ASSUME RefusedRead
         PROVE  PageAgrees'
    <2>. DEFINE refusal == RefusedAccess(FALSE)
    <2>1. /\ controller' = NoPost /\ confirmation' = NoQuery /\ UNCHANGED cleared
          /\ \/ original' = Failed(original, "unknown") /\ original.phase = "sending"
             \/ original' = Unknown(original) /\ original.phase = "checking"
             \/ original' = Failed(original, "sessionExpired") /\ original.phase = "refused"
             \/ original' = original /\ original.phase \notin {"sending", "checking"}
      BY <1>1, <1>10 DEF RefusedRead, Keep
    <2>2. CASE original' = Failed(original, "unknown") /\ original.phase = "sending"
      BY <1>n, <2>1, <2>2, LetGo, QueryFacts
    <2>3. CASE original' = Unknown(original) /\ original.phase = "checking"
      BY <1>n, <2>1, <2>3, LetGo, QueryFacts
    <2>4. CASE original' = Failed(original, "sessionExpired") /\ original.phase = "refused"
      BY <1>n, <2>1, <2>4, LetGo, QueryFacts
    <2>5. CASE original' = original /\ original.phase \notin {"sending", "checking"}
      <3>1. original.phase = "confirmed" =>
              \E e \in StoredEvaluations' : e.key = original.key /\ original.body \in {NoBody, e.body}
        BY FoundAgain DEF PageAgrees
      <3>. QED
        BY <1>1, <2>1, <2>5, <3>1, QueryFacts, PageChanges
    <2>. QED
      BY <2>1, <2>2, <2>3, <2>4, <2>5
  <1>11. ASSUME WorkspaceArchived
         PROVE  PageAgrees'
    <2>1. /\ controller' = NoPost /\ UNCHANGED <<posts, confirmation, cleared>>
          /\ \/ original' = Failed(original, "unknown") /\ original.phase = "sending"
             \/ original' = original /\ controller = NoPost
      BY <1>1, <1>11 DEF WorkspaceArchived, Keep
    <2>2. CASE original' = Failed(original, "unknown") /\ original.phase = "sending"
      BY <1>1, <1>n, <2>1, <2>2, LetGo
    <2>3. CASE original' = original /\ controller = NoPost
      BY <2>1, <2>3, PageRests DEF OnItsWay
    <2>. QED
      BY <2>1, <2>2, <2>3
  <1>12. ASSUME UNCHANGED <<posts, original, controller, confirmation, cleared>>
         PROVE  PageAgrees'
    BY <1>12, PageRests DEF OnItsWay
  <1>13. \/ \E n \in 1..MaxPosts : ServePost(n) \/ LosePost(n)
         \/ \E n \in 1..MaxPosts : UseAnswer(n)
         \/ StartSubmission \/ ResendSubmission \/ StopWaiting
         \/ (Confirm \/ LookUp \/ AnswerQuery \/ UseReceipt \/ StopChecking)
         \/ Clear \/ (CloseLookup \/ LeavePage) \/ RefusedRead \/ WorkspaceArchived
         \/ UNCHANGED <<posts, original, controller, confirmation, cleared>>
    BY DEF SubmissionNext, HistoryNext, Transport, OtherClient, OtherUser, AccessChanges, pageVars,
           Refresh, More, ListPage, UsePage, PageFails
  <1>. QED
    BY <1>2, <1>3, <1>4, <1>5, <1>6, <1>7, <1>8, <1>9, <1>10, <1>11, <1>12, <1>13

\* The rows after a cursor are those a page has not reached.
LEMMA RestFacts ==
  ASSUME RowsAgree, NEW after \in Ids(evaluations) \cup {NoPost}
  PROVE  \E d \in 0..Len(evaluations) :
           /\ Rest(after) = SubSeq(evaluations, d + 1, Len(evaluations))
           /\ after = NoPost => d = 0
           /\ after # NoPost => \A x : Precedes(after, x) =>
                \E j \in d + 1..Len(evaluations) : evaluations[j].id = x
  <1>1. evaluations \in Seq(EvalRow) /\ Len(evaluations) \in Nat /\ DOMAIN evaluations = 1..Len(evaluations)
    BY DEF RowsAgree
  <1>2. CASE after = NoPost
    <2>1. Rest(after) = evaluations
      BY <1>2 DEF Rest
    <2>2. SubSeq(evaluations, 0 + 1, Len(evaluations)) = evaluations
      BY <1>1
    <2>. QED
      BY <1>1, <1>2, <2>1, <2>2
  <1>3. CASE after # NoPost
    <2>. DEFINE p == Position(after)
    <2>1. \E i \in DOMAIN evaluations : evaluations[i].id = after
      BY <1>3 DEF Ids
    <2>2. p \in DOMAIN evaluations /\ evaluations[p].id = after
      BY <2>1 DEF Position
    <2>3. Rest(after) = SubSeq(evaluations, p + 1, Len(evaluations))
      BY <1>3 DEF Rest
    <2>. HIDE DEF p
    <2>4. ASSUME NEW x, Precedes(after, x)
          PROVE  \E j \in p + 1..Len(evaluations) : evaluations[j].id = x
      <3>1. PICK i \in DOMAIN evaluations, j \in DOMAIN evaluations :
              i < j /\ evaluations[i].id = after /\ evaluations[j].id = x
        BY <2>4 DEF Precedes
      <3>2. i = p
        BY <2>2, <3>1 DEF RowsAgree
      <3>3. j \in p + 1..Len(evaluations)
        BY <1>1, <3>1, <3>2
      <3>. QED
        BY <3>1, <3>3
    <2>. QED
      BY <1>1, <1>3, <2>2, <2>3, <2>4
  <1>. QED
    BY <1>2, <1>3

\* What is left of a sequence after its first members, and its first members.
LEMMA PartFacts ==
  ASSUME NEW S, NEW s \in Seq(S), NEW d \in 0..Len(s)
  PROVE  /\ SubSeq(s, d + 1, Len(s)) \in Seq(S) /\ Len(SubSeq(s, d + 1, Len(s))) = Len(s) - d
         /\ \A m \in 1..Len(s) - d : SubSeq(s, d + 1, Len(s))[m] = s[d + m]
         /\ SubSeq(s, 1, d) \in Seq(S) /\ Len(SubSeq(s, 1, d)) = d
         /\ \A m \in 1..d : SubSeq(s, 1, d)[m] = s[m]
  OBVIOUS

PartAfter(s, d) == SubSeq(s, d + 1, Len(s))
PageOf(s, d, limit) == SubSeq(PartAfter(s, d), 1, Least(limit, Len(PartAfter(s, d))))

\* A page of a sequence: what is after it is after its last member.
LEMMA PagePart ==
  ASSUME NEW S, NEW s \in Seq(S), NEW d \in 0..Len(s), NEW limit \in Nat \ {0}
  PROVE  /\ PageOf(s, d, limit) \in Seq(S)
         /\ Len(PartAfter(s, d)) > limit => Last(PageOf(s, d, limit)) = s[d + limit] /\ d + limit \in 1..Len(s)
         /\ \A j \in d + 1..Len(s) :
              \/ \E m \in DOMAIN PageOf(s, d, limit) : PageOf(s, d, limit)[m] = s[j]
              \/ Len(PartAfter(s, d)) > limit /\ d + limit < j
  <1>. DEFINE rest == PartAfter(s, d)
              items == PageOf(s, d, limit)
  <1>a. rest = SubSeq(s, d + 1, Len(s)) /\ items = SubSeq(rest, 1, Least(limit, Len(rest)))
    BY DEF PartAfter, PageOf
  <1>. HIDE DEF rest, items
  <1>1. /\ rest \in Seq(S) /\ Len(rest) = Len(s) - d
        /\ \A m \in 1..Len(s) - d : rest[m] = s[d + m]
    BY <1>a, PartFacts
  <1>2. Len(s) \in Nat /\ Len(rest) \in Nat /\ d \in Nat /\ limit \in Nat
    BY <1>1
  <1>3. PICK size \in 0..Len(rest) :
          /\ size = Least(limit, Len(rest)) /\ items = SubSeq(rest, 1, size)
          /\ Len(rest) > limit => size = limit
          /\ ~(Len(rest) > limit) => size = Len(rest)
    <2>1. CASE Len(rest) > limit
      <3>1. Least(limit, Len(rest)) = limit /\ limit \in 0..Len(rest)
        BY <1>2, <2>1 DEF Least
      <3>. QED
        BY <1>a, <2>1, <3>1
    <2>2. CASE ~(Len(rest) > limit)
      <3>1. Least(limit, Len(rest)) = Len(rest) /\ Len(rest) \in 0..Len(rest)
        BY <1>2, <2>2 DEF Least
      <3>. QED
        BY <1>a, <2>2, <3>1
    <2>. QED
      BY <2>1, <2>2
  <1>4. items \in Seq(S) /\ Len(items) = size /\ \A m \in 1..size : items[m] = rest[m]
    BY <1>1, <1>3, PartFacts
  <1>5. ASSUME Len(rest) > limit
        PROVE  Last(items) = s[d + limit] /\ d + limit \in 1..Len(s)
    <2>1. size = limit /\ limit \in 1..size /\ limit \in 1..Len(s) - d /\ d + limit \in 1..Len(s)
      BY <1>1, <1>2, <1>3, <1>5
    <2>2. Last(items) = items[limit]
      BY <1>4, <2>1 DEF Last
    <2>. QED
      BY <1>1, <1>4, <2>1, <2>2
  <1>6. ASSUME NEW j \in d + 1..Len(s)
        PROVE  \/ \E m \in DOMAIN items : items[m] = s[j]
               \/ Len(rest) > limit /\ d + limit < j
    <2>1. j - d \in 1..Len(s) - d /\ d + (j - d) = j
      BY <1>2, <1>6
    <2>2. rest[j - d] = s[j]
      BY <1>1, <2>1
    <2>3. CASE j - d \in 1..size
      <3>1. items[j - d] = s[j] /\ j - d \in DOMAIN items
        BY <1>4, <2>2, <2>3
      <3>. QED
        BY <3>1
    <2>4. CASE j - d \notin 1..size
      <3>1. j \in Nat
        BY <1>2, <1>6
      <3>. QED
        BY <1>1, <1>2, <1>3, <2>1, <2>4, <3>1
    <2>. QED
      BY <2>3, <2>4
  <1>. QED
    BY <1>4, <1>5, <1>6 DEF rest, items

PageItems(after) == SubSeq(Rest(after), 1, Least(HistoryLimit, Len(Rest(after))))
CursorAfter(after) == IF Len(Rest(after)) > HistoryLimit THEN Last(PageItems(after)).id ELSE NoPost

\* list_page: a page, and a cursor at its last row when there are more.
LEMMA PageFacts ==
  ASSUME RowsAgree, NEW after \in Ids(evaluations) \cup {NoPost}
  PROVE  /\ PageItems(after) \in Seq(EvalRow) /\ CursorAfter(after) \in Ids(evaluations) \cup {NoPost}
         /\ \A x : (after = NoPost => x \in Ids(evaluations)) /\ (after # NoPost => Precedes(after, x)) =>
              x \in Ids(PageItems(after)) \/ (CursorAfter(after) # NoPost /\ Precedes(CursorAfter(after), x))
  <1>. DEFINE rest == Rest(after)
              items == PageItems(after)
              next == CursorAfter(after)
  <1>a. items = SubSeq(rest, 1, Least(HistoryLimit, Len(rest)))
    BY DEF PageItems
  <1>b. /\ Len(rest) > HistoryLimit => next = Last(items).id
        /\ ~(Len(rest) > HistoryLimit) => next = NoPost
    BY DEF CursorAfter
  <1>. HIDE DEF items, next
  <1>1. evaluations \in Seq(EvalRow) /\ Len(evaluations) \in Nat /\ DOMAIN evaluations = 1..Len(evaluations)
    BY DEF RowsAgree
  <1>2. HistoryLimit \in Nat \ {0}
    BY EvaluationAssumption
  <1>3. PICK d \in 0..Len(evaluations) :
           /\ rest = SubSeq(evaluations, d + 1, Len(evaluations))
           /\ after = NoPost => d = 0
           /\ after # NoPost => \A x : Precedes(after, x) =>
                \E j \in d + 1..Len(evaluations) : evaluations[j].id = x
    BY RestFacts
  <1>. HIDE DEF rest
  <1>4. /\ items \in Seq(EvalRow)
        /\ Len(rest) > HistoryLimit =>
             Last(items) = evaluations[d + HistoryLimit] /\ d + HistoryLimit \in 1..Len(evaluations)
        /\ \A j \in d + 1..Len(evaluations) :
             \/ \E m \in DOMAIN items : items[m] = evaluations[j]
             \/ Len(rest) > HistoryLimit /\ d + HistoryLimit < j
    <2>1. evaluations \in Seq(EvalRow) /\ d \in 0..Len(evaluations)
          /\ rest = PartAfter(evaluations, d) /\ items = PageOf(evaluations, d, HistoryLimit)
      BY <1>1, <1>3, <1>a DEF PartAfter, PageOf
    <2>2. /\ PageOf(evaluations, d, HistoryLimit) \in Seq(EvalRow)
          /\ Len(PartAfter(evaluations, d)) > HistoryLimit =>
               /\ Last(PageOf(evaluations, d, HistoryLimit)) = evaluations[d + HistoryLimit]
               /\ d + HistoryLimit \in 1..Len(evaluations)
          /\ \A j \in d + 1..Len(evaluations) :
               \/ \E m \in DOMAIN PageOf(evaluations, d, HistoryLimit) :
                    PageOf(evaluations, d, HistoryLimit)[m] = evaluations[j]
               \/ Len(PartAfter(evaluations, d)) > HistoryLimit /\ d + HistoryLimit < j
      BY <1>2, <2>1, PagePart
    <2>. QED
      BY <2>1, <2>2
  <1>5. next \in Ids(evaluations) \cup {NoPost}
    BY <1>1, <1>4, <1>b DEF Ids
  <1>6. \A i \in DOMAIN evaluations : evaluations[i].id # NoPost
    <2>1. \A i \in DOMAIN evaluations : evaluations[i] \in EvalRow
      BY <1>1
    <2>2. NoPost \notin Nat
      BY EvaluationAssumption
    <2>. QED
      BY <2>1, <2>2 DEF EvalRow
  <1>7. ASSUME NEW x, x \notin Ids(items),
               after = NoPost => x \in Ids(evaluations), after # NoPost => Precedes(after, x)
        PROVE  next # NoPost /\ Precedes(next, x)
    <2>1. PICK j \in d + 1..Len(evaluations) : evaluations[j].id = x
      <3>1. CASE after = NoPost
        <4>1. PICK j \in 1..Len(evaluations) : evaluations[j].id = x
          BY <1>1, <1>7, <3>1 DEF Ids
        <4>. QED
          BY <1>3, <3>1, <4>1
      <3>2. CASE after # NoPost
        BY <1>3, <1>7, <3>2
      <3>. QED
        BY <3>1, <3>2
    <2>2. Len(rest) > HistoryLimit /\ d + HistoryLimit < j
      BY <1>4, <1>7, <2>1 DEF Ids
    <2>3. j \in DOMAIN evaluations
      BY <1>1, <2>1
    <2>4. next = evaluations[d + HistoryLimit].id /\ d + HistoryLimit \in DOMAIN evaluations
      BY <1>1, <1>4, <1>b, <2>2
    <2>5. next # NoPost
      BY <1>6, <2>4
    <2>. QED
      BY <2>1, <2>2, <2>3, <2>4, <2>5 DEF Precedes
  <1>. QED
    BY <1>4, <1>5, <1>7 DEF items, next

\* The history after a step that changes it alone.
LEMMA HistoryMoves ==
  ASSUME HistoryCovers, RowsAgree, UNCHANGED evaluations,
         Refresh \/ More \/ ListPage \/ UsePage \/ PageFails
  PROVE  HistoryCovers'
  <1>1. /\ history \in HistoryRows /\ history.since \subseteq Ids(evaluations)
        /\ history.after \in Ids(evaluations) \cup {NoPost} /\ history.next \in Ids(evaluations) \cup {NoPost}
        /\ (history.whole => history.next = NoPost) /\ (history.state # "ready" => ~history.whole)
    BY DEF HistoryCovers
  <1>2. Ids(evaluations)' = Ids(evaluations) /\ \A a, b : Precedes(a, b) <=> \E i, j \in DOMAIN evaluations' :
                                i < j /\ evaluations'[i].id = a /\ evaluations'[j].id = b
    BY DEF Ids, Precedes
  <1>3. Ids(evaluations) \subseteq Nat
    <2>1. \A i \in DOMAIN evaluations : evaluations[i] \in EvalRow
      BY DEF RowsAgree
    <2>. QED
      BY <2>1 DEF Ids, EvalRow
  <1>4. ASSUME Refresh
        PROVE  HistoryCovers'
    <2>. DEFINE ids == Ids(evaluations)
                h == [history EXCEPT !.state = "asked", !.after = NoPost, !.whole = FALSE, !.since = ids]
    <2>1. history' = h
      BY <1>4 DEF Refresh
    <2>2. ids \subseteq Nat /\ Ids(evaluations)' = ids
      BY <1>2, <1>3
    <2>. HIDE DEF ids
    <2>3. /\ h \in HistoryRows /\ h.state = "asked" /\ h.after = NoPost /\ h.whole = FALSE /\ h.since = ids
          /\ h.next = history.next
      BY <1>1, <2>2 DEF HistoryRows
    <2>. HIDE DEF h
    <2>4. h.next \in ids \cup {NoPost}
      BY <1>1, <2>3 DEF ids
    <2>. QED
      BY <2>1, <2>2, <2>3, <2>4 DEF HistoryCovers
  <1>5. ASSUME More
        PROVE  HistoryCovers'
    <2>. DEFINE h == [history EXCEPT !.state = "asked", !.after = history.next]
    <2>1. history' = h /\ history.state = "ready" /\ history.next # NoPost
      BY <1>5 DEF More, NextCursor
    <2>2. /\ h \in HistoryRows /\ h.state = "asked" /\ h.after = history.next /\ h.next = history.next
          /\ h.whole = history.whole /\ h.since = history.since /\ h.shown = history.shown
      BY <1>1, <2>1 DEF HistoryRows
    <2>. HIDE DEF h
    <2>3. \A x \in h.since \ h.shown : \E i, j \in DOMAIN evaluations' :
            i < j /\ evaluations'[i].id = h.after /\ evaluations'[j].id = x
      BY <1>2, <2>1, <2>2 DEF HistoryCovers
    <2>. QED
      BY <1>1, <1>2, <2>1, <2>2, <2>3 DEF HistoryCovers, Precedes
  <1>6. ASSUME ListPage
        PROVE  HistoryCovers'
    <2>. DEFINE items == PageItems(history.after)
                next == CursorAfter(history.after)
                h == [history EXCEPT !.state = "answered", !.page = items, !.next = next]
    <2>1. history' = h /\ history.state = "asked"
      BY <1>6 DEF ListPage, PageItems, CursorAfter
    <2>2. /\ items \in Seq(EvalRow) /\ next \in Ids(evaluations) \cup {NoPost}
          /\ \A x : (history.after = NoPost => x \in Ids(evaluations))
                    /\ (history.after # NoPost => Precedes(history.after, x)) =>
               x \in Ids(items) \/ (next # NoPost /\ Precedes(next, x))
      BY <1>1, PageFacts
    <2>. HIDE DEF items, next
    <2>3. /\ h \in HistoryRows /\ h.state = "answered" /\ h.page = items /\ h.next = next
          /\ h.whole = history.whole /\ h.since = history.since /\ h.shown = history.shown
          /\ h.after = history.after
      <3>1. next \in Nat \cup {NoPost}
        BY <1>3, <2>2
      <3>. QED
        BY <1>1, <2>2, <3>1 DEF HistoryRows
    <2>. HIDE DEF h
    <2>4. ASSUME NEW x \in history.since \ (history.shown \cup Ids(items))
          PROVE  next # NoPost /\ Precedes(next, x)
      <3>1. x \in Ids(evaluations)
        BY <1>1
      <3>2. history.after # NoPost => Precedes(history.after, x)
        BY <2>1 DEF HistoryCovers
      <3>. QED
        BY <2>2, <3>1, <3>2
    <2>5. \A x \in h.since \ (h.shown \cup Ids(h.page)) : h.next # NoPost /\ \E i, j \in DOMAIN evaluations' :
            i < j /\ evaluations'[i].id = h.next /\ evaluations'[j].id = x
      BY <1>2, <2>3, <2>4
    <2>6. ~h.whole
      BY <1>1, <2>1, <2>3
    <2>. QED
      BY <1>1, <1>2, <2>1, <2>2, <2>3, <2>5, <2>6 DEF HistoryCovers, Precedes, Ids
  <1>7. ASSUME UsePage
        PROVE  HistoryCovers'
    <2>. DEFINE nowShown == history.shown \cup Ids(history.page)
                whole == history.next = NoPost
                h == [history EXCEPT !.state = "ready", !.page = <<>>, !.shown = nowShown, !.whole = whole]
    <2>1. history' = h /\ history.state = "answered"
      BY <1>7 DEF UsePage
    <2>2. nowShown \subseteq Nat
      <3>1. history.page \in Seq(EvalRow) /\ history.shown \subseteq Nat
        BY <1>1 DEF HistoryRows
      <3>2. \A i \in DOMAIN history.page : history.page[i].id \in Nat
        <4>1. \A i \in DOMAIN history.page : history.page[i] \in EvalRow
          BY <3>1
        <4>. QED
          BY <4>1 DEF EvalRow
      <3>. QED
        BY <3>1, <3>2 DEF Ids
    <2>3. whole \in BOOLEAN
      OBVIOUS
    <2>4. whole <=> history.next = NoPost
      OBVIOUS
    <2>5. \A x \in history.since \ nowShown : history.next # NoPost /\ Precedes(history.next, x)
      BY <2>1 DEF HistoryCovers
    <2>. HIDE DEF nowShown, whole
    <2>6. /\ h \in HistoryRows /\ h.state = "ready" /\ h.shown = nowShown /\ h.whole = whole /\ h.next = history.next
          /\ h.since = history.since /\ h.after = history.after
      <3>1. <<>> \in Seq(EvalRow)
        OBVIOUS
      <3>. QED
        BY <1>1, <2>2, <2>3, <3>1 DEF HistoryRows
    <2>. HIDE DEF h
    <2>7. \A x \in h.since \ h.shown : h.next # NoPost /\ \E i, j \in DOMAIN evaluations' :
            i < j /\ evaluations'[i].id = h.next /\ evaluations'[j].id = x
      BY <1>2, <2>5, <2>6
    <2>8. h.whole => h.next = NoPost /\ h.since \subseteq h.shown
      BY <2>4, <2>6, <2>7
    <2>. QED
      BY <1>1, <1>2, <2>1, <2>6, <2>7, <2>8 DEF HistoryCovers, Precedes
  <1>8. ASSUME PageFails
        PROVE  HistoryCovers'
    <2>. DEFINE h == [history EXCEPT !.state = "ready", !.page = <<>>, !.next = NoPost]
    <2>1. history' = h /\ history.state # "ready"
      BY <1>8 DEF PageFails
    <2>2. /\ h \in HistoryRows /\ h.state = "ready" /\ h.next = NoPost /\ h.whole = history.whole
          /\ h.since = history.since /\ h.after = history.after
      <3>1. <<>> \in Seq(EvalRow)
        OBVIOUS
      <3>. QED
        BY <1>1, <3>1 DEF HistoryRows
    <2>. HIDE DEF h
    <2>. QED
      BY <1>1, <1>2, <2>1, <2>2 DEF HistoryCovers
  <1>. QED
    BY <1>4, <1>5, <1>6, <1>7, <1>8

\* What the history shows may grow; what it has to reach stays.
LEMMA HistoryShows ==
  ASSUME HistoryCovers, RowsGrow, NEW h \in HistoryRows, history' = h,
         history.shown \subseteq h.shown, UNCHANGED evaluations,
         h.state = history.state \/ (h.state = "ready" /\ ~history.whole),
         h.state # history.state => h.next = NoPost, h.state = history.state => h.next = history.next,
         h.after = history.after, h.page = history.page, h.since = history.since, h.whole = history.whole
  PROVE  HistoryCovers'
  <1>1. Ids(evaluations)' = Ids(evaluations) /\ \A a, b : Precedes(a, b) <=> \E i, j \in DOMAIN evaluations' :
                                i < j /\ evaluations'[i].id = a /\ evaluations'[j].id = b
    BY DEF Ids, Precedes
  <1>2. CASE h.state = history.state
    BY <1>1, <1>2 DEF HistoryCovers, Precedes, Ids
  <1>3. CASE h.state # history.state
    BY <1>1, <1>3 DEF HistoryCovers, Precedes, Ids
  <1>. QED
    BY <1>2, <1>3

\* A row is remembered with its id.
LEMMA RemembersRows ==
  ASSUME RowsAgree, HistoryCovers, NEW k, UNCHANGED evaluations, history' = Remember(k), RowsGrow
  PROVE  HistoryCovers'
  <1>. DEFINE nowShown == history.shown \cup {e.id : e \in FindSubmission(k)}
              h == [history EXCEPT !.shown = nowShown]
  <1>1. history' = h /\ history \in HistoryRows
    BY DEF Remember, HistoryCovers
  <1>2. nowShown \subseteq Nat
    <2>1. \A e \in StoredEvaluations : e \in EvalRow
      BY DEF StoredEvaluations, ToSet, RowsAgree
    <2>2. \A e \in FindSubmission(k) : e.id \in Nat
      BY <2>1 DEF FindSubmission, EvalRow
    <2>3. history.shown \subseteq Nat
      BY <1>1 DEF HistoryRows
    <2>. QED
      BY <2>2, <2>3
  <1>3. history.shown \subseteq nowShown
    OBVIOUS
  <1>. HIDE DEF nowShown
  <1>4. /\ h \in HistoryRows /\ h.shown = nowShown /\ h.state = history.state /\ h.next = history.next
        /\ h.after = history.after /\ h.page = history.page /\ h.since = history.since /\ h.whole = history.whole
    BY <1>1, <1>2 DEF HistoryRows
  <1>. HIDE DEF h
  <1>. QED
    BY <1>1, <1>3, <1>4, HistoryShows

\* A reading that begins at the top.
LEMMA HistoryOpens ==
  ASSUME RowsAgree, UNCHANGED evaluations, history' = OpenedHistory(evaluations)
  PROVE  HistoryCovers'
  <1>. DEFINE ids == Ids(evaluations)
              h == [shown |-> {}, state |-> "asked", after |-> NoPost, next |-> NoPost,
                    page |-> <<>>, since |-> ids, whole |-> FALSE]
  <1>1. history' = h /\ ids' = ids
    BY DEF OpenedHistory, Ids
  <1>2. ids \subseteq Nat
    <2>1. \A i \in DOMAIN evaluations : evaluations[i] \in EvalRow
      BY DEF RowsAgree
    <2>. QED
      BY <2>1 DEF Ids, EvalRow
  <1>. HIDE DEF ids
  <1>3. /\ h \in HistoryRows /\ h.state = "asked" /\ h.after = NoPost /\ h.next = NoPost /\ h.whole = FALSE
        /\ h.since = ids
    <2>1. <<>> \in Seq(EvalRow)
      OBVIOUS
    <2>. QED
      BY <1>2, <2>1 DEF HistoryRows
  <1>. HIDE DEF h
  <1>. QED
    BY <1>1, <1>3 DEF HistoryCovers, ids

\* The history after a step.
LEMMA HistoryKeeps ==
  ASSUME HistoryCovers, RowsAgree, RowsGrow, SubmissionNext \/ HistoryNext
  PROVE  HistoryCovers'
  <1>1. ASSUME NEW n \in 1..MaxPosts, UseAnswer(n)
        PROVE  HistoryCovers'
    <2>1. UNCHANGED evaluations /\ (history' = Remember(original.key) \/ UNCHANGED history)
      BY <1>1 DEF UseAnswer
    <2>. QED
      BY <2>1, RemembersRows, HistoryStays
  <1>2. ASSUME UseReceipt
        PROVE  HistoryCovers'
    <2>1. UNCHANGED evaluations /\ (history' = Remember(original.key) \/ UNCHANGED history)
      BY <1>2 DEF UseReceipt
    <2>. QED
      BY <2>1, RemembersRows, HistoryStays
  <1>3. ASSUME LeavePage
        PROVE  HistoryCovers'
    BY <1>3, HistoryOpens DEF LeavePage
  <1>4. ASSUME RefusedRead
        PROVE  HistoryCovers'
    <2>. DEFINE h == [history EXCEPT !.state = "ready", !.next = NoPost]
    <2>1. history' = h /\ history.state = "asked" /\ UNCHANGED evaluations /\ history \in HistoryRows
          /\ ~history.whole
      BY <1>4 DEF RefusedRead, HistoryCovers
    <2>2. /\ h \in HistoryRows /\ h.shown = history.shown /\ h.state = "ready" /\ h.next = NoPost
          /\ h.after = history.after /\ h.page = history.page /\ h.since = history.since /\ h.whole = history.whole
      BY <2>1 DEF HistoryRows
    <2>. HIDE DEF h
    <2>. QED
      BY <2>1, <2>2, HistoryShows
  <1>5. ASSUME Refresh \/ More \/ ListPage \/ UsePage \/ PageFails
        PROVE  HistoryCovers'
    BY <1>5, HistoryMoves DEF Refresh, More, ListPage, UsePage, PageFails
  <1>6. ASSUME UNCHANGED history
        PROVE  HistoryCovers'
    BY <1>6, HistoryStays
  <1>7. \/ \E n \in 1..MaxPosts : UseAnswer(n)
        \/ UseReceipt \/ LeavePage \/ RefusedRead
        \/ (Refresh \/ More \/ ListPage \/ UsePage \/ PageFails)
        \/ UNCHANGED history
    BY DEF SubmissionNext, HistoryNext, Transport, ServePost, LosePost, OtherClient, OtherUser, AccessChanges,
           pageVars, StartSubmission, ResendSubmission, Send, StopWaiting, Confirm, LookUp, Ask, AnswerQuery,
           StopChecking, Clear, CloseLookup, WorkspaceArchived
  <1>. QED
    BY <1>1, <1>2, <1>3, <1>4, <1>5, <1>6, <1>7

\* Evaluations and their page at the start.
LEMMA EvaluationInitial == EvaluationInit => EvaluationKept
  <1>. SUFFICES ASSUME EvaluationInit PROVE EvaluationKept
    OBVIOUS
  <1>. USE EvaluationAssumption
  <1>1. evaluations = <<>> /\ RowsAgree
    BY DEF EvaluationInit, RowsAgree
  <1>2. UnsentPost \in PostRows /\ UnsentPost.state = "unsent"
    BY DEF UnsentPost, PostRows, NoBody, Replies
  <1>3. PostsAgree
    BY <1>2 DEF EvaluationInit, PostsAgree, OnItsWay
  <1>4. PageAgrees
    <2>1. NoSubmission \in OriginalRows /\ NoSubmission.phase = "none" /\ NoSubmission.failure = "none"
      BY DEF NoSubmission, OriginalRows
    <2>. QED
      BY <2>1, QueryFacts DEF EvaluationInit, PageAgrees, ClearFailures
  <1>5. HistoryCovers
    <2>. DEFINE h == [shown |-> {}, state |-> "asked", after |-> NoPost, next |-> NoPost,
                      page |-> <<>>, since |-> {}, whole |-> FALSE]
    <2>1. history = h
      <3>1. DOMAIN <<>> = {}
        OBVIOUS
      <3>2. Ids(<<>>) = {}
        BY <3>1 DEF Ids
      <3>. QED
        BY <3>2 DEF EvaluationInit, OpenedHistory
    <2>2. h \in HistoryRows /\ h.state = "asked" /\ h.after = NoPost /\ h.next = NoPost /\ h.whole = FALSE
          /\ h.since = {}
      <3>1. <<>> \in Seq(EvalRow)
        OBVIOUS
      <3>. QED
        BY <3>1 DEF HistoryRows
    <2>. HIDE DEF h
    <2>. QED
      BY <2>1, <2>2 DEF HistoryCovers
  <1>. QED
    BY <1>1, <1>3, <1>4, <1>5 DEF EvaluationKept

\* Every step of the page or of the service keeps them.
LEMMA EvaluationKeeps ==
  EvaluationKept /\ [SubmissionNext \/ HistoryNext]_evaluationVars => EvaluationKept'
  <1>1. ASSUME EvaluationKept, SubmissionNext \/ HistoryNext
        PROVE  EvaluationKept'
    <2>1. RowsAgree /\ PostsAgree /\ PageAgrees /\ HistoryCovers
      BY <1>1 DEF EvaluationKept
    <2>2. RowsGrow
      BY <1>1, <2>1, RowsOnlyGrow
    <2>3. PostsAgree'
      BY <1>1, <2>1, <2>2, PostsKeep DEF PageAgrees
    <2>4. PageAgrees'
      BY <1>1, <2>1, <2>2, PageKeeps
    <2>5. HistoryCovers'
      BY <1>1, <2>1, <2>2, HistoryKeeps
    <2>. QED
      BY <2>2, <2>3, <2>4, <2>5 DEF EvaluationKept, RowsGrow
  <1>2. ASSUME EvaluationKept, UNCHANGED evaluationVars
        PROVE  EvaluationKept'
    <2>1. UNCHANGED evaluations /\ UNCHANGED posts /\ UNCHANGED <<original, controller, confirmation, cleared>>
          /\ UNCHANGED history
      BY <1>2 DEF evaluationVars, pageVars
    <2>2. RowsGrow
      BY <1>2, <2>1, RowsKeep DEF EvaluationKept
    <2>. QED
      BY <1>2, <2>1, <2>2, PostsStay, PageRests, HistoryStays DEF EvaluationKept, RowsGrow, OnItsWay
  <1>. QED
    BY <1>1, <1>2

\* A submission's fate and the history, from what is kept.
LEMMA SubmissionFollows == EvaluationKept => SubmissionIsSettled /\ HistoryIsWhole
  <1>. SUFFICES ASSUME EvaluationKept PROVE SubmissionIsSettled /\ HistoryIsWhole
    OBVIOUS
  <1>1. RowsAgree /\ PageAgrees /\ HistoryCovers
    BY DEF EvaluationKept
  <1>2. \A i, j \in DOMAIN evaluations :
          evaluations[i].key = evaluations[j].key /\ evaluations[i].key # NoPost => i = j
    BY <1>1 DEF RowsAgree
  <1>3. \A k : \A e \in FindSubmission(k) : e.body # "invalid"
    <2>1. \A e \in StoredEvaluations : e \in EvalRow
      BY <1>1 DEF StoredEvaluations, ToSet, RowsAgree
    <2>. QED
      BY <2>1 DEF FindSubmission, EvalRow
  <1>4. ASSUME NEW k \in SubmissionKeys
        PROVE  CASE cleared[k] = "no" -> TRUE
                 [] cleared[k] = "saved" -> FindSubmission(k) # {}
                 [] OTHER -> \A e \in FindSubmission(k) : e.body # cleared[k]
    <2>1. cleared[k] \in {"no", "saved", "invalid"} /\ (cleared[k] = "saved" => FindSubmission(k) # {})
      BY <1>1 DEF PageAgrees
    <2>2. CASE cleared[k] = "no"
      BY <2>2
    <2>3. CASE cleared[k] = "saved"
      BY <2>1, <2>3
    <2>4. CASE cleared[k] = "invalid"
      BY <1>3, <2>4
    <2>. QED
      BY <2>1, <2>2, <2>3, <2>4
  <1>5. HistoryIsWhole
    BY <1>1 DEF HistoryCovers, HistoryIsWhole
  <1>. QED
    BY <1>1, <1>2, <1>4, <1>5 DEF SubmissionIsSettled, PageAgrees

\* Whatever was lost, late or resent, a submission has the fate the page shows of it; and a history
\* read to its last page has left nothing out (useEvaluationSubmission, list_page, remember).
THEOREM EvaluationsStaySettled == EvaluationSpec => [](SubmissionIsSettled /\ HistoryIsWhole)
  BY EvaluationInitial, EvaluationKeeps, SubmissionFollows, PTL DEF EvaluationSpec

-----------------------------------------------------------------------------
(* The requests of a tab (WebRequests), for any keys and any number of          *)
(* requests. What carries the proof: a key is sent with one body only, so a     *)
(* request refused for its content is refused whenever it arrives; and as long  *)
(* as the tab is certain of a request's fate, every copy of it has come back.   *)

TabKeys == SendKeys \cup {NoSend}
TabBodies == {"none", "valid", "invalid"}
WireReplies == {"none", "done", "invalid", "conflict", "expired", "signedOut", "archived"}
WireRows ==
  [key : TabKeys, body : TabBodies, state : {"unsent", "flying", "answered", "over"},
   reply : WireReplies]
KeptRows ==
  [key : TabKeys, body : TabBodies,
   phase : {"none", "sending", "unknown", "rejected", "conflict", "expired", "confirmed", "observed"},
   uncertain : BOOLEAN, failure : WireReplies \cup {"unknown"}, editable : BOOLEAN]
WebRows ==
  /\ wire \in [1..MaxSends -> WireRows] /\ kept \in KeptRows
  /\ waiting \in 1..MaxSends \cup {NoSend} /\ barred \in BOOLEAN
  /\ storage \in [works : BOOLEAN, key : TabKeys] /\ aside \subseteq SendKeys
  /\ grant \in {"full", "signedOut", "archived"}

OnWire(k, body) == \E n \in 1..MaxSends : wire[n].key = k /\ wire[n].body = body
\* The requests sent, and what the server accepted of them.
WireAgrees ==
  /\ \A n \in 1..MaxSends : wire[n].state = "unsent" <=> wire[n].key = NoSend
  /\ \A m, n \in 1..MaxSends :
       wire[m].key = wire[n].key /\ wire[n].key # NoSend => wire[m].body = wire[n].body
  /\ \A n \in 1..MaxSends : wire[n].reply = "done" => AcceptedKey(wire[n].key)
  /\ \A n \in 1..MaxSends : wire[n].reply = "invalid" => wire[n].body = "invalid"
  /\ \A a \in accepted : a.key = NoSend \/ (a.body # "invalid" /\ OnWire(a.key, a.body))
\* What the tab keeps is what it sent, or nothing.
TabAgrees(h) ==
  /\ IF kept.key = NoSend THEN kept = NothingKept ELSE OnWire(kept.key, kept.body)
  /\ kept.phase = "sending" <=> waiting # NoSend
  /\ waiting # NoSend =>
       kept.key # NoSend /\ wire[waiting].key = kept.key /\ wire[waiting].body = kept.body
  /\ kept.failure = "invalid" => kept.body = "invalid"
  /\ h # "decision" => kept.phase # "observed" /\ (kept.phase = "unknown" => kept.uncertain)
  /\ \A k \in aside : OnWire(k, "invalid")
\* The copy of a decision in the session storage.
StorageAgrees(h) ==
  /\ storage.key # NoSend => h = "decision" /\ storage.key = kept.key /\ storage.works
  /\ h = "decision" /\ kept.key # NoSend /\ storage.works /\ storage.key = NoSend
       => kept.body = "invalid"
\* Every copy of the request has come back, but for the one the tab waits for.
AllBack(n) == \A m \in 1..MaxSends : wire[m].key = kept.key /\ m # n => wire[m].state = "over"
Certain(h) ==
  /\ ~kept.uncertain
  /\ kept.phase = "rejected" \/ (h = "answer" /\ kept.phase \in {"conflict", "expired"})
FateKnown(h) ==
  /\ kept.phase = "confirmed" => AcceptedKey(kept.key)
  /\ kept.phase = "observed" => \E a \in accepted : a.body = kept.body
  /\ ~kept.uncertain /\ waiting # NoSend =>
       /\ AllBack(waiting)
       /\ AcceptedKey(kept.key) =>
            wire[waiting].state = "over" \/ (wire[waiting].state = "answered" /\ wire[waiting].reply = "done")
  /\ Certain(h) => AllBack(NoSend) /\ ~AcceptedKey(kept.key)
WebKept(h) == WebRows /\ WireAgrees /\ TabAgrees(h) /\ StorageAgrees(h) /\ FateKnown(h)

\* The server's side moves without the tab's requests: somebody else, time, access.
LEMMA QuietServer ==
  ASSUME NEW h \in Hooks, WebKept(h), UNCHANGED <<wire, tabVars>>,
         grant' \in {"full", "signedOut", "archived"}, accepted \subseteq accepted',
         \A a \in accepted' : a \in accepted \/ a.key = NoSend
  PROVE  WebKept(h)'
  <1>1. \A k : k # NoSend => (AcceptedKey(k)' <=> AcceptedKey(k))
    BY DEF AcceptedKey
  <1>2. \A k : AcceptedKey(k) => AcceptedKey(k)'
    BY DEF AcceptedKey
  <1>3. waiting # NoSend \/ Certain(h) => kept.key # NoSend
    BY DEF WebKept, TabAgrees, Certain, NothingKept
  <1>4. WebRows'
    BY DEF WebKept, WebRows, tabVars
  <1>5. WireAgrees'
    BY <1>2 DEF WebKept, WireAgrees, OnWire
  <1>6. TabAgrees(h)' /\ StorageAgrees(h)'
    BY DEF WebKept, TabAgrees, StorageAgrees, OnWire, tabVars
  <1>7. FateKnown(h)'
    BY <1>1, <1>2, <1>3 DEF WebKept, FateKnown, AllBack, Certain, tabVars
  <1>. QED
    BY <1>4, <1>5, <1>6, <1>7 DEF WebKept

\* A request reaches the server, or is lost.
LEMMA RequestArrives ==
  ASSUME NEW h \in Hooks, WebKept(h), NEW n \in 1..MaxSends, Arrive(h, n) \/ NeverArrives(n)
  PROVE  WebKept(h)'
  <1>. USE WebAssumption
  <1>0. /\ wire \in [1..MaxSends -> WireRows] /\ wire[n] \in WireRows
        /\ grant \in {"full", "signedOut", "archived"}
    BY DEF WebKept, WebRows
  <1>1. /\ UNCHANGED <<grant, tabVars>> /\ wire[n].state = "flying"
        /\ wire' \in [1..MaxSends -> WireRows]
        /\ \A m \in 1..MaxSends : wire'[m].key = wire[m].key /\ wire'[m].body = wire[m].body
        /\ \A m \in 1..MaxSends : m # n => wire'[m] = wire[m]
        /\ wire'[n].state \in {"answered", "over"}
    <2>1. PICK st \in {"answered", "over"}, r \in WireReplies :
            wire' = [wire EXCEPT ![n] = [wire[n] EXCEPT !.state = st, !.reply = r]]
      <3>1. CASE NeverArrives(n)
        <4>1. wire' = [wire EXCEPT ![n] = [wire[n] EXCEPT !.state = "over", !.reply = wire[n].reply]]
          BY <3>1, <1>0 DEF NeverArrives, WireRows
        <4>. QED
          BY <4>1, <1>0 DEF WireRows
      <3>2. CASE Arrive(h, n)
        <4>1. Response(h, wire[n]) \in WireReplies /\ "none" \in WireReplies
          BY <1>0 DEF Response, SubjectReply, WireReplies
        <4>2. \/ wire' = [wire EXCEPT ![n].state = "answered", ![n].reply = Response(h, wire[n])]
              \/ wire' = [wire EXCEPT ![n].state = "over", ![n].reply = "none"]
          BY <3>2 DEF Arrive
        <4>. QED
          BY <4>1, <4>2, <1>0
      <3>. QED
        BY <3>1, <3>2
    <2>. DEFINE line == [wire[n] EXCEPT !.state = st, !.reply = r]
    <2>2. /\ line \in WireRows /\ line.key = wire[n].key /\ line.body = wire[n].body
          /\ line.state \in {"answered", "over"}
      BY <1>0 DEF WireRows
    <2>3. wire' = [wire EXCEPT ![n] = line]
      BY <2>1
    <2>. HIDE DEF line
    <2>4. wire' \in [1..MaxSends -> WireRows] /\ wire'[n] = line
          /\ \A m \in 1..MaxSends : m # n => wire'[m] = wire[m]
      BY <2>2, <2>3, <1>0
    <2>5. UNCHANGED <<grant, tabVars>> /\ wire[n].state = "flying"
      BY DEF Arrive, NeverArrives
    <2>. QED
      BY <2>2, <2>4, <2>5
  <1>2. \/ UNCHANGED accepted
        \/ /\ wire[n].body # "invalid"
           /\ accepted' = accepted \cup {[key |-> wire[n].key, body |-> wire[n].body]}
    <2>1. Response(h, wire[n]) = "done" => wire[n].body # "invalid"
      BY <1>0 DEF Response
    <2>. QED
      BY <2>1 DEF Arrive, NeverArrives
  <1>3. /\ wire'[n].reply = "done" => \E a \in accepted' : a.key = wire[n].key
        /\ wire'[n].reply = "invalid" => wire[n].body = "invalid"
        /\ wire'[n].state = "answered" /\ wire'[n].reply # "done" => UNCHANGED accepted
    <2>1. CASE NeverArrives(n)
      <3>1. wire'[n].reply = wire[n].reply /\ wire'[n].state = "over" /\ UNCHANGED accepted
        BY <1>0, <2>1 DEF NeverArrives, WireRows
      <3>. QED
        BY <3>1 DEF WebKept, WireAgrees, AcceptedKey
    <2>2. CASE Arrive(h, n)
      <3>1. \/ wire'[n].state = "over" /\ wire'[n].reply = "none"
            \/ wire'[n].state = "answered" /\ wire'[n].reply = Response(h, wire[n])
        <4>1. PICK back \in BOOLEAN :
                wire' = [wire EXCEPT ![n].state = IF back THEN "answered" ELSE "over",
                                     ![n].reply = IF back THEN Response(h, wire[n]) ELSE "none"]
          BY <2>2 DEF Arrive
        <4>2. CASE back
          BY <1>0, <4>1, <4>2 DEF WireRows
        <4>3. CASE ~back
          BY <1>0, <4>1, <4>3 DEF WireRows
        <4>. QED
          BY <4>2, <4>3
      <3>2. accepted' = IF Response(h, wire[n]) = "done"
                        THEN accepted \cup {[key |-> wire[n].key, body |-> wire[n].body]} ELSE accepted
        BY <2>2 DEF Arrive
      <3>3. Response(h, wire[n]) = "invalid" => wire[n].body = "invalid"
        BY <1>0 DEF Response, SubjectReply
      <3>4. \E a \in {[key |-> wire[n].key, body |-> wire[n].body]} : a.key = wire[n].key
        OBVIOUS
      <3>. QED
        BY <3>1, <3>2, <3>3, <3>4
    <2>. QED
      BY <2>1, <2>2
  <1>4. /\ \A k : AcceptedKey(k) => \E a \in accepted' : a.key = k
        /\ \A k : k # wire[n].key => ((\E a \in accepted' : a.key = k) <=> AcceptedKey(k))
    BY <1>2 DEF AcceptedKey
  <1>5. \A k, body : OnWire(k, body)' <=> OnWire(k, body)
    BY <1>1 DEF OnWire
  <1>6. wire[n].key # NoSend /\ OnWire(wire[n].key, wire[n].body)
    BY <1>1 DEF WebKept, WireAgrees, OnWire
  <1>7. WebRows'
    BY <1>1 DEF WebKept, WebRows, tabVars
  <1>8. WireAgrees'
    <2>1. \A m \in 1..MaxSends : wire'[m].state = "unsent" <=> wire'[m].key = NoSend
      BY <1>1, <1>6 DEF WebKept, WireAgrees
    <2>2. \A l, m \in 1..MaxSends :
            wire'[l].key = wire'[m].key /\ wire'[m].key # NoSend => wire'[l].body = wire'[m].body
      BY <1>1 DEF WebKept, WireAgrees
    <2>3. \A m \in 1..MaxSends : wire'[m].reply = "done" => \E a \in accepted' : a.key = wire'[m].key
      <3>1. TAKE m \in 1..MaxSends
      <3>2. CASE m = n
        BY <1>1, <1>3, <3>2
      <3>3. CASE m # n
        BY <1>1, <1>4, <3>3 DEF WebKept, WireAgrees
      <3>. QED
        BY <3>2, <3>3
    <2>4. \A m \in 1..MaxSends : wire'[m].reply = "invalid" => wire'[m].body = "invalid"
      BY <1>1, <1>3 DEF WebKept, WireAgrees
    <2>5. \A a \in accepted' : a.key = NoSend \/ (a.body # "invalid" /\ OnWire(a.key, a.body)')
      BY <1>2, <1>5, <1>6 DEF WebKept, WireAgrees
    <2>. QED
      BY <2>1, <2>2, <2>3, <2>4, <2>5 DEF WireAgrees, AcceptedKey
  <1>9. TabAgrees(h)' /\ StorageAgrees(h)'
    <2>1. waiting # NoSend => waiting \in 1..MaxSends
      BY DEF WebKept, WebRows
    <2>. QED
      BY <1>1, <1>5, <2>1 DEF WebKept, TabAgrees, StorageAgrees, tabVars
  <1>10. FateKnown(h)'
    <2>1. UNCHANGED <<kept, waiting>> /\ (waiting # NoSend => waiting \in 1..MaxSends)
      BY <1>1 DEF tabVars, WebKept, WebRows
    <2>2. /\ kept.phase = "confirmed" => (\E a \in accepted' : a.key = kept.key)
          /\ kept.phase = "observed" => \E a \in accepted' : a.body = kept.body
      BY <1>2, <1>4 DEF WebKept, FateKnown
    <2>3. \A w : AllBack(w) =>
            \A m \in 1..MaxSends : wire'[m].key = kept.key /\ m # w => wire'[m].state = "over"
      BY <1>1 DEF AllBack
    <2>4. ASSUME ~kept.uncertain, waiting # NoSend
          PROVE  /\ (\A m \in 1..MaxSends : wire'[m].key = kept.key /\ m # waiting => wire'[m].state = "over")
                 /\ (\E a \in accepted' : a.key = kept.key) =>
                      \/ wire'[waiting].state = "over"
                      \/ wire'[waiting].state = "answered" /\ wire'[waiting].reply = "done"
      <3>1. /\ AllBack(waiting) /\ wire[waiting].key = kept.key
            /\ AcceptedKey(kept.key) =>
                  wire[waiting].state = "over" \/ (wire[waiting].state = "answered" /\ wire[waiting].reply = "done")
        BY <2>4 DEF WebKept, FateKnown, TabAgrees
      <3>2. CASE n = waiting
        <4>1. ~AcceptedKey(kept.key)
          BY <1>1, <3>1, <3>2
        <4>2. UNCHANGED accepted => ~ (\E a \in accepted' : a.key = kept.key)
          BY <4>1 DEF AcceptedKey
        <4>. QED
          BY <1>1, <1>3, <2>3, <3>1, <3>2, <4>2
      <3>3. CASE n # waiting
        <4>1. wire[n].key # kept.key
          BY <1>1, <3>1, <3>3 DEF AllBack
        <4>. QED
          BY <1>1, <1>4, <2>1, <2>3, <2>4, <3>1, <3>3, <4>1
      <3>. QED
        BY <3>2, <3>3
    <2>5. ASSUME Certain(h)
          PROVE  (\A m \in 1..MaxSends : wire'[m].key = kept.key /\ m # NoSend => wire'[m].state = "over") /\ ~ (\E a \in accepted' : a.key = kept.key)
      <3>1. AllBack(NoSend) /\ ~AcceptedKey(kept.key)
        BY <2>5 DEF WebKept, FateKnown
      <3>2. wire[n].key # kept.key
        BY <1>1, <3>1 DEF AllBack
      <3>. QED
        BY <1>4, <2>3, <3>1, <3>2
    <2>7. Certain(h)' <=> Certain(h)
      BY <2>1 DEF Certain
    <2>. QED
      BY <2>1, <2>2, <2>4, <2>5, <2>7 DEF FateKnown, AcceptedKey, AllBack
  <1>. QED
    BY <1>7, <1>8, <1>9, <1>10 DEF WebKept

\* Requests that come back keep their key and their body.
LEMMA SameRequests ==
  ASSUME WireAgrees, UNCHANGED accepted,
         \A m \in 1..MaxSends : wire'[m].key = wire[m].key /\ wire'[m].body = wire[m].body,
         \A m \in 1..MaxSends : /\ wire'[m].reply \in {wire[m].reply, "none"}
                                /\ wire'[m].state = "unsent" <=> wire[m].state = "unsent"
  PROVE  WireAgrees'
  <1>1. \A m \in 1..MaxSends : wire'[m].state = "unsent" <=> wire'[m].key = NoSend
    BY DEF WireAgrees
  <1>2. \A l, m \in 1..MaxSends :
          wire'[l].key = wire'[m].key /\ wire'[m].key # NoSend => wire'[l].body = wire'[m].body
    BY DEF WireAgrees
  <1>3. \A m \in 1..MaxSends : wire'[m].reply = "done" => \E a \in accepted' : a.key = wire'[m].key
    BY DEF WireAgrees, AcceptedKey
  <1>4. \A m \in 1..MaxSends : wire'[m].reply = "invalid" => wire'[m].body = "invalid"
    BY DEF WireAgrees
  <1>5. \A a \in accepted' : a.key = NoSend \/ (a.body # "invalid" /\ OnWire(a.key, a.body)')
    BY DEF WireAgrees, OnWire
  <1>. QED
    BY <1>1, <1>2, <1>3, <1>4, <1>5 DEF WireAgrees, AcceptedKey

\* A request that came back is put away: its key and its body stay known.
LEMMA RequestReturns ==
  ASSUME WebRows, WireAgrees, NEW n \in 1..MaxSends, wire[n].state = "answered", UNCHANGED accepted,
         wire' = [wire EXCEPT ![n].state = "over", ![n].reply = "none"]
  PROVE  /\ wire' \in [1..MaxSends -> WireRows] /\ WireAgrees' /\ wire'[n].state = "over"
         /\ \A m \in 1..MaxSends : wire'[m].key = wire[m].key /\ wire'[m].body = wire[m].body
         /\ \A m \in 1..MaxSends : m # n => wire'[m] = wire[m]
  <1>. DEFINE line == [wire[n] EXCEPT !.state = "over", !.reply = "none"]
  <1>1. /\ line \in WireRows /\ line.key = wire[n].key /\ line.body = wire[n].body
        /\ line.state = "over" /\ line.reply = "none"
    BY DEF WebRows, WireRows, WireReplies
  <1>2. wire' = [wire EXCEPT ![n] = line] /\ wire \in [1..MaxSends -> WireRows]
    BY DEF WebRows
  <1>. HIDE DEF line
  <1>3. /\ wire' \in [1..MaxSends -> WireRows] /\ wire'[n] = line
        /\ \A m \in 1..MaxSends : m # n => wire'[m] = wire[m]
    BY <1>1, <1>2
  <1>4. \A m \in 1..MaxSends : wire'[m].key = wire[m].key /\ wire'[m].body = wire[m].body
    BY <1>1, <1>3
  <1>5. WireAgrees'
    <2>1. \A m \in 1..MaxSends :
            /\ wire'[m].reply \in {wire[m].reply, "none"}
            /\ wire'[m].state = "unsent" <=> wire[m].state = "unsent"
      BY <1>1, <1>3
    <2>. QED
      BY <1>4, <2>1, SameRequests
  <1>. QED
    BY <1>1, <1>3, <1>4, <1>5

\* The tab learns something of the request it keeps, and waits no longer.
LEMMA TabLearns ==
  ASSUME NEW h \in Hooks, WebKept(h), UNCHANGED <<accepted, grant, aside>>, kept.key # NoSend,
         wire' \in [1..MaxSends -> WireRows], WireAgrees',
         \A m \in 1..MaxSends : wire'[m].key = wire[m].key /\ wire'[m].body = wire[m].body,
         kept' \in KeptRows, kept'.key = kept.key, kept'.body = kept.body,
         kept'.phase # "sending", waiting' = NoSend, barred' \in BOOLEAN,
         kept'.failure = "invalid" => kept.body = "invalid",
         h # "decision" => kept'.phase # "observed" /\ (kept'.phase = "unknown" => kept'.uncertain),
         \/ UNCHANGED storage
         \/ kept.body = "invalid" /\ storage.works /\ storage' = [storage EXCEPT !.key = NoSend],
         kept'.phase = "confirmed" => AcceptedKey(kept.key),
         kept'.phase = "observed" => \E a \in accepted : a.body = kept.body,
         Certain(h)' => AllBack(NoSend)' /\ ~AcceptedKey(kept.key)
  PROVE  WebKept(h)'
  <1>1. WebRows' /\ (storage'.key = NoSend \/ UNCHANGED storage) /\ storage'.works = storage.works
    BY DEF WebKept, WebRows, TabKeys
  <1>2. \A k, body : OnWire(k, body) => OnWire(k, body)'
    BY DEF OnWire
  <1>3. TabAgrees(h)'
    BY <1>2 DEF WebKept, TabAgrees
  <1>4. StorageAgrees(h)'
    BY <1>1 DEF WebKept, StorageAgrees
  <1>5. FateKnown(h)'
    BY DEF FateKnown, AcceptedKey
  <1>. QED
    BY <1>1, <1>3, <1>4, <1>5 DEF WebKept

\* The tab keeps nothing any more.
LEMMA TabEmpties ==
  ASSUME NEW h \in Hooks, WebKept(h), UNCHANGED <<accepted, grant>>,
         wire' \in [1..MaxSends -> WireRows], WireAgrees',
         \A m \in 1..MaxSends : wire'[m].key = wire[m].key /\ wire'[m].body = wire[m].body,
         kept' = NothingKept, waiting' = NoSend, barred' \in BOOLEAN,
         storage' \in [works : BOOLEAN, key : TabKeys], storage'.key = NoSend,
         aside' = aside \/ (kept.key # NoSend /\ kept.body = "invalid" /\ aside' = aside \cup {kept.key})
  PROVE  WebKept(h)'
  <1>1. /\ kept' \in KeptRows /\ kept'.key = NoSend /\ kept'.failure = "none" /\ kept'.phase = "none"
    BY DEF NothingKept, KeptRows, TabKeys, TabBodies, WireReplies
  <1>2. \A k, body : OnWire(k, body) => OnWire(k, body)'
    BY DEF OnWire
  <1>3. kept.key # NoSend => kept.key \in SendKeys /\ OnWire(kept.key, kept.body)
    BY DEF WebKept, WebRows, TabAgrees, KeptRows, TabKeys
  <1>4. aside' \subseteq SendKeys /\ \A k \in aside' : OnWire(k, "invalid")'
    BY <1>2, <1>3 DEF WebKept, WebRows, TabAgrees
  <1>5. WebRows'
    BY <1>1, <1>4 DEF WebKept, WebRows
  <1>6. TabAgrees(h)' /\ StorageAgrees(h)'
    BY <1>1, <1>4 DEF TabAgrees, StorageAgrees
  <1>7. FateKnown(h)'
    BY <1>1 DEF FateKnown, Certain
  <1>. QED
    BY <1>5, <1>6, <1>7 DEF WebKept

\* What a hook makes of a failure.
LEMMA FailingFacts ==
  ASSUME NEW h \in Hooks, kept \in KeptRows, NEW reply \in WireReplies \cup {"unknown"}
  PROVE  /\ Failing(h, reply) \in KeptRows
         /\ Failing(h, reply).key = kept.key /\ Failing(h, reply).body = kept.body
         /\ Failing(h, reply).failure = reply
         /\ kept.uncertain \/ reply = "unknown" => Failing(h, reply).uncertain
         /\ Failing(h, reply).phase \in {"unknown", "rejected", "conflict", "expired"}
         /\ Failing(h, reply).phase = "unknown" => Failing(h, reply).uncertain
  <1>1. /\ StaysUncertain(h, reply) \in BOOLEAN
        /\ FailurePhase(h, reply) \in {"unknown", "rejected", "conflict", "expired"}
        /\ reply = "unknown" => StaysUncertain(h, reply)
        /\ FailurePhase(h, reply) = "unknown" => StaysUncertain(h, reply)
    <2>1. CASE h = "answer"
      BY <2>1 DEF StaysUncertain, FailurePhase, AnswerPhase
    <2>2. CASE h \in {"run", "decision"}
      <3>1. FailurePhase(h, reply) = RunPhase(reply)
        BY <2>2 DEF FailurePhase, DecisionPhase
      <3>2. RunPhase(reply) \in {"unknown", "rejected", "conflict"} /\ RunPhase("unknown") = "unknown"
        BY DEF RunPhase
      <3>3. StaysUncertain(h, reply) = (FailurePhase(h, reply) \in {"unknown", "conflict"})
        BY <2>2 DEF StaysUncertain
      <3>4. StaysUncertain(h, reply) \in BOOLEAN
        BY <3>3
      <3>5. FailurePhase(h, reply) \in {"unknown", "conflict"} => StaysUncertain(h, reply)
        BY <3>3
      <3>. QED
        BY <3>1, <3>2, <3>4, <3>5
    <2>. QED
      BY <2>1, <2>2 DEF Hooks
  <1>. DEFINE doubt == kept.uncertain \/ StaysUncertain(h, reply)
              shown == IF h = "answer" /\ barred THEN "rejected" ELSE FailurePhase(h, reply)
  <1>2. /\ doubt \in BOOLEAN /\ shown \in {"unknown", "rejected", "conflict", "expired"}
        /\ kept.uncertain \/ reply = "unknown" => doubt
        /\ shown = "unknown" => doubt
    BY <1>1 DEF KeptRows
  <1>3. Failing(h, reply) = [kept EXCEPT !.failure = reply, !.uncertain = doubt, !.phase = shown]
    BY DEF Failing
  <1>. HIDE DEF doubt, shown
  <1>. QED
    BY <1>2, <1>3 DEF KeptRows

\* The answer to a request is used, or dropped when the tab no longer waits for it.
LEMMA ReplyUsed ==
  ASSUME NEW h \in Hooks, WebKept(h), NEW n \in 1..MaxSends, UseReply(h, n)
  PROVE  WebKept(h)'
  <1>. USE WebAssumption
  <1>1. /\ WebRows /\ WireAgrees /\ wire[n].state = "answered" /\ UNCHANGED <<accepted, grant, aside>>
        /\ wire' = [wire EXCEPT ![n].state = "over", ![n].reply = "none"]
    BY DEF UseReply, WebKept
  <1>2. /\ wire' \in [1..MaxSends -> WireRows] /\ WireAgrees' /\ wire'[n].state = "over"
        /\ \A m \in 1..MaxSends : wire'[m].key = wire[m].key /\ wire'[m].body = wire[m].body
        /\ \A m \in 1..MaxSends : m # n => wire'[m] = wire[m]
    BY <1>1, RequestReturns
  <1>3. CASE waiting # n
    <2>1. UNCHANGED <<kept, waiting, barred, storage>>
      BY <1>3 DEF UseReply
    <2>2. \A k, body : OnWire(k, body) => OnWire(k, body)'
      BY <1>2 DEF OnWire
    <2>3. waiting # NoSend => waiting \in 1..MaxSends /\ wire'[waiting] = wire[waiting]
      BY <1>1, <1>2, <1>3 DEF WebRows
    <2>4. WebRows'
      BY <1>1, <1>2, <2>1 DEF WebRows
    <2>5. TabAgrees(h)' /\ StorageAgrees(h)'
      BY <1>1, <2>1, <2>2, <2>3 DEF WebKept, TabAgrees, StorageAgrees
    <2>6. \A w : AllBack(w) =>
            \A m \in 1..MaxSends : wire'[m].key = kept.key /\ m # w => wire'[m].state = "over"
      BY <1>2 DEF AllBack
    <2>7. FateKnown(h)'
      <3>1. /\ kept'.phase = "confirmed" => AcceptedKey(kept.key)
            /\ kept'.phase = "observed" => \E a \in accepted : a.body = kept.body
        BY <2>1 DEF WebKept, FateKnown
      <3>2. ~kept.uncertain /\ waiting # NoSend =>
              /\ \A m \in 1..MaxSends : wire'[m].key = kept.key /\ m # waiting => wire'[m].state = "over"
              /\ AcceptedKey(kept.key) =>
                   \/ wire'[waiting].state = "over"
                   \/ wire'[waiting].state = "answered" /\ wire'[waiting].reply = "done"
        BY <2>3, <2>6 DEF WebKept, FateKnown
      <3>3. Certain(h) =>
              /\ \A m \in 1..MaxSends : wire'[m].key = kept.key /\ m # NoSend => wire'[m].state = "over"
              /\ ~AcceptedKey(kept.key)
        BY <2>6 DEF WebKept, FateKnown
      <3>4. AcceptedKey(kept.key)' <=> AcceptedKey(kept.key)
        BY <1>1, <2>1 DEF AcceptedKey
      <3>5. Certain(h)' <=> Certain(h)
        BY <2>1 DEF Certain
      <3>. QED
        BY <1>1, <2>1, <3>1, <3>2, <3>3, <3>4, <3>5 DEF FateKnown, AllBack
    <2>. QED
      BY <1>2, <2>4, <2>5, <2>7 DEF WebKept
  <1>4. CASE waiting = n
    <2>. DEFINE reply == wire[n].reply
    <2>1. waiting # NoSend /\ reply \in WireReplies
      BY <1>1, <1>4 DEF WebRows, WireRows
    <2>2. /\ kept.key # NoSend /\ wire[n].key = kept.key /\ wire[n].body = kept.body
          /\ kept \in KeptRows
          /\ reply = "done" => AcceptedKey(kept.key)
          /\ reply = "invalid" => kept.body = "invalid"
          /\ barred \in BOOLEAN
      BY <1>1, <1>4, <2>1 DEF WebKept, TabAgrees, WireAgrees, WebRows
    <2>3. waiting' = NoSend
      BY <1>4 DEF UseReply
    <2>4. ~kept.uncertain /\ reply # "done" =>
            /\ ~AcceptedKey(kept.key)
            /\ \A m \in 1..MaxSends : wire'[m].key = kept.key => wire'[m].state = "over"
      BY <1>1, <1>2, <1>4, <2>1 DEF WebKept, FateKnown, AllBack
    <2>5. CASE reply = "done" /\ h = "run"
      <3>1. kept' = NothingKept /\ UNCHANGED <<barred, storage>>
        BY <1>4, <2>5 DEF UseReply
      <3>2. storage.key = NoSend /\ storage \in [works : BOOLEAN, key : TabKeys]
        BY <1>1, <2>5 DEF WebKept, StorageAgrees, WebRows
      <3>. QED
        BY <1>1, <1>2, <2>2, <2>3, <3>1, <3>2, TabEmpties
    <2>6. CASE reply = "done" /\ h # "run" /\ ~(h = "answer" /\ barred)
      <3>1. kept' = [kept EXCEPT !.phase = "confirmed"] /\ UNCHANGED <<barred, storage>>
        BY <1>4, <2>6 DEF UseReply
      <3>2. /\ kept' \in KeptRows /\ kept'.key = kept.key /\ kept'.body = kept.body
            /\ kept'.phase = "confirmed" /\ kept'.failure = kept.failure
        BY <2>2, <3>1 DEF KeptRows
      <3>3. kept'.failure = "invalid" => kept.body = "invalid"
        BY <1>1, <3>2 DEF WebKept, TabAgrees
      <3>4. ~Certain(h)'
        BY <3>2 DEF Certain
      <3>. QED
        BY <1>1, <1>2, <2>2, <2>3, <2>6, <3>1, <3>2, <3>3, <3>4, TabLearns
    <2>7. CASE reply = "done" /\ h = "answer" /\ barred
      <3>1. kept' = Failing(h, "unknown") /\ UNCHANGED <<barred, storage>>
        BY <1>4, <2>7 DEF UseReply
      <3>2. /\ kept' \in KeptRows /\ kept'.key = kept.key /\ kept'.body = kept.body
            /\ kept'.phase \in {"unknown", "rejected", "conflict", "expired"}
            /\ kept'.uncertain /\ kept'.failure = "unknown"
        BY <2>2, <3>1, FailingFacts
      <3>3. ~Certain(h)'
        BY <3>2 DEF Certain
      <3>4. /\ kept'.phase # "sending" /\ kept'.phase # "confirmed" /\ kept'.phase # "observed"
            /\ kept'.failure = "invalid" => kept.body = "invalid"
        BY <3>2
      <3>. QED
        BY <1>1, <1>2, <2>2, <2>3, <3>1, <3>2, <3>3, <3>4, TabLearns
    <2>8. CASE reply # "done"
      <3>1. kept' = Failing(h, reply) /\ barred' = BarredBy(h, reply) /\ KeepInStorage(h, reply)
        BY <1>4, <2>8 DEF UseReply
      <3>2. /\ kept' \in KeptRows /\ kept'.key = kept.key /\ kept'.body = kept.body
            /\ kept'.phase \in {"unknown", "rejected", "conflict", "expired"}
            /\ kept.uncertain => kept'.uncertain
            /\ kept'.phase = "unknown" => kept'.uncertain
            /\ kept'.failure = reply
        BY <2>1, <2>2, <3>1, FailingFacts
      <3>3. Certain(h)' => AllBack(NoSend)' /\ ~AcceptedKey(kept.key)
        BY <2>4, <2>8, <3>2 DEF Certain, AllBack
      <3>4. /\ kept'.phase # "sending" /\ kept'.phase # "confirmed" /\ kept'.phase # "observed"
            /\ kept'.failure = "invalid" => kept.body = "invalid"
        BY <2>2, <3>2
      <3>5. barred' \in BOOLEAN
        BY <2>2, <3>1 DEF BarredBy
      <3>6. \/ UNCHANGED storage
            \/ kept.body = "invalid" /\ storage.works /\ storage' = [storage EXCEPT !.key = NoSend]
        BY <2>2, <3>1 DEF KeepInStorage
      <3>. QED
        BY <1>1, <1>2, <2>2, <2>3, <3>2, <3>3, <3>4, <3>5, <3>6, TabLearns
    <2>. QED
      BY <2>5, <2>6, <2>7, <2>8 DEF Hooks
  <1>. QED
    BY <1>3, <1>4

\* A request leaves the tab: under a new key, or once more under the key it keeps.
LEMMA RequestLeaves ==
  ASSUME NEW h \in Hooks, WebKept(h), NEW value \in KeptRows, value.key # NoSend, Post(value),
         UNCHANGED aside, storage' \in [works : BOOLEAN, key : TabKeys], StorageAgrees(h)',
         \A m \in 1..MaxSends : wire[m].key = value.key => wire[m].body = value.body,
         ~value.uncertain =>
            /\ ~AcceptedKey(value.key)
            /\ \A m \in 1..MaxSends : wire[m].key = value.key => wire[m].state = "over"
  PROVE  WebKept(h)'
  <1>. USE WebAssumption
  <1>1. PICK n \in 1..MaxSends :
          /\ wire[n].state = "unsent" /\ waiting' = n
          /\ wire' = [wire EXCEPT ![n] = [key |-> value.key, body |-> value.body,
                                          state |-> "flying", reply |-> "none"]]
    BY DEF Post
  <1>2. /\ kept' = [value EXCEPT !.phase = "sending", !.failure = "none"]
        /\ UNCHANGED <<accepted, grant, barred>>
    BY DEF Post
  <1>3. /\ kept' \in KeptRows /\ kept'.key = value.key /\ kept'.body = value.body
        /\ kept'.phase = "sending" /\ kept'.failure = "none" /\ kept'.uncertain = value.uncertain
    BY <1>2 DEF KeptRows, WireReplies
  <1>. DEFINE line == [key |-> value.key, body |-> value.body, state |-> "flying", reply |-> "none"]
  <1>4. /\ line \in WireRows /\ line.key = value.key /\ line.body = value.body
        /\ line.state = "flying" /\ line.reply = "none"
    BY DEF KeptRows, WireRows, WireReplies
  <1>5. wire' = [wire EXCEPT ![n] = line] /\ wire \in [1..MaxSends -> WireRows]
    BY <1>1 DEF WebKept, WebRows
  <1>. HIDE DEF line
  <1>6. /\ wire' \in [1..MaxSends -> WireRows] /\ wire'[n] = line
        /\ \A m \in 1..MaxSends : m # n => wire'[m] = wire[m]
    BY <1>4, <1>5
  <1>7. wire[n].key = NoSend /\ n # NoSend /\ NoSend \notin SendKeys
    BY <1>1 DEF WebKept, WireAgrees
  <1>8. \A k, body : OnWire(k, body) /\ k # NoSend => \E m \in 1..MaxSends : wire'[m].key = k /\ wire'[m].body = body
    BY <1>6, <1>7 DEF OnWire
  <1>9. WebRows'
    BY <1>1, <1>2, <1>3, <1>6 DEF WebKept, WebRows
  <1>10. WireAgrees'
    <2>1. \A m \in 1..MaxSends : wire'[m].state = "unsent" <=> wire'[m].key = NoSend
      BY <1>4, <1>6 DEF WebKept, WireAgrees
    <2>2. ASSUME NEW l \in 1..MaxSends, NEW m \in 1..MaxSends,
                 wire'[l].key = wire'[m].key, wire'[m].key # NoSend
          PROVE  wire'[l].body = wire'[m].body
      <3>1. CASE l = n \/ m = n
        BY <1>4, <1>6, <2>2, <3>1
      <3>2. CASE l # n /\ m # n
        BY <1>6, <2>2, <3>2 DEF WebKept, WireAgrees
      <3>. QED
        BY <3>1, <3>2
    <2>3. \A m \in 1..MaxSends : wire'[m].reply = "done" => \E a \in accepted' : a.key = wire'[m].key
      BY <1>2, <1>4, <1>6 DEF WebKept, WireAgrees, AcceptedKey
    <2>4. \A m \in 1..MaxSends : wire'[m].reply = "invalid" => wire'[m].body = "invalid"
      BY <1>4, <1>6 DEF WebKept, WireAgrees
    <2>5. ASSUME NEW a \in accepted', a.key # NoSend
          PROVE  a.body # "invalid" /\ \E m \in 1..MaxSends : wire'[m].key = a.key /\ wire'[m].body = a.body
      <3>1. a.body # "invalid" /\ OnWire(a.key, a.body)
        BY <1>2, <2>5 DEF WebKept, WireAgrees
      <3>. QED
        BY <1>8, <2>5, <3>1
    <2>. QED
      BY <2>1, <2>2, <2>3, <2>4, <2>5 DEF WireAgrees, AcceptedKey, OnWire
  <1>11. TabAgrees(h)'
    <2>1. OnWire(kept.key, kept.body)' /\ wire'[waiting'].key = kept'.key /\ wire'[waiting'].body = kept'.body
      BY <1>1, <1>3, <1>4, <1>6 DEF OnWire
    <2>2. \A k \in aside' : \E m \in 1..MaxSends : wire'[m].key = k /\ wire'[m].body = "invalid"
      BY <1>7, <1>8 DEF WebKept, WebRows, TabAgrees
    <2>. QED
      BY <1>1, <1>3, <1>7, <2>1, <2>2 DEF TabAgrees, OnWire
  <1>12. FateKnown(h)'
    <2>1. ~value.uncertain =>
             /\ \A m \in 1..MaxSends : wire'[m].key = kept'.key /\ m # waiting' => wire'[m].state = "over"
             /\ ~ (\E a \in accepted' : a.key = kept'.key)
      BY <1>1, <1>2, <1>3, <1>6 DEF AcceptedKey
    <2>2. ~Certain(h)'
      BY <1>3 DEF Certain
    <2>. QED
      BY <1>3, <2>1, <2>2 DEF FateKnown, AllBack, AcceptedKey
  <1>. QED
    BY <1>9, <1>10, <1>11, <1>12 DEF WebKept

\* start: a key nothing was sent under.
LEMMA StartKept ==
  ASSUME NEW h \in Hooks, WebKept(h), StartRequest(h)
  PROVE  WebKept(h)'
  <1>. USE WebAssumption
  <1>1. PICK k \in SendKeys, body \in {"valid", "invalid"} :
          /\ \A n \in 1..MaxSends : wire[n].key # k
          /\ Post([NothingKept EXCEPT !.key = k, !.body = body])
          /\ SaveDecision(h, k)
    BY DEF StartRequest
  <1>2. UNCHANGED <<aside, accepted>> /\ MayStart(h)
    BY <1>1 DEF StartRequest, Post
  <1>. DEFINE value == [NothingKept EXCEPT !.key = k, !.body = body]
  <1>3. value \in KeptRows /\ value.key = k /\ value.body = body /\ value.uncertain = FALSE
    BY DEF NothingKept, KeptRows, TabKeys, TabBodies, WireReplies
  <1>4. Post(value)
    BY <1>1
  <1>5. kept'.key = k /\ k # NoSend
    BY <1>3, <1>4 DEF Post, KeptRows
  <1>. HIDE DEF value
  <1>6. ~AcceptedKey(k)
    BY <1>1, <1>5 DEF WebKept, WireAgrees, AcceptedKey, OnWire
  <1>7. /\ storage \in [works : BOOLEAN, key : TabKeys]
        /\ h # "decision" => storage.key = NoSend
        /\ storage.key # NoSend => storage.key = kept.key /\ storage.works
    BY DEF WebKept, WebRows, StorageAgrees
  <1>8. storage' \in [works : BOOLEAN, key : TabKeys] /\ StorageAgrees(h)'
    <2>1. CASE h = "decision" /\ storage.works
      <3>1. storage' = [storage EXCEPT !.key = k]
        BY <1>1, <2>1 DEF SaveDecision
      <3>2. storage' \in [works : BOOLEAN, key : TabKeys] /\ storage'.key = k /\ storage'.works
        BY <1>7, <2>1, <3>1 DEF TabKeys
      <3>. QED
        BY <1>5, <2>1, <3>2 DEF StorageAgrees
    <2>2. CASE ~(h = "decision" /\ storage.works)
      <3>1. UNCHANGED storage
        BY <1>1, <2>2 DEF SaveDecision
      <3>2. storage.key = NoSend
        BY <1>7, <2>2
      <3>. QED
        BY <1>7, <2>2, <3>1, <3>2 DEF StorageAgrees
    <2>. QED
      BY <2>1, <2>2
  <1>. QED
    BY <1>1, <1>2, <1>3, <1>4, <1>5, <1>6, <1>8, RequestLeaves

\* retry: the same key and the same content.
LEMMA RetryKept ==
  ASSUME NEW h \in Hooks, WebKept(h), Retry(h)
  PROVE  WebKept(h)'
  <1>. USE WebAssumption
  <1>1. /\ Post(kept) /\ UNCHANGED <<storage, aside>> /\ h \in {"run", "answer"}
        /\ kept.phase \in {"unknown", "rejected"} /\ waiting = NoSend
    BY DEF Retry, SendAgain, MaySendAgain, Post
  <1>2. kept \in KeptRows /\ kept.key # NoSend
    BY <1>1 DEF WebKept, WebRows, TabAgrees, NothingKept
  <1>3. \A m \in 1..MaxSends : wire[m].key = kept.key => wire[m].body = kept.body
    BY <1>2 DEF WebKept, WireAgrees, TabAgrees, OnWire
  <1>4. ~kept.uncertain => kept.phase = "rejected"
    BY <1>1 DEF WebKept, TabAgrees
  <1>5. ~kept.uncertain =>
          /\ ~AcceptedKey(kept.key)
          /\ \A m \in 1..MaxSends : wire[m].key = kept.key => wire[m].state = "over"
    BY <1>4 DEF WebKept, FateKnown, Certain, AllBack
  <1>6. kept'.key = kept.key /\ kept'.body = kept.body
    BY <1>1, <1>2 DEF Post, KeptRows
  <1>7. storage' \in [works : BOOLEAN, key : TabKeys] /\ StorageAgrees(h)'
    BY <1>1, <1>6 DEF WebKept, WebRows, StorageAgrees
  <1>. QED
    BY <1>1, <1>2, <1>3, <1>5, <1>7, RequestLeaves

\* The tab alone: it waits no longer, a read is refused, it looks the decision up.
LEMMA TabSteps ==
  ASSUME NEW h \in Hooks, WebKept(h), StopWaitingFor(h) \/ ReadRefused(h) \/ Check(h) \/ MoveCard(h)
  PROVE  WebKept(h)'
  <1>. USE WebAssumption
  <1>1. /\ UNCHANGED <<accepted, grant, aside, storage, wire>> /\ WebRows /\ WireAgrees /\ WireAgrees'
        /\ wire' \in [1..MaxSends -> WireRows] /\ kept \in KeptRows /\ barred \in BOOLEAN
        /\ grant \in {"full", "signedOut", "archived"}
        /\ \A m \in 1..MaxSends : wire'[m].key = wire[m].key /\ wire'[m].body = wire[m].body
    BY DEF StopWaitingFor, ReadRefused, Check, MoveCard, WebKept, WebRows, WireAgrees, AcceptedKey, OnWire
  <1>2. kept.phase # "none" => kept.key # NoSend
    BY DEF WebKept, TabAgrees, NothingKept
  <1>3. kept.failure = "invalid" => kept.body = "invalid"
    BY DEF WebKept, TabAgrees
  <1>4. ASSUME kept'.key = kept.key, kept'.phase = kept.phase, kept'.uncertain = kept.uncertain, Certain(h)'
        PROVE  AllBack(NoSend)' /\ ~AcceptedKey(kept.key)
    <2>1. Certain(h)
      BY <1>4 DEF Certain
    <2>. QED
      BY <1>1, <1>4, <2>1 DEF WebKept, FateKnown, AllBack
  <1>5. CASE StopWaitingFor(h)
    <2>1. waiting # NoSend /\ waiting' = NoSend /\ kept' = Failing(h, "unknown") /\ UNCHANGED barred
      BY <1>5 DEF StopWaitingFor
    <2>2. /\ kept' \in KeptRows /\ kept'.key = kept.key /\ kept'.body = kept.body
          /\ kept'.phase \in {"unknown", "rejected", "conflict", "expired"}
          /\ kept'.uncertain /\ kept'.failure = "unknown"
      BY <1>1, <2>1, FailingFacts
    <2>3. kept.key # NoSend
      BY <2>1 DEF WebKept, TabAgrees
    <2>4. /\ ~Certain(h)' /\ kept'.phase # "sending" /\ kept'.phase # "confirmed"
          /\ kept'.phase # "observed" /\ kept'.failure # "invalid"
      BY <2>2 DEF Certain
    <2>. QED
      BY <1>1, <2>1, <2>2, <2>3, <2>4, TabLearns
  <1>6. CASE ReadRefused(h)
    <2>1. h = "answer" /\ barred' = TRUE /\ waiting' = NoSend /\ kept' = OnceInterrupted(h) /\ grant # "full"
      BY <1>6 DEF ReadRefused
    <2>2. CASE waiting # NoSend
      <3>1. kept' = [Failing(h, "unknown") EXCEPT !.phase = "rejected", !.failure = grant]
        BY <2>1, <2>2 DEF OnceInterrupted
      <3>2. /\ kept' \in KeptRows /\ kept'.key = kept.key /\ kept'.body = kept.body
            /\ kept'.phase = "rejected" /\ kept'.uncertain /\ kept'.failure = grant
        <4>1. /\ Failing(h, "unknown") \in KeptRows
              /\ Failing(h, "unknown").key = kept.key /\ Failing(h, "unknown").body = kept.body
              /\ Failing(h, "unknown").uncertain
          BY <1>1, FailingFacts
        <4>. QED
          BY <1>1, <2>1, <3>1, <4>1 DEF KeptRows, WireReplies
      <3>3. kept.key # NoSend
        BY <2>2 DEF WebKept, TabAgrees
      <3>4. ~Certain(h)' /\ kept'.failure # "invalid"
        BY <1>1, <3>2 DEF Certain
      <3>. QED
        BY <1>1, <2>1, <3>2, <3>3, <3>4, TabLearns
    <2>3. CASE waiting = NoSend /\ kept.key = NoSend
      <3>1. kept = NothingKept
        BY <2>3 DEF WebKept, TabAgrees
      <3>2. kept' = NothingKept
        BY <2>1, <2>3, <3>1 DEF OnceInterrupted, NothingKept
      <3>3. storage.key = NoSend /\ storage \in [works : BOOLEAN, key : TabKeys]
        BY <1>1, <2>1 DEF WebKept, StorageAgrees, WebRows
      <3>. QED
        BY <1>1, <2>1, <3>2, <3>3, TabEmpties
    <2>4. CASE waiting = NoSend /\ kept.key # NoSend /\ kept.phase \in {"none", "confirmed"}
      <3>1. kept' = kept
        BY <2>1, <2>4 DEF OnceInterrupted
      <3>2. kept.phase = "confirmed" => AcceptedKey(kept.key)
        BY DEF WebKept, FateKnown
      <3>3. ~Certain(h)'
        BY <2>4, <3>1 DEF Certain
      <3>. QED
        BY <1>1, <1>3, <2>1, <2>4, <3>1, <3>2, <3>3, TabLearns
    <2>5. CASE waiting = NoSend /\ kept.key # NoSend /\ kept.phase \notin {"none", "confirmed"}
      <3>1. kept' = [kept EXCEPT !.phase = "rejected", !.failure = grant]
        BY <2>1, <2>5 DEF OnceInterrupted
      <3>2. /\ kept' \in KeptRows /\ kept'.key = kept.key /\ kept'.body = kept.body
            /\ kept'.phase = "rejected" /\ kept'.uncertain = kept.uncertain /\ kept'.failure = grant
        BY <1>1, <2>1, <3>1 DEF KeptRows, WireReplies
      <3>3. ~kept.uncertain => kept.phase \in {"rejected", "conflict", "expired"}
        BY <1>1, <2>1, <2>5 DEF WebKept, TabAgrees, KeptRows
      <3>4. Certain(h)' => AllBack(NoSend)' /\ ~AcceptedKey(kept.key)
        <4>1. Certain(h)' => Certain(h)
          BY <2>1, <3>2, <3>3 DEF Certain
        <4>. QED
          BY <1>1, <3>2, <4>1 DEF WebKept, FateKnown, AllBack
      <3>5. kept'.failure # "invalid"
        BY <1>1, <3>2
      <3>. QED
        BY <1>1, <2>1, <2>5, <3>2, <3>4, <3>5, TabLearns
    <2>. QED
      BY <2>2, <2>3, <2>4, <2>5
  <1>7. CASE Check(h)
    <2>1. /\ h = "decision" /\ kept.phase \notin {"none", "sending"} /\ waiting = NoSend /\ waiting' = NoSend
          /\ barred' \in BOOLEAN /\ kept.key # NoSend
      BY <1>1, <1>2, <1>7 DEF Check
    <2>2. PICK phase \in {kept.phase, "observed", "conflict", "unknown"},
               failure \in {kept.failure, "unknown"}, editable \in BOOLEAN :
            /\ kept' = [kept EXCEPT !.phase = phase, !.failure = failure, !.editable = editable]
            /\ phase = "observed" => kept.phase = "observed" \/ \E a \in accepted : ObservedBy(a)
      <3>1. CASE UNCHANGED kept
        <4>1. kept' = [kept EXCEPT !.phase = kept.phase, !.failure = kept.failure, !.editable = kept.editable]
              /\ kept.editable \in BOOLEAN
          BY <1>1, <3>1 DEF KeptRows
        <4>. QED
          BY <4>1
      <3>2. CASE (\E a \in accepted : ObservedBy(a)) /\ kept' = Observed
        <4>1. kept' = [kept EXCEPT !.phase = "observed", !.failure = kept.failure, !.editable = kept.editable]
              /\ kept.editable \in BOOLEAN
          BY <1>1, <3>2 DEF Observed, KeptRows
        <4>. QED
          BY <3>2, <4>1
      <3>3. CASE kept' = [kept EXCEPT !.phase = "conflict"]
        <4>1. kept' = [kept EXCEPT !.phase = "conflict", !.failure = kept.failure, !.editable = kept.editable]
              /\ kept.editable \in BOOLEAN
          BY <1>1, <3>3 DEF KeptRows
        <4>. QED
          BY <4>1
      <3>4. CASE kept' = [kept EXCEPT !.editable = subject = "open"]
        <4>. DEFINE editable == subject = "open"
        <4>1. editable \in BOOLEAN
          OBVIOUS
        <4>2. kept' = [kept EXCEPT !.editable = editable]
          BY <3>4
        <4>. HIDE DEF editable
        <4>3. kept' = [kept EXCEPT !.phase = kept.phase, !.failure = kept.failure, !.editable = editable]
          BY <1>1, <4>1, <4>2 DEF KeptRows
        <4>. QED
          BY <4>1, <4>3
      <3>5. CASE kept' = [kept EXCEPT !.phase = "unknown", !.failure = "unknown"]
        <4>1. kept' = [kept EXCEPT !.phase = "unknown", !.failure = "unknown", !.editable = kept.editable]
              /\ kept.editable \in BOOLEAN
          BY <1>1, <3>5 DEF KeptRows
        <4>. QED
          BY <4>1
      <3>. QED
        BY <1>7, <3>1, <3>2, <3>3, <3>4, <3>5 DEF Check
    <2>3. /\ kept' \in KeptRows /\ kept'.key = kept.key /\ kept'.body = kept.body
          /\ kept'.phase = phase /\ kept'.uncertain = kept.uncertain /\ kept'.failure = failure
      BY <1>1, <2>2 DEF KeptRows, WireReplies
    <2>4. Certain(h)' => AllBack(NoSend)' /\ ~AcceptedKey(kept.key)
      <3>1. Certain(h)' => kept'.phase = kept.phase
        BY <2>1, <2>3 DEF Certain
      <3>. QED
        BY <1>4, <2>3, <3>1
    <2>5. kept'.phase = "observed" => \E a \in accepted : a.body = kept.body
      BY <2>2, <2>3 DEF ObservedBy, WebKept, FateKnown
    <2>6. kept'.phase = "confirmed" => AcceptedKey(kept.key)
      BY <2>2, <2>3 DEF WebKept, FateKnown
    <2>7. kept'.phase # "sending"
      BY <2>1, <2>3
    <2>8. kept'.failure = "invalid" => kept.body = "invalid"
      BY <1>3, <2>3
    <2>. QED
      BY <1>1, <2>1, <2>3, <2>4, <2>5, <2>6, <2>7, <2>8, TabLearns
  <1>8. CASE MoveCard(h)
    <2>1. /\ h = "decision" /\ kept.phase = "sending" /\ waiting' = NoSend /\ UNCHANGED barred
          /\ kept' = [kept EXCEPT !.phase = "unknown", !.uncertain = TRUE]
      BY <1>8 DEF MoveCard
    <2>2. /\ kept' \in KeptRows /\ kept'.key = kept.key /\ kept'.body = kept.body
          /\ kept'.phase = "unknown" /\ kept'.uncertain = TRUE /\ kept'.failure = kept.failure
      BY <1>1, <2>1 DEF KeptRows
    <2>3. ~Certain(h)' /\ kept.key # NoSend
      BY <1>2, <2>1, <2>2 DEF Certain
    <2>. QED
      BY <1>1, <1>3, <2>1, <2>2, <2>3, TabLearns
  <1>. QED
    BY <1>5, <1>6, <1>7, <1>8

\* The user goes back to the form, or the tab is reloaded.
LEMMA FormKept ==
  ASSUME NEW h \in Hooks, WebKept(h), Edit(h) \/ Reload(h) \/ StorageFails(h)
  PROVE  WebKept(h)'
  <1>. USE WebAssumption
  <1>1. /\ UNCHANGED <<accepted, grant, wire>> /\ WebRows /\ WireAgrees /\ WireAgrees'
        /\ wire' \in [1..MaxSends -> WireRows] /\ kept \in KeptRows /\ barred \in BOOLEAN
        /\ storage \in [works : BOOLEAN, key : TabKeys]
        /\ \A m \in 1..MaxSends : wire'[m].key = wire[m].key /\ wire'[m].body = wire[m].body
    BY DEF Edit, Reload, StorageFails, WebKept, WebRows, WireAgrees, AcceptedKey, OnWire
  <1>2. /\ kept.key = NoSend => kept = NothingKept
        /\ storage.key # NoSend => h = "decision" /\ storage.key = kept.key /\ storage.works
        /\ h = "decision" /\ kept.key # NoSend /\ storage.works /\ storage.key = NoSend
             => kept.body = "invalid"
        /\ kept.failure = "invalid" => kept.body = "invalid"
    BY DEF WebKept, TabAgrees, StorageAgrees
  <1>3. CASE Edit(h)
    <2>1. /\ kept' = NothingKept /\ aside' = aside \cup {kept.key} /\ UNCHANGED <<waiting, barred>>
          /\ kept.phase = "rejected" /\ kept.failure = "invalid" /\ waiting = NoSend
      BY <1>3 DEF Edit, Editable
    <2>2. kept.key # NoSend /\ kept.body = "invalid"
      BY <1>2, <2>1 DEF NothingKept
    <2>3. storage' \in [works : BOOLEAN, key : TabKeys] /\ storage'.key = NoSend
      <3>1. CASE h = "decision" /\ storage.works
        <4>1. storage' = [storage EXCEPT !.key = NoSend]
          BY <1>3, <3>1 DEF Edit
        <4>. QED
          BY <1>1, <4>1 DEF TabKeys
      <3>2. CASE ~(h = "decision" /\ storage.works)
        <4>1. UNCHANGED storage
          BY <1>3, <3>2 DEF Edit
        <4>. QED
          BY <1>1, <1>2, <3>2, <4>1
      <3>. QED
        BY <3>1, <3>2
    <2>. QED
      BY <1>1, <2>1, <2>2, <2>3, TabEmpties
  <1>4. CASE Reload(h)
    <2>1. /\ kept' = Restore(h) /\ waiting' = NoSend /\ barred' = FALSE /\ UNCHANGED storage
          /\ aside' = IF h = "decision" /\ kept # NothingKept /\ kept' = NothingKept /\ storage.works
                      THEN aside \cup {kept.key} ELSE aside
      BY <1>4 DEF Reload
    <2>2. CASE h = "decision" /\ storage.works /\ storage.key # NoSend
      <3>1. kept' = [NothingKept EXCEPT !.key = storage.key, !.body = kept.body, !.phase = "unknown",
                       !.uncertain = TRUE, !.failure = "unknown"]
        BY <2>1, <2>2 DEF Restore
      <3>2. storage.key = kept.key /\ kept.key # NoSend
        BY <1>2, <2>2
      <3>3. /\ kept' \in KeptRows /\ kept'.key = kept.key /\ kept'.body = kept.body
            /\ kept'.phase = "unknown" /\ kept'.uncertain = TRUE /\ kept'.failure = "unknown"
        BY <1>1, <3>1, <3>2 DEF NothingKept, KeptRows
      <3>4. kept' # NothingKept
        BY <3>3 DEF NothingKept
      <3>5. UNCHANGED aside
        BY <2>1, <3>4
      <3>6. ~Certain(h)'
        BY <3>3 DEF Certain
      <3>. QED
        BY <1>1, <2>1, <2>2, <3>2, <3>3, <3>5, <3>6, TabLearns
    <2>3. CASE ~(h = "decision" /\ storage.works /\ storage.key # NoSend)
      <3>1. kept' = NothingKept /\ storage.key = NoSend
        BY <1>2, <2>1, <2>3 DEF Restore
      <3>2. aside' = aside \/ (kept.key # NoSend /\ kept.body = "invalid" /\ aside' = aside \cup {kept.key})
        BY <1>2, <2>1, <3>1
      <3>3. storage' \in [works : BOOLEAN, key : TabKeys] /\ storage'.key = NoSend /\ barred' \in BOOLEAN
        BY <1>1, <2>1, <3>1
      <3>. QED
        BY <1>1, <2>1, <3>1, <3>2, <3>3, TabEmpties
    <2>. QED
      BY <2>2, <2>3
  <1>5. CASE StorageFails(h)
    <2>1. /\ storage' = [works |-> FALSE, key |-> NoSend] /\ kept' = NothingKept
          /\ UNCHANGED <<kept, waiting, barred, aside>> /\ kept = NothingKept
      BY <1>5 DEF StorageFails
    <2>2. waiting = NoSend
      BY <2>1 DEF WebKept, TabAgrees, NothingKept
    <2>3. storage' \in [works : BOOLEAN, key : TabKeys] /\ storage'.key = NoSend
      BY <2>1 DEF TabKeys
    <2>. QED
      BY <1>1, <2>1, <2>2, <2>3, TabEmpties
  <1>. QED
    BY <1>3, <1>4, <1>5

\* Every step of the tab and of the server keeps the requests in order.
LEMMA WebNextKeeps ==
  ASSUME NEW h \in Hooks, WebKept(h), [WebNext(h)]_webVars
  PROVE  WebKept(h)'
  <1>1. ASSUME SomeoneElse(h) \/ SubjectExpires(h) \/ GrantChanges \/ UNCHANGED webVars
        PROVE  WebKept(h)'
    <2>1. UNCHANGED <<wire, tabVars>>
      BY <1>1 DEF SomeoneElse, SubjectExpires, GrantChanges, webVars
    <2>2. grant' \in {"full", "signedOut", "archived"}
      BY <1>1 DEF SomeoneElse, SubjectExpires, GrantChanges, webVars, WebKept, WebRows
    <2>3. accepted \subseteq accepted' /\ \A a \in accepted' : a \in accepted \/ a.key = NoSend
      BY <1>1 DEF SomeoneElse, SubjectExpires, GrantChanges, webVars
    <2>. QED
      BY <2>1, <2>2, <2>3, QuietServer
  <1>2. ASSUME NEW n \in 1..MaxSends, Arrive(h, n) \/ NeverArrives(n) \/ UseReply(h, n)
        PROVE  WebKept(h)'
    BY <1>2, RequestArrives, ReplyUsed
  <1>3. ASSUME \/ StartRequest(h) \/ Retry(h) \/ StopWaitingFor(h) \/ ReadRefused(h) \/ Check(h)
               \/ Edit(h) \/ Reload(h) \/ MoveCard(h) \/ StorageFails(h)
        PROVE  WebKept(h)'
    BY <1>3, StartKept, RetryKept, TabSteps, FormKept
  <1>. QED
    BY <1>1, <1>2, <1>3 DEF WebNext

\* A tab that opens keeps nothing.
LEMMA WebInitial == ASSUME NEW h \in Hooks, WebInit PROVE WebKept(h)
  <1>. USE WebAssumption
  <1>1. Unsent \in WireRows /\ NothingKept \in KeptRows
    BY DEF Unsent, WireRows, NothingKept, KeptRows, TabKeys, TabBodies, WireReplies
  <1>2. WebRows
    BY <1>1 DEF WebInit, WebRows, TabKeys
  <1>3. WireAgrees
    BY DEF WebInit, WireAgrees, Unsent
  <1>4. TabAgrees(h) /\ StorageAgrees(h)
    BY DEF WebInit, TabAgrees, StorageAgrees, NothingKept
  <1>5. FateKnown(h)
    BY DEF WebInit, FateKnown, Certain, NothingKept
  <1>. QED
    BY <1>2, <1>3, <1>4, <1>5 DEF WebKept

\* What the tab says of the fate of a request follows.
LEMMA FateFollows ==
  ASSUME NEW h \in Hooks, WebKept(h)
  PROVE  RequestFateIsTrue
  <1>. USE WebAssumption
  <1>1. kept.phase = "rejected" /\ ~kept.uncertain => ~AcceptedKey(kept.key)
    BY DEF WebKept, FateKnown, Certain
  <1>2. ASSUME NEW k \in aside
        PROVE  ~AcceptedKey(k)
    <2>1. k # NoSend /\ OnWire(k, "invalid")
      BY DEF WebKept, WebRows, TabAgrees
    <2>2. ASSUME NEW a \in accepted, a.key = k
          PROVE  FALSE
      <3>1. a.body # "invalid" /\ OnWire(a.key, a.body)
        BY <2>1, <2>2 DEF WebKept, WireAgrees
      <3>. QED
        BY <2>1, <2>2, <3>1 DEF WebKept, WireAgrees, OnWire
    <2>. QED
      BY <2>2 DEF AcceptedKey
  <1>. QED
    BY <1>1, <1>2 DEF RequestFateIsTrue, WebKept, FateKnown

\* A tab and the server agree on what became of a request, whichever hook sent it
\* (useRunSubmission.ts, useInteractionResponse.ts, useProposalDecision.ts).
THEOREM FateStaysTrue == WebSpec => []RequestFateIsTrue
  <1>. SUFFICES ASSUME NEW h \in Hooks
                PROVE  WebInit /\ [][WebNext(h)]_webVars => []RequestFateIsTrue
    BY DEF WebSpec
  <1>1. WebInit => WebKept(h)
    BY WebInitial
  <1>2. WebKept(h) /\ [WebNext(h)]_webVars => WebKept(h)'
    BY WebNextKeeps
  <1>3. WebKept(h) => RequestFateIsTrue
    BY FateFollows
  <1>. QED
    BY <1>1, <1>2, <1>3, PTL

-----------------------------------------------------------------------------
(* The pages a person writes on (MCAgentRun): the hook that moves keeps its     *)
(* tab's record, and the others leave it alone.                                 *)
TabKept == \A h \in Hooks : (moving \in Hooks => h = moving) => WebKept(h)

\* A step of the tab is a step of the hook that moves.
LEMMA TabKeeps ==
  ASSUME TabKept, [AgentNext]_agentVars
  PROVE  TabKept'
  <1>1. ASSUME NEW h \in Hooks, moving \in Hooks => h = moving
        PROVE  [WebNext(h)]_webVars
    BY <1>1 DEF AgentNext, agentVars
  <1>2. moving' = moving
    BY DEF AgentNext, agentVars
  <1>3. ASSUME NEW h \in Hooks, moving' \in Hooks => h = moving'
        PROVE  WebKept(h)'
    <2>1. WebKept(h)
      BY <1>2, <1>3 DEF TabKept
    <2>2. [WebNext(h)]_webVars
      BY <1>1, <1>2, <1>3
    <2>. QED
      BY <2>1, <2>2, WebNextKeeps
  <1>. QED
    BY <1>3 DEF TabKept

\* A submission, a history and a request of a tab have the fate the page shows of them
\* (useEvaluationSubmission, list_page, useRunSubmission and the hooks like it).
THEOREM PageStaysTrue == AgentSpec => []PageIsTrue
  <1>1. AgentInit => EvaluationInit /\ WebInit
    BY DEF AgentInit
  <1>2. [AgentNext]_agentVars => [SubmissionNext \/ HistoryNext]_evaluationVars
    BY DEF AgentNext, agentVars
  <1>3. AgentSpec => EvaluationSpec
    BY <1>1, <1>2, PTL DEF AgentSpec, EvaluationSpec
  <1>4. AgentInit => TabKept
    BY <1>1, WebInitial DEF TabKept
  <1>5. TabKept /\ [AgentNext]_agentVars => TabKept'
    BY TabKeeps
  <1>6. TabKept => RequestFateIsTrue
    <2>1. \E h \in Hooks : moving \in Hooks => h = moving
      BY DEF Hooks
    <2>. QED
      BY <2>1, FateFollows DEF TabKept
  <1>7. AgentSpec => []RequestFateIsTrue
    BY <1>4, <1>5, <1>6, PTL DEF AgentSpec
  <1>8. SubmissionIsSettled /\ HistoryIsWhole /\ RequestFateIsTrue => PageIsTrue
    BY DEF PageIsTrue
  <1>. QED
    BY <1>3, <1>7, <1>8, EvaluationsStaySettled, PTL

-----------------------------------------------------------------------------
(* How a browser follows a Run (RunProgress). The messages under way carry, in  *)
(* order, exactly the rows of the ledger between the last one the client has    *)
(* and the last one the stream has read.                                        *)

LedgerRows == [seq : Nat, kind : {"snapshot", "agent", "platform"}, status : Terminal \cup {"RUNNING"}]
Messages == [kind : {"event", "delta", "end"}, seq : Nat]
ShownRows == [kind : {"event", "delta"}, seq : Nat, conn : Nat]
ProgressRows ==
  /\ runRow \in [status : Terminal \cup {"RUNNING"}, result : BOOLEAN]
  /\ ledger \in Seq(LedgerRows) /\ Len(ledger) >= 1
  /\ engineSeq \in Nat
  /\ outgoing \in Seq(Nat) /\ channel \in Seq(Nat) /\ socket \in Seq(Messages)
  /\ stream \in [state : {"open", "closed"}, persisted : Nat, realtime : Nat, replay : BOOLEAN,
                 finished : BOOLEAN, subscribed : BOOLEAN]
  /\ client \in [stored : Seq(Nat), shown : Seq(ShownRows), last : Nat, connects : Nat, ended : BOOLEAN]
PageRows ==
  /\ page \in [step : {"none", "row", "shown"}, status : Terminal \cup {"RUNNING", "none"},
               result : BOOLEAN]
  /\ watch \in [state : {"open", "ended"}, told : {"none", "SUCCEEDED", "FAILED", "UNKNOWN", "disconnected"},
                truth : {"none", "SUCCEEDED", "FAILED", "UNKNOWN"},
                holds : {"none", "waiting", "delta", "SUCCEEDED", "nothing"}, 
                sent : Seq({"delta", "SUCCEEDED", "FAILED", "UNKNOWN"})]
  /\ request \in {"RUNNING", "SUCCEEDED", "FAILED", "UNKNOWN"}

\* The ledger is numbered upwards, and only a Run that has ended has a row that says so.
LedgerInOrder ==
  /\ \A i, j \in 1..Len(ledger) : i < j => ledger[i].seq < ledger[j].seq
  /\ \A i \in 1..Len(ledger) : ledger[i].seq > 0
  /\ \A i \in 1..Len(ledger) : ledger[i].status \in Terminal => runRow.status \in Terminal
SequenceAt(k) == IF k = 0 THEN 0 ELSE ledger[k].seq

\* What the client has, and what it is still to receive, up to row k of the ledger.
HasRows(n) ==
  /\ Len(client.stored) = n /\ n <= Len(ledger) /\ client.last = SequenceAt(n)
  /\ \A i \in 1..n : client.stored[i] = ledger[i].seq
BringsRows(n, k) ==
  /\ \A i, j \in 1..Len(socket) :
       i < j /\ socket[i].kind = "event" /\ socket[j].kind = "event" => socket[i].seq < socket[j].seq
  /\ \A i \in 1..Len(socket) : socket[i].kind = "event" =>
       \E m \in n + 1..k : socket[i].seq = ledger[m].seq
  /\ \A m \in n + 1..k : \E i \in 1..Len(socket) :
       socket[i].kind = "event" /\ socket[i].seq = ledger[m].seq
EndsWith(k) ==
  /\ \A i \in 1..Len(socket) : socket[i].kind = "end" =>
       i = Len(socket) /\ stream.state = "closed" /\ k = Len(ledger) /\ runRow.status \in Terminal
  /\ client.ended => /\ socket = <<>> /\ stream.state = "closed" /\ k = Len(ledger)
                     /\ runRow.status \in Terminal
  /\ stream.state = "open" => stream.persisted = SequenceAt(k)
  /\ stream.finished => runRow.status \in Terminal
ClientFollows ==
  \E k \in Len(client.stored)..Len(ledger) :
    HasRows(Len(client.stored)) /\ BringsRows(Len(client.stored), k) /\ EndsWith(k)

\* Every delta is newer than what was shown before it.
SameConnection(a, conn) == a.kind = "event" \/ a.conn = conn
DeltasInOrder ==
  /\ \A i, j \in 1..Len(client.shown) :
       i < j /\ client.shown[j].kind = "delta" /\ SameConnection(client.shown[i], client.shown[j].conn)
       => client.shown[i].seq < client.shown[j].seq
  /\ \A i \in 1..Len(client.shown), j \in 1..Len(socket) :
       socket[j].kind = "delta" /\ SameConnection(client.shown[i], client.connects)
       => client.shown[i].seq < socket[j].seq
  /\ \A i, j \in 1..Len(socket) : i < j /\ socket[j].kind = "delta" => socket[i].seq < socket[j].seq
  /\ stream.state = "open" =>
       /\ \A i \in 1..Len(client.shown) :
            SameConnection(client.shown[i], client.connects) => client.shown[i].seq <= Newest
       /\ \A i \in 1..Len(socket) : socket[i].seq <= Newest
  /\ \A i \in 1..Len(client.shown) :
       /\ client.shown[i].conn <= client.connects
       /\ client.shown[i].kind = "event" => client.shown[i].seq <= client.last

FollowKept == ProgressRows /\ LedgerInOrder /\ ClientFollows /\ DeltasInOrder
PageKept ==
  /\ runRow.status = "SUCCEEDED" => runRow.result
  /\ page.status = "SUCCEEDED" => runRow.status = "SUCCEEDED"
  /\ DetailHasResult
WatchKept ==
  /\ watch.told \in {"SUCCEEDED", "FAILED", "UNKNOWN"} => watch.truth = watch.told
  /\ watch.state = "open" => \A i \in 1..Len(watch.sent) : watch.sent[i] = "delta"
  /\ \A i \in 1..Len(watch.sent) : watch.sent[i] # "delta" => i = Len(watch.sent) /\ watch.state = "ended"
ProgressKept == FollowKept /\ PageRows /\ PageKept /\ WatchKept

ProgressNext == FollowNext \/ PageNext \/ WatchNext
ProgressSpec == ProgressInit /\ [][ProgressNext]_progressVars

\* Rows of a sequence have the type of its members.
LEMMA RowFacts ==
  ASSUME NEW S, NEW s \in Seq(S)
  PROVE  Len(s) \in Nat /\ DOMAIN s = 1..Len(s) /\ \A i \in 1..Len(s) : s[i] \in S
  OBVIOUS

\* A sequence without its first member.
LEMMA TailFacts ==
  ASSUME NEW S, NEW s \in Seq(S), s # <<>>
  PROVE  /\ Tail(s) \in Seq(S) /\ Head(s) = s[1] /\ s[1] \in S
         /\ Len(s) >= 1 /\ Len(Tail(s)) = Len(s) - 1
         /\ \A i \in 1..Len(Tail(s)) : Tail(s)[i] = s[i + 1]
  OBVIOUS

\* The fields of the rows and messages.
LEMMA FollowTypes ==
  ASSUME ProgressRows
  PROVE  /\ Len(ledger) \in Nat /\ Len(ledger) >= 1 /\ DOMAIN ledger = 1..Len(ledger) /\ ledger # <<>>
         /\ \A i \in 1..Len(ledger) : ledger[i] \in LedgerRows /\ ledger[i].seq \in Nat
         /\ Len(socket) \in Nat /\ DOMAIN socket = 1..Len(socket)
         /\ \A i \in 1..Len(socket) : socket[i] \in Messages /\ socket[i].seq \in Nat
                                      /\ socket[i].kind \in {"event", "delta", "end"}
         /\ client.stored \in Seq(Nat) /\ Len(client.stored) \in Nat
         /\ client.shown \in Seq(ShownRows) /\ Len(client.shown) \in Nat
         /\ \A i \in 1..Len(client.shown) :
              /\ client.shown[i].seq \in Nat /\ client.shown[i].conn \in Nat
              /\ client.shown[i].kind \in {"event", "delta"}
         /\ client.last \in Nat /\ client.connects \in Nat /\ client.ended \in BOOLEAN
         /\ stream.state \in {"open", "closed"} /\ stream.persisted \in Nat /\ stream.realtime \in Nat
         /\ stream.replay \in BOOLEAN /\ stream.finished \in BOOLEAN /\ stream.subscribed \in BOOLEAN
         /\ Newest \in Nat /\ Newest >= stream.persisted /\ Newest >= stream.realtime
  <1>1. /\ Len(ledger) \in Nat /\ DOMAIN ledger = 1..Len(ledger)
        /\ \A i \in 1..Len(ledger) : ledger[i] \in LedgerRows
    BY RowFacts DEF ProgressRows
  <1>2. /\ Len(socket) \in Nat /\ DOMAIN socket = 1..Len(socket)
        /\ \A i \in 1..Len(socket) : socket[i] \in Messages
    BY RowFacts DEF ProgressRows
  <1>3. /\ client.stored \in Seq(Nat) /\ client.shown \in Seq(ShownRows) /\ client.last \in Nat
        /\ client.connects \in Nat /\ client.ended \in BOOLEAN
    BY DEF ProgressRows
  <1>4. Len(client.stored) \in Nat
    BY <1>3, RowFacts
  <1>5. Len(client.shown) \in Nat /\ \A i \in 1..Len(client.shown) : client.shown[i] \in ShownRows
    BY <1>3, RowFacts
  <1>6. /\ stream.state \in {"open", "closed"} /\ stream.persisted \in Nat /\ stream.realtime \in Nat
        /\ stream.replay \in BOOLEAN /\ stream.finished \in BOOLEAN /\ stream.subscribed \in BOOLEAN
    BY DEF ProgressRows
  <1>7. \A i \in 1..Len(ledger) : ledger[i].seq \in Nat
    BY <1>1 DEF LedgerRows
  <1>8. \A i \in 1..Len(socket) : socket[i].seq \in Nat /\ socket[i].kind \in {"event", "delta", "end"}
    BY <1>2 DEF Messages
  <1>9. \A i \in 1..Len(client.shown) :
          /\ client.shown[i].seq \in Nat /\ client.shown[i].conn \in Nat
          /\ client.shown[i].kind \in {"event", "delta"}
    BY <1>5 DEF ShownRows
  <1>10. Newest \in Nat /\ Newest >= stream.persisted /\ Newest >= stream.realtime
    BY <1>6 DEF Newest
  <1>11. Len(ledger) >= 1 /\ ledger # <<>>
    BY <1>1 DEF ProgressRows
  <1>. QED
    BY <1>1, <1>2, <1>3, <1>4, <1>5, <1>6, <1>7, <1>8, <1>9, <1>10, <1>11

\* The last row of the ledger has the largest number.
LEMMA NextIsNew ==
  ASSUME FollowKept
  PROVE  /\ NextSequence \in Nat /\ NextSequence > 0
         /\ \A i \in 1..Len(ledger) : ledger[i].seq \in Nat /\ ledger[i].seq < NextSequence
  <1>1. /\ ledger # <<>> /\ Len(ledger) \in Nat /\ Len(ledger) >= 1
        /\ \A i \in 1..Len(ledger) : ledger[i].seq \in Nat
    BY FollowTypes DEF FollowKept
  <1>2. NextSequence = ledger[Len(ledger)].seq + 1 /\ Len(ledger) \in 1..Len(ledger)
    BY <1>1 DEF NextSequence, Last
  <1>3. \A i \in 1..Len(ledger) : i = Len(ledger) \/ i < Len(ledger)
    BY <1>1
  <1>4. \A i \in 1..Len(ledger) : i < Len(ledger) => ledger[i].seq < ledger[Len(ledger)].seq
    BY <1>2 DEF FollowKept, LedgerInOrder
  <1>. QED
    BY <1>1, <1>2, <1>3, <1>4

\* The ledger only grows, by rows numbered upwards, and not after the Run has ended.
GrowsInOrder ==
  /\ runRow'.status \in Terminal \cup {"RUNNING"}
  /\ runRow.status \in Terminal => ledger' = ledger /\ runRow'.status \in Terminal
  /\ Len(ledger') >= Len(ledger) /\ \A i \in 1..Len(ledger) : ledger'[i] = ledger[i]

\* What the client has and is to receive does not depend on the rows that come after.
LEMMA LedgerGrows ==
  ASSUME FollowKept, ProgressRows', LedgerInOrder', GrowsInOrder, UNCHANGED clientSide
  PROVE  FollowKept'
  <1>1. Len(ledger) \in Nat /\ Len(ledger') \in Nat /\ Len(client.stored) \in Nat /\ Len(socket) \in Nat
    BY FollowTypes DEF FollowKept
  <1>2. stream' = stream /\ socket' = socket /\ client' = client
    BY DEF clientSide
  <1>3. PICK k \in Len(client.stored)..Len(ledger) :
          HasRows(Len(client.stored)) /\ BringsRows(Len(client.stored), k) /\ EndsWith(k)
    BY DEF FollowKept, ClientFollows
  <1>4. k \in Nat /\ k \in Len(client.stored)..Len(ledger')
    BY <1>1, <1>3 DEF GrowsInOrder
  <1>5. \A m \in 0..Len(ledger) : SequenceAt(m)' = SequenceAt(m)
    BY <1>1 DEF SequenceAt, GrowsInOrder
  <1>6. HasRows(Len(client.stored))'
    BY <1>1, <1>2, <1>3, <1>5 DEF HasRows, GrowsInOrder
  <1>7. BringsRows(Len(client.stored), k)'
    <2>1. \A m \in Len(client.stored) + 1..k : ledger'[m] = ledger[m]
      BY <1>1, <1>3 DEF GrowsInOrder
    <2>2. \A i \in 1..Len(socket) : socket[i].kind = "event" =>
            \E m \in Len(client.stored) + 1..k : socket[i].seq = ledger'[m].seq
      BY <1>3, <2>1 DEF BringsRows
    <2>3. \A m \in Len(client.stored) + 1..k : \E i \in 1..Len(socket) :
            socket[i].kind = "event" /\ socket[i].seq = ledger'[m].seq
      BY <1>3, <2>1 DEF BringsRows
    <2>. QED
      BY <1>2, <1>3, <2>2, <2>3 DEF BringsRows
  <1>8. EndsWith(k)'
    <2>1. SequenceAt(k)' = SequenceAt(k)
      BY <1>1, <1>3, <1>5
    <2>2. runRow.status \in Terminal => Len(ledger') = Len(ledger) /\ runRow'.status \in Terminal
      BY DEF GrowsInOrder
    <2>. QED
      BY <1>2, <1>3, <2>1, <2>2 DEF EndsWith
  <1>9. ClientFollows'
    BY <1>2, <1>4, <1>6, <1>7, <1>8 DEF ClientFollows
  <1>10. DeltasInOrder'
    BY <1>2 DEF FollowKept, DeltasInOrder, SameConnection, Newest
  <1>. QED
    BY <1>9, <1>10 DEF FollowKept

\* A row with a number beyond the last one keeps the ledger in order.
LEMMA LedgerAppends ==
  ASSUME FollowKept, NEW seq \in Nat, NEW kind \in {"snapshot", "agent", "platform"},
         runRow.status = "RUNNING", seq >= NextSequence,
         ledger' = Append(ledger, Event(seq, kind, "RUNNING")), runRow' = runRow,
         engineSeq' \in Nat, outgoing' \in Seq(Nat), UNCHANGED <<channel, clientSide>>
  PROVE  FollowKept'
  <1>1. ledger \in Seq(LedgerRows) /\ Len(ledger) >= 1 /\ Event(seq, kind, "RUNNING") \in LedgerRows
    BY DEF FollowKept, ProgressRows, LedgerRows, Event
  <1>2. /\ ledger' \in Seq(LedgerRows) /\ Len(ledger') = Len(ledger) + 1
        /\ ledger'[Len(ledger) + 1] = Event(seq, kind, "RUNNING")
        /\ \A i \in 1..Len(ledger) : ledger'[i] = ledger[i]
        /\ Len(ledger) \in Nat /\ \A i \in 1..Len(ledger) : ledger[i] \in LedgerRows
    BY <1>1, AppendFacts
  <1>3. ProgressRows'
    BY <1>1, <1>2 DEF FollowKept, ProgressRows, clientSide
  <1>5. seq > 0 /\ \A i \in 1..Len(ledger) : ledger[i].seq < seq /\ ledger[i].seq \in Nat
    BY NextIsNew
  <1>6. "RUNNING" \notin Terminal
    BY DEF Terminal
  <1>7. LedgerInOrder'
    BY <1>1, <1>2, <1>5, <1>6 DEF FollowKept, LedgerInOrder, Event
  <1>8. GrowsInOrder
    BY <1>1, <1>2, <1>6 DEF GrowsInOrder
  <1>. QED
    BY <1>3, <1>7, <1>8, LedgerGrows DEF clientSide

\* The end of a Run writes its last two rows.
LEMMA FinalizeKept ==
  ASSUME FollowKept, NEW status \in Terminal, FinalizeRun(status)
  PROVE  FollowKept'
  <1>1. DEFINE a == Event(NextSequence, "agent", status)
               b == Event(NextSequence + 1, "snapshot", status)
  <1>2. a \in LedgerRows /\ b \in LedgerRows /\ ledger \in Seq(LedgerRows) /\ Len(ledger) >= 1
    BY NextIsNew DEF LedgerRows, Event, FollowKept, ProgressRows
  <1>3. /\ ledger' \in Seq(LedgerRows) /\ Len(ledger') = Len(ledger) + 2 /\ Len(ledger) \in Nat
        /\ ledger'[Len(ledger) + 1] = a /\ ledger'[Len(ledger) + 2] = b
        /\ \A i \in 1..Len(ledger) : ledger'[i] = ledger[i]
    <2>1. ledger' = ledger \o <<a, b>>
      BY DEF FinalizeRun
    <2>. HIDE DEF a, b
    <2>2. <<a, b>> \in Seq(LedgerRows) /\ Len(<<a, b>>) = 2
      BY <1>2
    <2>. QED
      BY <1>2, <2>1, <2>2
  <1>4. runRow' = [status |-> status, result |-> status = "SUCCEEDED"] /\ runRow.status = "RUNNING"
    BY DEF FinalizeRun
  <1>5. ProgressRows'
    BY <1>3, <1>4 DEF FollowKept, ProgressRows, FinalizeRun, clientSide
  <1>6. LedgerInOrder'
    <2>1. /\ a.seq = NextSequence /\ a.status = status /\ b.seq = NextSequence + 1 /\ b.status = status
          /\ NextSequence > 0 /\ NextSequence \in Nat
      BY NextIsNew DEF Event
    <2>. HIDE DEF a, b
    <2>2. \A i \in 1..Len(ledger) : ledger[i].seq \in Nat /\ ledger[i].seq < NextSequence
      BY NextIsNew
    <2>3. \A i \in 1..Len(ledger') : i \in 1..Len(ledger) \/ i = Len(ledger) + 1 \/ i = Len(ledger) + 2
      BY <1>3
    <2>4. \A i, j \in 1..Len(ledger') : i < j => ledger'[i].seq < ledger'[j].seq
      BY <1>3, <2>1, <2>2, <2>3 DEF FollowKept, LedgerInOrder
    <2>5. \A i \in 1..Len(ledger') : ledger'[i].seq > 0
      BY <1>3, <2>1, <2>3 DEF FollowKept, LedgerInOrder
    <2>. QED
      BY <1>4, <2>4, <2>5 DEF LedgerInOrder
  <1>7. GrowsInOrder
    BY <1>3, <1>4 DEF GrowsInOrder, Terminal
  <1>. QED
    BY <1>5, <1>6, <1>7, LedgerGrows DEF FinalizeRun

\* Deltas under way to Redis change nothing of what the client follows.
LEMMA QuietLedger ==
  ASSUME FollowKept, UNCHANGED <<runRow, ledger, clientSide>>, engineSeq' \in Nat,
         outgoing' \in Seq(Nat), channel' \in Seq(Nat)
  PROVE  FollowKept'
  <1>1. ProgressRows' /\ LedgerInOrder'
    BY DEF FollowKept, ProgressRows, LedgerInOrder, clientSide
  <1>2. GrowsInOrder
    BY RowFacts DEF FollowKept, ProgressRows, GrowsInOrder
  <1>. QED
    BY <1>1, <1>2, LedgerGrows

\* The engine's events and deltas, and what a user or a retry adds.
LEMMA WorkerKept ==
  ASSUME FollowKept,
         \/ AppendAgentEvent \/ EmitDelta \/ DeliverDelta \/ CloseBuffer \/ AppendPlatformEvent
         \/ RestartAttempt
  PROVE  FollowKept'
  <1>1. engineSeq \in Nat /\ outgoing \in Seq(Nat) /\ channel \in Seq(Nat) /\ <<>> \in Seq(Nat)
    BY DEF FollowKept, ProgressRows
  <1>2. CASE AppendAgentEvent
    BY <1>1, <1>2, LedgerAppends DEF AppendAgentEvent
  <1>3. CASE AppendPlatformEvent
    BY <1>1, <1>3, NextIsNew, LedgerAppends DEF AppendPlatformEvent
  <1>4. CASE RestartAttempt
    BY <1>1, <1>4, NextIsNew, LedgerAppends DEF RestartAttempt
  <1>6. CASE EmitDelta
    <2>1. engineSeq + 1 \in Nat
      BY <1>1
    <2>2. Append(outgoing, engineSeq + 1) \in Seq(Nat)
      BY <1>1, <2>1, AppendFacts
    <2>. QED
      BY <1>1, <1>6, <2>1, <2>2, QuietLedger DEF EmitDelta, Enqueue
  <1>7. CASE DeliverDelta
    <2>1. Tail(outgoing) \in Seq(Nat) /\ Head(outgoing) \in Nat
      BY <1>1, <1>7, TailFacts DEF DeliverDelta
    <2>2. Append(channel, Head(outgoing)) \in Seq(Nat)
      BY <1>1, <2>1, AppendFacts
    <2>. QED
      BY <1>1, <1>7, <2>1, <2>2, QuietLedger DEF DeliverDelta
  <1>8. CASE CloseBuffer
    BY <1>1, <1>8, QuietLedger DEF CloseBuffer
  <1>. QED
    BY <1>2, <1>3, <1>4, <1>6, <1>7, <1>8

\* The rows a page takes up after row k are the next ones.
LEMMA PageOfRows ==
  ASSUME FollowKept, NEW k \in Nat, k <= Len(ledger)
  PROVE  /\ EventsAfter(SequenceAt(k)) \in Seq(LedgerRows)
         /\ Len(EventsAfter(SequenceAt(k))) \in Nat /\ k + Len(EventsAfter(SequenceAt(k))) \in k..Len(ledger)
         /\ EventsAfter(SequenceAt(k)) = <<>> => k = Len(ledger)
         /\ \A i \in 1..Len(EventsAfter(SequenceAt(k))) : EventsAfter(SequenceAt(k))[i] = ledger[k + i]
  <1>. USE ProgressAssumption
  <1>1. /\ ledger \in Seq(LedgerRows) /\ Len(ledger) \in Nat /\ DOMAIN ledger = 1..Len(ledger)
        /\ \A i \in 1..Len(ledger) : ledger[i] \in LedgerRows
    BY FollowTypes DEF FollowKept, ProgressRows
  <1>2. \A i \in 1..Len(ledger) : ledger[i].seq \in Nat /\ ledger[i].seq > 0
    BY FollowTypes DEF FollowKept, LedgerInOrder
  <1>3. \A i \in 1..Len(ledger) : ledger[i].seq <= SequenceAt(k) <=> i <= k
    <2>1. ASSUME NEW i \in 1..Len(ledger)
          PROVE  ledger[i].seq <= SequenceAt(k) <=> i <= k
      <3>1. CASE k = 0
        BY <1>1, <1>2, <3>1 DEF SequenceAt
      <3>2. CASE k # 0
        <4>1. k \in 1..Len(ledger) /\ SequenceAt(k) = ledger[k].seq
          BY <1>1, <3>2 DEF SequenceAt
        <4>2. i < k => ledger[i].seq < ledger[k].seq
          BY <1>1, <4>1 DEF FollowKept, LedgerInOrder
        <4>3. i > k => ledger[k].seq < ledger[i].seq
          BY <1>1, <4>1 DEF FollowKept, LedgerInOrder
        <4>. QED
          BY <1>1, <1>2, <4>1, <4>2, <4>3
      <3>. QED
        BY <3>1, <3>2
    <2>. QED
      BY <2>1
  <1>4. RowsUpTo(SequenceAt(k)) = k
    <2>1. \A m \in 0..Len(ledger) :
            (\A i \in 1..Len(ledger) : ledger[i].seq <= SequenceAt(k) <=> i <= m) => m = k
      <3>1. SUFFICES ASSUME NEW m \in 0..Len(ledger), m # k,
                            \A i \in 1..Len(ledger) : ledger[i].seq <= SequenceAt(k) <=> i <= m
                     PROVE  FALSE
        OBVIOUS
      <3>2. \A i \in 1..Len(ledger) : i <= k <=> i <= m
        BY <1>3, <3>1
      <3>3. CASE m < k
        <4>1. k \in 1..Len(ledger) /\ ~(k <= m) /\ k <= k
          BY <1>1, <3>3
        <4>. QED
          BY <3>2, <4>1
      <3>4. CASE m > k
        <4>1. m \in 1..Len(ledger) /\ ~(m <= k) /\ m <= m
          BY <1>1, <3>4
        <4>. QED
          BY <3>2, <4>1
      <3>. QED
        BY <1>1, <3>1, <3>3, <3>4
    <2>. QED
      BY <1>1, <1>3, <2>1 DEF RowsUpTo
  <1>. DEFINE last == PageEnd(k)
  <1>5. Len(ledger) \in Nat /\ k \in Nat /\ k <= Len(ledger) /\ PageSize \in Nat /\ PageSize > 0
    BY <1>1
  <1>6. /\ last \in Nat /\ k <= last /\ last <= Len(ledger)
        /\ last = k => k = Len(ledger)
    <2>1. CASE k + PageSize < Len(ledger)
      <3>1. last = k + PageSize
        BY <2>1 DEF PageEnd
      <3>. HIDE DEF last
      <3>. QED
        BY <1>5, <2>1, <3>1
    <2>2. CASE ~(k + PageSize < Len(ledger))
      <3>1. last = Len(ledger)
        BY <2>2 DEF PageEnd
      <3>. HIDE DEF last
      <3>. QED
        BY <1>5, <3>1
    <2>. QED
      BY <2>1, <2>2
  <1>7. EventsAfter(SequenceAt(k)) = SubSeq(ledger, k + 1, last)
    BY <1>4 DEF EventsAfter
  <1>. HIDE DEF last
  <1>8. \A i \in k + 1..last : ledger[i] \in LedgerRows
    <2>1. \A i \in k + 1..last : i \in 1..Len(ledger)
      BY <1>5, <1>6
    <2>. QED
      BY <1>1, <2>1
  <1>9. /\ SubSeq(ledger, k + 1, last) \in Seq(LedgerRows)
        /\ Len(SubSeq(ledger, k + 1, last)) = last - k
        /\ \A i \in 1..last - k : SubSeq(ledger, k + 1, last)[i] = ledger[k + i]
    <2>1. k + 1 \in Int /\ last \in Int
      BY <1>5, <1>6
    <2>2. /\ SubSeq(ledger, k + 1, last) \in Seq(LedgerRows)
          /\ Len(SubSeq(ledger, k + 1, last)) = IF k + 1 <= last THEN last - (k + 1) + 1 ELSE 0
          /\ \A i \in 1..last - (k + 1) + 1 : SubSeq(ledger, k + 1, last)[i] = ledger[k + 1 + i - 1]
      BY <1>8, <2>1, SubSeqProperties
    <2>. QED
      BY <1>5, <1>6, <2>2
  <1>10. last - k \in Nat /\ k + (last - k) = last /\ (last - k = 0 => last = k)
    BY <1>5, <1>6
  <1>11. SubSeq(ledger, k + 1, last) = <<>> => last - k = 0
    BY <1>9
  <1>. QED
    BY <1>5, <1>6, <1>7, <1>9, <1>10, <1>11

\* A client that comes back is sent what comes after the last row it has.
LEMMA ConnectKept ==
  ASSUME FollowKept, Connect
  PROVE  FollowKept'
  <1>1. /\ socket' = <<>> /\ channel' = <<>> /\ UNCHANGED <<runRow, ledger, engineSeq, outgoing>>
        /\ client' = [client EXCEPT !.connects = @ + 1] /\ ~client.ended
    BY DEF Connect
  <1>2. PICK subscribed \in BOOLEAN :
          stream' = [state |-> "open", persisted |-> client.last, realtime |-> client.last,
                     replay |-> TRUE, finished |-> runRow.status \in Terminal,
                     subscribed |-> subscribed]
    BY DEF Connect
  <1>3. /\ client'.stored = client.stored /\ client'.shown = client.shown /\ client'.last = client.last
        /\ client'.connects = client.connects + 1 /\ client'.ended = FALSE
        /\ client.connects \in Nat /\ client.last \in Nat
    BY <1>1 DEF FollowKept, ProgressRows
  <1>4. ProgressRows' /\ LedgerInOrder'
    <2>1. client' \in [stored : Seq(Nat), shown : Seq(ShownRows), last : Nat, connects : Nat, ended : BOOLEAN]
      <3>1. client \in [stored : Seq(Nat), shown : Seq(ShownRows), last : Nat, connects : Nat, ended : BOOLEAN]
        BY DEF FollowKept, ProgressRows
      <3>. QED
        BY <1>1, <1>3, <3>1
    <2>3. (runRow.status \in Terminal) \in BOOLEAN
      OBVIOUS
    <2>4. stream' \in [state : {"open", "closed"}, persisted : Nat, realtime : Nat, replay : BOOLEAN,
                       finished : BOOLEAN, subscribed : BOOLEAN]
      BY <1>2, <1>3, <2>3
    <2>2. <<>> \in Seq(Nat) /\ <<>> \in Seq(Messages)
      OBVIOUS
    <2>. QED
      BY <1>1, <2>1, <2>2, <2>4 DEF FollowKept, ProgressRows, LedgerInOrder
  <1>5. Len(client.stored) \in Nat /\ Len(ledger) \in Nat /\ HasRows(Len(client.stored))
        /\ Len(client.stored) <= Len(ledger)
    BY FollowTypes DEF FollowKept, ClientFollows, HasRows
  <1>6. DEFINE n == Len(client.stored)
  <1>7. HasRows(n)' /\ SequenceAt(n)' = SequenceAt(n) /\ client.last = SequenceAt(n)
    BY <1>1, <1>3, <1>5 DEF HasRows, SequenceAt
  <1>8. socket' = <<>> /\ Len(socket') = 0
    BY <1>1
  <1>9. BringsRows(n, n)'
    BY <1>5, <1>8 DEF BringsRows
  <1>10. EndsWith(n)'
    <2>1. stream'.persisted = SequenceAt(n)' /\ (stream'.finished => runRow.status \in Terminal)
      BY <1>2, <1>7
    <2>2. runRow' = runRow /\ ~client'.ended
      BY <1>1, <1>3
    <2>3. \A i \in 1..Len(socket') : FALSE
      BY <1>8
    <2>. QED
      BY <2>1, <2>2, <2>3 DEF EndsWith
  <1>11. ClientFollows'
    BY <1>1, <1>3, <1>5, <1>7, <1>9, <1>10 DEF ClientFollows
  <1>12. \A i \in 1..Len(client.shown) :
           /\ client.shown[i].seq \in Nat /\ client.shown[i].conn \in Nat
           /\ client.shown[i].conn <= client.connects
           /\ client.shown[i].kind = "event" => client.shown[i].seq <= client.last
    BY FollowTypes DEF FollowKept, DeltasInOrder
  <1>13. Newest' = client.last
    BY <1>2 DEF Newest
  <1>14. DeltasInOrder'
    <2>1. \A i \in 1..Len(client.shown) :
            SameConnection(client.shown[i], client.connects + 1) => client.shown[i].kind = "event"
      BY <1>3, <1>12 DEF SameConnection
    <2>2. \A i \in 1..Len(client.shown) : client.shown[i].conn <= client.connects + 1
      BY <1>3, <1>12
    <2>. QED
      BY <1>3, <1>8, <1>12, <1>13, <2>1, <2>2 DEF FollowKept, DeltasInOrder, SameConnection
  <1>. QED
    BY <1>4, <1>11, <1>14 DEF FollowKept

\* A broken connection takes with it what was under way, and a lost Redis the deltas.
LEMMA BreaksKept ==
  ASSUME FollowKept, Disconnect \/ LoseRedis
  PROVE  FollowKept'
  <1>1. /\ \/ stream' = Close /\ socket' = <<>>
           \/ stream' = [stream EXCEPT !.subscribed = FALSE] /\ socket' = socket
        /\ channel' = <<>> /\ UNCHANGED <<runRow, ledger, engineSeq, outgoing, client>>
        /\ stream.state = "open"
    BY DEF Disconnect, LoseRedis, NoStream
  <1>2. ProgressRows' /\ LedgerInOrder'
    <2>1. stream' \in [state : {"open", "closed"}, persisted : Nat, realtime : Nat, replay : BOOLEAN,
                       finished : BOOLEAN, subscribed : BOOLEAN]
      <3>1. stream \in [state : {"open", "closed"}, persisted : Nat, realtime : Nat, replay : BOOLEAN,
                        finished : BOOLEAN, subscribed : BOOLEAN]
        BY DEF FollowKept, ProgressRows
      <3>2. Close \in [state : {"open", "closed"}, persisted : Nat, realtime : Nat, replay : BOOLEAN,
                       finished : BOOLEAN, subscribed : BOOLEAN]
        BY DEF Close, NoStream
      <3>3. [stream EXCEPT !.subscribed = FALSE] \in
              [state : {"open", "closed"}, persisted : Nat, realtime : Nat, replay : BOOLEAN,
               finished : BOOLEAN, subscribed : BOOLEAN]
        BY <3>1
      <3>. QED
        BY <1>1, <3>2, <3>3
    <2>2. <<>> \in Seq(Nat) /\ <<>> \in Seq(Messages)
      OBVIOUS
    <2>. QED
      BY <1>1, <2>1, <2>2 DEF FollowKept, ProgressRows, LedgerInOrder
  <1>3. Len(client.stored) \in Nat /\ Len(ledger) \in Nat /\ Len(client.stored) <= Len(ledger)
    BY FollowTypes DEF FollowKept, ClientFollows, HasRows
  <1>4. CASE stream' = Close /\ socket' = <<>>
    <2>1. DEFINE n == Len(client.stored)
    <2>2. HasRows(n)'
      BY <1>1 DEF FollowKept, ClientFollows, HasRows, SequenceAt
    <2>3. Len(socket') = 0
      BY <1>4
    <2>4. BringsRows(n, n)'
      BY <1>3, <2>3 DEF BringsRows
    <2>5. ~client.ended /\ stream'.state = "closed" /\ ~stream'.finished
      BY <1>1, <1>4 DEF FollowKept, ClientFollows, EndsWith, Close, NoStream
    <2>6. EndsWith(n)'
      BY <1>1, <1>4, <2>3, <2>5 DEF EndsWith
    <2>7. ClientFollows'
      BY <1>1, <1>3, <2>2, <2>4, <2>6 DEF ClientFollows
    <2>8. DeltasInOrder'
      BY <1>1, <2>3, <2>5 DEF FollowKept, DeltasInOrder
    <2>. QED
      BY <1>2, <2>7, <2>8 DEF FollowKept
  <1>5. CASE stream' = [stream EXCEPT !.subscribed = FALSE] /\ socket' = socket
    <2>1. /\ stream'.state = stream.state /\ stream'.persisted = stream.persisted
          /\ stream'.realtime = stream.realtime /\ stream'.finished = stream.finished
      BY <1>5 DEF FollowKept, ProgressRows
    <2>2. ClientFollows'
      BY <1>1, <1>5, <2>1 DEF FollowKept, ClientFollows, HasRows, BringsRows, EndsWith, SequenceAt
    <2>3. DeltasInOrder'
      BY <1>1, <1>5, <2>1 DEF FollowKept, DeltasInOrder, Newest
    <2>. QED
      BY <1>2, <2>2, <2>3 DEF FollowKept
  <1>. QED
    BY <1>1, <1>4, <1>5

\* A delta is put behind what is under way only when it is newer than all of it.
LEMMA TakeDeltaKept ==
  ASSUME FollowKept, TakeDelta
  PROVE  FollowKept'
  <1>1. /\ channel \in Seq(Nat) /\ channel # <<>> /\ stream.state = "open" /\ channel' = Tail(channel)
        /\ UNCHANGED <<runRow, ledger, engineSeq, outgoing, client>>
    BY DEF FollowKept, ProgressRows, TakeDelta
  <1>2. Tail(channel) \in Seq(Nat) /\ Head(channel) \in Nat
    BY <1>1, TailFacts
  <1>3. CASE UNCHANGED <<socket, stream>>
    <2>1. ProgressRows' /\ LedgerInOrder'
      BY <1>1, <1>2, <1>3 DEF FollowKept, ProgressRows, LedgerInOrder
    <2>2. ClientFollows'
      <3>1. socket' = socket /\ stream' = stream /\ client' = client /\ ledger' = ledger /\ runRow' = runRow
        BY <1>1, <1>3
      <3>2. PICK n : n = Len(client.stored)
        OBVIOUS
      <3>3. PICK k \in n..Len(ledger) : HasRows(n) /\ BringsRows(n, k) /\ EndsWith(k)
        BY <3>2 DEF FollowKept, ClientFollows
      <3>4. HasRows(n)'
        BY <3>1, <3>3 DEF HasRows, SequenceAt
      <3>5. BringsRows(n, k)'
        BY <3>1, <3>3 DEF BringsRows
      <3>6. SequenceAt(k)' = SequenceAt(k)
        BY <3>1 DEF SequenceAt
      <3>7. EndsWith(k)'
        BY <3>1, <3>3, <3>6 DEF EndsWith
      <3>. QED
        BY <3>1, <3>2, <3>3, <3>4, <3>5, <3>7 DEF ClientFollows
    <2>3. DeltasInOrder'
      BY <1>1, <1>3 DEF FollowKept, DeltasInOrder, Newest
    <2>. QED
      BY <2>1, <2>2, <2>3 DEF FollowKept
  <1>4. CASE DeltaIsNew(Head(channel))
    <2>. DEFINE delta == [kind |-> "delta", seq |-> Head(channel)]
    <2>1. /\ socket' = Append(socket, delta) /\ Head(channel) > Newest
          /\ stream' = [stream EXCEPT !.realtime = Head(channel)]
      BY <1>4 DEF TakeDelta, DeltaIsNew
    <2>2. /\ delta \in Messages /\ socket \in Seq(Messages)
          /\ delta.kind = "delta" /\ delta.seq = Head(channel)
      BY <1>2 DEF Messages, FollowKept, ProgressRows
    <2>. HIDE DEF delta
    <2>3. /\ socket' \in Seq(Messages) /\ Len(socket') = Len(socket) + 1 /\ socket'[Len(socket) + 1] = delta
          /\ \A i \in 1..Len(socket) : socket'[i] = socket[i]
      BY <2>1, <2>2, AppendFacts
    <2>4. stream' \in [state : {"open", "closed"}, persisted : Nat, realtime : Nat, replay : BOOLEAN,
                       finished : BOOLEAN, subscribed : BOOLEAN]
      <3>1. stream \in [state : {"open", "closed"}, persisted : Nat, realtime : Nat, replay : BOOLEAN,
                        finished : BOOLEAN, subscribed : BOOLEAN]
        BY DEF FollowKept, ProgressRows
      <3>. QED
        BY <1>2, <2>1, <3>1
    <2>5. ProgressRows' /\ LedgerInOrder'
      BY <1>1, <1>2, <2>3, <2>4 DEF FollowKept, ProgressRows, LedgerInOrder
    <2>6. /\ stream'.state = "open" /\ stream'.persisted = stream.persisted
          /\ stream'.finished = stream.finished /\ stream'.realtime = Head(channel)
      BY <1>1, <2>1 DEF FollowKept, ProgressRows
    <2>7. Newest' = Head(channel) /\ Len(socket) \in Nat /\ Newest \in Nat
      <3>1. Head(channel) > stream.persisted /\ stream.persisted \in Nat /\ Len(socket) \in Nat /\ Newest \in Nat
        BY <1>2, <2>1, FollowTypes DEF FollowKept
      <3>. QED
        BY <1>2, <2>6, <3>1 DEF Newest
    <2>8. \A i \in 1..Len(socket') : i \notin 1..Len(socket) => i = Len(socket) + 1 /\ socket'[i] = delta
      <3>1. Len(socket) \in Nat /\ Len(socket') = Len(socket) + 1
        BY <2>3, <2>7
      <3>2. ASSUME NEW i \in 1..Len(socket'), i \notin 1..Len(socket)
            PROVE  i = Len(socket) + 1 /\ socket'[i] = delta
        <4>1. i = Len(socket) + 1
          BY <3>1, <3>2
        <4>. QED
          BY <2>3, <4>1
      <3>. QED
        BY <3>2
    <2>9. ClientFollows'
      <3>0. PICK n : n = Len(client.stored)
        OBVIOUS
      <3>1. PICK k \in n..Len(ledger) : HasRows(n) /\ BringsRows(n, k) /\ EndsWith(k)
        BY <3>0 DEF FollowKept, ClientFollows
      <3>2. HasRows(n)'
        BY <1>1, <3>1 DEF HasRows, SequenceAt
      <3>3. BringsRows(n, k)'
        <4>1. \A i \in 1..Len(socket') : socket'[i].kind = "event" =>
                i \in 1..Len(socket) /\ socket'[i] = socket[i]
          BY <2>2, <2>3, <2>8
        <4>2. \A i \in 1..Len(socket) : i \in 1..Len(socket') /\ socket'[i] = socket[i]
          BY <2>3, <2>7
        <4>3. \A i, j \in 1..Len(socket') :
                i < j /\ socket'[i].kind = "event" /\ socket'[j].kind = "event"
                => socket'[i].seq < socket'[j].seq
          BY <3>1, <4>1 DEF BringsRows
        <4>4. \A i \in 1..Len(socket') : socket'[i].kind = "event" =>
                \E m \in n + 1..k : socket'[i].seq = ledger[m].seq
          BY <3>1, <4>1 DEF BringsRows
        <4>5. ASSUME NEW m \in n + 1..k
              PROVE  \E i \in 1..Len(socket') : socket'[i].kind = "event" /\ socket'[i].seq = ledger[m].seq
          <5>1. PICK i \in 1..Len(socket) : socket[i].kind = "event" /\ socket[i].seq = ledger[m].seq
            BY <3>1 DEF BringsRows
          <5>. QED
            BY <4>2, <5>1
        <4>. QED
          BY <1>1, <4>3, <4>4, <4>5 DEF BringsRows
      <3>4. \A i \in 1..Len(socket) : socket[i].kind # "end"
        BY <1>1, <3>1 DEF EndsWith
      <3>5. \A i \in 1..Len(socket') : socket'[i].kind # "end"
        BY <2>2, <2>3, <2>8, <3>4
      <3>6. ~client.ended /\ stream.persisted = SequenceAt(k) /\ (stream.finished => runRow.status \in Terminal)
        BY <1>1, <3>1 DEF EndsWith
      <3>7. SequenceAt(k)' = SequenceAt(k)
        BY <1>1 DEF SequenceAt
      <3>8. EndsWith(k)'
        BY <1>1, <2>6, <3>5, <3>6, <3>7 DEF EndsWith
      <3>. QED
        BY <1>1, <3>0, <3>1, <3>2, <3>3, <3>8 DEF ClientFollows
    <2>10. DeltasInOrder'
      <3>1. \A i \in 1..Len(client.shown) :
              SameConnection(client.shown[i], client.connects) =>
              client.shown[i].seq <= Newest /\ client.shown[i].seq \in Nat
        BY <1>1, FollowTypes DEF FollowKept, DeltasInOrder
      <3>2. \A i \in 1..Len(socket) : socket[i].seq <= Newest /\ socket[i].seq \in Nat
        BY <1>1, FollowTypes DEF FollowKept, DeltasInOrder
      <3>3. \A i \in 1..Len(client.shown) :
              SameConnection(client.shown[i], client.connects) => client.shown[i].seq < Head(channel)
        BY <1>2, <2>1, <2>7, <3>1
      <3>4. \A i \in 1..Len(socket) : socket[i].seq < Head(channel)
        BY <1>2, <2>1, <2>7, <3>2
      <3>5. \A i \in 1..Len(client.shown), j \in 1..Len(socket') :
              socket'[j].kind = "delta" /\ SameConnection(client.shown[i], client.connects)
              => client.shown[i].seq < socket'[j].seq
        BY <2>2, <2>3, <2>8, <3>3 DEF FollowKept, DeltasInOrder
      <3>6. \A i, j \in 1..Len(socket') : i < j /\ socket'[j].kind = "delta" => socket'[i].seq < socket'[j].seq
        <4>1. SUFFICES ASSUME NEW i \in 1..Len(socket'), NEW j \in 1..Len(socket'), i < j,
                              socket'[j].kind = "delta"
                       PROVE  socket'[i].seq < socket'[j].seq
          OBVIOUS
        <4>2. i \in 1..Len(socket) /\ socket'[i] = socket[i]
          BY <2>3, <2>7, <4>1
        <4>. QED
          BY <2>2, <2>3, <2>8, <3>4, <4>1, <4>2 DEF FollowKept, DeltasInOrder
      <3>7. \A i \in 1..Len(client.shown) :
              SameConnection(client.shown[i], client.connects) => client.shown[i].seq <= Head(channel)
        BY <1>2, <3>1, <3>3
      <3>8. \A i \in 1..Len(socket') : socket'[i].seq <= Head(channel)
        BY <1>2, <2>2, <2>3, <2>8, <3>2, <3>4
      <3>. QED
        BY <1>1, <2>7, <3>5, <3>6, <3>7, <3>8 DEF FollowKept, DeltasInOrder
    <2>. QED
      BY <2>5, <2>9, <2>10 DEF FollowKept
  <1>. QED
    BY <1>3, <1>4 DEF TakeDelta

\* The client takes what is next: a row it lacks, a delta, or the end.
LEMMA ReceiveKept ==
  ASSUME FollowKept, Receive
  PROVE  FollowKept'
  <1>. DEFINE message == Head(socket)
              taken == [kind |-> message.kind, seq |-> message.seq, conn |-> client.connects]
  <1>1. /\ socket \in Seq(Messages) /\ socket # <<>> /\ socket' = Tail(socket)
        /\ UNCHANGED <<runRow, ledger, engineSeq, outgoing, channel, stream>>
        /\ client' = IF message.kind = "end" THEN [client EXCEPT !.ended = TRUE]
                     ELSE [client EXCEPT !.shown = Append(@, taken),
                                         !.stored = IF message.kind = "event" THEN Append(@, message.seq) ELSE @,
                                         !.last = IF message.kind = "event" THEN message.seq ELSE @]
    BY DEF FollowKept, ProgressRows, Receive, CarriesId, workerSide
  <1>2. /\ socket' \in Seq(Messages) /\ message = socket[1] /\ message \in Messages
        /\ Len(socket) \in Nat /\ Len(socket) >= 1 /\ Len(socket') = Len(socket) - 1
        /\ \A i \in 1..Len(socket') : socket'[i] = socket[i + 1] /\ i + 1 \in 1..Len(socket)
        /\ 1 \in 1..Len(socket)
    BY <1>1, TailFacts, RowFacts
  <1>3. message.kind \in {"event", "delta", "end"} /\ message.seq \in Nat
    BY <1>2 DEF Messages
  <1>. HIDE DEF message
  <1>n. PICK n : n = Len(client.stored)
    OBVIOUS
  <1>4. PICK k \in n..Len(ledger) : HasRows(n) /\ BringsRows(n, k) /\ EndsWith(k)
    BY <1>n DEF FollowKept, ClientFollows
  <1>5. /\ client.stored \in Seq(Nat) /\ n \in Nat /\ Len(ledger) \in Nat /\ k \in Nat
        /\ n <= k /\ k <= Len(ledger)
        /\ \A i \in 1..Len(ledger) : ledger[i].seq \in Nat
    BY <1>n, <1>4, FollowTypes DEF FollowKept
  <1>6. CASE message.kind = "end"
    <2>1. Len(socket) = 1 /\ stream.state = "closed" /\ k = Len(ledger) /\ runRow.status \in Terminal
      BY <1>2, <1>4, <1>6 DEF EndsWith
    <2>2. /\ client' = [client EXCEPT !.ended = TRUE]
          /\ client'.stored = client.stored /\ client'.shown = client.shown /\ client'.last = client.last
          /\ client'.connects = client.connects
      BY <1>1, <1>6 DEF FollowKept, ProgressRows
    <2>3. Len(socket') = 0 /\ socket' = <<>>
      BY <1>2, <2>1
    <2>4. ProgressRows' /\ LedgerInOrder'
      <3>1. client \in [stored : Seq(Nat), shown : Seq(ShownRows), last : Nat, connects : Nat, ended : BOOLEAN]
        BY DEF FollowKept, ProgressRows
      <3>2. client' \in [stored : Seq(Nat), shown : Seq(ShownRows), last : Nat, connects : Nat, ended : BOOLEAN]
        BY <2>2, <3>1
      <3>. QED
        BY <1>1, <1>2, <3>2 DEF FollowKept, ProgressRows, LedgerInOrder
    <2>5. n = k
      <3>1. \A i \in 1..Len(socket) : socket[i].kind # "event"
        BY <1>2, <1>6, <2>1
      <3>2. \A m \in n + 1..k : FALSE
        BY <1>4, <3>1 DEF BringsRows
      <3>3. ~(n < k)
        <4>1. SUFFICES ASSUME n < k PROVE FALSE
          OBVIOUS
        <4>2. n + 1 \in n + 1..k
          BY <1>5, <4>1
        <4>. QED
          BY <3>2, <4>2
      <3>. QED
        BY <1>5, <3>3
    <2>6. HasRows(n)'
      BY <1>1, <1>4, <2>2 DEF HasRows, SequenceAt
    <2>7. BringsRows(n, k)'
      BY <1>5, <2>3, <2>5 DEF BringsRows
    <2>8. EndsWith(k)'
      BY <1>1, <1>4, <2>1, <2>3 DEF EndsWith
    <2>9. ClientFollows'
      BY <1>n, <1>1, <1>4, <2>2, <2>6, <2>7, <2>8 DEF ClientFollows
    <2>10. DeltasInOrder'
      <3>1. stream'.state # "open"
        BY <1>1, <2>1
      <3>. QED
        BY <2>2, <2>3, <3>1 DEF FollowKept, DeltasInOrder
    <2>. QED
      BY <2>4, <2>9, <2>10 DEF FollowKept
  <1>7. CASE message.kind # "end"
    <2>1. client' = [client EXCEPT !.shown = Append(@, taken),
                                   !.stored = IF message.kind = "event" THEN Append(@, message.seq) ELSE @,
                                   !.last = IF message.kind = "event" THEN message.seq ELSE @]
      BY <1>1, <1>7
    <2>2. /\ client'.shown = Append(client.shown, taken) /\ client'.connects = client.connects
          /\ client'.ended = client.ended
          /\ message.kind = "event" => /\ client'.stored = Append(client.stored, message.seq)
                                       /\ client'.last = message.seq
          /\ message.kind # "event" => client'.stored = client.stored /\ client'.last = client.last
      BY <2>1 DEF FollowKept, ProgressRows
    <2>3. /\ taken \in ShownRows /\ taken.kind = message.kind /\ taken.seq = message.seq
          /\ taken.conn = client.connects /\ client.connects \in Nat /\ client.shown \in Seq(ShownRows)
          /\ client.last \in Nat
      BY <1>3, <1>7, FollowTypes DEF ShownRows, FollowKept
    <2>. HIDE DEF taken
    <2>4. /\ client'.shown \in Seq(ShownRows) /\ Len(client'.shown) = Len(client.shown) + 1
          /\ client'.shown[Len(client.shown) + 1] = taken /\ Len(client.shown) \in Nat
          /\ \A i \in 1..Len(client.shown) : client'.shown[i] = client.shown[i]
      BY <2>2, <2>3, AppendFacts
    <2>5. /\ Append(client.stored, message.seq) \in Seq(Nat) /\ Len(Append(client.stored, message.seq)) = n + 1
          /\ Append(client.stored, message.seq)[n + 1] = message.seq
          /\ \A i \in 1..n : Append(client.stored, message.seq)[i] = client.stored[i]
      BY <1>n, <1>3, <1>5, AppendFacts
    <2>6. ProgressRows' /\ LedgerInOrder'
      <3>1. client \in [stored : Seq(Nat), shown : Seq(ShownRows), last : Nat, connects : Nat, ended : BOOLEAN]
        BY DEF FollowKept, ProgressRows
      <3>2. client'.stored \in Seq(Nat) /\ client'.last \in Nat /\ client'.ended \in BOOLEAN
        BY <1>3, <1>5, <2>2, <2>3, <2>5, FollowTypes DEF FollowKept
      <3>3. client' = [stored |-> client'.stored, shown |-> client'.shown, last |-> client'.last,
                       connects |-> client'.connects, ended |-> client'.ended]
        BY <2>1, <3>1
      <3>4. client' \in [stored : Seq(Nat), shown : Seq(ShownRows), last : Nat, connects : Nat, ended : BOOLEAN]
        BY <2>2, <2>3, <2>4, <3>2, <3>3
      <3>. QED
        BY <1>1, <1>2, <3>4 DEF FollowKept, ProgressRows, LedgerInOrder
    <2>7. ASSUME message.kind = "event"
          PROVE  ClientFollows' /\ client.last <= client'.last
      <3>1. PICK m \in n + 1..k : message.seq = ledger[m].seq
        BY <1>2, <1>4, <2>7 DEF BringsRows
      <3>2. n + 1 \in n + 1..k /\ n + 1 <= m /\ m \in 1..Len(ledger) /\ n + 1 \in 1..Len(ledger)
        BY <1>5, <3>1
      <3>3. PICK e \in 1..Len(socket) : socket[e].kind = "event" /\ socket[e].seq = ledger[n + 1].seq
        BY <1>4, <3>2 DEF BringsRows
      <3>4. ledger[n + 1].seq <= ledger[m].seq
        BY <1>5, <3>2 DEF FollowKept, LedgerInOrder
      <3>5. message.seq = ledger[n + 1].seq
        <4>1. CASE e = 1
          BY <1>2, <3>3, <4>1
        <4>2. CASE e # 1
          <5>1. 1 < e
            BY <1>2, <4>2
          <5>2. message.seq < socket[e].seq
            BY <1>2, <1>4, <2>7, <3>3, <5>1 DEF BringsRows
          <5>. QED
            BY <1>3, <1>5, <3>1, <3>2, <3>3, <3>4, <5>2
        <4>. QED
          BY <4>1, <4>2
      <3>6. client'.stored = Append(client.stored, message.seq) /\ client'.last = message.seq
            /\ Len(client'.stored) = n + 1
        BY <2>2, <2>5, <2>7
      <3>7. HasRows(n + 1)'
        <4>1. SequenceAt(n + 1)' = ledger[n + 1].seq
          BY <1>1, <1>5 DEF SequenceAt
        <4>2. \A i \in 1..n + 1 : client'.stored[i] = ledger[i].seq
          BY <1>4, <1>5, <2>5, <3>5, <3>6 DEF HasRows
        <4>. QED
          BY <1>1, <1>5, <3>2, <3>5, <3>6, <4>1, <4>2 DEF HasRows
      <3>8. BringsRows(n + 1, k)'
        <4>1. \A i, j \in 1..Len(socket') :
                i < j /\ socket'[i].kind = "event" /\ socket'[j].kind = "event"
                => socket'[i].seq < socket'[j].seq
          <5>1. SUFFICES ASSUME NEW i \in 1..Len(socket'), NEW j \in 1..Len(socket'), i < j,
                                socket'[i].kind = "event", socket'[j].kind = "event"
                         PROVE  socket'[i].seq < socket'[j].seq
            OBVIOUS
          <5>2. /\ socket'[i] = socket[i + 1] /\ socket'[j] = socket[j + 1] /\ i + 1 < j + 1
                /\ i + 1 \in 1..Len(socket) /\ j + 1 \in 1..Len(socket)
            BY <1>2, <5>1
          <5>3. socket[i + 1].kind = "event" /\ socket[j + 1].kind = "event"
            BY <5>1, <5>2
          <5>4. socket[i + 1].seq < socket[j + 1].seq
            BY <1>4, <5>2, <5>3 DEF BringsRows
          <5>. QED
            BY <5>2, <5>4
        <4>2. ASSUME NEW i \in 1..Len(socket'), socket'[i].kind = "event"
              PROVE  \E d \in n + 1 + 1..k : socket'[i].seq = ledger[d].seq
          <5>1. socket'[i] = socket[i + 1] /\ i + 1 \in 1..Len(socket) /\ 1 < i + 1
            BY <1>2
          <5>2. PICK d \in n + 1..k : socket[i + 1].seq = ledger[d].seq
            BY <1>4, <4>2, <5>1 DEF BringsRows
          <5>3. message.seq < socket[i + 1].seq
            BY <1>2, <1>4, <2>7, <4>2, <5>1 DEF BringsRows
          <5>4. d # n + 1
            BY <1>3, <3>5, <5>2, <5>3
          <5>5. d \in n + 1 + 1..k
            BY <1>5, <5>2, <5>4
          <5>. QED
            BY <5>1, <5>2, <5>5
        <4>3. ASSUME NEW d \in n + 1 + 1..k
              PROVE  \E i \in 1..Len(socket') : socket'[i].kind = "event" /\ socket'[i].seq = ledger[d].seq
          <5>1. d \in n + 1..k /\ n + 1 < d /\ d \in 1..Len(ledger)
            BY <1>5, <4>3
          <5>2. PICK i \in 1..Len(socket) : socket[i].kind = "event" /\ socket[i].seq = ledger[d].seq
            BY <1>4, <5>1 DEF BringsRows
          <5>3. ledger[n + 1].seq < ledger[d].seq
            BY <3>2, <5>1 DEF FollowKept, LedgerInOrder
          <5>4. i # 1
            BY <1>2, <1>3, <3>5, <5>2, <5>3
          <5>5. i - 1 \in 1..Len(socket') /\ i - 1 + 1 = i
            BY <1>2, <5>2, <5>4
          <5>6. socket'[i - 1] = socket[i]
            BY <1>2, <5>5
          <5>. QED
            BY <5>2, <5>5, <5>6
        <4>. QED
          BY <1>1, <4>1, <4>2, <4>3 DEF BringsRows
      <3>9. EndsWith(k)'
        <4>1. ~client.ended
          BY <1>1, <1>4 DEF EndsWith
        <4>2. SequenceAt(k)' = SequenceAt(k)
          BY <1>1 DEF SequenceAt
        <4>3. \A i \in 1..Len(socket') : socket'[i].kind = "end" =>
                i = Len(socket') /\ stream.state = "closed" /\ k = Len(ledger) /\ runRow.status \in Terminal
          BY <1>2, <1>4 DEF EndsWith
        <4>. QED
          BY <1>1, <1>4, <2>2, <4>1, <4>2, <4>3 DEF EndsWith
      <3>. QED
        <4>1. k \in n + 1..Len(ledger)
          BY <1>5, <3>2
        <4>2. ClientFollows'
          BY <1>1, <3>6, <3>7, <3>8, <3>9, <4>1 DEF ClientFollows
        <4>3. client.last <= client'.last
          <5>1. CASE n = 0
            BY <1>3, <1>4, <3>6, <5>1 DEF HasRows, SequenceAt
          <5>2. CASE n # 0
            <6>1. n \in 1..Len(ledger) /\ client.last = ledger[n].seq
              BY <1>4, <1>5, <5>2 DEF HasRows, SequenceAt
            <6>2. ledger[n].seq < ledger[n + 1].seq
              BY <1>5, <3>2, <6>1 DEF FollowKept, LedgerInOrder
            <6>. QED
              BY <1>5, <3>2, <3>5, <3>6, <6>1, <6>2
          <5>. QED
            BY <5>1, <5>2
        <4>. QED
          BY <4>2, <4>3
    <2>8. ASSUME message.kind = "delta"
          PROVE  ClientFollows' /\ client.last <= client'.last
      <3>1. client'.stored = client.stored /\ client'.last = client.last
        BY <2>2, <2>8
      <3>2. HasRows(n)'
        BY <1>1, <1>4, <3>1 DEF HasRows, SequenceAt
      <3>3. BringsRows(n, k)'
        <4>1. \A i, j \in 1..Len(socket') :
                i < j /\ socket'[i].kind = "event" /\ socket'[j].kind = "event"
                => socket'[i].seq < socket'[j].seq
          <5>1. SUFFICES ASSUME NEW i \in 1..Len(socket'), NEW j \in 1..Len(socket'), i < j,
                                socket'[i].kind = "event", socket'[j].kind = "event"
                         PROVE  socket'[i].seq < socket'[j].seq
            OBVIOUS
          <5>2. /\ socket'[i] = socket[i + 1] /\ socket'[j] = socket[j + 1] /\ i + 1 < j + 1
                /\ i + 1 \in 1..Len(socket) /\ j + 1 \in 1..Len(socket)
            BY <1>2, <5>1
          <5>3. socket[i + 1].kind = "event" /\ socket[j + 1].kind = "event"
            BY <5>1, <5>2
          <5>4. socket[i + 1].seq < socket[j + 1].seq
            BY <1>4, <5>2, <5>3 DEF BringsRows
          <5>. QED
            BY <5>2, <5>4
        <4>2. ASSUME NEW i \in 1..Len(socket'), socket'[i].kind = "event"
              PROVE  \E d \in n + 1..k : socket'[i].seq = ledger[d].seq
          <5>1. socket'[i] = socket[i + 1] /\ i + 1 \in 1..Len(socket)
            BY <1>2
          <5>. QED
            BY <1>4, <4>2, <5>1 DEF BringsRows
        <4>3. ASSUME NEW d \in n + 1..k
              PROVE  \E i \in 1..Len(socket') : socket'[i].kind = "event" /\ socket'[i].seq = ledger[d].seq
          <5>1. PICK i \in 1..Len(socket) : socket[i].kind = "event" /\ socket[i].seq = ledger[d].seq
            BY <1>4 DEF BringsRows
          <5>2. i # 1
            BY <1>2, <2>8, <5>1
          <5>3. i - 1 \in 1..Len(socket') /\ i - 1 + 1 = i
            BY <1>2, <5>1, <5>2
          <5>4. socket'[i - 1] = socket[i]
            BY <1>2, <5>3
          <5>. QED
            BY <5>1, <5>3, <5>4
        <4>. QED
          BY <1>1, <4>1, <4>2, <4>3 DEF BringsRows
      <3>4. EndsWith(k)'
        <4>1. ~client.ended
          BY <1>1, <1>4 DEF EndsWith
        <4>2. SequenceAt(k)' = SequenceAt(k)
          BY <1>1 DEF SequenceAt
        <4>3. \A i \in 1..Len(socket') : socket'[i].kind = "end" =>
                i = Len(socket') /\ stream.state = "closed" /\ k = Len(ledger) /\ runRow.status \in Terminal
          BY <1>2, <1>4 DEF EndsWith
        <4>. QED
          BY <1>1, <1>4, <2>2, <4>1, <4>2, <4>3 DEF EndsWith
      <3>. QED
        <4>1. Len(client'.stored) = n /\ k \in n..Len(ledger')
          BY <1>n, <1>1, <1>4, <3>1
        <4>2. ClientFollows'
          BY <3>2, <3>3, <3>4, <4>1 DEF ClientFollows
        <4>. QED
          BY <2>3, <3>1, <4>2
    <2>9. client.last <= client'.last
      BY <1>3, <1>7, <2>7, <2>8
    <2>10. \A i \in 1..Len(client'.shown) :
             \/ i \in 1..Len(client.shown) /\ client'.shown[i] = client.shown[i]
             \/ i = Len(client.shown) + 1 /\ client'.shown[i] = taken
      BY <2>4
    <2>11. \A i \in 1..Len(client.shown) :
             /\ client.shown[i].seq \in Nat /\ client.shown[i].conn \in Nat
             /\ client.shown[i].kind \in {"event", "delta"}
      BY FollowTypes DEF FollowKept
    <2>12. \A i, j \in 1..Len(client'.shown) :
             i < j /\ client'.shown[j].kind = "delta" /\ SameConnection(client'.shown[i], client'.shown[j].conn)
             => client'.shown[i].seq < client'.shown[j].seq
      <3>1. SUFFICES ASSUME NEW i \in 1..Len(client'.shown), NEW j \in 1..Len(client'.shown), i < j,
                            client'.shown[j].kind = "delta",
                            SameConnection(client'.shown[i], client'.shown[j].conn)
                     PROVE  client'.shown[i].seq < client'.shown[j].seq
        OBVIOUS
      <3>2. i \in 1..Len(client.shown) /\ client'.shown[i] = client.shown[i]
        BY <2>4, <3>1
      <3>3. CASE j \in 1..Len(client.shown)
        BY <2>4, <3>1, <3>2, <3>3 DEF FollowKept, DeltasInOrder
      <3>4. CASE j = Len(client.shown) + 1
        <4>1. client'.shown[j] = taken
          BY <2>4, <3>4
        <4>. QED
          BY <1>2, <2>3, <3>1, <3>2, <4>1 DEF FollowKept, DeltasInOrder
      <3>. QED
        BY <2>10, <3>3, <3>4
    <2>13. \A i \in 1..Len(client'.shown), j \in 1..Len(socket') :
             socket'[j].kind = "delta" /\ SameConnection(client'.shown[i], client'.connects)
             => client'.shown[i].seq < socket'[j].seq
      <3>1. SUFFICES ASSUME NEW i \in 1..Len(client'.shown), NEW j \in 1..Len(socket'),
                            socket'[j].kind = "delta", SameConnection(client'.shown[i], client'.connects)
                     PROVE  client'.shown[i].seq < socket'[j].seq
        OBVIOUS
      <3>2. socket'[j] = socket[j + 1] /\ j + 1 \in 1..Len(socket) /\ 1 < j + 1
        BY <1>2
      <3>3. CASE i \in 1..Len(client.shown) /\ client'.shown[i] = client.shown[i]
        BY <2>2, <3>1, <3>2, <3>3 DEF FollowKept, DeltasInOrder
      <3>4. CASE client'.shown[i] = taken
        BY <1>2, <2>3, <3>1, <3>2, <3>4 DEF FollowKept, DeltasInOrder
      <3>. QED
        BY <2>10, <3>3, <3>4
    <2>14. \A i, j \in 1..Len(socket') : i < j /\ socket'[j].kind = "delta" => socket'[i].seq < socket'[j].seq
      <3>1. SUFFICES ASSUME NEW i \in 1..Len(socket'), NEW j \in 1..Len(socket'), i < j,
                            socket'[j].kind = "delta"
                     PROVE  socket'[i].seq < socket'[j].seq
        OBVIOUS
      <3>2. /\ socket'[i] = socket[i + 1] /\ socket'[j] = socket[j + 1] /\ i + 1 < j + 1
            /\ i + 1 \in 1..Len(socket) /\ j + 1 \in 1..Len(socket)
        BY <1>2, <3>1
      <3>. QED
        BY <3>1, <3>2 DEF FollowKept, DeltasInOrder
    <2>15. stream'.state = "open" =>
             /\ \A i \in 1..Len(client'.shown) :
                  SameConnection(client'.shown[i], client'.connects) => client'.shown[i].seq <= Newest
             /\ \A i \in 1..Len(socket') : socket'[i].seq <= Newest
      <3>1. SUFFICES ASSUME stream.state = "open"
                     PROVE  /\ \A i \in 1..Len(client'.shown) :
                                 SameConnection(client'.shown[i], client'.connects) => client'.shown[i].seq <= Newest
                            /\ \A i \in 1..Len(socket') : socket'[i].seq <= Newest
        BY <1>1
      <3>2. message.seq <= Newest
        BY <1>2, <3>1 DEF FollowKept, DeltasInOrder
      <3>3. \A i \in 1..Len(socket') : socket'[i].seq <= Newest
        BY <1>2, <3>1 DEF FollowKept, DeltasInOrder
      <3>4. \A i \in 1..Len(client'.shown) :
              SameConnection(client'.shown[i], client'.connects) => client'.shown[i].seq <= Newest
        BY <2>2, <2>3, <2>10, <3>1, <3>2 DEF FollowKept, DeltasInOrder
      <3>. QED
        BY <3>3, <3>4
    <2>16. Newest' = Newest
      BY <1>1 DEF Newest
    <2>17. \A i \in 1..Len(client'.shown) :
             /\ client'.shown[i].conn <= client'.connects
             /\ client'.shown[i].kind = "event" => client'.shown[i].seq <= client'.last
      <3>1. SUFFICES ASSUME NEW i \in 1..Len(client'.shown)
                     PROVE  /\ client'.shown[i].conn <= client'.connects
                            /\ client'.shown[i].kind = "event" => client'.shown[i].seq <= client'.last
        OBVIOUS
      <3>2. CASE i \in 1..Len(client.shown) /\ client'.shown[i] = client.shown[i]
        <4>1. /\ client.shown[i].conn <= client.connects
              /\ client.shown[i].kind = "event" => client.shown[i].seq <= client.last
          BY <3>2 DEF FollowKept, DeltasInOrder
        <4>2. client'.last \in Nat
          BY <2>6, FollowTypes DEF ProgressRows
        <4>. QED
          BY <2>2, <2>3, <2>9, <2>11, <3>2, <4>1, <4>2
      <3>3. CASE client'.shown[i] = taken
        BY <1>3, <2>2, <2>3, <3>3
      <3>. QED
        BY <2>10, <3>2, <3>3
    <2>18. DeltasInOrder'
      BY <2>12, <2>13, <2>14, <2>15, <2>16, <2>17 DEF DeltasInOrder
    <2>. QED
      BY <1>3, <1>7, <2>6, <2>7, <2>8, <2>18 DEF FollowKept
  <1>. QED
    BY <1>6, <1>7

\* The loop of run_events sends the rows after the last one it sent, in order.
LEMMA PollKept ==
  ASSUME FollowKept, PollLedger
  PROVE  FollowKept'
  <1>. DEFINE events == EventsAfter(stream.persisted)
              brought == [i \in DOMAIN events |-> Message(events[i])]
              finished == stream.finished \/ EndsRun(events)
              over == [kind |-> "end", seq |-> 0]
  <1>1. /\ stream.state = "open" /\ UNCHANGED <<runRow, ledger, engineSeq, outgoing, channel, client>>
        /\ socket' = socket \o brought \o (IF finished /\ events = <<>> THEN <<over>> ELSE <<>>)
        /\ stream' = IF finished /\ events = <<>> THEN Close
                     ELSE [stream EXCEPT !.persisted = IF events = <<>> THEN @ ELSE Last(events).seq,
                                         !.replay = events # <<>>, !.finished = finished]
    BY DEF PollLedger, workerSide
  <1>n. PICK n : n = Len(client.stored)
    OBVIOUS
  <1>2. PICK k \in n..Len(ledger) : HasRows(n) /\ BringsRows(n, k) /\ EndsWith(k)
    BY <1>n DEF FollowKept, ClientFollows
  <1>3. /\ n \in Nat /\ k \in Nat /\ n <= k /\ k <= Len(ledger) /\ Len(ledger) \in Nat
        /\ stream.persisted = SequenceAt(k)
    BY <1>n, <1>1, <1>2, FollowTypes DEF FollowKept, EndsWith
  <1>4. PICK p : p = Len(events)
    OBVIOUS
  <1>5. /\ events \in Seq(LedgerRows) /\ p \in Nat /\ k + p <= Len(ledger) /\ DOMAIN events = 1..p
        /\ events = <<>> => k = Len(ledger)
        /\ \A i \in 1..p : events[i] = ledger[k + i] /\ k + i \in 1..Len(ledger)
    <2>1. /\ EventsAfter(SequenceAt(k)) \in Seq(LedgerRows)
          /\ Len(EventsAfter(SequenceAt(k))) \in Nat /\ k + Len(EventsAfter(SequenceAt(k))) \in k..Len(ledger)
          /\ EventsAfter(SequenceAt(k)) = <<>> => k = Len(ledger)
          /\ \A i \in 1..Len(EventsAfter(SequenceAt(k))) : EventsAfter(SequenceAt(k))[i] = ledger[k + i]
      BY <1>3, PageOfRows
    <2>2. events = EventsAfter(SequenceAt(k))
      BY <1>3
    <2>. HIDE DEF events
    <2>3. events \in Seq(LedgerRows) /\ p \in Nat /\ k + p <= Len(ledger)
      BY <1>3, <1>4, <2>1, <2>2
    <2>4. DOMAIN events = 1..p
      BY <1>4, <2>3, RowFacts
    <2>5. \A i \in 1..p : k + i \in 1..Len(ledger)
      BY <1>3, <2>3
    <2>. QED
      BY <1>4, <2>1, <2>2, <2>3, <2>4, <2>5
  <1>6. events = <<>> <=> p = 0
    BY <1>4, <1>5
  <1>. HIDE DEF events
  <1>7. /\ \A i \in 1..Len(ledger) : ledger[i].seq \in Nat /\ ledger[i] \in LedgerRows
        /\ \A i, j \in 1..Len(ledger) : i < j => ledger[i].seq < ledger[j].seq
    BY FollowTypes DEF FollowKept, LedgerInOrder
  <1>8. /\ brought \in Seq(Messages) /\ Len(brought) = p
        /\ \A i \in 1..p : brought[i].kind = "event" /\ brought[i].seq = ledger[k + i].seq
    <2>1. brought = [i \in 1..p |-> Message(events[i])]
      BY <1>5
    <2>2. \A i \in 1..p : /\ Message(events[i]) \in Messages /\ Message(events[i]).kind = "event"
                           /\ Message(events[i]).seq = ledger[k + i].seq
      BY <1>5, <1>7 DEF Message, Messages
    <2>. HIDE DEF brought
    <2>3. brought \in [1..p -> Messages]
      BY <2>1, <2>2
    <2>4. brought \in Seq(Messages) /\ Len(brought) = p
      BY <1>5, <2>3
    <2>. QED
      BY <2>1, <2>2, <2>4
  <1>. HIDE DEF brought
  <1>9. finished => runRow.status \in Terminal
    <2>1. EndsRun(events) => \E i \in 1..p : events[i].status \in Terminal
      BY <1>5 DEF EndsRun
    <2>2. EndsRun(events) => runRow.status \in Terminal
      BY <1>5, <2>1 DEF FollowKept, LedgerInOrder
    <2>. QED
      BY <1>2, <2>2 DEF EndsWith
  <1>. HIDE DEF finished
  <1>10. socket \in Seq(Messages) /\ Len(socket) \in Nat
    BY FollowTypes DEF FollowKept, ProgressRows
  <1>11. stream \in [state : {"open", "closed"}, persisted : Nat, realtime : Nat, replay : BOOLEAN,
                     finished : BOOLEAN, subscribed : BOOLEAN]
    BY DEF FollowKept, ProgressRows
  <1>12. \A i \in 1..Len(socket) : socket[i].kind # "end"
    BY <1>1, <1>2 DEF EndsWith
  <1>13. ~client.ended
    BY <1>1, <1>2 DEF EndsWith
  <1>14. CASE finished /\ events = <<>>
    <2>1. socket' = socket \o brought \o <<over>> /\ stream' = Close /\ k = Len(ledger) /\ p = 0
      BY <1>1, <1>5, <1>6, <1>14
    <2>2. over \in Messages /\ over.kind = "end"
      BY DEF Messages
    <2>. HIDE DEF over
    <2>3. brought = <<>>
      BY <1>8, <2>1
    <2>4. socket' = Append(socket, over)
      BY <1>10, <2>1, <2>2, <2>3
    <2>5. /\ socket' \in Seq(Messages) /\ Len(socket') = Len(socket) + 1 /\ socket'[Len(socket) + 1] = over
          /\ \A i \in 1..Len(socket) : socket'[i] = socket[i]
      BY <1>10, <2>2, <2>4, AppendFacts
    <2>6. \A i \in 1..Len(socket') : i \in 1..Len(socket) \/ i = Len(socket')
      BY <1>10, <2>5
    <2>7. socket'[Len(socket')].kind = "end"
      BY <2>2, <2>5
    <2>8. ProgressRows' /\ LedgerInOrder'
      <3>1. Close \in [state : {"open", "closed"}, persisted : Nat, realtime : Nat, replay : BOOLEAN,
                       finished : BOOLEAN, subscribed : BOOLEAN]
        BY DEF Close, NoStream
      <3>. QED
        BY <1>1, <2>1, <2>5, <3>1 DEF FollowKept, ProgressRows, LedgerInOrder
    <2>9. stream'.state = "closed" /\ ~stream'.finished
      BY <2>1 DEF Close, NoStream
    <2>10. HasRows(n)'
      BY <1>1, <1>2 DEF HasRows, SequenceAt
    <2>11. BringsRows(n, k)'
      <3>1. \A i \in 1..Len(socket') : socket'[i].kind = "event" => i \in 1..Len(socket) /\ socket'[i] = socket[i]
        BY <2>5, <2>6, <2>7
      <3>2. \A i, j \in 1..Len(socket') :
              i < j /\ socket'[i].kind = "event" /\ socket'[j].kind = "event"
              => socket'[i].seq < socket'[j].seq
        BY <1>2, <3>1 DEF BringsRows
      <3>3. \A i \in 1..Len(socket') : socket'[i].kind = "event" =>
              \E m \in n + 1..k : socket'[i].seq = ledger[m].seq
        BY <1>2, <3>1 DEF BringsRows
      <3>4. ASSUME NEW m \in n + 1..k
            PROVE  \E i \in 1..Len(socket') : socket'[i].kind = "event" /\ socket'[i].seq = ledger[m].seq
        <4>1. PICK i \in 1..Len(socket) : socket[i].kind = "event" /\ socket[i].seq = ledger[m].seq
          BY <1>2 DEF BringsRows
        <4>2. i \in 1..Len(socket')
          BY <1>10, <2>5
        <4>. QED
          BY <2>5, <4>1, <4>2
      <3>. QED
        BY <1>1, <3>2, <3>3, <3>4 DEF BringsRows
    <2>12. EndsWith(k)'
      <3>1. \A i \in 1..Len(socket') : socket'[i].kind = "end" => i = Len(socket')
        BY <1>12, <2>5, <2>6
      <3>. QED
        BY <1>1, <1>9, <1>13, <1>14, <2>1, <2>9, <3>1 DEF EndsWith
    <2>13. ClientFollows'
      BY <1>n, <1>1, <1>2, <2>10, <2>11, <2>12 DEF ClientFollows
    <2>14. DeltasInOrder'
      <3>1. \A j \in 1..Len(socket') : socket'[j].kind = "delta" => j \in 1..Len(socket) /\ socket'[j] = socket[j]
        BY <2>5, <2>6, <2>7
      <3>2. \A i, j \in 1..Len(socket') : i < j => i \in 1..Len(socket) /\ socket'[i] = socket[i]
        BY <1>10, <2>5
      <3>3. \A i, j \in 1..Len(socket') : i < j /\ socket'[j].kind = "delta" => socket'[i].seq < socket'[j].seq
        BY <3>1, <3>2 DEF FollowKept, DeltasInOrder
      <3>4. \A i \in 1..Len(client.shown), j \in 1..Len(socket') :
              socket'[j].kind = "delta" /\ SameConnection(client.shown[i], client.connects)
              => client.shown[i].seq < socket'[j].seq
        BY <3>1 DEF FollowKept, DeltasInOrder
      <3>. QED
        BY <1>1, <2>9, <3>3, <3>4 DEF FollowKept, DeltasInOrder
    <2>. QED
      BY <2>8, <2>13, <2>14 DEF FollowKept
  <1>15. CASE ~(finished /\ events = <<>>)
    <2>1. /\ socket' = socket \o brought \o <<>>
          /\ stream' = [stream EXCEPT !.persisted = IF events = <<>> THEN @ ELSE Last(events).seq,
                                      !.replay = events # <<>>, !.finished = finished]
      BY <1>1, <1>15
    <2>2. /\ socket' \in Seq(Messages) /\ Len(socket') = Len(socket) + p
          /\ \A i \in 1..Len(socket) : socket'[i] = socket[i]
          /\ \A i \in 1..p : socket'[Len(socket) + i] = brought[i]
      <3>1. /\ socket \o brought \in Seq(Messages) /\ Len(socket \o brought) = Len(socket) + p
            /\ \A i \in 1..Len(socket) + p : (socket \o brought)[i] =
                 IF i <= Len(socket) THEN socket[i] ELSE brought[i - Len(socket)]
        BY <1>8, <1>10, ConcatProperties
      <3>2. socket' = socket \o brought
        BY <2>1, <3>1, ConcatEmptySeq
      <3>3. \A i \in 1..Len(socket) : i \in 1..Len(socket) + p /\ i <= Len(socket)
        BY <1>5, <1>10
      <3>4. \A i \in 1..p : /\ Len(socket) + i \in 1..Len(socket) + p /\ ~(Len(socket) + i <= Len(socket))
                            /\ Len(socket) + i - Len(socket) = i
        BY <1>5, <1>10
      <3>5. \A i \in 1..p : (socket \o brought)[Len(socket) + i] = brought[Len(socket) + i - Len(socket)]
        BY <3>1, <3>4
      <3>. QED
        BY <3>1, <3>2, <3>3, <3>4, <3>5
    <2>3. /\ stream'.state = "open" /\ stream'.finished = finished /\ stream'.realtime = stream.realtime
          /\ stream'.persisted = IF events = <<>> THEN stream.persisted ELSE Last(events).seq
      BY <1>1, <1>11, <2>1
    <2>4. stream'.persisted = SequenceAt(k + p) /\ stream'.persisted \in Nat
          /\ stream.persisted <= stream'.persisted
          /\ \A i \in 1..p : ledger[k + i].seq <= stream'.persisted
      <3>1. CASE p = 0
        BY <1>3, <1>6, <1>11, <2>3, <3>1
      <3>2. CASE p # 0
        <4>1. p \in 1..p /\ Last(events) = ledger[k + p] /\ k + p \in 1..Len(ledger) /\ k + p # 0
          BY <1>3, <1>4, <1>5, <3>2 DEF Last
        <4>2. stream'.persisted = ledger[k + p].seq /\ SequenceAt(k + p) = ledger[k + p].seq
          BY <1>6, <2>3, <3>2, <4>1 DEF SequenceAt
        <4>3. \A i \in 1..p : ledger[k + i].seq <= ledger[k + p].seq
          <5>1. SUFFICES ASSUME NEW i \in 1..p PROVE ledger[k + i].seq <= ledger[k + p].seq
            OBVIOUS
          <5>2. CASE i = p
            BY <1>7, <4>1, <5>2
          <5>3. CASE i # p
            <6>1. k + i < k + p /\ k + i \in 1..Len(ledger)
              BY <1>3, <1>5, <5>3
            <6>. QED
              BY <1>7, <4>1, <6>1
          <5>. QED
            BY <5>2, <5>3
        <4>4. SequenceAt(k) <= ledger[k + p].seq
          <5>1. CASE k = 0
            BY <1>7, <4>1, <5>1 DEF SequenceAt
          <5>2. CASE k # 0
            <6>1. k \in 1..Len(ledger) /\ k < k + p /\ SequenceAt(k) = ledger[k].seq
              BY <1>3, <1>5, <3>2, <5>2 DEF SequenceAt
            <6>. QED
              BY <1>7, <4>1, <6>1
          <5>. QED
            BY <5>1, <5>2
        <4>. QED
          BY <1>3, <1>7, <4>1, <4>2, <4>3, <4>4
      <3>. QED
        BY <3>1, <3>2
    <2>5. ProgressRows' /\ LedgerInOrder'
      <3>1. finished \in BOOLEAN /\ (events # <<>>) \in BOOLEAN
        BY <1>11 DEF finished, EndsRun
      <3>4. stream'.replay = (events # <<>>) /\ stream'.subscribed = stream.subscribed
        BY <1>11, <2>1
      <3>5. stream'.replay \in BOOLEAN /\ stream'.finished \in BOOLEAN
        BY <2>3, <3>1, <3>4
      <3>2. stream' = [state |-> stream'.state, persisted |-> stream'.persisted, realtime |-> stream'.realtime,
                       replay |-> stream'.replay, finished |-> stream'.finished,
                       subscribed |-> stream'.subscribed]
        BY <1>11, <2>1
      <3>3. stream' \in [state : {"open", "closed"}, persisted : Nat, realtime : Nat, replay : BOOLEAN,
                         finished : BOOLEAN, subscribed : BOOLEAN]
        BY <1>11, <2>3, <2>4, <3>2, <3>4, <3>5
      <3>. QED
        BY <1>1, <2>2, <3>3 DEF FollowKept, ProgressRows, LedgerInOrder
    <2>6. ASSUME NEW i \in 1..Len(socket')
          PROVE  \/ i \in 1..Len(socket) /\ socket'[i] = socket[i]
                 \/ \E c \in 1..p : /\ i = Len(socket) + c /\ socket'[i].kind = "event"
                                     /\ socket'[i].seq = ledger[k + c].seq
      <3>1. CASE i \in 1..Len(socket)
        BY <2>2, <3>1
      <3>2. CASE i \notin 1..Len(socket)
        <4>1. i - Len(socket) \in 1..p /\ i = Len(socket) + (i - Len(socket))
          BY <1>5, <1>10, <2>2, <3>2
        <4>. QED
          BY <1>8, <2>2, <4>1
      <3>. QED
        BY <3>1, <3>2
    <2>7. \A i \in 1..Len(socket) : i \in 1..Len(socket') /\ socket'[i] = socket[i]
      BY <1>5, <1>10, <2>2
    <2>8. \A c \in 1..p : /\ Len(socket) + c \in 1..Len(socket') /\ socket'[Len(socket) + c].kind = "event"
                          /\ socket'[Len(socket) + c].seq = ledger[k + c].seq
      <3>1. \A c \in 1..p : Len(socket) + c \in 1..Len(socket')
        BY <1>5, <1>10, <2>2
      <3>2. \A c \in 1..p : socket'[Len(socket) + c] = brought[c]
        BY <2>2
      <3>. QED
        BY <1>8, <3>1, <3>2
    <2>9. HasRows(n)'
      BY <1>1, <1>2 DEF HasRows, SequenceAt
    <2>10. BringsRows(n, k + p)'
      <3>1. ASSUME NEW i \in 1..Len(socket'), NEW j \in 1..Len(socket'), i < j,
                   socket'[i].kind = "event", socket'[j].kind = "event"
            PROVE  socket'[i].seq < socket'[j].seq
        <4>1. CASE j \in 1..Len(socket) /\ socket'[j] = socket[j]
          <5>1. i \in 1..Len(socket) /\ socket'[i] = socket[i]
            BY <1>10, <2>2, <3>1, <4>1
          <5>. QED
            BY <1>2, <3>1, <4>1, <5>1 DEF BringsRows
        <4>2. ASSUME NEW c \in 1..p, j = Len(socket) + c, socket'[j].seq = ledger[k + c].seq
              PROVE  socket'[i].seq < socket'[j].seq
          <5>1. k + c \in 1..Len(ledger)
            BY <1>5
          <5>2. CASE i \in 1..Len(socket) /\ socket'[i] = socket[i]
            <6>1. PICK m \in n + 1..k : socket[i].seq = ledger[m].seq
              BY <1>2, <3>1, <5>2 DEF BringsRows
            <6>2. m < k + c /\ m \in 1..Len(ledger)
              BY <1>3, <1>5
            <6>. QED
              BY <1>7, <4>2, <5>1, <5>2, <6>1, <6>2
          <5>3. ASSUME NEW d \in 1..p, i = Len(socket) + d, socket'[i].seq = ledger[k + d].seq
                PROVE  socket'[i].seq < socket'[j].seq
            <6>1. k + d < k + c /\ k + d \in 1..Len(ledger)
              BY <1>3, <1>5, <1>10, <3>1, <4>2, <5>3
            <6>. QED
              BY <1>7, <4>2, <5>1, <5>3, <6>1
          <5>. QED
            BY <2>6, <5>2, <5>3
        <4>. QED
          BY <2>6, <4>1, <4>2
      <3>2. ASSUME NEW i \in 1..Len(socket'), socket'[i].kind = "event"
            PROVE  \E m \in n + 1..k + p : socket'[i].seq = ledger[m].seq
        <4>1. CASE i \in 1..Len(socket) /\ socket'[i] = socket[i]
          <5>1. PICK m \in n + 1..k : socket[i].seq = ledger[m].seq
            BY <1>2, <3>2, <4>1 DEF BringsRows
          <5>2. m \in n + 1..k + p
            BY <1>3, <1>5
          <5>. QED
            BY <4>1, <5>1, <5>2
        <4>2. ASSUME NEW c \in 1..p, socket'[i].seq = ledger[k + c].seq
              PROVE  \E m \in n + 1..k + p : socket'[i].seq = ledger[m].seq
          <5>1. k + c \in n + 1..k + p
            BY <1>3, <1>5
          <5>. QED
            BY <4>2, <5>1
        <4>. QED
          BY <2>6, <4>1, <4>2
      <3>3. ASSUME NEW m \in n + 1..k + p
            PROVE  \E i \in 1..Len(socket') : socket'[i].kind = "event" /\ socket'[i].seq = ledger[m].seq
        <4>1. CASE m <= k
          <5>1. m \in n + 1..k
            BY <1>3, <1>5, <4>1
          <5>2. PICK i \in 1..Len(socket) : socket[i].kind = "event" /\ socket[i].seq = ledger[m].seq
            BY <1>2, <5>1 DEF BringsRows
          <5>. QED
            BY <2>7, <5>2
        <4>2. CASE ~(m <= k)
          <5>1. m - k \in 1..p /\ k + (m - k) = m
            BY <1>3, <1>5, <4>2
          <5>. QED
            BY <2>8, <5>1
        <4>. QED
          BY <4>1, <4>2
      <3>. QED
        BY <1>1, <3>1, <3>2, <3>3 DEF BringsRows
    <2>11. EndsWith(k + p)'
      <3>1. \A i \in 1..Len(socket') : socket'[i].kind # "end"
        BY <1>12, <2>6
      <3>2. SequenceAt(k + p)' = SequenceAt(k + p)
        BY <1>1 DEF SequenceAt
      <3>. QED
        BY <1>1, <1>9, <1>13, <2>3, <2>4, <3>1, <3>2 DEF EndsWith
    <2>12. ClientFollows'
      <3>1. k + p \in n..Len(ledger') /\ Len(client'.stored) = n
        BY <1>n, <1>1, <1>3, <1>5
      <3>. QED
        BY <2>9, <2>10, <2>11, <3>1 DEF ClientFollows
    <2>13. Newest \in Nat /\ Newest' \in Nat /\ Newest <= Newest' /\ stream'.persisted <= Newest'
      <3>1. stream.persisted \in Nat /\ stream.realtime \in Nat
        BY <1>11
      <3>. QED
        BY <2>3, <2>4, <3>1 DEF Newest
    <2>14. DeltasInOrder'
      <3>1. \A j \in 1..Len(socket') : socket'[j].kind = "delta" => j \in 1..Len(socket) /\ socket'[j] = socket[j]
        BY <2>6
      <3>2. ASSUME NEW i \in 1..Len(socket'), NEW j \in 1..Len(socket'), i < j, socket'[j].kind = "delta"
            PROVE  socket'[i].seq < socket'[j].seq
        <4>1. j \in 1..Len(socket) /\ socket'[j] = socket[j]
          BY <3>1, <3>2
        <4>2. i \in 1..Len(socket) /\ socket'[i] = socket[i]
          BY <1>10, <2>2, <3>2, <4>1
        <4>. QED
          BY <3>2, <4>1, <4>2 DEF FollowKept, DeltasInOrder
      <3>3. \A i \in 1..Len(client.shown), j \in 1..Len(socket') :
              socket'[j].kind = "delta" /\ SameConnection(client.shown[i], client.connects)
              => client.shown[i].seq < socket'[j].seq
        BY <3>1 DEF FollowKept, DeltasInOrder
      <3>4. ASSUME NEW i \in 1..Len(client.shown), SameConnection(client.shown[i], client.connects)
            PROVE  client.shown[i].seq <= Newest'
        <4>1. client.shown[i].seq <= Newest
          BY <1>1, <3>4 DEF FollowKept, DeltasInOrder
        <4>2. client.shown[i].seq \in Nat
          BY FollowTypes DEF FollowKept
        <4>. QED
          BY <2>13, <4>1, <4>2
      <3>5. ASSUME NEW i \in 1..Len(socket')
            PROVE  socket'[i].seq <= Newest'
        <4>1. CASE i \in 1..Len(socket) /\ socket'[i] = socket[i]
          <5>1. socket[i].seq <= Newest /\ socket[i].seq \in Nat
            BY <1>1, <4>1, FollowTypes DEF FollowKept, DeltasInOrder
          <5>. QED
            BY <2>13, <4>1, <5>1
        <4>2. ASSUME NEW c \in 1..p, socket'[i].seq = ledger[k + c].seq
              PROVE  socket'[i].seq <= Newest'
          <5>1. ledger[k + c].seq <= stream'.persisted /\ ledger[k + c].seq \in Nat
            BY <1>5, <1>7, <2>4
          <5>. QED
            BY <2>4, <2>13, <4>2, <5>1
        <4>. QED
          BY <2>6, <4>1, <4>2
      <3>. QED
        BY <1>1, <3>2, <3>3, <3>4, <3>5 DEF FollowKept, DeltasInOrder
    <2>. QED
      BY <2>5, <2>12, <2>14 DEF FollowKept
  <1>. QED
    BY <1>14, <1>15

\* A step that follows the Run leaves the page and the watch alone.
LEMMA FollowLeavesPage ==
  ASSUME FollowNext
  PROVE  /\ page' = page /\ watch' = watch /\ request' = request
         /\ runRow' = runRow \/ \E status \in Terminal : FinalizeRun(status)
  <1>1. ASSUME AppendAgentEvent \/ EmitDelta \/ DeliverDelta \/ CloseBuffer \/ AppendPlatformEvent \/ RestartAttempt
        PROVE  UNCHANGED restOfProgress /\ runRow' = runRow
    BY <1>1 DEF AppendAgentEvent, EmitDelta, DeliverDelta, CloseBuffer, AppendPlatformEvent, RestartAttempt
  <1>2. ASSUME Connect \/ TakeDelta \/ LoseRedis \/ Disconnect
        PROVE  UNCHANGED restOfProgress /\ runRow' = runRow
    BY <1>2 DEF Connect, TakeDelta, LoseRedis, Disconnect
  <1>3. ASSUME PollLedger \/ Receive
        PROVE  UNCHANGED restOfProgress /\ runRow' = runRow
    BY <1>3 DEF PollLedger, Receive, workerSide
  <1>4. ASSUME NEW status \in Terminal, FinalizeRun(status)
        PROVE  UNCHANGED restOfProgress
    BY <1>4 DEF FinalizeRun
  <1>. QED
    BY <1>1, <1>2, <1>3, <1>4 DEF FollowNext, restOfProgress

\* A page that has read SUCCEEDED reads the result of a Run that stays as it is.
LEMMA PageStepKept ==
  ASSUME ProgressKept, watch' = watch, request' = request,
         \/ page' = page /\ (runRow' = runRow \/ \E status \in Terminal : FinalizeRun(status))
         \/ ReadDetail
  PROVE  PageRows' /\ PageKept' /\ WatchKept'
  <1>1. /\ page \in [step : {"none", "row", "shown"}, status : Terminal \cup {"RUNNING", "none"},
                     result : BOOLEAN]
        /\ runRow.status \in Terminal \cup {"RUNNING"} /\ runRow.result \in BOOLEAN
    BY DEF ProgressKept, PageRows, FollowKept, ProgressRows
  <1>2. /\ runRow.status = "SUCCEEDED" => runRow.result
        /\ page.status = "SUCCEEDED" => runRow.status = "SUCCEEDED"
        /\ page.step = "shown" /\ page.status = "SUCCEEDED" => page.result
    BY DEF ProgressKept, PageKept, DetailHasResult
  <1>3. WatchKept'
    BY DEF ProgressKept, WatchKept
  <1>4. CASE page' = page /\ runRow' = runRow
    BY <1>1, <1>2, <1>3, <1>4 DEF ProgressKept, PageRows, PageKept, DetailHasResult
  <1>5. ASSUME page' = page, NEW status \in Terminal, FinalizeRun(status)
        PROVE  PageRows' /\ PageKept'
    <2>1. runRow.status = "RUNNING" /\ runRow' = [status |-> status, result |-> status = "SUCCEEDED"]
      BY <1>5 DEF FinalizeRun
    <2>2. page.status # "SUCCEEDED" /\ (runRow'.status = "SUCCEEDED" => runRow'.result)
      BY <1>2, <2>1
    <2>. QED
      BY <1>2, <1>5, <2>2 DEF ProgressKept, PageRows, PageKept, DetailHasResult
  <1>6. CASE ReadRunRow
    <2>1. page' = [page EXCEPT !.step = "row", !.status = runRow.status] /\ runRow' = runRow
      BY <1>6 DEF ReadRunRow, workerSide
    <2>2. page'.step = "row" /\ page'.status = runRow.status /\ page'.result = page.result
      BY <1>1, <2>1
    <2>3. page' \in [step : {"none", "row", "shown"}, status : Terminal \cup {"RUNNING", "none"},
                     result : BOOLEAN]
      BY <1>1, <2>1
    <2>. QED
      BY <1>2, <1>3, <2>1, <2>2, <2>3 DEF ProgressKept, PageRows, PageKept, DetailHasResult
  <1>7. CASE ReadResult
    <2>1. page' = [page EXCEPT !.step = "shown", !.result = runRow.result] /\ runRow' = runRow
      BY <1>7 DEF ReadResult, workerSide
    <2>2. page'.step = "shown" /\ page'.status = page.status /\ page'.result = runRow.result
      BY <1>1, <2>1
    <2>3. page' \in [step : {"none", "row", "shown"}, status : Terminal \cup {"RUNNING", "none"},
                     result : BOOLEAN]
      BY <1>1, <2>1
    <2>. QED
      BY <1>2, <1>3, <2>1, <2>2, <2>3 DEF ProgressKept, PageRows, PageKept, DetailHasResult
  <1>. QED
    BY <1>3, <1>4, <1>5, <1>6, <1>7 DEF ReadDetail

\* The watch sends deltas while it is open, and ends with what the row says.
LEMMA WatchStepKept ==
  ASSUME ProgressKept, WatchNext
  PROVE  PageRows' /\ PageKept' /\ WatchKept'
  <1>. DEFINE Says == {"delta", "SUCCEEDED", "FAILED", "UNKNOWN"}
              WatchRows == [state : {"open", "ended"},
                            told : {"none", "SUCCEEDED", "FAILED", "UNKNOWN", "disconnected"},
                            truth : {"none", "SUCCEEDED", "FAILED", "UNKNOWN"},
                            holds : {"none", "waiting", "delta", "SUCCEEDED", "nothing"}, sent : Seq(Says)]
  <1>1. page' = page /\ runRow' = runRow
    BY DEF WatchNext, SettleRequest, ConfirmFirst, ConfirmAgain, WatchFails, TakeProgress, workerSide
  <1>2. PageKept'
    BY <1>1 DEF ProgressKept, PageKept, DetailHasResult
  <1>3. /\ watch \in WatchRows /\ request \in {"RUNNING", "SUCCEEDED", "FAILED", "UNKNOWN"}
        /\ page \in [step : {"none", "row", "shown"}, status : Terminal \cup {"RUNNING", "none"},
                     result : BOOLEAN]
    BY DEF ProgressKept, PageRows
  <1>. SUFFICES watch' \in WatchRows /\ request' \in {"RUNNING", "SUCCEEDED", "FAILED", "UNKNOWN"} /\ WatchKept'
    BY <1>1, <1>2, <1>3 DEF PageRows
  <1>4. watch.sent \in Seq(Says) /\ Len(watch.sent) \in Nat
    BY <1>3, RowFacts
  <1>5. ASSUME watch' = watch, request' \in {"RUNNING", "SUCCEEDED", "FAILED", "UNKNOWN"}
        PROVE  watch' \in WatchRows /\ WatchKept'
    BY <1>3, <1>5 DEF ProgressKept, WatchKept
  <1>6. ASSUME watch.state = "open", RequestTerminal, watch' = Tell(request)
        PROVE  watch' \in WatchRows /\ WatchKept'
    <2>1. request \in {"SUCCEEDED", "FAILED", "UNKNOWN"}
      BY <1>6 DEF RequestTerminal
    <2>2. watch' = [watch EXCEPT !.state = "ended", !.told = request, !.truth = request,
                                 !.sent = Append(watch.sent, request)]
      BY <1>3, <1>6 DEF Tell
    <2>3. /\ Append(watch.sent, request) \in Seq(Says)
          /\ Len(Append(watch.sent, request)) = Len(watch.sent) + 1
          /\ \A i \in 1..Len(watch.sent) : Append(watch.sent, request)[i] = watch.sent[i]
      BY <1>4, <2>1, AppendFacts
    <2>4. /\ watch'.state = "ended" /\ watch'.told = request /\ watch'.truth = request
          /\ watch'.sent = Append(watch.sent, request)
      BY <1>3, <2>2
    <2>5. watch' \in WatchRows
      BY <1>3, <2>1, <2>2, <2>3
    <2>6. \A i \in 1..Len(watch.sent) : watch.sent[i] = "delta"
      BY <1>6 DEF ProgressKept, WatchKept
    <2>7. \A i \in 1..Len(watch'.sent) : watch'.sent[i] # "delta" => i = Len(watch'.sent)
      <3>1. \A i \in 1..Len(watch'.sent) : i \in 1..Len(watch.sent) \/ i = Len(watch'.sent)
        BY <1>4, <2>3, <2>4
      <3>. QED
        BY <2>3, <2>4, <2>6, <3>1
    <2>. QED
      BY <2>4, <2>5, <2>7 DEF WatchKept
  <1>7. ASSUME NEW holds \in {"none", "waiting", "delta", "SUCCEEDED", "nothing"},
               watch' = [watch EXCEPT !.holds = holds]
        PROVE  watch' \in WatchRows /\ WatchKept'
    <2>1. /\ watch'.state = watch.state /\ watch'.told = watch.told /\ watch'.truth = watch.truth
          /\ watch'.sent = watch.sent
      BY <1>3, <1>7
    <2>2. watch' \in WatchRows
      BY <1>3, <1>7
    <2>. QED
      BY <2>1, <2>2 DEF ProgressKept, WatchKept
  <1>8. CASE \E status \in {"SUCCEEDED", "FAILED", "UNKNOWN"} : SettleRequest(status)
    BY <1>5, <1>8 DEF SettleRequest
  <1>9. CASE ConfirmFirst
    BY <1>3, <1>6, <1>7, <1>9 DEF ConfirmFirst
  <1>10. CASE \E message \in {"delta", "SUCCEEDED", "nothing"} : TakeProgress(message)
    BY <1>3, <1>7, <1>10 DEF TakeProgress
  <1>11. CASE WatchFails
    <2>1. watch' = [watch EXCEPT !.state = "ended", !.told = "disconnected"] /\ request' = request
          /\ watch.state = "open"
      BY <1>11 DEF WatchFails
    <2>2. watch'.state = "ended" /\ watch'.told = "disconnected" /\ watch'.sent = watch.sent
      BY <1>3, <2>1
    <2>3. watch' \in WatchRows
      BY <1>3, <2>1
    <2>. QED
      BY <1>3, <2>1, <2>2, <2>3 DEF ProgressKept, WatchKept
  <1>12. CASE ConfirmAgain
    <2>1. request' = request /\ watch.state = "open"
      BY <1>12 DEF ConfirmAgain
    <2>2. CASE RequestTerminal
      BY <1>3, <1>6, <1>12, <2>1, <2>2 DEF ConfirmAgain
    <2>3. CASE ~RequestTerminal /\ watch' = [watch EXCEPT !.holds = "none"]
      BY <1>3, <1>7, <2>1, <2>3
    <2>4. CASE /\ ~RequestTerminal /\ watch.holds = "delta"
               /\ watch' = [watch EXCEPT !.holds = "none",
                                         !.sent = IF Len(@) < 2 THEN Append(@, watch.holds) ELSE @]
      <3>1. CASE Len(watch.sent) < 2
        <4>1. watch' = [watch EXCEPT !.holds = "none", !.sent = Append(watch.sent, "delta")]
          BY <1>3, <2>4, <3>1
        <4>2. /\ Append(watch.sent, "delta") \in Seq(Says)
              /\ Len(Append(watch.sent, "delta")) = Len(watch.sent) + 1
              /\ Append(watch.sent, "delta")[Len(watch.sent) + 1] = "delta"
              /\ \A i \in 1..Len(watch.sent) : Append(watch.sent, "delta")[i] = watch.sent[i]
          BY <1>4, AppendFacts
        <4>3. /\ watch'.state = "open" /\ watch'.told = watch.told /\ watch'.truth = watch.truth
              /\ watch'.sent = Append(watch.sent, "delta")
          BY <1>3, <2>1, <4>1
        <4>4. watch' \in WatchRows
          BY <1>3, <4>1, <4>2
        <4>5. \A i \in 1..Len(watch.sent) : watch.sent[i] = "delta"
          BY <2>1 DEF ProgressKept, WatchKept
        <4>6. \A i \in 1..Len(watch'.sent) : watch'.sent[i] = "delta"
          <5>1. \A i \in 1..Len(watch'.sent) : i \in 1..Len(watch.sent) \/ i = Len(watch.sent) + 1
            BY <1>4, <4>2, <4>3
          <5>. QED
            BY <4>2, <4>3, <4>5, <5>1
        <4>. QED
          BY <1>3, <2>1, <4>3, <4>4, <4>6 DEF ProgressKept, WatchKept
      <3>2. CASE ~(Len(watch.sent) < 2)
        <4>1. watch' = [watch EXCEPT !.holds = "none", !.sent = watch.sent]
          BY <1>3, <2>4, <3>2
        <4>2. watch' = [watch EXCEPT !.holds = "none"]
          BY <1>3, <4>1
        <4>. QED
          BY <1>3, <1>7, <2>1, <4>2
      <3>. QED
        BY <3>1, <3>2
    <2>. QED
      BY <1>12, <2>2, <2>3, <2>4 DEF ConfirmAgain, ForwardsMessage
  <1>. QED
    BY <1>8, <1>9, <1>10, <1>11, <1>12 DEF WatchNext

\* A new Run has its first snapshot, and nobody follows it yet.
LEMMA ProgressStarts == ProgressInit => ProgressKept
  <1>. SUFFICES ASSUME ProgressInit PROVE ProgressKept
    OBVIOUS
  <1>. DEFINE opening == [seq |-> 1, kind |-> "snapshot", status |-> "RUNNING"]
  <1>1. /\ ledger = <<opening>> /\ Len(ledger) = 1 /\ ledger[1] = opening /\ opening \in LedgerRows
        /\ opening.seq = 1 /\ opening.status = "RUNNING" /\ ledger \in Seq(LedgerRows)
    BY DEF ProgressInit, LedgerRows
  <1>. HIDE DEF opening
  <1>2. client = [stored |-> <<>>, shown |-> <<>>, last |-> 0, connects |-> 0, ended |-> FALSE]
    BY DEF ProgressInit
  <1>3. <<>> \in Seq(Nat) /\ <<>> \in Seq(Messages) /\ <<>> \in Seq(ShownRows) /\ Len(<<>>) = 0
    BY EmptySeq
  <1>4. /\ stream = [state |-> "closed", persisted |-> 0, realtime |-> 0, replay |-> FALSE,
                     finished |-> FALSE, subscribed |-> FALSE]
        /\ socket = <<>> /\ outgoing = <<>> /\ channel = <<>> /\ engineSeq = 1
        /\ runRow = [status |-> "RUNNING", result |-> FALSE]
    BY DEF ProgressInit, NoStream
  <1>5. client.stored = <<>> /\ client.shown = <<>> /\ client.last = 0 /\ client.connects = 0 /\ ~client.ended
    BY <1>2
  <1>6. stream.state = "closed" /\ ~stream.finished /\ runRow.status = "RUNNING"
    BY <1>4
  <1>7. ProgressRows
    BY <1>1, <1>2, <1>3, <1>4 DEF ProgressRows
  <1>8. LedgerInOrder
    BY <1>1, <1>6 DEF LedgerInOrder, Terminal
  <1>9. ClientFollows
    <2>1. Len(client.stored) = 0 /\ Len(socket) = 0
      BY <1>3, <1>4, <1>5
    <2>2. HasRows(0)
      BY <1>1, <1>5, <2>1 DEF HasRows, SequenceAt
    <2>3. BringsRows(0, 0)
      BY <2>1 DEF BringsRows
    <2>4. EndsWith(0)
      BY <1>5, <1>6, <2>1 DEF EndsWith
    <2>. QED
      BY <1>1, <2>1, <2>2, <2>3, <2>4 DEF ClientFollows
  <1>10. DeltasInOrder
    <2>1. Len(client.shown) = 0 /\ Len(socket) = 0
      BY <1>3, <1>4, <1>5
    <2>. QED
      BY <1>6, <2>1 DEF DeltasInOrder
  <1>11. /\ page = [step |-> "none", status |-> "none", result |-> FALSE] /\ request = "RUNNING"
         /\ watch = [state |-> "open", told |-> "none", truth |-> "none", holds |-> "none", sent |-> <<>>]
    BY DEF ProgressInit
  <1>12. PageRows
    <2>1. <<>> \in Seq({"delta", "SUCCEEDED", "FAILED", "UNKNOWN"})
      BY EmptySeq
    <2>. QED
      BY <1>11, <2>1 DEF PageRows
  <1>13. PageKept
    BY <1>6, <1>11 DEF PageKept, DetailHasResult
  <1>14. WatchKept
    <2>1. watch.sent = <<>> /\ watch.told = "none"
      BY <1>11
    <2>2. Len(watch.sent) = 0
      BY <1>3, <2>1
    <2>. QED
      BY <2>1, <2>2 DEF WatchKept
  <1>. QED
    BY <1>7, <1>8, <1>9, <1>10, <1>12, <1>13, <1>14 DEF ProgressKept, FollowKept

\* No step of the worker, of a stream, of the client or of a page breaks it.
LEMMA ProgressNextKeeps == ProgressKept /\ [ProgressNext]_progressVars => ProgressKept'
  <1>. SUFFICES ASSUME ProgressKept, [ProgressNext]_progressVars PROVE ProgressKept'
    OBVIOUS
  <1>1. CASE FollowNext
    <2>1. FollowKept'
      BY <1>1, WorkerKept, FinalizeKept, ConnectKept, PollKept, TakeDeltaKept, BreaksKept, ReceiveKept
      DEF FollowNext, ProgressKept
    <2>2. PageRows' /\ PageKept' /\ WatchKept'
      BY <1>1, FollowLeavesPage, PageStepKept
    <2>. QED
      BY <2>1, <2>2 DEF ProgressKept
  <1>2. ASSUME UNCHANGED <<runRow, workerSide, clientSide>>
        PROVE  FollowKept'
    BY <1>2, QuietLedger DEF ProgressKept, FollowKept, ProgressRows, workerSide
  <1>3. CASE ReadDetail
    <2>1. FollowKept'
      BY <1>2, <1>3 DEF ReadDetail, ReadRunRow, ReadResult, workerSide
    <2>2. PageRows' /\ PageKept' /\ WatchKept'
      BY <1>3, PageStepKept DEF ReadDetail, ReadRunRow, ReadResult
    <2>. QED
      BY <2>1, <2>2 DEF ProgressKept
  <1>4. CASE \E status \in Terminal : FinalizeRun(status)
    <2>1. FollowKept'
      BY <1>4, FinalizeKept DEF ProgressKept
    <2>2. PageRows' /\ PageKept' /\ WatchKept'
      BY <1>4, PageStepKept DEF FinalizeRun, restOfProgress
    <2>. QED
      BY <2>1, <2>2 DEF ProgressKept
  <1>5. CASE WatchNext
    <2>1. FollowKept'
      BY <1>2, <1>5 DEF WatchNext, SettleRequest, ConfirmFirst, ConfirmAgain, WatchFails, TakeProgress, workerSide
    <2>. QED
      BY <1>5, <2>1, WatchStepKept DEF ProgressKept
  <1>6. CASE UNCHANGED progressVars
    <2>1. FollowKept'
      BY <1>2, <1>6 DEF progressVars, workerSide, clientSide
    <2>2. page' = page /\ runRow' = runRow /\ watch' = watch /\ request' = request
      BY <1>6 DEF progressVars
    <2>. QED
      BY <2>1, <2>2, PageStepKept DEF ProgressKept
  <1>. QED
    BY <1>1, <1>3, <1>4, <1>5, <1>6 DEF ProgressNext, PageNext

\* What a client, a page and a watch show follows from it.
LEMMA ProgressIsKept == ProgressKept => ProgressIsTrue
  <1>. SUFFICES ASSUME ProgressKept PROVE ProgressIsTrue
    OBVIOUS
  <1>1. ProgressRows /\ LedgerInOrder /\ ClientFollows /\ DeltasInOrder
    BY DEF ProgressKept, FollowKept
  <1>2. PICK k \in Len(client.stored)..Len(ledger) : HasRows(Len(client.stored)) /\ EndsWith(k)
                                                 /\ BringsRows(Len(client.stored), k)
    BY <1>1 DEF ClientFollows
  <1>3. /\ DOMAIN ledger = 1..Len(ledger) /\ Len(ledger) \in Nat /\ Len(client.stored) \in Nat
        /\ Len(client.shown) \in Nat /\ DOMAIN client.shown = 1..Len(client.shown)
        /\ \A i \in 1..Len(ledger) : ledger[i].seq \in Nat
        /\ client.stored \in Seq(Nat)
    BY <1>1, FollowTypes, RowFacts
  <1>4. ClientFollowsLedger
    <2>1. PICK n : n = Len(client.stored)
      OBVIOUS
    <2>2. n \in Nat /\ n <= Len(ledger) /\ \A i \in 1..n : client.stored[i] = ledger[i].seq
      BY <1>2, <1>3, <2>1 DEF HasRows
    <2>3. PICK numbers : numbers = Sequences(ledger)
      OBVIOUS
    <2>4. numbers = [i \in 1..Len(ledger) |-> ledger[i].seq]
      BY <1>3, <2>3 DEF Sequences
    <2>5. /\ numbers \in Seq(Nat) /\ Len(numbers) = Len(ledger)
          /\ \A i \in 1..n : i \in 1..Len(ledger) /\ numbers[i] = client.stored[i]
      BY <1>3, <2>2, <2>4
    <2>6. \A i \in 1..n : numbers[i] \in Nat /\ client.stored[i] \in Nat
      BY <1>3, <2>2, <2>5
    <2>7. /\ SubSeq(client.stored, 1, n) \in Seq(Nat) /\ SubSeq(numbers, 1, n) \in Seq(Nat)
          /\ Len(SubSeq(client.stored, 1, n)) = n /\ Len(SubSeq(numbers, 1, n)) = n
          /\ \A i \in 1..n : SubSeq(client.stored, 1, n)[i] = client.stored[i] /\ SubSeq(numbers, 1, n)[i] = numbers[i]
      <3>1. ASSUME NEW t, \A i \in 1..n : t[i] \in Nat
            PROVE  /\ SubSeq(t, 1, n) \in Seq(Nat) /\ Len(SubSeq(t, 1, n)) = n
                   /\ \A i \in 1..n : SubSeq(t, 1, n)[i] = t[i]
        <4>1. 1 \in Int /\ n \in Int /\ n - 1 + 1 = n /\ \A i \in 1..n : 1 + i - 1 = i
          BY <2>2
        <4>2. /\ SubSeq(t, 1, n) \in Seq(Nat)
              /\ Len(SubSeq(t, 1, n)) = IF 1 <= n THEN n - 1 + 1 ELSE 0
              /\ \A i \in 1..n - 1 + 1 : SubSeq(t, 1, n)[i] = t[1 + i - 1]
          BY <3>1, <4>1, SubSeqProperties
        <4>. QED
          BY <2>2, <4>1, <4>2
      <3>. QED
        BY <2>6, <3>1
    <2>8. SubSeq(client.stored, 1, n) = SubSeq(numbers, 1, n)
      BY <2>5, <2>7, SeqEqual
    <2>9. IsPrefix(client.stored, Sequences(ledger))
      BY <2>1, <2>2, <2>3, <2>5, <2>8 DEF IsPrefix
    <2>10. ASSUME client.ended
           PROVE  n = Len(ledger)
      <3>1. socket = <<>> /\ k = Len(ledger)
        BY <1>2, <2>10 DEF EndsWith
      <3>2. Len(socket) = 0
        BY <3>1
      <3>3. \A m \in n + 1..k : FALSE
        BY <1>2, <2>1, <3>2 DEF BringsRows
      <3>4. ~(n < k)
        <4>1. SUFFICES ASSUME n < k PROVE FALSE
          OBVIOUS
        <4>2. n + 1 \in n + 1..k
          BY <1>3, <2>2, <3>1, <4>1
        <4>. QED
          BY <3>3, <4>2
      <3>. QED
        BY <1>2, <1>3, <2>1, <2>2, <3>1, <3>4
    <2>. QED
      BY <2>1, <2>9, <2>10 DEF ClientFollowsLedger
  <1>5. DeltasAreFresh
    BY <1>1, <1>3 DEF DeltasInOrder, DeltasAreFresh, SameConnection
  <1>6. DetailHasResult
    BY DEF ProgressKept, PageKept
  <1>7. OutcomeFromRow
    <2>1. DOMAIN watch.sent = 1..Len(watch.sent)
      <3>1. watch.sent \in Seq({"delta", "SUCCEEDED", "FAILED", "UNKNOWN"})
        BY DEF ProgressKept, PageRows
      <3>. QED
        BY <3>1, RowFacts
    <2>. QED
      BY <2>1 DEF ProgressKept, WatchKept, OutcomeFromRow
  <1>. QED
    BY <1>4, <1>5, <1>6, <1>7 DEF ProgressIsTrue

\* Whatever breaks, whoever follows a Run sees what happened: its rows in order and all of
\* them, deltas while they are news, a page with its result, an outcome the row has
\* (run_events, get_detail, interpretation_events).
THEOREM ProgressStaysTrue == AgentSpec => []ProgressIsTrue
  <1>1. AgentInit => ProgressInit
    BY DEF AgentInit
  <1>2. [AgentNext]_agentVars => [ProgressNext]_progressVars
    BY DEF AgentNext, agentVars, ProgressNext
  <1>. QED
    BY <1>1, <1>2, ProgressStarts, ProgressNextKeeps, ProgressIsKept, PTL DEF AgentSpec
=============================================================================
