--------------------------- MODULE ExecutionProofs --------------------------
(***************************************************************************)
(* Proofs about what a Run does to the outside world. WriteProviders: for    *)
(* any providers, any number of attempts and any changes made by others, an  *)
(* approved write is made at most once and reported as what happened.        *)
(* EffectReconciliation, further below: the desktop is one call's at a time,  *)
(* and an outcome that is not known is looked up, never sent again. Then     *)
(* ProjectDocuments: what is stored, what is listed and what is counted.     *)
(* Last the inputs (RunInputs) and the files (RunFiles) of a workspace.      *)
(* The properties a run checks of several of these parts are those of        *)
(* MCExecution; its small sets of values are used nowhere here.              *)
(*                                                                         *)
(* What is written once is not what an attempt decides, but what the target  *)
(* system carries out, possibly long after the attempt has died. WritesKept  *)
(* therefore relates three things: which attempt may still send, which       *)
(* requests are on their way, and what the target system knows.              *)
(***************************************************************************)
EXTENDS MCExecution, FiniteSetTheorems, TLAPS

\* Providers without a receipt: only the first attempt sends the write, and it
\* has not been carried out before that attempt sent it.
SingleShot == Git \cup {"http", "sql"}
SentOnce ==
  /\ \A n \in WriteAttempts :
       \/ n = 1
       \/ attempt[n].pc \notin {"ready", "open", "sent", "copying"} /\ n \notin requests
  /\ \A n \in WriteAttempts :
       n = 1 /\ (n \in requests \/ attempt[n].pc \in {"idle", "claimed", "ready", "open"})
         => applied = 0
  /\ applied <= 1

\* What the target system can tell of the effect.
TargetKnows ==
  /\ proof <=> applied > 0
  /\ provider \in {"database", "redmine"} => applied <= 1
  /\ provider \notin Svn => ~overwritten
  /\ provider \in {"http", "sql"} => target = "base"
  /\ provider \in Git /\ target = "ours" => applied > 0
  /\ provider \in {"http", "sql", "database"} =>
       \A n \in WriteAttempts : answer[n] = "ok" => applied > 0

\* Attempts start one after the other; a request is on its way only for an
\* attempt that sent it; a report ends its attempt; only Subversion copies a
\* branch; and only the first attempt of an SQL effect ever reports that nothing was written.
AttemptsKept ==
  \A n \in WriteAttempts :
    /\ n > owner => attempt[n].pc = "idle"
    /\ n \in requests => attempt[n].pc \in {"sent", "copying", "done"}
    /\ attempt[n].result # "none" => attempt[n].pc = "done"
    /\ attempt[n].pc = "copying" => provider \in Svn
    /\ attempt[n].result \in {"NOT_SENT", "ROLLED_BACK"} => provider = "sql" /\ n = 1

WritesKept ==
  /\ WriteTypeOK
  /\ AttemptsKept
  /\ provider \in SingleShot => SentOnce
  /\ TargetKnows
  /\ ReportIsTrue

AttemptStates ==
  [pc : {"idle", "claimed", "ready", "copying", "open", "sent", "done"}, result : Results]

\* What one attempt may do to itself: it goes on or reports, and may send its
\* request. A provider without receipts sends from its first attempt alone.
MovesTo(n, next) ==
  /\ UNCHANGED <<provider, authority, owner, remoteSide>>
  /\ attempt[n].pc # "idle"
  /\ attempt' = [attempt EXCEPT ![n] = next] /\ next \in AttemptStates
  /\ requests' \in {requests, requests \cup {n}}
  /\ n \in requests' => next.pc \in {"sent", "copying", "done"}
  /\ next.result # "none" => next.pc = "done"
  /\ next.pc = "copying" => provider \in Svn
  /\ provider \in SingleShot /\ requests' # requests =>
       n = 1 /\ attempt[n].pc \in {"claimed", "ready", "open"} /\ next.result = "none"
  /\ provider \in SingleShot =>
       /\ next.pc \in {"ready", "open", "sent", "copying"} => n = 1
       /\ next.pc \in {"idle", "claimed", "ready", "open"} =>
            attempt[n].pc \in {"claimed", "ready", "open"}
  /\ next.result \in {"APPLIED", "REPLAYED"} =>
       applied > 0 \/ provider \in Svn \cup {"redmine"}
  /\ next.result \in {"NOT_SENT", "ROLLED_BACK"} =>
       /\ provider = "sql" /\ n = 1 /\ attempt[n].pc \in {"claimed", "open"}
       /\ requests' = requests

-----------------------------------------------------------------------------
\* The invariant survives whatever an attempt does to itself.
LEMMA MovesKeep ==
  ASSUME WritesKept, NEW n \in WriteAttempts, NEW next, MovesTo(n, next)
  PROVE  WritesKept'
  <1>1. /\ UNCHANGED <<provider, authority, owner, target, proof, applied, overwritten,
                       outside, answer>>
        /\ attempt' = [attempt EXCEPT ![n] = next] /\ next \in AttemptStates
        /\ requests' \in {requests, requests \cup {n}}
        /\ attempt[n].pc # "idle"
    BY DEF MovesTo, remoteSide
  <1>2. WriteTypeOK /\ AttemptsKept /\ TargetKnows /\ ReportIsTrue
    BY DEF WritesKept
  <1>3. WriteTypeOK'
    BY <1>1, <1>2 DEF WriteTypeOK, AttemptStates
  <1>4. attempt'[n] = next /\ \A m \in WriteAttempts \ {n} : attempt'[m] = attempt[m]
    BY <1>1, <1>2 DEF WriteTypeOK
  <1>5. \A m \in WriteAttempts : m # n => (m \in requests' <=> m \in requests)
    BY <1>1
  <1>6. AttemptsKept'
    <2>1. n <= owner
      BY <1>1, <1>2 DEF AttemptsKept, WriteTypeOK, WriteAttempts
    <2>. QED
      BY <1>1, <1>2, <1>4, <1>5, <2>1 DEF AttemptsKept, MovesTo, WriteAttempts, WriteTypeOK
  <1>7. provider' \in SingleShot => SentOnce'
    <2>. SUFFICES ASSUME provider \in SingleShot
                  PROVE  SentOnce'
      BY <1>1
    <2>1. SentOnce
      BY DEF WritesKept
    <2>. QED
      BY <1>1, <1>4, <1>5, <2>1 DEF SentOnce, MovesTo
  <1>8. TargetKnows'
    BY <1>1, <1>2 DEF TargetKnows
  <1>9. ReportIsTrue'
    <2>. SUFFICES ASSUME NEW m \in WriteAttempts
                  PROVE  /\ attempt'[m].result \in {"APPLIED", "REPLAYED"} =>
                              applied > 0 \/ provider \in Svn \cup {"redmine"}
                         /\ attempt'[m].result \in {"NOT_SENT", "ROLLED_BACK"} =>
                              applied = 0 /\ requests' = {}
      BY <1>1 DEF ReportIsTrue
    <2>1. CASE m = n /\ next.result \in {"NOT_SENT", "ROLLED_BACK"}
      <3>1. /\ provider = "sql" /\ n = 1 /\ attempt[n].pc \in {"claimed", "open"}
            /\ requests' = requests
        BY <2>1 DEF MovesTo
      <3>2. SentOnce /\ n \notin requests
        BY <1>2, <3>1 DEF WritesKept, SingleShot, AttemptsKept
      <3>3. applied = 0
        BY <3>1, <3>2 DEF SentOnce
      <3>4. requests = {}
        BY <1>2, <3>1, <3>2 DEF SentOnce, WriteTypeOK
      <3>. QED
        BY <1>4, <2>1, <3>1, <3>3, <3>4
    <2>2. CASE m = n /\ next.result \notin {"NOT_SENT", "ROLLED_BACK"}
      BY <1>4, <2>2 DEF MovesTo
    <2>3. CASE m # n
      <3>1. attempt'[m] = attempt[m]
        BY <1>4, <2>3
      <3>2. attempt[m].result \in {"NOT_SENT", "ROLLED_BACK"} => requests' = requests
        BY <1>1, <1>2, <2>3 DEF AttemptsKept, MovesTo, SingleShot
      <3>. QED
        BY <1>2, <3>1, <3>2 DEF ReportIsTrue
    <2>. QED
      BY <2>1, <2>2, <2>3
  <1>. QED
    BY <1>3, <1>6, <1>7, <1>8, <1>9 DEF WritesKept

\* Going on, for an attempt that has not ended.
LEMMA GoesOn ==
  ASSUME WritesKept, NEW n \in WriteAttempts, attempt[n].pc # "done",
         NEW p \in {"ready", "copying", "open", "sent"}, GoTo(n, p)
  PROVE  /\ attempt' = [attempt EXCEPT ![n] = [pc |-> p, result |-> "none"]]
         /\ [pc |-> p, result |-> "none"] \in AttemptStates
  <1>1. attempt[n] \in AttemptStates /\ attempt \in [WriteAttempts -> AttemptStates]
    BY DEF WritesKept, WriteTypeOK, AttemptStates
  <1>2. attempt[n].result = "none"
    BY DEF WritesKept, AttemptsKept
  <1>3. [attempt[n] EXCEPT !.pc = p] = [pc |-> p, result |-> "none"]
    BY <1>1, <1>2 DEF AttemptStates
  <1>4. attempt' = [attempt EXCEPT ![n] = [attempt[n] EXCEPT !.pc = p]]
    BY DEF GoTo
  <1>. QED
    BY <1>3, <1>4 DEF AttemptStates, Results

\* Reporting.
LEMMA Reports ==
  ASSUME NEW n \in WriteAttempts, NEW r \in Results, Report(n, r)
  PROVE  /\ attempt' = [attempt EXCEPT ![n] = [pc |-> "done", result |-> r]]
         /\ [pc |-> "done", result |-> r] \in AttemptStates
  BY DEF Report, AttemptStates

\* A report with nothing sent keeps the invariant, if it is true.
LEMMA ReportKeeps ==
  ASSUME WritesKept, NEW n \in WriteAttempts, NEW r \in Results, Report(n, r),
         UNCHANGED <<provider, authority, owner, remoteSide, requests>>,
         attempt[n].pc # "idle",
         r \in {"APPLIED", "REPLAYED"} => applied > 0 \/ provider \in Svn \cup {"redmine"},
         r \in {"NOT_SENT", "ROLLED_BACK"} =>
           provider = "sql" /\ n = 1 /\ attempt[n].pc \in {"claimed", "open"}
  PROVE  WritesKept'
  <1>. DEFINE next == [pc |-> "done", result |-> r]
  <1>1. /\ attempt' = [attempt EXCEPT ![n] = next] /\ next \in AttemptStates
        /\ next.pc = "done" /\ next.result = r
    BY Reports
  <1>. HIDE DEF next
  <1>2. MovesTo(n, next)
    BY <1>1 DEF MovesTo
  <1>. QED
    BY <1>2, MovesKeep

\* Sending, by the first attempt where there is no receipt to ask for.
LEMMA SendKeeps ==
  ASSUME WritesKept, NEW n \in WriteAttempts, NEW p \in {"sent", "copying"}, GoTo(n, p),
         requests' = requests \cup {n},
         UNCHANGED <<provider, authority, owner, remoteSide>>,
         attempt[n].pc \in {"claimed", "ready", "open"},
         provider \in SingleShot => n = 1,
         p = "copying" => provider \in Svn
  PROVE  WritesKept'
  <1>. DEFINE next == [pc |-> p, result |-> "none"]
  <1>1. /\ attempt' = [attempt EXCEPT ![n] = next] /\ next \in AttemptStates
        /\ next.pc = p /\ next.result = "none"
    BY GoesOn
  <1>. HIDE DEF next
  <1>2. MovesTo(n, next)
    BY <1>1 DEF MovesTo
  <1>. QED
    BY <1>2, MovesKeep

\* Preparing the write.
LEMMA PrepareKeeps ==
  ASSUME WritesKept, NEW n \in WriteAttempts, NEW p \in {"ready", "open"}, GoTo(n, p),
         UNCHANGED <<provider, authority, owner, remoteSide, requests>>,
         attempt[n].pc = "claimed", n = 1
  PROVE  WritesKept'
  <1>. DEFINE next == [pc |-> p, result |-> "none"]
  <1>1. /\ attempt' = [attempt EXCEPT ![n] = next] /\ next \in AttemptStates
        /\ next.pc = p /\ next.result = "none"
    BY GoesOn
  <1>2. n \notin requests
    BY DEF WritesKept, AttemptsKept
  <1>. HIDE DEF next
  <1>3. MovesTo(n, next)
    BY <1>1, <1>2 DEF MovesTo
  <1>. QED
    BY <1>3, MovesKeep

-----------------------------------------------------------------------------
(* The providers.                                                          *)

\* Git looks for its own commit before it pushes, and pushes only once.
LEMMA GitKeeps ==
  ASSUME WritesKept, NEW n \in WriteAttempts, GitLooks(n) \/ GitPushes(n) \/ GitVerifies(n)
  PROVE  WritesKept'
  <1>1. provider \in Git /\ provider \in SingleShot
    BY DEF GitLooks, GitPushes, GitVerifies, SingleShot
  <1>2. target = "ours" => applied > 0
    BY <1>1 DEF WritesKept, TargetKnows
  <1>3. CASE GitLooks(n)
    <2>1. /\ UNCHANGED <<provider, authority, owner, remoteSide, requests>>
          /\ attempt[n].pc = "claimed"
          /\ \/ Report(n, "REVOKED") \/ Report(n, "RETRY") \/ Report(n, "STALE")
             \/ Report(n, "CONFLICT") \/ Report(n, "UNCONFIRMED")
             \/ target = "ours" /\ Report(n, "REPLAYED")
             \/ n = 1 /\ GoTo(n, "ready")
      BY <1>3 DEF GitLooks, Step, At, OriginalCommit
    <2>. QED
      BY <1>2, <2>1, ReportKeeps, PrepareKeeps DEF Results
  <1>4. CASE GitPushes(n)
    <2>1. /\ UNCHANGED <<provider, authority, owner, remoteSide>>
          /\ attempt[n].pc = "ready"
          /\ \/ Report(n, "REVOKED") /\ requests' = requests
             \/ requests' = requests \cup {n} /\ GoTo(n, "sent")
      BY <1>4 DEF GitPushes, Step, At, Send
    <2>2. n = 1
      BY <1>1, <2>1 DEF WritesKept, SentOnce
    <2>. QED
      BY <2>1, <2>2, ReportKeeps, SendKeeps DEF Results
  <1>5. CASE GitVerifies(n)
    <2>1. /\ UNCHANGED <<provider, authority, owner, remoteSide, requests>>
          /\ attempt[n].pc = "sent"
          /\ \/ Report(n, "UNCONFIRMED") \/ Report(n, "VERIFICATION_FAILED")
             \/ Report(n, "REVOKED")
             \/ target = "ours" /\ Report(n, "APPLIED")
      BY <1>5 DEF GitVerifies, Step, At
    <2>. QED
      BY <1>2, <2>1, ReportKeeps DEF Results
  <1>. QED
    BY <1>3, <1>4, <1>5

\* HTTP sends one request and never another.
LEMMA HttpKeeps ==
  ASSUME WritesKept, NEW n \in WriteAttempts, HttpRequests(n) \/ HttpAnswered(n)
  PROVE  WritesKept'
  <1>1. CASE HttpRequests(n)
    <2>1. /\ UNCHANGED <<provider, authority, owner, remoteSide>>
          /\ attempt[n].pc = "claimed"
          /\ \/ (Report(n, "UNCONFIRMED") \/ Report(n, "REVOKED")) /\ requests' = requests
             \/ n = 1 /\ requests' = requests \cup {n} /\ GoTo(n, "sent")
      BY <1>1 DEF HttpRequests, Step, At, Send
    <2>. QED
      BY <2>1, ReportKeeps, SendKeeps DEF Results
  <1>2. CASE HttpAnswered(n)
    <2>1. /\ UNCHANGED <<provider, authority, owner, remoteSide, requests>>
          /\ attempt[n].pc = "sent" /\ provider = "http"
          /\ \/ Report(n, "REVOKED") \/ Report(n, "UNCONFIRMED") \/ Report(n, "ANSWERED")
             \/ answer[n] = "ok" /\ Report(n, "APPLIED")
      BY <1>2 DEF HttpAnswered, Step, At
    <2>2. answer[n] = "ok" => applied > 0
      BY <2>1 DEF WritesKept, TargetKnows
    <2>. QED
      BY <2>1, <2>2, ReportKeeps DEF Results
  <1>. QED
    BY <1>1, <1>2

\* SQL commits once; "not sent" and "rolled back" are said before the commit.
LEMMA SqlKeeps ==
  ASSUME WritesKept, NEW n \in WriteAttempts,
         SqlExecutes(n) \/ SqlCommits(n) \/ SqlCommitted(n)
  PROVE  WritesKept'
  <1>0. provider = "sql" /\ provider \in SingleShot
    BY DEF SqlExecutes, SqlCommits, SqlCommitted, SingleShot
  <1>1. CASE SqlExecutes(n)
    <2>1. /\ UNCHANGED <<provider, authority, owner, remoteSide, requests>>
          /\ attempt[n].pc = "claimed"
          /\ \/ Report(n, "REVOKED") \/ Report(n, "UNCONFIRMED")
             \/ n = 1 /\ GoTo(n, "open")
             \/ n = 1 /\ Report(n, "NOT_SENT")
      BY <1>1 DEF SqlExecutes, Step, At
    <2>. QED
      BY <1>0, <2>1, ReportKeeps, PrepareKeeps DEF Results
  <1>2. CASE SqlCommits(n)
    <2>1. /\ UNCHANGED <<provider, authority, owner, remoteSide>>
          /\ attempt[n].pc = "open"
          /\ \/ (Report(n, "REVOKED") \/ Report(n, "ROLLED_BACK")) /\ requests' = requests
             \/ requests' = requests \cup {n} /\ GoTo(n, "sent")
      BY <1>2 DEF SqlCommits, Step, At, Send
    <2>2. n = 1
      BY <1>0, <2>1 DEF WritesKept, SentOnce
    <2>. QED
      BY <1>0, <2>1, <2>2, ReportKeeps, SendKeeps DEF Results
  <1>3. CASE SqlCommitted(n)
    <2>1. /\ UNCHANGED <<provider, authority, owner, remoteSide, requests>>
          /\ attempt[n].pc = "sent" /\ answer[n] = "ok"
          /\ Report(n, "APPLIED") \/ Report(n, "REVOKED")
      BY <1>3 DEF SqlCommitted, Step, At
    <2>2. applied > 0
      BY <1>0, <2>1 DEF WritesKept, TargetKnows
    <2>. QED
      BY <2>1, <2>2, ReportKeeps DEF Results
  <1>. QED
    BY <1>1, <1>2, <1>3

\* Subversion, rows with a receipt and issues with a key may send again.
LEMMA OthersKeep ==
  ASSUME WritesKept, NEW n \in WriteAttempts,
         \/ SvnLooks(n) \/ SvnVerifies(n)
         \/ DatabaseApplies(n) \/ DatabaseAnswered(n)
         \/ RedmineReads(n) \/ RedmineReadsBack(n)
  PROVE  WritesKept'
  <1>1. provider \in Svn \cup {"database", "redmine"} /\ provider \notin SingleShot
    BY DEF SvnLooks, SvnVerifies, DatabaseApplies, DatabaseAnswered, RedmineReads,
           RedmineReadsBack, SingleShot, Svn, Git
  <1>2. provider = "database" => /\ proof => applied > 0
                                 /\ answer[n] = "ok" => applied > 0
    BY DEF WritesKept, TargetKnows
  <1>3. CASE SvnLooks(n)
    <2>1. /\ UNCHANGED <<provider, authority, owner, remoteSide>>
          /\ attempt[n].pc = "claimed" /\ provider \in Svn
          /\ \/ /\ Report(n, "RETRY") \/ Report(n, "REPLAYED") \/ Report(n, "CONFLICT")
                /\ requests' = requests
             \/ requests' = requests \cup {n} /\ (GoTo(n, "sent") \/ GoTo(n, "copying"))
      BY <1>3 DEF SvnLooks, Step, At, Send
    <2>. QED
      BY <1>1, <2>1, ReportKeeps, SendKeeps DEF Results
  <1>4. CASE SvnVerifies(n)
    <2>1. /\ UNCHANGED <<provider, authority, owner, remoteSide, requests>>
          /\ attempt[n].pc = "sent" /\ provider \in Svn
          /\ \/ Report(n, "UNCONFIRMED") \/ Report(n, "APPLIED")
             \/ Report(n, "VERIFICATION_FAILED")
      BY <1>4 DEF SvnVerifies, Step, At
    <2>. QED
      BY <2>1, ReportKeeps DEF Results
  <1>5. CASE DatabaseApplies(n)
    <2>1. /\ UNCHANGED <<provider, authority, owner, remoteSide>>
          /\ attempt[n].pc = "claimed" /\ provider = "database"
          /\ \/ /\ \/ Report(n, "REVOKED") \/ Report(n, "RETRY")
                   \/ proof /\ Report(n, "REPLAYED")
                /\ requests' = requests
             \/ requests' = requests \cup {n} /\ GoTo(n, "sent")
      BY <1>5 DEF DatabaseApplies, Step, At, Send
    <2>. QED
      BY <1>1, <1>2, <2>1, ReportKeeps, SendKeeps DEF Results
  <1>6. CASE DatabaseAnswered(n)
    <2>1. /\ UNCHANGED <<provider, authority, owner, remoteSide, requests>>
          /\ attempt[n].pc = "sent" /\ provider = "database"
          /\ \/ Report(n, "STALE") \/ Report(n, "REVOKED")
             \/ answer[n] = "ok" /\ Report(n, "APPLIED")
      BY <1>6 DEF DatabaseAnswered, Step, At
    <2>. QED
      BY <1>2, <2>1, ReportKeeps DEF Results
  <1>7. CASE RedmineReads(n)
    <2>1. /\ UNCHANGED <<provider, authority, owner, remoteSide>>
          /\ attempt[n].pc = "claimed" /\ provider = "redmine"
          /\ \/ /\ Report(n, "RETRY") \/ Report(n, "REPLAYED") \/ Report(n, "STALE")
                /\ requests' = requests
             \/ requests' = requests \cup {n} /\ GoTo(n, "sent")
      BY <1>7 DEF RedmineReads, Step, At, Send
    <2>. QED
      BY <1>1, <2>1, ReportKeeps, SendKeeps DEF Results
  <1>8. CASE RedmineReadsBack(n)
    <2>1. /\ UNCHANGED <<provider, authority, owner, remoteSide, requests>>
          /\ attempt[n].pc = "sent" /\ provider = "redmine"
          /\ \/ Report(n, "STALE") \/ Report(n, "APPLIED")
             \/ Report(n, "VERIFICATION_FAILED")
      BY <1>8 DEF RedmineReadsBack, Step, At
    <2>. QED
      BY <2>1, ReportKeeps DEF Results
  <1>. QED
    BY <1>3, <1>4, <1>5, <1>6, <1>7, <1>8

\* Subversion commits after the copy of the branch.
LEMMA SvnCommitsKeeps ==
  ASSUME WritesKept, NEW n \in WriteAttempts, SvnCommits(n)
  PROVE  WritesKept'
  <1>0. attempt[n].pc = "copying" /\ provider \in Svn
    BY DEF SvnCommits, At, WritesKept, AttemptsKept
  <1>1. /\ UNCHANGED <<provider, authority, owner, target, proof, applied, overwritten, outside>>
        /\ attempt[n].pc = "copying" /\ provider \notin SingleShot
        /\ provider \notin {"http", "sql", "database"}
    BY <1>0 DEF SvnCommits, SingleShot, Svn, Git
  <1>2. WriteTypeOK /\ AttemptsKept /\ TargetKnows /\ ReportIsTrue
    BY DEF WritesKept
  <1>3. PICK next \in AttemptStates :
          /\ attempt' = [attempt EXCEPT ![n] = next]
          /\ next.result \in {"none", "UNCONFIRMED"}
          /\ next.result # "none" => next.pc = "done"
          /\ \/ requests' = requests \cup {n} /\ next.pc = "sent"
             \/ requests' = requests /\ next.pc = "done"
          /\ answer' \in [WriteAttempts -> {"none", "ok", "copied", "refused", "revoked"}]
    <2>1. CASE Send(n) /\ answer' = [answer EXCEPT ![n] = "none"]
      <3>1. /\ attempt' = [attempt EXCEPT ![n] = [pc |-> "sent", result |-> "none"]]
            /\ [pc |-> "sent", result |-> "none"] \in AttemptStates
        BY <1>1, <2>1, GoesOn DEF Send
      <3>2. answer' \in [WriteAttempts -> {"none", "ok", "copied", "refused", "revoked"}]
        BY <1>2, <2>1 DEF WriteTypeOK
      <3>. QED
        BY <2>1, <3>1, <3>2 DEF Send
    <2>2. CASE Report(n, "UNCONFIRMED") /\ UNCHANGED <<requests, answer>>
      <3>1. /\ attempt' = [attempt EXCEPT ![n] = [pc |-> "done", result |-> "UNCONFIRMED"]]
            /\ [pc |-> "done", result |-> "UNCONFIRMED"] \in AttemptStates
        BY <2>2, Reports DEF Results
      <3>. QED
        BY <1>2, <2>2, <3>1 DEF WriteTypeOK
    <2>. QED
      BY <2>1, <2>2 DEF SvnCommits
  <1>4. attempt'[n] = next /\ \A m \in WriteAttempts \ {n} : attempt'[m] = attempt[m]
    BY <1>2, <1>3 DEF WriteTypeOK
  <1>5. WriteTypeOK'
    BY <1>1, <1>2, <1>3 DEF WriteTypeOK, AttemptStates
  <1>6. AttemptsKept'
    <2>1. n <= owner /\ \A m \in WriteAttempts : m # n => (m \in requests' <=> m \in requests)
      BY <1>1, <1>2, <1>3 DEF AttemptsKept, WriteTypeOK, WriteAttempts
    <2>. QED
      BY <1>1, <1>2, <1>3, <1>4, <2>1 DEF AttemptsKept, WriteAttempts, WriteTypeOK
  <1>7. TargetKnows'
    BY <1>1, <1>2 DEF TargetKnows
  <1>8. ReportIsTrue'
    <2>1. \A m \in WriteAttempts : attempt'[m].result \notin {"NOT_SENT", "ROLLED_BACK"}
      BY <1>1, <1>2, <1>3, <1>4 DEF AttemptsKept
    <2>. QED
      BY <1>0, <1>1, <2>1 DEF ReportIsTrue
  <1>. QED
    BY <1>1, <1>5, <1>6, <1>7, <1>8 DEF WritesKept

\* An attempt dies, or gives up waiting; its request may still arrive.
LEMMA EndsKeep ==
  ASSUME WritesKept, NEW n \in WriteAttempts, AttemptDies(n) \/ NoAnswer(n)
  PROVE  WritesKept'
  <1>1. /\ UNCHANGED <<provider, authority, owner, remoteSide, requests>>
        /\ attempt[n].pc # "idle"
        /\ Report(n, "none") \/ Report(n, "UNCONFIRMED") \/ Report(n, "RETRY")
    BY DEF AttemptDies, NoAnswer, Step, Unanswered
  <1>. QED
    BY <1>1, ReportKeeps DEF Results

\* The next attempt starts idle.
LEMMA ClaimKeeps ==
  ASSUME WritesKept, ClaimAttempt
  PROVE  WritesKept'
  <1>. DEFINE n == owner + 1
  <1>1. WriteTypeOK /\ AttemptsKept /\ TargetKnows /\ ReportIsTrue
    BY DEF WritesKept
  <1>2. /\ n \in WriteAttempts /\ owner' = n /\ owner \in Nat /\ n > owner
        /\ UNCHANGED <<provider, authority, requests, target, proof, applied, overwritten,
                       outside, answer>>
        /\ attempt' = [attempt EXCEPT ![n].pc = "claimed"]
    BY <1>1, WriteAssumption DEF ClaimAttempt, WriteTypeOK, WriteAttempts, remoteSide
  <1>3. attempt[n].pc = "idle" /\ attempt[n].result = "none" /\ n \notin requests
    BY <1>1, <1>2 DEF AttemptsKept
  <1>4. attempt \in [WriteAttempts -> AttemptStates]
    BY <1>1 DEF WriteTypeOK, AttemptStates
  <1>. HIDE DEF n
  <1>5. /\ attempt' \in [WriteAttempts -> AttemptStates]
        /\ attempt'[n].pc = "claimed" /\ attempt'[n].result = "none"
        /\ \A m \in WriteAttempts \ {n} : attempt'[m] = attempt[m]
    BY <1>2, <1>3, <1>4 DEF AttemptStates
  <1>6. WriteTypeOK'
    <2>1. owner' \in 0..MaxWriteAttempts
      BY <1>2, WriteAssumption DEF WriteAttempts
    <2>. QED
      BY <1>1, <1>2, <1>5, <2>1 DEF WriteTypeOK, AttemptStates
  <1>7. AttemptsKept'
    <2>1. \A m \in WriteAttempts : m \in Nat /\ (m > owner' => m > owner /\ m # n)
      BY <1>2 DEF WriteAttempts
    <2>. QED
      BY <1>1, <1>2, <1>3, <1>5, <2>1 DEF AttemptsKept
  <1>8. ASSUME provider \in SingleShot
        PROVE  SentOnce'
    <2>1. SentOnce
      BY <1>8 DEF WritesKept
    <2>. QED
      BY <1>2, <1>3, <1>5, <2>1 DEF SentOnce
  <1>9. TargetKnows'
    BY <1>1, <1>2 DEF TargetKnows
  <1>10. ReportIsTrue'
    BY <1>1, <1>2, <1>5 DEF ReportIsTrue
  <1>. QED
    BY <1>2, <1>6, <1>7, <1>8, <1>9, <1>10 DEF WritesKept

\* Others change the target, or authority is withdrawn.
LEMMA SurroundingsKeep ==
  ASSUME WritesKept, Withdraw \/ OthersWrite
  PROVE  WritesKept'
  <1>1. WriteTypeOK /\ AttemptsKept /\ TargetKnows /\ ReportIsTrue
    BY DEF WritesKept
  <1>2. UNCHANGED <<provider, proof, applied, overwritten, owner, attempt, requests, answer>>
    BY DEF Withdraw, OthersWrite, remoteSide
  <1>3. /\ authority' \in BOOLEAN
        /\ target' \in {"absent", "copied", "base", "ours", "same", "other"}
        /\ outside' \in 0..MaxOutside
        /\ target' = target \/ (target' \in Elsewhere)
    <2>1. CASE Withdraw
      BY <1>1, <2>1 DEF Withdraw, remoteSide, WriteTypeOK
    <2>2. CASE OthersWrite
      <3>1. outside' \in 0..MaxOutside
        BY <1>1, <2>2, WriteAssumption DEF OthersWrite, WriteTypeOK
      <3>2. target' \in Elsewhere /\ authority' = authority
        BY <2>2 DEF OthersWrite
      <3>3. Elsewhere \subseteq {"absent", "base", "same", "other"}
        BY DEF Elsewhere
      <3>. QED
        BY <1>1, <3>1, <3>2, <3>3 DEF WriteTypeOK
    <2>. QED
      BY <2>1, <2>2
  <1>4. /\ provider \in {"http", "sql"} => Elsewhere = {}
        /\ provider \in Git => "ours" \notin Elsewhere
    BY DEF Elsewhere, OnBranch, Git
  <1>5. WriteTypeOK'
    BY <1>1, <1>2, <1>3 DEF WriteTypeOK
  <1>6. TargetKnows'
    BY <1>1, <1>2, <1>3, <1>4 DEF TargetKnows
  <1>7. AttemptsKept' /\ ReportIsTrue' /\ (provider' \in SingleShot => SentOnce')
    BY <1>1, <1>2 DEF WritesKept, AttemptsKept, ReportIsTrue, SentOnce
  <1>. QED
    BY <1>5, <1>6, <1>7 DEF WritesKept

\* The target system carries out or refuses one request.
LEMMA HandledKeeps ==
  ASSUME WritesKept, NEW n \in WriteAttempts, RemoteHandles(n)
  PROVE  WritesKept'
  <1>1. WriteTypeOK /\ AttemptsKept /\ TargetKnows /\ ReportIsTrue
    BY DEF WritesKept
  <1>2. /\ n \in requests /\ requests' = requests \ {n}
        /\ UNCHANGED <<provider, outside, authority, owner, attempt>>
    BY DEF RemoteHandles
  <1>3. /\ attempt[n].pc \in {"sent", "copying", "done"}
        /\ provider \in SingleShot => n = 1 /\ applied = 0
        /\ applied \in Nat
    BY <1>1, <1>2 DEF AttemptsKept, WritesKept, SentOnce, WriteTypeOK
  <1>. DEFINE Wrote ==
                /\ applied' = applied + 1 /\ proof' /\ proof' \in BOOLEAN
                /\ overwritten' = (overwritten \/ target \in {"other", "same"})
                /\ answer' = [answer EXCEPT ![n] = "ok"]
                /\ target' = target \/ target' = "ours"
                /\ provider \in {"http", "sql"} => target' = target
                /\ provider \in {"database", "redmine"} => ~proof
                /\ provider \notin Svn \cup {"http", "sql"} =>
                     target \in {"absent", "base"} /\ target' = "ours"
              Answered ==
                /\ UNCHANGED <<proof, applied, overwritten>>
                /\ \E a \in {"ok", "copied", "refused", "revoked"} :
                     /\ answer' = [answer EXCEPT ![n] = a]
                     /\ a = "ok" => provider \notin {"http", "sql"}
                                    /\ (provider = "database" => proof)
                /\ \/ target' = target
                   \/ target' = "copied" /\ provider = "svn_branch"
  <1>4. Wrote \/ Answered
    <2>1. CASE PushHandled(n)
      BY <2>1 DEF PushHandled, Performs, Replies, Expected, OnBranch, Git, Svn
    <2>2. CASE CopyHandled(n)
      BY <2>2 DEF CopyHandled, Replies
    <2>3. CASE CommitHandled(n)
      BY <2>3 DEF CommitHandled, Performs, Replies, Svn
    <2>4. CASE IssueHandled(n)
      BY <1>1, <2>4 DEF IssueHandled, Performs, Replies, Svn, WriteTypeOK
    <2>5. CASE PlainHandled(n)
      BY <2>5 DEF PlainHandled, Performs, Replies, Svn
    <2>6. CASE TransactionHandled(n)
      BY <1>1, <2>6 DEF TransactionHandled, Performs, Replies, Expected, OnBranch, Svn, WriteTypeOK
    <2>. QED
      BY <2>1, <2>2, <2>3, <2>4, <2>5, <2>6 DEF RemoteHandles
  <1>. HIDE DEF Wrote, Answered
  <1>5. WriteTypeOK'
    <2>1. CASE Wrote
      BY <1>1, <1>2, <2>1 DEF Wrote, WriteTypeOK
    <2>2. CASE Answered
      BY <1>1, <1>2, <2>2 DEF Answered, WriteTypeOK
    <2>. QED
      BY <1>4, <2>1, <2>2
  <1>6. AttemptsKept'
    BY <1>1, <1>2 DEF AttemptsKept
  <1>7. ASSUME provider \in SingleShot
        PROVE  SentOnce'
    <2>1. SentOnce /\ n = 1 /\ applied = 0
      BY <1>3, <1>7 DEF WritesKept
    <2>2. applied' <= 1
      BY <1>4, <2>1 DEF Wrote, Answered
    <2>3. 1 \notin requests' /\ attempt'[1].pc \notin {"idle", "claimed", "ready", "open"}
      BY <1>2, <1>3, <2>1
    <2>. QED
      BY <1>2, <2>1, <2>2, <2>3 DEF SentOnce
  <1>8. TargetKnows'
    <2>1. CASE Wrote
      <3>1. applied' > 0 /\ proof' /\ provider' = provider
        BY <1>2, <1>3, <2>1 DEF Wrote
      <3>2. provider \in {"database", "redmine"} => applied' <= 1
        BY <1>1, <1>3, <2>1 DEF Wrote, TargetKnows
      <3>3. provider \notin Svn => ~overwritten'
        BY <1>1, <2>1 DEF Wrote, TargetKnows
      <3>4. provider \in {"http", "sql"} => target' = "base"
        BY <1>1, <2>1 DEF Wrote, TargetKnows
      <3>. QED
        BY <3>1, <3>2, <3>3, <3>4 DEF TargetKnows
    <2>2. CASE Answered
      <3>1. provider \in {"http", "sql"} \cup Git => target' = target
        BY <2>2 DEF Answered, Git
      <3>2. provider \in {"http", "sql", "database"} =>
              \A m \in WriteAttempts : answer'[m] = "ok" => applied > 0
        BY <1>1, <2>2 DEF Answered, TargetKnows, WriteTypeOK
      <3>. QED
        BY <1>1, <1>2, <2>2, <3>1, <3>2 DEF Answered, TargetKnows
    <2>. QED
      BY <1>4, <2>1, <2>2
  <1>9. ReportIsTrue'
    <2>1. applied > 0 => applied' > 0
      BY <1>3, <1>4 DEF Wrote, Answered
    <2>2. \A m \in WriteAttempts : attempt[m].result \notin {"NOT_SENT", "ROLLED_BACK"}
      BY <1>1, <1>2 DEF ReportIsTrue
    <2>. QED
      BY <1>1, <1>2, <2>1, <2>2 DEF ReportIsTrue
  <1>. QED
    BY <1>2, <1>5, <1>6, <1>7, <1>8, <1>9 DEF WritesKept


-----------------------------------------------------------------------------
\* A new effect has sent nothing.
LEMMA WritesInitial == WriteInit => WritesKept
  <1>. SUFFICES ASSUME WriteInit
                PROVE  WritesKept
    OBVIOUS
  <1>1. /\ provider \in AllProviders /\ target = Expected
        /\ proof = FALSE /\ applied = 0 /\ overwritten = FALSE /\ outside = 0
        /\ authority = TRUE /\ owner = 0 /\ requests = {}
        /\ attempt = [n \in WriteAttempts |-> Idle]
        /\ answer = [n \in WriteAttempts |-> "none"]
    BY WriteAssumption DEF WriteInit
  <1>2. \A n \in WriteAttempts :
          attempt[n].pc = "idle" /\ attempt[n].result = "none" /\ answer[n] = "none"
    BY <1>1 DEF Idle
  <1>3. WriteTypeOK
    <2>1. Idle \in AttemptStates
      BY DEF Idle, AttemptStates, Results
    <2>2. /\ attempt \in [WriteAttempts -> AttemptStates]
          /\ answer \in [WriteAttempts -> {"none", "ok", "copied", "refused", "revoked"}]
      BY <1>1, <2>1
    <2>3. applied \in Nat /\ outside \in 0..MaxOutside /\ owner \in 0..MaxWriteAttempts
      BY <1>1, WriteAssumption
    <2>. QED
      BY <1>1, <2>2, <2>3 DEF WriteTypeOK, AttemptStates, Expected
  <1>4. AttemptsKept /\ SentOnce /\ ReportIsTrue
    BY <1>1, <1>2 DEF AttemptsKept, SentOnce, ReportIsTrue
  <1>5. TargetKnows
    BY <1>1, <1>2 DEF TargetKnows, Expected, OnBranch, Git, Svn
  <1>. QED
    BY <1>3, <1>4, <1>5 DEF WritesKept

\* Every step keeps the invariant.
LEMMA WritesNextKeep ==
  ASSUME WritesKept, WriteNext \/ UNCHANGED writeVars
  PROVE  WritesKept'
  <1>1. CASE UNCHANGED writeVars
    BY <1>1 DEF WritesKept, WriteTypeOK, AttemptsKept, SentOnce, TargetKnows, ReportIsTrue,
                writeVars
  <1>2. CASE ClaimAttempt
    BY <1>2, ClaimKeeps
  <1>3. CASE Withdraw \/ OthersWrite
    BY <1>3, SurroundingsKeep
  <1>4. ASSUME NEW n \in WriteAttempts,
               AttemptDies(n) \/ NoAnswer(n) \/ RemoteHandles(n)
        PROVE  WritesKept'
    BY <1>4, EndsKeep, HandledKeeps
  <1>5. ASSUME NEW n \in WriteAttempts,
               \/ GitLooks(n) \/ GitPushes(n) \/ GitVerifies(n)
               \/ HttpRequests(n) \/ HttpAnswered(n)
        PROVE  WritesKept'
    BY <1>5, GitKeeps, HttpKeeps
  <1>6. ASSUME NEW n \in WriteAttempts,
               SqlExecutes(n) \/ SqlCommits(n) \/ SqlCommitted(n) \/ SvnCommits(n)
        PROVE  WritesKept'
    BY <1>6, SqlKeeps, SvnCommitsKeeps
  <1>7. ASSUME NEW n \in WriteAttempts,
               \/ SvnLooks(n) \/ SvnVerifies(n)
               \/ DatabaseApplies(n) \/ DatabaseAnswered(n)
               \/ RedmineReads(n) \/ RedmineReadsBack(n)
        PROVE  WritesKept'
    BY <1>7, OthersKeep
  <1>. QED
    BY <1>1, <1>2, <1>3, <1>4, <1>5, <1>6, <1>7 DEF WriteNext

\* Whatever the provider, however many attempts and whenever their requests are
\* carried out: what may still be sent, what is on its way and what the target
\* system knows stay in step (the execute methods of effects/).
THEOREM WritesInductive == WriteSpec => []WritesKept
  <1>1. WriteInit => WritesKept
    BY WritesInitial
  <1>2. WritesKept /\ [WriteNext]_writeVars => WritesKept'
    BY WritesNextKeep
  <1>. QED
    BY <1>1, <1>2, PTL DEF WriteSpec

\* An approved write is carried out at most once, never on top of what somebody
\* else wrote (Subversion apart), and reported as what happened: success only
\* if it was written, "rolled back" only if it never was and never will be
\* (Git's push guard, HTTP's and SQL's attempt_no, the receipts and keys).
THEOREM WritesStayTrue == WriteSpec => []WritesAreTrue
  <1>1. WritesKept => WritesAreTrue
    <2>. SUFFICES ASSUME WritesKept
                  PROVE  WritesAreTrue
      OBVIOUS
    <2>1. ReportIsTrue /\ TargetKnows /\ provider \in AllProviders
      BY DEF WritesKept, WriteTypeOK
    <2>2. provider \in SingleShot => applied <= 1
      BY DEF WritesKept, SentOnce
    <2>3. provider \in SingleShot \cup Svn \cup {"database", "redmine"}
      BY <2>1 DEF AllProviders, SingleShot, Git, Svn
    <2>4. WrittenAtMostOnce
      BY <2>1, <2>2, <2>3 DEF WrittenAtMostOnce, TargetKnows
    <2>. QED
      BY <2>1, <2>4 DEF WritesAreTrue
  <1>. QED
    BY <1>1, WritesInductive, PTL

-----------------------------------------------------------------------------
(* Desktop calls and lookups (EffectReconciliation), for any sets of Runs,    *)
(* calls and requests and any number of attempts.                            *)
(*                                                                         *)
(* The row of the desktop names one call, while the calls under way are at   *)
(* the service. The invariant ties them: a call under way is the one the row *)
(* names, or the one which that call cancels. It survives because a call     *)
(* holds the row from the moment it may be sent until it has an outcome      *)
(* (Holds), because the calls of a Run take turns (OneBusy), and because a   *)
(* call that is seen has ended what it cancels (Covered).                    *)
(*                                                                         *)
(* The code lets a cancellation name another cancellation as the call it      *)
(* cancels (require_original_effect asks only for a call of the same Run).    *)
(* The row then no longer covers the call that was cancelled first: it is     *)
(* Forsaken, and Covered speaks of the others only.                           *)

Callers ==
  [at : {"idle", "acquire", "probe", "release", "lock", "call", "read_back", "confirm"},
   attempt : Nat, outcome : {"none", "RETRY", "UNKNOWN", "NOT_SENT", "APPLIED"},
   owner : DesktopRuns \cup {NoDesktopRun}, pending : Calls \cup {NoCallEffect}]
Desktops == [run : DesktopRuns \cup {NoDesktopRun}, pending : Calls \cup {NoCallEffect}]

CallsTyped ==
  /\ desktop \in Desktops
  /\ over \subseteq DesktopRuns
  /\ mcpCaller \in [Calls -> Callers]
  /\ operation \in [Calls -> {"none", "sent", "acting", "visible"}]

\* Being executed, or waiting to be executed again.
Busy(e) == ~CallerAt(e, "idle") \/ mcpCaller[e].outcome = "RETRY"
OneBusy == \A e, d \in Calls : Busy(e) /\ Busy(d) /\ RunOf[e] = RunOf[d] => e = d

\* The desktop is this call's: nobody else may take it or set it free.
Holds(e) == \/ mcpCaller[e].at \in {"call", "read_back", "confirm"}
            \/ Busy(e) /\ operation[e] # "none"
Unsent(e) ==
  \/ mcpCaller[e].attempt = 0
  \/ /\ mcpCaller[e].attempt = 1
     /\ mcpCaller[e].at \in {"acquire", "probe", "release", "lock", "call"}

\* The row of one executor agrees with the desktop and with the service.
CallKept(e) ==
  /\ ~CallerAt(e, "idle") => mcpCaller[e].outcome = "none"
  /\ CallerAt(e, "idle") /\ mcpCaller[e].outcome = "none" => mcpCaller[e].attempt = 0
  /\ Busy(e) => /\ RunOf[e] \notin over /\ mcpCaller[e].attempt # 0
                /\ Cancels[e] # NoCallEffect => RunOf[Cancels[e]] = RunOf[e]
  /\ Holds(e) => desktop = [run |-> RunOf[e], pending |-> e]
  /\ Unsent(e) => operation[e] = "none"
  /\ CallerAt(e, "call") => mcpCaller[e].attempt = 1
  /\ CallerAt(e, "confirm") => operation[e] = "visible"
  /\ CallerAt(e, "probe") => mcpCaller[e].pending \in Calls
  /\ CallerAt(e, "release") => mcpCaller[e].pending \in Calls /\ Ended(mcpCaller[e].pending)

\* What is under way is covered by the row, and the row may be set free once its call
\* is seen, unless a second cancellation took the row over.
Covered ==
  /\ \A e \in Calls : UnderWay(e) /\ ~Forsaken(e) =>
       desktop.pending = e \/ (desktop.pending \in Calls /\ Cancels[desktop.pending] = e)
  /\ desktop.pending \in Calls /\ operation[desktop.pending] = "visible" =>
       \A e \in Calls : ~Forsaken(e) => ~UnderWay(e)

DesktopKept == CallsTyped /\ OneBusy /\ (\A e \in Calls : CallKept(e)) /\ Covered

USE DesktopAssumption
USE DEF CallerAt, UnderWay
-----------------------------------------------------------------------------
\* No two unrelated calls are under way as long as the row covers what is.
LEMMA CoveredIsOne ==
  ASSUME DesktopKept
  PROVE  OneCallOnDesktop
  BY DEF DesktopKept, Covered, OneCallOnDesktop

\* A call that was forsaken stays so: attempts are counted upwards.
LEMMA ForsakenStays ==
  ASSUME NEW x \in Calls, Forsaken(x),
         \A d \in Calls : mcpCaller[d].attempt # 0 => mcpCaller'[d].attempt # 0
  PROVE  Forsaken(x)'
  BY DEF Forsaken

\* The row covers as before when only executors move.
LEMMA CoveredStays ==
  ASSUME Covered, UNCHANGED <<desktop, operation>>,
         \A d \in Calls : mcpCaller[d].attempt # 0 => mcpCaller'[d].attempt # 0
  PROVE  Covered'
  <1>1. \A x \in Calls : Forsaken(x) => Forsaken(x)'
    BY ForsakenStays
  <1>. QED
    BY <1>1 DEF Covered

\* A call that holds the row keeps others off it: of its Run no other is busy, and
\* only a call of its Run may cancel it.
LEMMA HolderIsLeftAlone ==
  ASSUME DesktopKept, NEW e \in Calls, NEW d \in Calls, e # d, Busy(e), Holds(d)
  PROVE  /\ desktop.pending = d /\ Blocks(e, desktop.pending)
         /\ desktop.run = RunOf[d] /\ RunOf[d] \notin over /\ RunOf[d] # RunOf[e]
         /\ mcpCaller[d].outcome # "UNKNOWN"
  <1>1. Busy(d)
    BY DEF Holds, Busy
  <1>2. /\ desktop = [run |-> RunOf[d], pending |-> d] /\ RunOf[d] \notin over
        /\ mcpCaller[d].outcome \in {"none", "RETRY"}
        /\ Cancels[e] # NoCallEffect => RunOf[Cancels[e]] = RunOf[e]
    BY <1>1 DEF DesktopKept, CallKept, Busy
  <1>3. RunOf[d] # RunOf[e]
    BY <1>1 DEF DesktopKept, OneBusy
  <1>. QED
    BY <1>2, <1>3 DEF Blocks

\* One executor takes a step that leaves the service alone: what remains to be seen
\* is its own row and the row of the desktop.
LEMMA OneCallMoves ==
  ASSUME DesktopKept, NEW e \in Calls, Busy(e),
         desktop' \in Desktops, mcpCaller' \in [Calls -> Callers],
         UNCHANGED <<over, operation>>,
         \A d \in Calls : d # e => mcpCaller'[d] = mcpCaller[d],
         \A d \in Calls : d # e /\ Holds(d) => desktop' = desktop,
         CallKept(e)', Covered'
  PROVE  DesktopKept'
  <1>1. CallsTyped'
    BY DEF DesktopKept, CallsTyped
  <1>2. OneBusy'
    BY DEF DesktopKept, OneBusy, Busy
  <1>3. ASSUME NEW d \in Calls, d # e
        PROVE  CallKept(d)'
    <2>1. mcpCaller'[d] = mcpCaller[d] /\ CallKept(d)
      BY <1>3 DEF DesktopKept
    <2>2. Holds(d)' => Holds(d)
      BY <2>1 DEF Holds, Busy
    <2>3. CallerAt(d, "release") => mcpCaller[d].pending # e
      <3>1. mcpCaller[e].outcome # "UNKNOWN"
        BY DEF DesktopKept, CallKept, Busy
      <3>. QED
        BY <2>1, <3>1 DEF CallKept, Ended
    <2>. QED
      BY <1>3, <2>1, <2>2, <2>3 DEF CallKept, Busy, Unsent, Ended
  <1>. QED
    BY <1>1, <1>2, <1>3 DEF DesktopKept

\* A step of one executor that writes no row of the desktop either.
LEMMA OnlyTheCallerMoves ==
  ASSUME DesktopKept, NEW e \in Calls, Busy(e),
         mcpCaller' \in [Calls -> Callers],
         UNCHANGED <<desktop, over, operation>>,
         \A d \in Calls : d # e => mcpCaller'[d] = mcpCaller[d],
         mcpCaller'[e].attempt = mcpCaller[e].attempt,
         CallKept(e)'
  PROVE  DesktopKept'
  <1>1. desktop' \in Desktops
    BY DEF DesktopKept, CallsTyped
  <1>2. Covered'
    BY CoveredStays DEF DesktopKept
  <1>. QED
    BY <1>1, <1>2, OneCallMoves

-----------------------------------------------------------------------------
(* The executor, step by step.                                              *)

\* Reading the lease row and asking the service write nothing: an answer "ended"
\* is only given for a call that ended unknown and that the service shows.
LEMMA ProbeKeeps ==
  ASSUME DesktopKept, NEW e \in Calls, ProbeReads(e) \/ ProbeAnswers(e)
  PROVE  DesktopKept'
  <1>1. Busy(e) /\ UNCHANGED <<desktop, over, operation>>
    BY DEF ProbeReads, ProbeAnswers, Busy
  <1>2. /\ mcpCaller' \in [Calls -> Callers]
        /\ \A d \in Calls : d # e => mcpCaller'[d] = mcpCaller[d]
        /\ mcpCaller'[e].attempt = mcpCaller[e].attempt
    BY DEF ProbeReads, ProbeAnswers, CallerGoes, DesktopKept, CallsTyped, Callers, Desktops
  <1>3. CallKept(e) /\ mcpCaller[e] \in Callers /\ desktop \in Desktops
    BY DEF DesktopKept, CallsTyped
  <1>4. CallKept(e)'
    <2>1. CASE ProbeReads(e)
      <3>1. mcpCaller'[e] = [mcpCaller[e] EXCEPT !.at = "probe", !.owner = desktop.run,
                                                 !.pending = desktop.pending]
        BY <2>1 DEF ProbeReads, DesktopKept, CallsTyped, Callers
      <3>2. desktop.pending \in Calls /\ mcpCaller[e].at = "acquire"
        BY <1>3, <2>1 DEF ProbeReads, Blocks, Desktops
      <3>. QED
        BY <1>1, <1>3, <3>1, <3>2 DEF CallKept, Busy, Holds, Unsent, Callers
    <2>2. CASE ProbeAnswers(e)
      <3>1. PICK s \in {"release", "lock"} :
              /\ mcpCaller'[e] = [mcpCaller[e] EXCEPT !.at = s]
              /\ s = "release" => Ended(mcpCaller[e].pending)
        BY <2>2 DEF ProbeAnswers, CallerGoes, DesktopKept, CallsTyped
      <3>2. mcpCaller[e].at = "probe" /\ mcpCaller[e].pending \in Calls
        BY <1>3, <2>2 DEF ProbeAnswers, CallKept
      <3>3. s = "release" => Ended(mcpCaller[e].pending)'
        <4>1. ASSUME s = "release"
              PROVE  mcpCaller[e].pending # e
          BY <1>3, <3>1, <3>2, <4>1 DEF Ended, CallKept
        <4>. QED
          BY <1>1, <1>2, <3>1, <3>2, <4>1 DEF Ended, Callers
      <3>. QED
        BY <1>1, <1>3, <3>1, <3>2, <3>3 DEF CallKept, Busy, Holds, Unsent, Callers
    <2>. QED
      BY <2>1, <2>2
  <1>. QED
    BY <1>1, <1>2, <1>4, OnlyTheCallerMoves

\* What the end of an executor does to the rows.
LEMMA CallerEndsEffect ==
  ASSUME DesktopKept, NEW e \in Calls,
         NEW o \in {"RETRY", "UNKNOWN", "NOT_SENT", "APPLIED"}, CallerEnds(e, o)
  PROVE  /\ mcpCaller' \in [Calls -> Callers]
         /\ \A d \in Calls : d # e => mcpCaller'[d] = mcpCaller[d]
         /\ mcpCaller'[e].at = "idle" /\ mcpCaller'[e].outcome = o
         /\ mcpCaller'[e].attempt = mcpCaller[e].attempt
  <1> DEFINE row == [mcpCaller[e] EXCEPT !.at = "idle", !.outcome = o,
                                         !.owner = NoDesktopRun, !.pending = NoCallEffect]
  <1>1. mcpCaller \in [Calls -> Callers]
    BY DEF DesktopKept, CallsTyped
  <1>2. mcpCaller' = [mcpCaller EXCEPT ![e] = row]
    BY DEF CallerEnds
  <1>3. /\ row \in Callers /\ row.at = "idle" /\ row.outcome = o
        /\ row.attempt = mcpCaller[e].attempt
    BY <1>1, ZenonT(60) DEF Callers
  <1>. HIDE DEF row
  <1>. QED
    BY <1>1, <1>2, <1>3

\* What a step to another stage does to the rows.
LEMMA CallerGoesEffect ==
  ASSUME DesktopKept, NEW e \in Calls,
         NEW s \in {"release", "lock", "call", "read_back", "confirm"}, CallerGoes(e, s)
  PROVE  /\ mcpCaller' \in [Calls -> Callers]
         /\ \A d \in Calls : d # e => mcpCaller'[d] = mcpCaller[d]
         /\ mcpCaller'[e].at = s /\ mcpCaller'[e].outcome = mcpCaller[e].outcome
         /\ mcpCaller'[e].attempt = mcpCaller[e].attempt
         /\ mcpCaller'[e].pending = mcpCaller[e].pending
  <1> DEFINE row == [mcpCaller[e] EXCEPT !.at = s]
  <1>1. mcpCaller \in [Calls -> Callers]
    BY DEF DesktopKept, CallsTyped
  <1>2. mcpCaller' = [mcpCaller EXCEPT ![e] = row]
    BY DEF CallerGoes
  <1>3. /\ row \in Callers /\ row.at = s /\ row.outcome = mcpCaller[e].outcome
        /\ row.attempt = mcpCaller[e].attempt /\ row.pending = mcpCaller[e].pending
    BY <1>1 DEF Callers
  <1>. HIDE DEF row
  <1>. QED
    BY <1>1, <1>2, <1>3

\* An executor that stops leaves its call to be tried again, or with an outcome;
\* the row of the desktop it may have set free, when its call was seen.
LEMMA CallerEndsKeeps ==
  ASSUME DesktopKept, NEW e \in Calls, Busy(e),
         NEW o \in {"RETRY", "UNKNOWN", "NOT_SENT", "APPLIED"},
         CallerEnds(e, o), UNCHANGED <<over, operation>>,
         desktop' \in Desktops, Covered',
         \A d \in Calls : d # e /\ Holds(d) => desktop' = desktop,
         o = "RETRY" /\ operation[e] # "none" => desktop' = desktop
  PROVE  DesktopKept'
  <1>1. /\ mcpCaller' \in [Calls -> Callers]
        /\ \A d \in Calls : d # e => mcpCaller'[d] = mcpCaller[d]
        /\ mcpCaller'[e].at = "idle" /\ mcpCaller'[e].outcome = o
        /\ mcpCaller'[e].attempt = mcpCaller[e].attempt
    BY CallerEndsEffect
  <1>2. CallKept(e)
    BY DEF DesktopKept
  <1>3. CallKept(e)'
    BY <1>1, <1>2 DEF CallKept, Busy, Holds, Unsent
  <1>. QED
    BY <1>1, <1>3, OneCallMoves

\* The worker dies, its attempts run out, or the second reading was not granted:
\* nothing but the outcome is written.
LEMMA StopKeeps ==
  ASSUME DesktopKept, NEW e \in Calls, Busy(e),
         NEW o \in {"RETRY", "UNKNOWN", "NOT_SENT", "APPLIED"},
         CallerEnds(e, o), UNCHANGED <<desktop, over, operation>>
  PROVE  DesktopKept'
  <1>1. desktop' \in Desktops
    BY DEF DesktopKept, CallsTyped
  <1>2. Covered'
    BY CallerEndsEffect, CoveredStays DEF DesktopKept
  <1>. QED
    BY <1>1, <1>2, CallerEndsKeeps

\* CallerDies and EffectExhausted.
LEMMA DeathKeeps ==
  ASSUME DesktopKept, NEW e \in Calls, CallerDies(e) \/ EffectExhausted(e)
  PROVE  DesktopKept'
  <1>1. Busy(e) /\ UNCHANGED <<desktop, over, operation>>
    BY DEF CallerDies, EffectExhausted, Busy
  <1>2. PICK o \in {"RETRY", "UNKNOWN"} : CallerEnds(e, o)
    BY DEF CallerDies, EffectExhausted
  <1>. QED
    BY <1>1, <1>2, StopKeeps

\* A reading matches only what the service shows.
LEMMA ReadBackKeeps ==
  ASSUME DesktopKept, NEW e \in Calls, ReadBack(e)
  PROVE  DesktopKept'
  <1>1. /\ Busy(e) /\ UNCHANGED <<desktop, over, operation>>
        /\ mcpCaller[e].at = "read_back"
    BY DEF ReadBack, Busy
  <1>2. CASE CallerEnds(e, "UNKNOWN")
    BY <1>1, <1>2, StopKeeps
  <1>3. CASE CallerEnds(e, Unconfirmed(e))
    BY <1>1, <1>3, StopKeeps DEF Unconfirmed
  <1>4. CASE ReadBackMatches(e) /\ CallerGoes(e, "confirm")
    <2>1. /\ mcpCaller' \in [Calls -> Callers]
          /\ \A d \in Calls : d # e => mcpCaller'[d] = mcpCaller[d]
          /\ mcpCaller'[e].at = "confirm" /\ mcpCaller'[e].outcome = mcpCaller[e].outcome
          /\ mcpCaller'[e].attempt = mcpCaller[e].attempt
      BY <1>4, CallerGoesEffect
    <2>2. CallKept(e) /\ operation[e] = "visible"
      BY <1>4 DEF DesktopKept, ReadBackMatches
    <2>3. CallKept(e)'
      BY <1>1, <2>1, <2>2 DEF CallKept, Busy, Holds, Unsent
    <2>. QED
      BY <1>1, <2>1, <2>3, OnlyTheCallerMoves
  <1>. QED
    BY <1>2, <1>3, <1>4 DEF ReadBack

\* The row is set free for the probed call alone, whose outcome is unknown and
\* which therefore holds nothing.
LEMMA ProbeReleasesKeeps ==
  ASSUME DesktopKept, NEW e \in Calls, ProbeReleases(e)
  PROVE  DesktopKept'
  <1> DEFINE p == mcpCaller[e].pending
  <1>1. /\ mcpCaller' \in [Calls -> Callers]
        /\ \A d \in Calls : d # e => mcpCaller'[d] = mcpCaller[d]
        /\ mcpCaller'[e].at = "lock" /\ mcpCaller'[e].outcome = mcpCaller[e].outcome
        /\ mcpCaller'[e].attempt = mcpCaller[e].attempt
    BY CallerGoesEffect DEF ProbeReleases
  <1>2. /\ mcpCaller[e].at = "release" /\ Busy(e) /\ UNCHANGED <<over, operation>>
        /\ \/ desktop' = desktop
           \/ desktop.pending = p /\ desktop' = [desktop EXCEPT !.pending = NoCallEffect]
    BY DEF ProbeReleases, Busy
  <1>3. CallKept(e) /\ desktop \in Desktops
    BY DEF DesktopKept, CallsTyped
  <1>4. p \in Calls /\ mcpCaller[p].outcome = "UNKNOWN" /\ operation[p] = "visible"
    BY <1>2, <1>3 DEF CallKept, Ended
  <1>5. desktop' \in Desktops
    BY <1>2, <1>3 DEF Desktops
  <1>6. Covered'
    <2>1. CASE desktop' = desktop
      BY <1>1, <1>2, <2>1, CoveredStays DEF DesktopKept
    <2>2. CASE desktop.pending = p /\ desktop' = [desktop EXCEPT !.pending = NoCallEffect]
      <3>1. \A d \in Calls : ~Forsaken(d) => ~UnderWay(d)
        BY <1>4, <2>2 DEF DesktopKept, Covered
      <3>2. desktop'.pending = NoCallEffect
        BY <1>3, <2>2 DEF Desktops
      <3>3. \A d \in Calls : Forsaken(d) => Forsaken(d)'
        BY <1>1, ForsakenStays
      <3>. QED
        BY <1>2, <3>1, <3>2, <3>3 DEF Covered
    <2>. QED
      BY <1>2, <2>1, <2>2
  <1>7. \A d \in Calls : d # e /\ Holds(d) => desktop' = desktop
    BY <1>2, <1>4, HolderIsLeftAlone
  <1>8. CallKept(e)'
    <2>1. Holds(e) => desktop' = desktop
      <3>1. Holds(e) => desktop.pending = e
        BY <1>3 DEF CallKept
      <3>2. mcpCaller[e].outcome # "UNKNOWN"
        BY <1>2, <1>3 DEF CallKept
      <3>. QED
        BY <1>2, <1>4, <3>1, <3>2
    <2>. QED
      BY <1>1, <1>2, <1>3, <2>1 DEF CallKept, Busy, Holds, Unsent
  <1>. HIDE DEF p
  <1>. QED
    BY <1>1, <1>2, <1>5, <1>6, <1>7, <1>8, OneCallMoves

\* A confirmed call has been seen, so nothing is under way when the row is set free.
LEMMA ConfirmKeeps ==
  ASSUME DesktopKept, NEW e \in Calls, ConfirmCall(e)
  PROVE  DesktopKept'
  <1>1. /\ mcpCaller[e].at = "confirm" /\ Busy(e) /\ UNCHANGED <<over, operation>>
        /\ operation[e] = "visible" /\ desktop = [run |-> RunOf[e], pending |-> e]
    BY DEF ConfirmCall, Busy, DesktopKept, CallKept, Holds
  <1>2. CallerEnds(e, "APPLIED") /\ desktop' = [desktop EXCEPT !.pending = NoCallEffect]
    BY <1>1 DEF ConfirmCall
  <1>3. desktop' \in Desktops /\ desktop'.pending = NoCallEffect
    BY <1>1, <1>2 DEF Desktops
  <1>4. Covered'
    <2>1. \A d \in Calls : Forsaken(d) => Forsaken(d)'
      BY <1>2, CallerEndsEffect, ForsakenStays
    <2>. QED
      BY <1>1, <1>3, <2>1 DEF DesktopKept, Covered
  <1>5. \A d \in Calls : d # e /\ Holds(d) => desktop' = desktop
    BY <1>1, HolderIsLeftAlone
  <1>. QED
    BY <1>1, <1>2, <1>3, <1>4, <1>5, CallerEndsKeeps

\* A call takes the row only from nobody, from itself, or from the call it cancels.
LEMMA TakenDesktop ==
  ASSUME DesktopKept, NEW e \in Calls, Busy(e),
         ~Blocks(e, desktop.pending),
         desktop' = [run |-> RunOf[e], pending |-> e], UNCHANGED operation,
         \A d \in Calls : mcpCaller[d].attempt # 0 => mcpCaller'[d].attempt # 0
  PROVE  /\ desktop' \in Desktops
         /\ Covered'
         /\ \A d \in Calls : d # e /\ Holds(d) => desktop' = desktop
  <1>1. desktop' \in Desktops /\ desktop'.pending = e
    BY DEF Desktops
  <1>2. desktop.pending \in {NoCallEffect, e, Cancels[e]}
    BY DEF Blocks
  <1>3. ASSUME NEW x \in Calls, UnderWay(x), ~Forsaken(x)
        PROVE  x = e \/ Cancels[e] = x
    <2>1. desktop.pending = x \/ (desktop.pending \in Calls /\ Cancels[desktop.pending] = x)
      BY <1>3 DEF DesktopKept, Covered
    <2>2. CASE desktop.pending = NoCallEffect
      BY <2>1, <2>2
    <2>3. CASE desktop.pending = e
      BY <2>1, <2>3
    <2>4. CASE desktop.pending = Cancels[e] /\ Cancels[e] # NoCallEffect
      <3>1. mcpCaller[e].attempt # 0
        BY DEF DesktopKept, CallKept
      <3>. QED
        BY <1>3, <2>1, <2>4, <3>1 DEF Forsaken
    <2>. QED
      BY <1>2, <2>2, <2>3, <2>4
  <1>4. ASSUME operation[e] = "visible"
        PROVE  \A x \in Calls : ~Forsaken(x) => ~UnderWay(x)
    <2>1. desktop.pending = e
      BY <1>4 DEF Holds, DesktopKept, CallKept
    <2>. QED
      BY <1>4, <2>1 DEF DesktopKept, Covered
  <1>5. Covered'
    <2>1. ASSUME NEW x \in Calls, ~Forsaken(x)'
          PROVE  ~Forsaken(x)
      BY <2>1, ForsakenStays
    <2>2. ASSUME NEW x \in Calls, UnderWay(x)', ~Forsaken(x)'
          PROVE  desktop'.pending = x \/ (desktop'.pending \in Calls /\ Cancels[desktop'.pending] = x)
      BY <1>1, <1>3, <2>1, <2>2
    <2>3. ASSUME operation'[desktop'.pending] = "visible", NEW x \in Calls, ~Forsaken(x)'
          PROVE  ~UnderWay(x)'
      BY <1>1, <1>4, <2>1, <2>3
    <2>. QED
      BY <2>2, <2>3 DEF Covered
  <1>6. \A d \in Calls : d # e /\ Holds(d) => desktop' = desktop
    BY HolderIsLeftAlone
  <1>. QED
    BY <1>1, <1>5, <1>6

\* A first attempt goes on to call, a later one only to read back.
LEMMA AcquireKeeps ==
  ASSUME DesktopKept, NEW e \in Calls, AcquireDesktop(e)
  PROVE  DesktopKept'
  <1>1. /\ mcpCaller[e].at \in {"lock", "acquire"} /\ Busy(e)
        /\ UNCHANGED <<over, operation>>
    BY DEF AcquireDesktop, Busy
  <1>2. CallKept(e) /\ mcpCaller[e].attempt \in Nat
    BY DEF DesktopKept, CallsTyped, Callers
  <1>3. CASE MayHold(RunOf[e]) /\ ~Blocks(e, desktop.pending)
    <2>1. desktop' = [run |-> RunOf[e], pending |-> e] /\ desktop'.pending = e
      BY <1>3 DEF AcquireDesktop
    <2>2. /\ desktop' \in Desktops /\ Covered'
          /\ \A d \in Calls : d # e /\ Holds(d) => desktop' = desktop
      <3>1. \A d \in Calls : mcpCaller'[d].attempt = mcpCaller[d].attempt
        BY <1>3, CallerEndsEffect, CallerGoesEffect DEF AcquireDesktop
      <3>. QED
        BY <1>1, <1>3, <2>1, <3>1, TakenDesktop
    <2>3. CASE CallerEnds(e, "UNKNOWN")
      BY <1>1, <2>2, <2>3, CallerEndsKeeps
    <2>4. ASSUME NEW s \in {"call", "read_back"}, CallerGoes(e, s),
                 s = "call" <=> mcpCaller[e].attempt = 1
          PROVE  DesktopKept'
      <3>1. /\ mcpCaller' \in [Calls -> Callers]
            /\ \A d \in Calls : d # e => mcpCaller'[d] = mcpCaller[d]
            /\ mcpCaller'[e].at = s /\ mcpCaller'[e].outcome = mcpCaller[e].outcome
            /\ mcpCaller'[e].attempt = mcpCaller[e].attempt
        BY <2>4, CallerGoesEffect
      <3>2. CallKept(e)'
        BY <1>1, <1>2, <2>1, <2>4, <3>1 DEF CallKept, Busy, Holds, Unsent
      <3>. QED
        BY <1>1, <2>2, <3>1, <3>2, OneCallMoves
    <2>5. CASE mcpCaller[e].attempt = 1 /\ CallerGoes(e, "call")
      BY <2>4, <2>5
    <2>6. CASE mcpCaller[e].attempt > 1 /\ CallerGoes(e, "read_back")
      BY <1>2, <2>4, <2>6
    <2>. QED
      BY <1>3, <2>3, <2>5, <2>6 DEF AcquireDesktop
  <1>4. CASE ~(MayHold(RunOf[e]) /\ ~Blocks(e, desktop.pending))
    <2>1. PICK o \in {"NOT_SENT", "UNKNOWN"} : CallerEnds(e, o)
      BY <1>4 DEF AcquireDesktop
    <2>2. UNCHANGED desktop
      BY <1>4 DEF AcquireDesktop
    <2>. QED
      BY <1>1, <2>1, <2>2, StopKeeps
  <1>. QED
    BY <1>3, <1>4

\* A call begins once the others of its Run have ended, and nothing was sent for a
\* call that never had an attempt.
LEMMA BeginKeeps ==
  ASSUME DesktopKept, NEW e \in Calls, BeginCall(e)
  PROVE  DesktopKept'
  <1>1. CallsTyped /\ mcpCaller[e] \in Callers /\ mcpCaller \in [Calls -> Callers] /\ CallKept(e)
    BY DEF DesktopKept, CallsTyped
  <1>2. mcpCaller' = [mcpCaller EXCEPT ![e].at = "acquire", ![e].attempt = @ + 1,
                                       ![e].outcome = "none"]
    BY DEF BeginCall
  <1>3. mcpCaller[e].attempt \in Nat
    BY <1>1 DEF Callers
  <1>4. /\ mcpCaller' \in [Calls -> Callers]
        /\ \A d \in Calls : d # e => mcpCaller'[d] = mcpCaller[d]
        /\ mcpCaller'[e].at = "acquire" /\ mcpCaller'[e].outcome = "none"
        /\ mcpCaller'[e].attempt = mcpCaller[e].attempt + 1
    <2>1. \A d \in Calls : d # e => mcpCaller'[d] = mcpCaller[d]
      BY <1>1, <1>2
    <2>2. mcpCaller'[e].at = "acquire" /\ mcpCaller'[e].outcome = "none"
      BY <1>1, <1>2 DEF Callers
    <2>3. mcpCaller'[e].attempt = mcpCaller[e].attempt + 1
      BY <1>1, <1>2 DEF Callers
    <2>4. mcpCaller'[e] \in Callers
      BY <1>1, <1>2 DEF Callers
    <2>5. mcpCaller' = [d \in Calls |-> mcpCaller'[d]]
      BY <1>1, <1>2
    <2>. QED
      BY <1>1, <2>1, <2>2, <2>3, <2>4, <2>5
  <1>5. /\ mcpCaller[e].at = "idle" /\ mcpCaller[e].outcome \in {"none", "RETRY"}
        /\ RunOf[e] \notin over /\ RunFree(e)
        /\ Cancels[e] # NoCallEffect => RunOf[Cancels[e]] = RunOf[e]
        /\ UNCHANGED <<desktop, over, operation>>
    BY DEF BeginCall
  <1>6. CallsTyped' /\ Covered'
    <2>1. \A d \in Calls : mcpCaller[d].attempt # 0 => mcpCaller'[d].attempt # 0
      BY <1>3, <1>4
    <2>2. Covered'
      BY <1>5, <2>1, CoveredStays DEF DesktopKept
    <2>. QED
      BY <1>4, <1>5, <2>2 DEF DesktopKept, CallsTyped
  <1>7. OneBusy'
    <2>1. ASSUME NEW d \in Calls, d # e, RunOf[d] = RunOf[e]
          PROVE  ~Busy(d)'
      BY <1>4, <1>5, <2>1 DEF RunFree, Busy
    <2>2. ASSUME NEW c \in Calls, NEW d \in Calls, c # e, d # e, Busy(c)', Busy(d)',
                 RunOf[c] = RunOf[d]
          PROVE  c = d
      BY <1>4, <2>2 DEF DesktopKept, OneBusy, Busy
    <2>. QED
      BY <2>1, <2>2 DEF OneBusy
  <1>8. CallKept(e)'
    <2>1. operation[e] # "none" => mcpCaller[e].attempt # 0 /\ mcpCaller[e].outcome = "RETRY"
      BY <1>1, <1>5 DEF CallKept, Unsent
    <2>2. operation[e] # "none" => desktop = [run |-> RunOf[e], pending |-> e]
      BY <1>1, <2>1 DEF CallKept, Holds, Busy
    <2>3. Holds(e)' => operation[e] # "none"
      BY <1>4, <1>5 DEF Holds
    <2>4. Unsent(e)' => operation[e] = "none"
      BY <1>3, <1>4, <2>1 DEF Unsent
    <2>. QED
      BY <1>3, <1>4, <1>5, <2>2, <2>3, <2>4 DEF CallKept, Busy
  <1>9. ASSUME NEW d \in Calls, d # e
        PROVE  CallKept(d)'
    <2>1. mcpCaller'[d] = mcpCaller[d] /\ CallKept(d)
      BY <1>4, <1>9 DEF DesktopKept
    <2>2. CallerAt(d, "release") => mcpCaller[d].pending # e
      BY <1>5, <2>1 DEF CallKept, Ended
    <2>. QED
      BY <1>4, <1>5, <1>9, <2>1, <2>2 DEF CallKept, Busy, Holds, Unsent, Ended
  <1>. QED
    BY <1>6, <1>7, <1>8, <1>9 DEF DesktopKept

\* The call is sent by the one that holds the desktop, and for the first time.
LEMMA CallerSendKeeps ==
  ASSUME DesktopKept, NEW e \in Calls, CallTool(e)
  PROVE  DesktopKept'
  <1>1. /\ mcpCaller[e].at = "call" /\ Busy(e) /\ UNCHANGED <<desktop, over>>
    BY DEF CallTool, Busy
  <1>2. /\ CallKept(e) /\ operation \in [Calls -> {"none", "sent", "acting", "visible"}]
        /\ mcpCaller[e].attempt = 1
    BY <1>1 DEF DesktopKept, CallsTyped, CallKept
  <1>3. CASE CallerEnds(e, "UNKNOWN") /\ UNCHANGED operation
    BY <1>1, <1>3, StopKeeps
  <1>4. ASSUME operation' = [operation EXCEPT ![e] = "sent"],
               mcpCaller' \in [Calls -> Callers],
               \A d \in Calls : d # e => mcpCaller'[d] = mcpCaller[d],
               mcpCaller'[e].attempt = 1,
               \/ mcpCaller'[e].at = "read_back" /\ mcpCaller'[e].outcome = "none"
               \/ mcpCaller'[e].at = "idle" /\ mcpCaller'[e].outcome \in {"RETRY", "UNKNOWN"}
        PROVE  DesktopKept'
    <2>1. /\ operation'[e] = "sent"
          /\ \A d \in Calls : d # e => operation'[d] = operation[d]
          /\ operation' \in [Calls -> {"none", "sent", "acting", "visible"}]
      BY <1>2, <1>4
    <2>2. desktop = [run |-> RunOf[e], pending |-> e] /\ desktop.pending = e
      BY <1>1, <1>2 DEF CallKept, Holds
    <2>3. CallsTyped'
      BY <1>1, <1>4, <2>1 DEF DesktopKept, CallsTyped
    <2>4. OneBusy'
      BY <1>1, <1>4 DEF DesktopKept, OneBusy, Busy
    <2>5. Covered'
      <3>1. \A x \in Calls : Forsaken(x) => Forsaken(x)'
        BY <1>4, ForsakenStays
      <3>. QED
        BY <1>1, <2>1, <2>2, <3>1 DEF DesktopKept, Covered
    <2>6. CallKept(e)'
      BY <1>1, <1>2, <1>4, <2>1, <2>2 DEF CallKept, Busy, Holds, Unsent
    <2>7. ASSUME NEW d \in Calls, d # e
          PROVE  CallKept(d)'
      <3>1. /\ mcpCaller'[d] = mcpCaller[d] /\ CallKept(d)
            /\ operation'[d] = operation[d]
        BY <1>4, <2>1, <2>7 DEF DesktopKept
      <3>2. CallerAt(d, "release") => mcpCaller[d].pending # e
        BY <1>1, <1>2, <3>1 DEF CallKept, Ended
      <3>. QED
        BY <1>1, <1>4, <2>1, <2>7, <3>1, <3>2 DEF CallKept, Busy, Holds, Unsent, Ended
    <2>. QED
      BY <2>3, <2>4, <2>5, <2>6, <2>7 DEF DesktopKept
  <1>5. CASE operation' = [operation EXCEPT ![e] = "sent"] /\ CallerGoes(e, "read_back")
    <2>1. mcpCaller[e].outcome = "none"
      BY <1>1, <1>2 DEF CallKept
    <2>2. /\ mcpCaller' \in [Calls -> Callers]
          /\ \A d \in Calls : d # e => mcpCaller'[d] = mcpCaller[d]
          /\ mcpCaller'[e].at = "read_back" /\ mcpCaller'[e].outcome = mcpCaller[e].outcome
          /\ mcpCaller'[e].attempt = mcpCaller[e].attempt
      BY <1>5, CallerGoesEffect
    <2>. QED
      BY <1>2, <1>4, <1>5, <2>1, <2>2
  <1>6. CASE operation' = [operation EXCEPT ![e] = "sent"] /\ CallerEnds(e, Unconfirmed(e))
    <2>1. Unconfirmed(e) \in {"RETRY", "UNKNOWN"}
      BY DEF Unconfirmed
    <2>2. /\ mcpCaller' \in [Calls -> Callers]
          /\ \A d \in Calls : d # e => mcpCaller'[d] = mcpCaller[d]
          /\ mcpCaller'[e].at = "idle" /\ mcpCaller'[e].outcome \in {"RETRY", "UNKNOWN"}
          /\ mcpCaller'[e].attempt = mcpCaller[e].attempt
      BY <1>6, <2>1, CallerEndsEffect
    <2>. QED
      BY <1>2, <1>4, <1>6, <2>2
  <1>. QED
    BY <1>3, <1>5, <1>6 DEF CallTool


-----------------------------------------------------------------------------
(* The service, the Runs, and every step of the desktop.                    *)

\* A call that is seen has ended, and with it the one it cancels; a call that was
\* seen stays seen.
LEMMA ServiceKeeps ==
  ASSUME DesktopKept, NEW e \in Calls, ServiceActs(e)
  PROVE  DesktopKept'
  <1>1. /\ operation[e] \in {"sent", "acting"}
        /\ UNCHANGED <<desktop, over, mcpCaller>>
        /\ operation \in [Calls -> {"none", "sent", "acting", "visible"}]
    BY DEF ServiceActs, DesktopKept, CallsTyped
  <1>2. \A d \in Calls : /\ operation'[d] = "none" <=> operation[d] = "none"
                         /\ operation[d] = "visible" => operation'[d] = "visible"
                         /\ UnderWay(d)' => UnderWay(d)
    BY <1>1 DEF ServiceActs
  <1>3. operation' \in [Calls -> {"none", "sent", "acting", "visible"}]
    BY <1>1 DEF ServiceActs
  <1>4. CallsTyped' /\ OneBusy'
    BY <1>1, <1>3 DEF DesktopKept, CallsTyped, OneBusy, Busy
  <1>5. \A d \in Calls : CallKept(d)'
    BY <1>1, <1>2 DEF DesktopKept, CallKept, Busy, Holds, Unsent, Ended
  <1>6. Covered'
    <2>1. \A d \in Calls : Forsaken(d)' <=> Forsaken(d)
      BY <1>1 DEF Forsaken
    <2>2. ASSUME NEW d \in Calls, UnderWay(d)', ~Forsaken(d)
          PROVE  desktop'.pending = d \/ (desktop'.pending \in Calls /\ Cancels[desktop'.pending] = d)
      BY <1>1, <1>2, <2>2 DEF DesktopKept, Covered
    <2>3. ASSUME desktop.pending \in Calls, operation'[desktop.pending] = "visible",
                 NEW d \in Calls, UnderWay(d)', ~Forsaken(d)
          PROVE  FALSE
      <3> DEFINE p == desktop.pending
      <3>1. UnderWay(d)
        BY <1>2, <2>3
      <3>2. operation[p] # "visible"
        BY <2>3, <3>1 DEF DesktopKept, Covered
      <3>3. /\ operation[e] = "acting"
            /\ p = e \/ p = Cancels[e]
            /\ Cancels[e] \in Calls /\ operation[Cancels[e]] # "none"
                 => operation'[Cancels[e]] = "visible"
        BY <1>1, <2>3, <3>2 DEF ServiceActs
      <3>4. p = d \/ Cancels[p] = d
        BY <2>3, <3>1 DEF DesktopKept, Covered
      <3>5. mcpCaller[e].attempt # 0
        BY <3>3 DEF DesktopKept, CallKept, Unsent
      <3>6. p = e
        BY <2>3, <3>3, <3>4, <3>5 DEF Forsaken
      <3>. QED
        BY <2>3, <3>1, <3>3, <3>4, <3>6
    <2>. QED
      BY <1>1, <2>1, <2>2, <2>3 DEF Covered
  <1>. QED
    BY <1>4, <1>5, <1>6 DEF DesktopKept

\* A Run that only reads takes the desktop from nobody who has a call on it.
LEMMA ReserveKeeps ==
  ASSUME DesktopKept, NEW r \in DesktopRuns, ReserveDesktop(r)
  PROVE  DesktopKept'
  <1>1. /\ desktop \in Desktops /\ UNCHANGED <<over, mcpCaller, operation>>
        /\ desktop' = [desktop EXCEPT !.run = r] /\ r \notin over /\ MayHold(r)
    BY DEF ReserveDesktop, DesktopKept, CallsTyped
  <1>2. desktop' \in Desktops /\ desktop'.pending = desktop.pending
    BY <1>1 DEF Desktops
  <1>3. ASSUME NEW d \in Calls, Holds(d)
        PROVE  desktop' = desktop
    <2>1. Busy(d) /\ CallKept(d)
      BY <1>3 DEF Holds, Busy, DesktopKept
    <2>2. desktop = [run |-> RunOf[d], pending |-> d] /\ RunOf[d] \notin over
      BY <1>3, <2>1 DEF CallKept
    <2>3. r = RunOf[d]
      BY <1>1, <2>2 DEF MayHold
    <2>. QED
      BY <1>1, <2>2, <2>3
  <1>4. CallsTyped' /\ OneBusy'
    BY <1>1, <1>2 DEF DesktopKept, CallsTyped, OneBusy, Busy
  <1>5. Covered'
    BY <1>1, <1>2 DEF DesktopKept, Covered, Forsaken
  <1>6. \A d \in Calls : CallKept(d)'
    BY <1>1, <1>3 DEF DesktopKept, CallKept, Busy, Holds, Unsent, Ended
  <1>. QED
    BY <1>4, <1>5, <1>6 DEF DesktopKept

\* Freeing the desktop for a call that was seen leaves nothing uncovered.
LEMMA FreeingKeeps ==
  ASSUME DesktopKept, NEW p \in Calls,
         mcpCaller[p].outcome = "UNKNOWN", operation[p] = "visible", desktop.pending = p,
         desktop' = [desktop EXCEPT !.pending = NoCallEffect],
         UNCHANGED <<over, mcpCaller, operation>>
  PROVE  DesktopKept'
  <1>1. desktop' \in Desktops /\ desktop'.pending = NoCallEffect
    BY DEF DesktopKept, CallsTyped, Desktops
  <1>2. \A d \in Calls : ~Holds(d)
    <2>1. ASSUME NEW d \in Calls, Holds(d)
          PROVE  FALSE
      <3>1. Busy(d) /\ CallKept(d) /\ CallKept(p)
        BY <2>1 DEF Holds, Busy, DesktopKept
      <3>2. d = p
        BY <2>1, <3>1 DEF CallKept
      <3>. QED
        BY <3>1, <3>2 DEF CallKept, Busy
    <2>. QED
      BY <2>1
  <1>3. CallsTyped' /\ OneBusy'
    BY <1>1 DEF DesktopKept, CallsTyped, OneBusy, Busy
  <1>4. Covered'
    BY <1>1 DEF DesktopKept, Covered, Forsaken
  <1>5. \A d \in Calls : CallKept(d)'
    BY <1>2 DEF DesktopKept, CallKept, Busy, Holds, Unsent, Ended
  <1>. QED
    BY <1>3, <1>4, <1>5 DEF DesktopKept

\* Before it reads, a Run sets the row free of a call that ended unknown and that the
\* service shows: nobody is about to send it again.
LEMMA ReadProbeKeeps ==
  ASSUME DesktopKept, NEW r \in DesktopRuns, ProbeForReads(r)
  PROVE  DesktopKept'
  <1>1. desktop.pending \in Calls
    BY DEF ProbeForReads, DesktopKept, CallsTyped, Desktops
  <1>. QED
    BY <1>1, FreeingKeeps DEF ProbeForReads, Ended

\* A Run ends when none of its calls is being executed or waits for an attempt.
LEMMA RunOverKeeps ==
  ASSUME DesktopKept, NEW r \in DesktopRuns, RunOver(r)
  PROVE  DesktopKept'
  <1>1. /\ UNCHANGED <<desktop, mcpCaller, operation>> /\ over' = over \cup {r}
        /\ \A d \in Calls : Busy(d) => RunOf[d] # r
    BY DEF RunOver, Busy
  <1>2. CallsTyped' /\ OneBusy' /\ Covered'
    BY <1>1 DEF DesktopKept, CallsTyped, OneBusy, Busy, Covered, Forsaken
  <1>3. \A d \in Calls : CallKept(d)'
    BY <1>1 DEF DesktopKept, CallKept, Busy, Holds, Unsent, Ended
  <1>. QED
    BY <1>2, <1>3 DEF DesktopKept

\* The grant of the calls is not looked at by the invariant.
LEMMA RestOfDesktop ==
  ASSUME DesktopKept, UNCHANGED <<desktop, over, mcpCaller, operation>>
  PROVE  DesktopKept'
  BY DEF DesktopKept, CallsTyped, OneBusy, Covered, Forsaken, CallKept, Busy, Holds, Unsent, Ended

\* Every step of the desktop.
LEMMA DesktopStepKeeps ==
  ASSUME DesktopKept, DesktopNext
  PROVE  DesktopKept'
  <1>1. CASE RevokeCalls
    BY <1>1, RestOfDesktop DEF RevokeCalls
  <1>2. CASE \E r \in DesktopRuns : ReserveDesktop(r) \/ ProbeForReads(r) \/ RunOver(r)
    BY <1>2, ReserveKeeps, ReadProbeKeeps, RunOverKeeps
  <1>3. ASSUME NEW e \in Calls,
               \/ BeginCall(e) \/ ProbeReads(e) \/ ProbeAnswers(e) \/ ProbeReleases(e)
               \/ AcquireDesktop(e) \/ CallTool(e) \/ ReadBack(e) \/ ConfirmCall(e)
               \/ CallerDies(e) \/ EffectExhausted(e) \/ ServiceActs(e)
        PROVE  DesktopKept'
    BY <1>3, BeginKeeps, ProbeKeeps, ProbeReleasesKeeps, AcquireKeeps, CallerSendKeeps, ReadBackKeeps,
       ConfirmKeeps, DeathKeeps, ServiceKeeps
  <1>. QED
    BY <1>1, <1>2, <1>3 DEF DesktopNext

\* What was seen stays seen, and an unknown outcome is the last one.
LEMMA OutcomesStay ==
  ASSUME DesktopKept, NEW e \in Calls, DesktopNext
  PROVE  /\ operation[e] = "visible" => operation'[e] = "visible"
         /\ mcpCaller[e].outcome = "UNKNOWN" => mcpCaller'[e].outcome = "UNKNOWN"
  <1>1. operation[e] = "visible" => operation'[e] = "visible"
    <2>1. CASE UNCHANGED operation
      BY <2>1
    <2>2. CASE \E d \in Calls : ServiceActs(d)
      BY <2>2 DEF ServiceActs, DesktopKept, CallsTyped
    <2>3. CASE \E d \in Calls : CallTool(d)
      <3>1. PICK d \in Calls : CallTool(d)
        BY <2>3
      <3>2. d = e => operation[e] = "none"
        BY <3>1 DEF CallTool, DesktopKept, CallKept, Unsent
      <3>. QED
        BY <3>1, <3>2 DEF CallTool, DesktopKept, CallsTyped
    <2>. QED
      BY <2>1, <2>2, <2>3
         DEF DesktopNext, RevokeCalls, ReserveDesktop, ProbeForReads, RunOver, BeginCall, ProbeReads, ProbeAnswers,
             ProbeReleases, AcquireDesktop, ReadBack, ConfirmCall, CallerDies, EffectExhausted
  <1>2. ASSUME mcpCaller[e].outcome = "UNKNOWN"
        PROVE  mcpCaller'[e].outcome = "UNKNOWN"
    <2>1. mcpCaller[e].at = "idle" /\ mcpCaller \in [Calls -> Callers]
      BY <1>2 DEF DesktopKept, CallKept, CallsTyped, Callers
    <2>2. CASE UNCHANGED mcpCaller
      BY <1>2, <2>2
    <2>3. ASSUME NEW d \in Calls,
                 \/ BeginCall(d) \/ ProbeReads(d) \/ ProbeAnswers(d) \/ ProbeReleases(d)
                 \/ AcquireDesktop(d) \/ CallTool(d) \/ ReadBack(d) \/ ConfirmCall(d)
                 \/ CallerDies(d) \/ EffectExhausted(d)
          PROVE  d # e /\ mcpCaller'[e] = mcpCaller[e]
      <3>1. d # e
        BY <1>2, <2>1, <2>3
           DEF BeginCall, ProbeReads, ProbeAnswers, ProbeReleases, AcquireDesktop, CallTool, ReadBack,
               ConfirmCall, CallerDies, EffectExhausted
      <3>. QED
        BY <2>1, <2>3, <3>1
           DEF BeginCall, ProbeReads, ProbeAnswers, ProbeReleases, AcquireDesktop, CallTool, ReadBack,
               ConfirmCall, CallerDies, EffectExhausted, CallerGoes, CallerEnds
    <2>. QED
      BY <1>2, <2>2, <2>3 DEF DesktopNext, RevokeCalls, ReserveDesktop, ProbeForReads, RunOver, ServiceActs
  <1>. QED
    BY <1>1, <1>2


-----------------------------------------------------------------------------
(* The lookups.                                                             *)

LookupRows ==
  [status : {"none", "QUEUED", "RUNNING", "SUCCEEDED", "FAILED", "REVOKED"},
   late : BOOLEAN, sent : BOOLEAN, seen : {"none", "CONFIRMED", "NOT_OBSERVED"}]
Readers ==
  [at : {"none", "observe", "finish", "fail", "done"},
   seen : {"none", "CONFIRMED", "NOT_OBSERVED"}]

LookupsTyped == lookup \in [Lookups -> LookupRows] /\ reader \in [Lookups -> Readers]

\* A request that was accepted is about a call whose outcome stays unknown, and
\* what its worker or its row says was seen is there to be seen.
LookupKept(q) ==
  /\ lookup[q].status # "none" => mcpCaller[AboutCall[q]].outcome = "UNKNOWN"
  /\ lookup[q].seen # "none" <=> lookup[q].status = "SUCCEEDED"
  /\ lookup[q].seen = "CONFIRMED" => operation[AboutCall[q]] = "visible"
  /\ reader[q].at = "finish" => reader[q].seen # "none"
  /\ reader[q].seen = "CONFIRMED" => operation[AboutCall[q]] = "visible"

OneLookup ==
  \A p, q \in Lookups : p # q /\ AboutCall[p] = AboutCall[q] => ~(Pending(p) /\ Pending(q))

ReconciliationKept ==
  DesktopKept /\ LookupsTyped /\ (\A q \in Lookups : LookupKept(q)) /\ OneLookup

Unrivalled(q) == \A p \in Lookups : p # q /\ AboutCall[p] = AboutCall[q] => ~Pending(p)

\* What a step of one request may do: its own rows, an outcome once, and the row of
\* the desktop only for a call that was seen.
LookupMoves(q) ==
  /\ lookup' \in [Lookups -> LookupRows] /\ reader' \in [Lookups -> Readers]
  /\ \A p \in Lookups : p # q => lookup'[p] = lookup[p] /\ reader'[p] = reader[p]
  /\ UNCHANGED <<over, mcpCaller, operation>>
  /\ \/ UNCHANGED desktop
     \/ /\ mcpCaller[AboutCall[q]].outcome = "UNKNOWN" /\ operation[AboutCall[q]] = "visible"
        /\ desktop.pending = AboutCall[q]
        /\ desktop' = [desktop EXCEPT !.pending = NoCallEffect]
  /\ LookupKept(q)'
  /\ ~Pending(q) /\ lookup[q].status # "none" => lookup'[q].status = lookup[q].status
  /\ Pending(q)' => Pending(q) \/ Unrivalled(q)

USE LookupAssumption

\* A row that may not be answered any more fails, if it was not ended before.
LEMMA FailLookupEffect ==
  ASSUME ReconciliationKept, NEW q \in Lookups, NEW t \in BOOLEAN,
         ~Authorize(q, t), FailLookup(q, t)
  PROVE  /\ lookup' \in [Lookups -> LookupRows]
         /\ \A p \in Lookups : p # q => lookup'[p] = lookup[p]
         /\ lookup'[q].seen = lookup[q].seen
         /\ IF Pending(q) THEN lookup'[q].status \in {"REVOKED", "FAILED"}
                          ELSE lookup'[q].status = lookup[q].status
  <1>1. lookup \in [Lookups -> LookupRows]
    BY DEF ReconciliationKept, LookupsTyped
  <1>2. Failure(q, t) \in {"REVOKED", "FAILED"}
    BY DEF Authorize, Failure
  <1>3. CASE Pending(q)
    <2> DEFINE row == [lookup[q] EXCEPT !.status = Failure(q, t)]
    <2>1. lookup' = [lookup EXCEPT ![q] = row]
      BY <1>3 DEF FailLookup, SetLookup
    <2>2. row \in LookupRows /\ row.status = Failure(q, t) /\ row.seen = lookup[q].seen
      BY <1>1, <1>2 DEF LookupRows
    <2>. HIDE DEF row
    <2>. QED
      BY <1>1, <1>2, <1>3, <2>1, <2>2
  <1>4. CASE ~Pending(q)
    BY <1>1, <1>4 DEF FailLookup
  <1>. QED
    BY <1>3, <1>4

\* A worker that goes from one stage to the next.
LEMMA ReaderGoes ==
  ASSUME ReconciliationKept, NEW q \in Lookups,
         NEW s \in {"observe", "fail", "done"}, reader' = [reader EXCEPT ![q].at = s]
  PROVE  /\ reader' \in [Lookups -> Readers]
         /\ \A p \in Lookups : p # q => reader'[p] = reader[p]
         /\ reader'[q].at = s /\ reader'[q].seen = reader[q].seen
  <1> DEFINE row == [reader[q] EXCEPT !.at = s]
  <1>1. reader \in [Lookups -> Readers]
    BY DEF ReconciliationKept, LookupsTyped
  <1>2. reader' = [reader EXCEPT ![q] = row]
    OBVIOUS
  <1>3. row \in Readers /\ row.at = s /\ row.seen = reader[q].seen
    BY <1>1 DEF Readers
  <1>. HIDE DEF row
  <1>. QED
    BY <1>1, <1>2, <1>3

\* A request is accepted only for an unknown outcome, and when no other asks.
LEMMA AcceptMoves ==
  ASSUME ReconciliationKept, NEW q \in Lookups, AcceptLookup(q)
  PROVE  LookupMoves(q)
  <1> DEFINE row == [lookup[q] EXCEPT !.status = "QUEUED", !.sent = TRUE]
  <1>1. lookup \in [Lookups -> LookupRows] /\ reader \in [Lookups -> Readers] /\ LookupKept(q)
    BY DEF ReconciliationKept, LookupsTyped
  <1>2. /\ lookup' = [lookup EXCEPT ![q] = row] /\ lookup[q].status = "none"
        /\ mcpCaller[AboutCall[q]].outcome = "UNKNOWN" /\ Unrivalled(q)
        /\ UNCHANGED <<desktop, over, mcpCaller, operation, reader>>
    BY DEF AcceptLookup, desktopVars, Unrivalled
  <1>3. row \in LookupRows /\ row.status = "QUEUED" /\ row.seen = lookup[q].seen
    <2>1. lookup[q] \in LookupRows
      BY <1>1
    <2>2. row.status = "QUEUED" /\ row.seen = lookup[q].seen
      BY <2>1 DEF LookupRows
    <2>3. row \in LookupRows
      BY <2>1 DEF LookupRows
    <2>. QED
      BY <2>2, <2>3
  <1>. HIDE DEF row
  <1>4. lookup'[q] = row /\ lookup' \in [Lookups -> LookupRows]
    BY <1>1, <1>2, <1>3
  <1>5. LookupKept(q)'
    BY <1>1, <1>2, <1>3, <1>4 DEF LookupKept
  <1>. QED
    BY <1>1, <1>2, <1>4, <1>5 DEF LookupMoves

\* The message, the patience and the lease of a request say nothing of its outcome.
LEMMA MarkMoves ==
  ASSUME ReconciliationKept, NEW q \in Lookups, LoseLookupMessage(q) \/ LookupExpires(q)
  PROVE  LookupMoves(q)
  <1>1. lookup \in [Lookups -> LookupRows] /\ reader \in [Lookups -> Readers] /\ LookupKept(q)
    BY DEF ReconciliationKept, LookupsTyped
  <1>2. UNCHANGED <<desktop, over, mcpCaller, operation, reader>>
    BY DEF LoseLookupMessage, LookupExpires, desktopVars
  <1>3. /\ lookup' \in [Lookups -> LookupRows]
        /\ \A p \in Lookups : p # q => lookup'[p] = lookup[p]
        /\ lookup'[q].status = lookup[q].status /\ lookup'[q].seen = lookup[q].seen
    <2> DEFINE lost == [lookup[q] EXCEPT !.sent = FALSE]
               late == [lookup[q] EXCEPT !.late = TRUE]
    <2>1. lookup[q] \in LookupRows
      BY <1>1
    <2>2. lost.status = lookup[q].status /\ lost.seen = lookup[q].seen
      BY <2>1 DEF LookupRows
    <2>3. lost \in LookupRows
      BY <2>1 DEF LookupRows
    <2>4. late.status = lookup[q].status /\ late.seen = lookup[q].seen
      BY <2>1 DEF LookupRows
    <2>5. late \in LookupRows
      BY <2>1 DEF LookupRows
    <2>6. lookup' = [lookup EXCEPT ![q] = lost] \/ lookup' = [lookup EXCEPT ![q] = late]
      BY DEF LoseLookupMessage, LookupExpires
    <2>. HIDE DEF lost, late
    <2>. QED
      BY <1>1, <2>2, <2>3, <2>4, <2>5, <2>6
  <1>4. LookupKept(q)'
    BY <1>1, <1>2, <1>3 DEF LookupKept
  <1>. QED
    BY <1>1, <1>2, <1>3, <1>4 DEF LookupMoves, Pending


\* A claim fails the row, starts it, or finds it started or ended.
LEMMA ClaimMoves ==
  ASSUME ReconciliationKept, NEW q \in Lookups, ClaimLookup(q)
  PROVE  LookupMoves(q)
  <1>1. /\ lookup \in [Lookups -> LookupRows] /\ reader \in [Lookups -> Readers]
        /\ LookupKept(q) /\ lookup[q] \in LookupRows
    BY DEF ReconciliationKept, LookupsTyped
  <1>2. UNCHANGED <<desktop, over, mcpCaller, operation>>
    BY DEF ClaimLookup, desktopVars
  <1> DEFINE status == IF ~Authorize(q, TRUE)
                       THEN IF Pending(q) THEN Failure(q, TRUE) ELSE lookup[q].status
                       ELSE IF lookup[q].status = "QUEUED" THEN "RUNNING" ELSE lookup[q].status
             row == [lookup[q] EXCEPT !.sent = FALSE, !.status = status]
  <1>3. /\ status \in {"none", "QUEUED", "RUNNING", "SUCCEEDED", "FAILED", "REVOKED"}
        /\ IF Pending(q) THEN status \in {"RUNNING", "FAILED", "REVOKED"}
                         ELSE status = lookup[q].status
    <2>1. ~Authorize(q, TRUE) => Failure(q, TRUE) \in {"REVOKED", "FAILED"}
      BY DEF Authorize, Failure
    <2>. QED
      BY <1>1, <2>1 DEF LookupRows, Pending
  <1>4. lookup' = [lookup EXCEPT ![q] = row]
    <2>1. CASE ~Authorize(q, TRUE)
      BY <1>1, <2>1 DEF ClaimLookup, LookupRows
    <2>2. CASE Authorize(q, TRUE) /\ lookup[q].status = "QUEUED"
      BY <2>2 DEF ClaimLookup
    <2>3. CASE Authorize(q, TRUE) /\ lookup[q].status # "QUEUED"
      <3>1. lookup' = [lookup EXCEPT ![q] = [lookup[q] EXCEPT !.sent = FALSE]]
        BY <2>3 DEF ClaimLookup
      <3>2. row = [lookup[q] EXCEPT !.sent = FALSE]
        BY <1>1, <2>3 DEF LookupRows
      <3>. QED
        BY <3>1, <3>2
    <2>. QED
      BY <2>1, <2>2, <2>3
  <1>. HIDE DEF status
  <1>5. row.status = status /\ row.seen = lookup[q].seen
    BY <1>1 DEF LookupRows
  <1>6. row \in LookupRows
    BY <1>1, <1>3 DEF LookupRows
  <1>. HIDE DEF row
  <1>7. /\ lookup' \in [Lookups -> LookupRows]
        /\ \A p \in Lookups : p # q => lookup'[p] = lookup[p]
        /\ lookup'[q].status = status /\ lookup'[q].seen = lookup[q].seen
    BY <1>1, <1>4, <1>5, <1>6
  <1>8. /\ reader' \in [Lookups -> Readers]
        /\ \A p \in Lookups : p # q => reader'[p] = reader[p]
        /\ reader'[q].seen = reader[q].seen
        /\ reader'[q].at = "finish" => reader[q].at = "finish"
    <2>1. CASE reader' = [reader EXCEPT ![q].at = "observe"]
      BY <2>1, ReaderGoes
    <2>2. CASE UNCHANGED reader
      BY <1>1, <2>2
    <2>. QED
      BY <2>1, <2>2 DEF ClaimLookup
  <1>9. LookupKept(q)'
    <2>1. /\ status = "SUCCEEDED" <=> lookup[q].status = "SUCCEEDED"
          /\ status # "none" => lookup[q].status # "none"
      BY <1>3 DEF Pending
    <2>. QED
      BY <1>1, <1>2, <1>7, <1>8, <2>1 DEF LookupKept
  <1>. QED
    BY <1>1, <1>2, <1>3, <1>7, <1>8, <1>9 DEF LookupMoves, Pending

\* What a step does that leaves the row to be failed, or as it is.
LEMMA GiveUpMoves ==
  ASSUME ReconciliationKept, NEW q \in Lookups,
         UNCHANGED <<desktop, over, mcpCaller, operation>>,
         \/ UNCHANGED lookup
         \/ \E t \in BOOLEAN : ~Authorize(q, t) /\ FailLookup(q, t)
         \/ Pending(q) /\ SetLookup(q, "FAILED"),
         \/ UNCHANGED reader
         \/ \E s \in {"fail", "done"} : reader' = [reader EXCEPT ![q].at = s]
  PROVE  LookupMoves(q)
  <1>1. /\ lookup \in [Lookups -> LookupRows] /\ reader \in [Lookups -> Readers]
        /\ LookupKept(q) /\ lookup[q] \in LookupRows
    BY DEF ReconciliationKept, LookupsTyped
  <1>2. /\ lookup' \in [Lookups -> LookupRows]
        /\ \A p \in Lookups : p # q => lookup'[p] = lookup[p]
        /\ lookup'[q].seen = lookup[q].seen
        /\ \/ lookup'[q].status = lookup[q].status
           \/ Pending(q) /\ lookup'[q].status \in {"REVOKED", "FAILED"}
    <2>1. CASE UNCHANGED lookup
      BY <1>1, <2>1
    <2>2. CASE \E t \in BOOLEAN : ~Authorize(q, t) /\ FailLookup(q, t)
      BY <2>2, FailLookupEffect
    <2>3. CASE Pending(q) /\ SetLookup(q, "FAILED")
      <3> DEFINE row == [lookup[q] EXCEPT !.status = "FAILED"]
      <3>1. lookup' = [lookup EXCEPT ![q] = row]
        BY <2>3 DEF SetLookup
      <3>2. row.status = "FAILED" /\ row.seen = lookup[q].seen
        BY <1>1 DEF LookupRows
      <3>3. row \in LookupRows
        BY <1>1 DEF LookupRows
      <3>. HIDE DEF row
      <3>. QED
        BY <1>1, <2>3, <3>1, <3>2, <3>3
    <2>. QED
      BY <2>1, <2>2, <2>3
  <1>3. /\ reader' \in [Lookups -> Readers]
        /\ \A p \in Lookups : p # q => reader'[p] = reader[p]
        /\ reader'[q].seen = reader[q].seen
        /\ reader'[q].at = "finish" => reader[q].at = "finish"
    <2>1. CASE \E s \in {"fail", "done"} : reader' = [reader EXCEPT ![q].at = s]
      BY <2>1, ReaderGoes
    <2>2. CASE UNCHANGED reader
      BY <1>1, <2>2
    <2>. QED
      BY <2>1, <2>2
  <1>4. LookupKept(q)'
    BY <1>1, <1>2, <1>3 DEF LookupKept, Pending
  <1>. QED
    BY <1>2, <1>3, <1>4 DEF LookupMoves, Pending

\* A failed read, a lost worker, an owner that gives up and the sweep write at most
\* the failure of a pending row.
LEMMA FailureMoves ==
  ASSUME ReconciliationKept, NEW q \in Lookups,
         FailByOwner(q) \/ LookupBreaks(q) \/ RecoverExpired(q)
  PROVE  LookupMoves(q)
  <1>1. CASE FailByOwner(q)
    <2>1. /\ UNCHANGED <<desktop, over, mcpCaller, operation>>
          /\ reader' = [reader EXCEPT ![q].at = "done"]
      BY <1>1 DEF FailByOwner, desktopVars
    <2>2. \/ UNCHANGED lookup
          \/ ~Authorize(q, FALSE) /\ FailLookup(q, FALSE)
          \/ Pending(q) /\ SetLookup(q, "FAILED")
      BY <1>1 DEF FailByOwner
    <2>. QED
      BY <2>1, <2>2, GiveUpMoves
  <1>2. CASE LookupBreaks(q)
    <2>1. /\ UNCHANGED <<desktop, over, mcpCaller, operation, lookup>>
          /\ \E s \in {"fail", "done"} : reader' = [reader EXCEPT ![q].at = s]
      BY <1>2 DEF LookupBreaks, desktopVars
    <2>. QED
      BY <2>1, GiveUpMoves
  <1>3. CASE RecoverExpired(q)
    <2>1. /\ UNCHANGED <<desktop, over, mcpCaller, operation, reader>>
          /\ FailLookup(q, FALSE) /\ lookup[q].late
      BY <1>3 DEF RecoverExpired, desktopVars
    <2>2. ~Authorize(q, FALSE)
      BY <2>1 DEF Authorize, Failure
    <2>. QED
      BY <2>1, <2>2, GiveUpMoves
  <1>. QED
    BY <1>1, <1>2, <1>3


\* An observation says "confirmed" of what the service shows at that moment.
LEMMA ObserveMoves ==
  ASSUME ReconciliationKept, NEW q \in Lookups, Observe(q)
  PROVE  LookupMoves(q)
  <1>1. /\ lookup \in [Lookups -> LookupRows] /\ reader \in [Lookups -> Readers]
        /\ LookupKept(q)
    BY DEF ReconciliationKept, LookupsTyped
  <1>2. UNCHANGED <<desktop, over, mcpCaller, operation>>
    BY DEF Observe, desktopVars
  <1>3. CASE Authorize(q, TRUE) /\ OwnsLookup(q) /\ AboutCall[q] \in Identified
    <2> DEFINE row == [at |-> "finish", seen |-> Observation(q)]
    <2>1. reader' = [reader EXCEPT ![q] = row] /\ UNCHANGED lookup
      BY <1>3 DEF Observe
    <2>2. /\ row \in Readers /\ row.at = "finish" /\ row.seen # "none"
          /\ row.seen = "CONFIRMED" => operation[AboutCall[q]] = "visible"
      BY DEF Observation, Readers
    <2>. HIDE DEF row
    <2>3. /\ reader' \in [Lookups -> Readers] /\ reader'[q] = row
          /\ \A p \in Lookups : p # q => reader'[p] = reader[p]
      BY <1>1, <2>1, <2>2
    <2>4. LookupKept(q)'
      BY <1>1, <1>2, <2>1, <2>2, <2>3 DEF LookupKept
    <2>. QED
      BY <1>1, <1>2, <2>1, <2>3, <2>4 DEF LookupMoves, Pending
  <1>4. CASE ~(Authorize(q, TRUE) /\ OwnsLookup(q) /\ AboutCall[q] \in Identified)
    <2>1. reader' = [reader EXCEPT ![q].at = "fail"]
      BY <1>4 DEF Observe
    <2>2. UNCHANGED lookup \/ (~Authorize(q, TRUE) /\ FailLookup(q, TRUE))
      BY <1>4 DEF Observe
    <2>. QED
      BY <1>2, <2>1, <2>2, GiveUpMoves
  <1>. QED
    BY <1>3, <1>4

\* The result and the row of the desktop are written together, by the owner.
LEMMA FinishMoves ==
  ASSUME ReconciliationKept, NEW q \in Lookups, FinishLookup(q)
  PROVE  LookupMoves(q)
  <1>1. /\ lookup \in [Lookups -> LookupRows] /\ reader \in [Lookups -> Readers]
        /\ LookupKept(q) /\ lookup[q] \in LookupRows /\ reader[q] \in Readers
    BY DEF ReconciliationKept, LookupsTyped
  <1>2. UNCHANGED <<over, mcpCaller, operation>> /\ reader[q].at = "finish"
    BY DEF FinishLookup
  <1>3. CASE /\ OwnsLookup(q)
             /\ lookup' = [lookup EXCEPT ![q] = [@ EXCEPT !.status = "SUCCEEDED",
                                                          !.seen = reader[q].seen]]
             /\ FreeDesktop(q)
             /\ reader' = [reader EXCEPT ![q].at = "done"]
    <2> DEFINE row == [lookup[q] EXCEPT !.status = "SUCCEEDED", !.seen = reader[q].seen]
    <2>1. row.status = "SUCCEEDED" /\ row.seen = reader[q].seen
      BY <1>1 DEF LookupRows
    <2>2. row \in LookupRows
      BY <1>1 DEF LookupRows, Readers
    <2>3. lookup' = [lookup EXCEPT ![q] = row]
      BY <1>3
    <2>. HIDE DEF row
    <2>4. /\ lookup' \in [Lookups -> LookupRows] /\ lookup'[q] = row
          /\ \A p \in Lookups : p # q => lookup'[p] = lookup[p]
      BY <1>1, <2>2, <2>3
    <2>5. /\ reader' \in [Lookups -> Readers]
          /\ \A p \in Lookups : p # q => reader'[p] = reader[p]
          /\ reader'[q].at = "done" /\ reader'[q].seen = reader[q].seen
      BY <1>3, ReaderGoes
    <2>6. /\ Pending(q) /\ mcpCaller[AboutCall[q]].outcome = "UNKNOWN"
          /\ reader[q].seen # "none"
          /\ reader[q].seen = "CONFIRMED" => operation[AboutCall[q]] = "visible"
      BY <1>1, <1>2, <1>3 DEF LookupKept, OwnsLookup, Pending
    <2>7. LookupKept(q)'
      BY <1>2, <2>1, <2>4, <2>5, <2>6 DEF LookupKept
    <2>8. \/ UNCHANGED desktop
          \/ /\ operation[AboutCall[q]] = "visible" /\ desktop.pending = AboutCall[q]
             /\ desktop' = [desktop EXCEPT !.pending = NoCallEffect]
      BY <1>3, <2>6 DEF FreeDesktop
    <2>. QED
      BY <1>2, <2>4, <2>5, <2>6, <2>7, <2>8 DEF LookupMoves
  <1>4. CASE /\ IF Authorize(q, TRUE) THEN UNCHANGED lookup ELSE FailLookup(q, TRUE)
             /\ UNCHANGED desktop
             /\ reader' = [reader EXCEPT ![q].at = "fail"]
    BY <1>2, <1>4, GiveUpMoves
  <1>. QED
    BY <1>3, <1>4 DEF FinishLookup

\* Every step of a request.
LEMMA LookupStepMoves ==
  ASSUME ReconciliationKept, NEW q \in Lookups, LookupSteps(q)
  PROVE  LookupMoves(q)
  BY AcceptMoves, ClaimMoves, MarkMoves, ObserveMoves, FinishMoves, FailureMoves DEF LookupSteps

\* A step of a request keeps the invariant, and each other request its row.
LEMMA LookupStepKeeps ==
  ASSUME ReconciliationKept, NEW q \in Lookups, LookupMoves(q)
  PROVE  ReconciliationKept'
  <1>1. DesktopKept'
    BY FreeingKeeps, RestOfDesktop DEF LookupMoves, ReconciliationKept
  <1>2. LookupsTyped'
    BY DEF LookupMoves, LookupsTyped
  <1>3. \A p \in Lookups : LookupKept(p)'
    BY DEF LookupMoves, ReconciliationKept, LookupKept
  <1>4. OneLookup'
    BY DEF LookupMoves, ReconciliationKept, OneLookup, Pending, Unrivalled
  <1>. QED
    BY <1>1, <1>2, <1>3, <1>4 DEF ReconciliationKept


\* The calls go on under the lookups, which keep what they know of them.
LEMMA CallsUnderLookups ==
  ASSUME ReconciliationKept, DesktopNext,
         UNCHANGED <<lookup, permitted, changed, reader>>
  PROVE  ReconciliationKept'
  <1>1. DesktopKept'
    BY DesktopStepKeeps DEF ReconciliationKept
  <1>2. LookupsTyped' /\ OneLookup'
    BY DEF ReconciliationKept, LookupsTyped, OneLookup, Pending
  <1>3. ASSUME NEW q \in Lookups
        PROVE  LookupKept(q)'
    <2>1. /\ operation[AboutCall[q]] = "visible" => operation'[AboutCall[q]] = "visible"
          /\ mcpCaller[AboutCall[q]].outcome = "UNKNOWN"
               => mcpCaller'[AboutCall[q]].outcome = "UNKNOWN"
      BY OutcomesStay DEF ReconciliationKept
    <2>. QED
      BY <2>1 DEF ReconciliationKept, LookupKept
  <1>. QED
    BY <1>1, <1>2, <1>3 DEF ReconciliationKept

\* No step breaks the invariant.
LEMMA ReconciliationStepKeeps ==
  ASSUME ReconciliationKept, [ReconciliationNext]_reconciliationVars
  PROVE  ReconciliationKept'
  <1>1. CASE DesktopNext /\ UNCHANGED <<lookup, permitted, changed, reader>>
    BY <1>1, CallsUnderLookups
  <1>2. CASE \E q \in Lookups : LookupSteps(q)
    BY <1>2, LookupStepMoves, LookupStepKeeps
  <1>3. CASE UNCHANGED <<desktop, over, mcpCaller, operation, lookup, reader>>
    <2>1. DesktopKept'
      BY <1>3, RestOfDesktop DEF ReconciliationKept
    <2>. QED
      BY <1>3, <2>1 DEF ReconciliationKept, LookupsTyped, LookupKept, OneLookup, Pending
  <1>. QED
    BY <1>1, <1>2, <1>3
       DEF ReconciliationNext, EndReading, reconciliationVars, desktopVars

\* Nothing is under way, and nothing was asked.
LEMMA ReconciliationInitial ==
  ASSUME ReconciliationInit
  PROVE  ReconciliationKept
  <1>1. CallsTyped
    BY DEF ReconciliationInit, DesktopInit, FreshCaller, CallsTyped, Callers, Desktops
  <1>2. OneBusy /\ Covered
    BY DEF ReconciliationInit, DesktopInit, FreshCaller, OneBusy, Busy, Covered
  <1>3. \A e \in Calls : CallKept(e)
    BY DEF ReconciliationInit, DesktopInit, FreshCaller, CallKept, Busy, Holds, Unsent
  <1>4. LookupsTyped
    BY DEF ReconciliationInit, NoLookup, NoReader, LookupsTyped, LookupRows, Readers
  <1>5. OneLookup /\ \A q \in Lookups : LookupKept(q)
    BY DEF ReconciliationInit, NoLookup, NoReader, OneLookup, LookupKept, Pending
  <1>. QED
    BY <1>1, <1>2, <1>3, <1>4, <1>5 DEF ReconciliationKept, DesktopKept

\* What the rows say is what the service shows.
LEMMA KeptIsRight ==
  ASSUME ReconciliationKept
  PROVE  LookupIsRight
  BY DEF ReconciliationKept, LookupKept, LookupIsRight

\* A request that has ended keeps its outcome, and no step leaves two requests
\* about one call.
LEMMA LookupsEnd ==
  ASSUME ReconciliationKept, [ReconciliationNext]_reconciliationVars
  PROVE  \A q \in Lookups :
           /\ ~Pending(q) /\ lookup[q].status # "none" => lookup'[q].status = lookup[q].status
           /\ \A p \in Lookups : p # q /\ AboutCall[p] = AboutCall[q] => ~(Pending(p)' /\ Pending(q)')
  <1>1. OneLookup'
    BY ReconciliationStepKeeps DEF ReconciliationKept
  <1>2. ASSUME NEW q \in Lookups, ~Pending(q), lookup[q].status # "none"
        PROVE  lookup'[q].status = lookup[q].status
    <2>1. CASE UNCHANGED lookup
      BY <2>1
    <2>2. CASE \E p \in Lookups : LookupSteps(p)
      <3>1. PICK p \in Lookups : LookupMoves(p)
        BY <2>2, LookupStepMoves
      <3>2. CASE p = q
        BY <1>2, <3>1, <3>2 DEF LookupMoves
      <3>3. CASE p # q
        BY <3>1, <3>3 DEF LookupMoves
      <3>. QED
        BY <3>2, <3>3
    <2>. QED
      BY <2>1, <2>2 DEF ReconciliationNext, EndReading, reconciliationVars
  <1>3. ASSUME NEW q \in Lookups, NEW p \in Lookups, p # q, AboutCall[p] = AboutCall[q]
        PROVE  ~(Pending(p)' /\ Pending(q)')
    BY <1>1, <1>3 DEF OneLookup
  <1>. QED
    BY <1>2, <1>3
-----------------------------------------------------------------------------
\* Whatever the order of executors, workers, sweeps and the service, the invariant
\* above holds (agent/mcp_lease.py, effects/mcp_provider.py,
\* effects/reconciliation_*.py).
THEOREM DesktopInductive == ReconciliationSpec => []ReconciliationKept
  <1>1. ReconciliationInit => ReconciliationKept
    BY ReconciliationInitial
  <1>2. ReconciliationKept /\ [ReconciliationNext]_reconciliationVars => ReconciliationKept'
    BY ReconciliationStepKeeps
  <1>. QED
    BY <1>1, <1>2, PTL DEF ReconciliationSpec

\* A lookup knows an outcome exactly when it succeeded, and says "confirmed" only of
\* a call the service carried out.
THEOREM LookupsAreRight == ReconciliationSpec => []LookupIsRight
  <1>1. ReconciliationKept => LookupIsRight
    BY KeptIsRight
  <1>. QED
    BY <1>1, DesktopInductive, PTL

\* One call at a time on a desktop, beside the one made to cancel it and what a second
\* cancellation has forsaken, and a confirmed lookup only of a call the service carried out.
THEOREM DesktopStaysSound == ReconciliationSpec => []DesktopIsSound
  <1>1. ReconciliationKept => DesktopIsSound
    BY CoveredIsOne, KeptIsRight DEF ReconciliationKept, DesktopIsSound
  <1>. QED
    BY <1>1, DesktopInductive, PTL

\* A request about a call ends once, and never beside another about it.
THEOREM LookupsEndOnce == ReconciliationSpec => LookupEndsOnce
  <1>1. ReconciliationKept /\ [ReconciliationNext]_reconciliationVars =>
          [\A q \in Lookups :
             /\ ~Pending(q) /\ lookup[q].status # "none" => lookup'[q].status = lookup[q].status
             /\ \A p \in Lookups : p # q /\ AboutCall[p] = AboutCall[q] => ~(Pending(p)' /\ Pending(q)')
          ]_reconciliationVars
    BY LookupsEnd
  <1>. QED
    BY <1>1, DesktopInductive, PTL DEF ReconciliationSpec, LookupEndsOnce

-----------------------------------------------------------------------------
(* The document library (ProjectDocuments), for any uploads, effects, Runs,    *)
(* paths and quota. Three tables tell of one object: the document, the row its *)
(* upload left and the cleanup row. RowsMatch says which combinations of them  *)
(* there are; what an upload in flight has in hand follows its row.            *)

DocRows == [state : {"none", "live", "trashed", "gone"}, path : Paths \cup {NoDocument},
            byRun : BOOLEAN, linked : BOOLEAN]
IntentRows == [state : {"none", "PENDING", "SENT", "PUBLISHED", "purged"},
               path : Paths \cup {NoDocument}, replaces : Docs \cup {NoDocument}, closed : BOOLEAN]
HistoryRows == [state : {"none", "binding", "active", "finished", "trashed", "purged"},
                docs : SUBSET Docs]

RowsMatch ==
  \A d \in Docs :
    /\ doc[d].state # "none" <=> intent[d].state \in {"PUBLISHED", "purged"}
    /\ d \in cleanup <=> doc[d].state = "gone"
    /\ Present(d) => d \in blob /\ d \notin removing
    /\ intent[d].state = "none" => d \notin blob
UploadsMatch ==
  \A u \in Uploads :
    /\ putter[u] \in {"idle", "checked"} => intent[u].state = "none"
    /\ putter[u] \in {"putting", "stored"} => intent[u].state = "PENDING"
    /\ putter[u] = "stored" => u \in blob
    /\ intent[u].state \in {"none", "PENDING", "PUBLISHED"}
    /\ putter[u] # "conflict"
OutputsMatch ==
  \A e \in Outputs :
    /\ putter[e] = "putting" => intent[e].state # "none"
    /\ Present(e) => (doc[e].linked <=> intent[e].state = "PUBLISHED")

LibraryKept == DocTypeOK /\ RowsMatch /\ UploadsMatch /\ OutputsMatch

USE LibraryAssumption

\* The types of the rows.
LEMMA LibraryRows ==
  ASSUME LibraryKept
  PROVE  /\ doc \in [Docs -> DocRows] /\ intent \in [Docs -> IntentRows]
         /\ history \in [Holders -> HistoryRows]
         /\ folders \subseteq Places /\ blob \subseteq Docs /\ cleanup \subseteq Docs
         /\ removing \subseteq cleanup /\ edits \in 0..MaxEdits
         /\ putter \in [Docs -> {"idle", "checked", "putting", "stored", "done", "conflict"}]
  BY DEF LibraryKept, DocTypeOK, DocRows, IntentRows, HistoryRows

\* A step that keeps every document where it is, in the library or in the recycle bin.
DocsStay ==
  \A d \in Docs :
    /\ doc'[d].state = "none" <=> doc[d].state = "none"
    /\ doc'[d].state = "gone" <=> doc[d].state = "gone"
    /\ Present(d) => doc'[d].linked = doc[d].linked

\* Documents that move, folders and histories.
LEMMA LibraryMoves ==
  ASSUME LibraryKept, doc' \in [Docs -> DocRows], DocsStay, folders' \subseteq Places,
         history' \in [Holders -> HistoryRows], edits' \in 0..MaxEdits,
         UNCHANGED <<intent, putter, blob, cleanup, removing>>
  PROVE  LibraryKept'
  <1>1. DocTypeOK'
    BY LibraryRows DEF DocTypeOK, DocRows, IntentRows, HistoryRows
  <1>2. doc \in [Docs -> DocRows] /\ \A d \in Docs : doc'[d] \in DocRows
    BY LibraryRows
  <1>3. \A d \in Docs : Present(d)' <=> Present(d)
    BY <1>2 DEF Present, DocsStay, DocRows
  <1>4. RowsMatch'
    BY <1>3 DEF LibraryKept, RowsMatch, DocsStay
  <1>5. UploadsMatch' /\ OutputsMatch'
    BY <1>3 DEF LibraryKept, UploadsMatch, OutputsMatch, DocsStay, Docs
  <1>. QED
    BY <1>1, <1>4, <1>5 DEF LibraryKept

\* The row of one upload moves on, without a document.
LEMMA UploadGoesOn ==
  ASSUME LibraryKept, NEW u \in Uploads, NEW row \in IntentRows,
         NEW at \in {"idle", "checked", "putting", "stored", "done"},
         intent' = [intent EXCEPT ![u] = row], putter' = [putter EXCEPT ![u] = at],
         blob \subseteq blob', blob' \subseteq blob \cup {u}, UNCHANGED <<doc, folders, cleanup, removing, history, edits>>,
         row.state \in {"none", "PENDING"} \/ row.state = intent[u].state,
         intent[u].state \in {"none", "PENDING"} \/ row.state = intent[u].state,
         row.state = "none" => u \notin blob',
         at \in {"idle", "checked"} => row.state = "none",
         at \in {"putting", "stored"} => row.state = "PENDING",
         at = "stored" => u \in blob'
  PROVE  LibraryKept'
  <1>1. /\ doc \in [Docs -> DocRows] /\ intent \in [Docs -> IntentRows]
        /\ blob \subseteq Docs /\ u \in Docs
        /\ putter \in [Docs -> {"idle", "checked", "putting", "stored", "done", "conflict"}]
    BY LibraryRows DEF Docs
  <1>2. /\ intent' \in [Docs -> IntentRows] /\ intent'[u] = row
        /\ \A d \in Docs : d # u => intent'[d] = intent[d]
    BY <1>1
  <1>3. /\ putter' \in [Docs -> {"idle", "checked", "putting", "stored", "done", "conflict"}]
        /\ putter'[u] = at
        /\ \A d \in Docs : d # u => putter'[d] = putter[d]
    BY <1>1
  <1>4. DocTypeOK'
    BY <1>1, <1>2, <1>3, LibraryRows DEF DocTypeOK, DocRows, IntentRows, HistoryRows
  <1>5. \A d \in Docs : Present(d)' <=> Present(d)
    BY DEF Present
  <1>6. intent[u].state \in {"none", "PENDING", "PUBLISHED"}
    BY DEF LibraryKept, UploadsMatch
  <1>7. RowsMatch'
    BY <1>1, <1>2, <1>5, <1>6 DEF LibraryKept, RowsMatch
  <1>8. \A d \in Uploads \cup Outputs : d \in Docs
    BY DEF Docs
  <1>9. UploadsMatch'
    BY <1>2, <1>3, <1>6, <1>8 DEF LibraryKept, UploadsMatch
  <1>10. OutputsMatch'
    <2>1. \A e \in Outputs : e # u
      OBVIOUS
    <2>. QED
      BY <1>2, <1>3, <1>5, <1>8, <2>1 DEF LibraryKept, OutputsMatch
  <1>. QED
    BY <1>4, <1>7, <1>9, <1>10 DEF LibraryKept

\* The row of one effect moves on, without a document.
LEMMA OutputGoesOn ==
  ASSUME LibraryKept, NEW e \in Outputs, NEW row \in IntentRows,
         NEW at \in {"idle", "putting", "stored", "checked", "done", "conflict"},
         intent' = [intent EXCEPT ![e] = row], putter' = [putter EXCEPT ![e] = at],
         blob \subseteq blob', blob' \subseteq blob \cup {e},
         UNCHANGED <<doc, folders, cleanup, removing, history, edits>>,
         row.state \notin {"PUBLISHED", "purged"} \/ row.state = intent[e].state,
         intent[e].state \notin {"PUBLISHED", "purged"} \/ row.state = intent[e].state,
         row.state = "none" => e \notin blob',
         at = "putting" => row.state # "none"
  PROVE  LibraryKept'
  <1>1. /\ doc \in [Docs -> DocRows] /\ intent \in [Docs -> IntentRows]
        /\ blob \subseteq Docs /\ e \in Docs
        /\ putter \in [Docs -> {"idle", "checked", "putting", "stored", "done", "conflict"}]
    BY LibraryRows DEF Docs
  <1>2. /\ intent' \in [Docs -> IntentRows] /\ intent'[e] = row
        /\ \A d \in Docs : d # e => intent'[d] = intent[d]
    BY <1>1
  <1>3. /\ putter' \in [Docs -> {"idle", "checked", "putting", "stored", "done", "conflict"}]
        /\ putter'[e] = at
        /\ \A d \in Docs : d # e => putter'[d] = putter[d]
    BY <1>1
  <1>4. DocTypeOK'
    BY <1>1, <1>2, <1>3, LibraryRows DEF DocTypeOK, DocRows, IntentRows, HistoryRows
  <1>5. \A d \in Docs : Present(d)' <=> Present(d)
    BY DEF Present
  <1>6. intent[e].state \in {"none", "PENDING", "SENT", "PUBLISHED", "purged"}
        /\ row.state \in {"none", "PENDING", "SENT", "PUBLISHED", "purged"}
    BY <1>1 DEF IntentRows
  <1>7. RowsMatch'
    BY <1>1, <1>2, <1>5, <1>6 DEF LibraryKept, RowsMatch
  <1>8. \A d \in Uploads \cup Outputs : d \in Docs
    BY DEF Docs
  <1>9. UploadsMatch'
    <2>1. \A d \in Uploads : d # e
      OBVIOUS
    <2>. QED
      BY <1>2, <1>3, <1>8, <2>1 DEF LibraryKept, UploadsMatch
  <1>10. OutputsMatch'
    BY <1>2, <1>3, <1>5, <1>6, <1>8 DEF LibraryKept, OutputsMatch
  <1>. QED
    BY <1>4, <1>7, <1>9, <1>10 DEF LibraryKept


\* upload_document up to its publication: admission, the bytes, or nothing of both.
LEMMA UploadKeeps ==
  ASSUME LibraryKept, NEW u \in Uploads, UNCHANGED edits,
         \/ \E p \in Paths, d \in Docs \cup {NoDocument} : BeginUpload(u, p, d)
         \/ Reserve(u) \/ PutUpload(u) \/ CloseUpload(u) \/ AbandonUpload(u)
  PROVE  LibraryKept'
  <1>1. /\ intent \in [Docs -> IntentRows] /\ blob \subseteq Docs /\ u \in Docs
        /\ putter \in [Docs -> {"idle", "checked", "putting", "stored", "done", "conflict"}]
    BY LibraryRows DEF Docs
  <1>2. /\ intent[u] \in IntentRows
        /\ intent[u].state = "none" => u \notin blob
        /\ putter[u] \in {"idle", "checked"} => intent[u].state = "none"
        /\ putter[u] \in {"putting", "stored"} => intent[u].state = "PENDING"
        /\ putter[u] = "stored" => u \in blob
        /\ putter[u] # "conflict"
        /\ intent = [intent EXCEPT ![u] = intent[u]]
    BY <1>1 DEF LibraryKept, RowsMatch, UploadsMatch
  <1>3. NoIntent \in IntentRows /\ NoIntent.state = "none"
    BY DEF NoIntent, IntentRows
  <1>4. ASSUME NEW p \in Paths, NEW d \in Docs \cup {NoDocument}, BeginUpload(u, p, d)
        PROVE  LibraryKept'
    <2>. DEFINE row == [NoIntent EXCEPT !.path = p, !.replaces = d]
    <2>1. row \in IntentRows /\ row.state = "none"
      BY <1>3 DEF IntentRows
    <2>2. /\ intent' = [intent EXCEPT ![u] = row] /\ putter' = [putter EXCEPT ![u] = "checked"]
          /\ putter[u] = "idle" /\ UNCHANGED <<doc, folders, blob, cleanup, removing, history>>
      BY <1>4 DEF BeginUpload
    <2>. HIDE DEF row
    <2>. QED
      BY <1>2, <2>1, <2>2, UploadGoesOn
  <1>5. CASE Reserve(u)
    <2>. DEFINE row == [intent[u] EXCEPT !.state = "PENDING"]
    <2>1. row \in IntentRows /\ row.state = "PENDING"
      BY <1>2 DEF IntentRows
    <2>2. /\ intent' = [intent EXCEPT ![u] = row] /\ putter' = [putter EXCEPT ![u] = "putting"]
          /\ putter[u] = "checked" /\ UNCHANGED <<doc, folders, blob, cleanup, removing, history>>
      BY <1>5 DEF Reserve
    <2>. HIDE DEF row
    <2>. QED
      BY <1>2, <2>1, <2>2, UploadGoesOn
  <1>6. CASE PutUpload(u)
    <2>1. /\ intent' = [intent EXCEPT ![u] = intent[u]] /\ putter' = [putter EXCEPT ![u] = "stored"]
          /\ putter[u] = "putting" /\ blob' = blob \cup {u}
          /\ UNCHANGED <<doc, folders, cleanup, removing, history>>
      BY <1>2, <1>6 DEF PutUpload
    <2>. QED
      BY <1>2, <2>1, UploadGoesOn
  <1>7. CASE CloseUpload(u)
    <2>. DEFINE row == [intent[u] EXCEPT !.closed = TRUE]
    <2>1. row \in IntentRows /\ row.state = intent[u].state
      BY <1>2 DEF IntentRows
    <2>2. /\ intent' = [intent EXCEPT ![u] = row] /\ intent[u].state = "PENDING"
          /\ UNCHANGED <<doc, folders, putter, blob, cleanup, removing, history>>
      BY <1>7 DEF CloseUpload, Closed
    <2>. HIDE DEF row
    <2>3. putter' = [putter EXCEPT ![u] = putter[u]]
      BY <1>1, <2>2
    <2>. QED
      BY <1>1, <1>2, <2>1, <2>2, <2>3, UploadGoesOn
  <1>8. CASE AbandonUpload(u)
    <2>. DEFINE row == IF putter[u] = "checked" THEN NoIntent ELSE intent[u]
    <2>1. /\ row \in IntentRows
          /\ putter[u] = "checked" => row.state = "none"
          /\ putter[u] # "checked" => row = intent[u]
      BY <1>2, <1>3
    <2>2. /\ intent' = [intent EXCEPT ![u] = row] /\ putter' = [putter EXCEPT ![u] = "done"]
          /\ putter[u] \in {"checked", "putting", "stored"}
          /\ blob' = blob \/ (putter[u] = "putting" /\ blob' = blob \cup {u})
          /\ UNCHANGED <<doc, folders, cleanup, removing, history>>
      BY <1>8 DEF AbandonUpload
    <2>. HIDE DEF row
    <2>3. blob \subseteq blob' /\ blob' \subseteq blob \cup {u}
      BY <2>2
    <2>4. row.state = "none" => u \notin blob'
      BY <1>2, <2>1, <2>2
    <2>5. row.state \in {"none", "PENDING"} \/ row.state = intent[u].state
      BY <2>1
    <2>6. intent[u].state \in {"none", "PENDING"}
      BY <1>2, <2>2
    <2>. QED
      BY <2>1, <2>2, <2>3, <2>4, <2>5, <2>6, UploadGoesOn
  <1>. QED
    BY <1>4, <1>5, <1>6, <1>7, <1>8

\* The put and the row of a document effect, up to its publication.
LEMMA OutputKeeps ==
  ASSUME LibraryKept, NEW e \in Outputs, UNCHANGED edits,
         \/ \E p \in Paths, d \in Docs \cup {NoDocument} : ReserveOutput(e, p, d)
         \/ StartOnce(e) \/ CreateOnce(e) \/ MeetConflict(e) \/ CloseConflictedReplacement(e)
  PROVE  LibraryKept'
  <1>1. /\ intent \in [Docs -> IntentRows] /\ blob \subseteq Docs /\ e \in Docs
        /\ putter \in [Docs -> {"idle", "checked", "putting", "stored", "done", "conflict"}]
    BY LibraryRows DEF Docs
  <1>2. /\ intent[e] \in IntentRows
        /\ intent[e].state = "none" => e \notin blob
        /\ putter[e] = "putting" => intent[e].state # "none"
        /\ intent = [intent EXCEPT ![e] = intent[e]] /\ putter = [putter EXCEPT ![e] = putter[e]]
        /\ putter[e] \in {"idle", "checked", "putting", "stored", "done", "conflict"}
    BY <1>1 DEF LibraryKept, RowsMatch, OutputsMatch
  <1>3. ASSUME NEW p \in Paths, NEW d \in Docs \cup {NoDocument}, ReserveOutput(e, p, d)
        PROVE  LibraryKept'
    <2>. DEFINE row == [state |-> "PENDING", path |-> p, replaces |-> d, closed |-> FALSE]
    <2>1. row \in IntentRows /\ row.state = "PENDING"
      BY DEF IntentRows
    <2>2. /\ intent' = [intent EXCEPT ![e] = row] /\ intent[e].state = "none"
          /\ UNCHANGED <<doc, folders, putter, blob, cleanup, removing, history>>
      BY <1>3 DEF ReserveOutput
    <2>. HIDE DEF row
    <2>. QED
      BY <1>2, <2>1, <2>2, OutputGoesOn
  <1>4. CASE StartOnce(e)
    <2>. DEFINE row == [intent[e] EXCEPT !.state = "SENT"]
    <2>1. row \in IntentRows /\ row.state = "SENT"
      BY <1>2 DEF IntentRows
    <2>2. /\ intent' = [intent EXCEPT ![e] = row] /\ intent[e].state = "PENDING"
          /\ putter' = [putter EXCEPT ![e] = "putting"]
          /\ UNCHANGED <<doc, folders, blob, cleanup, removing, history>>
      BY <1>4 DEF StartOnce
    <2>. HIDE DEF row
    <2>. QED
      BY <1>2, <2>1, <2>2, OutputGoesOn
  <1>5. CASE CreateOnce(e) \/ MeetConflict(e)
    <2>1. /\ intent' = [intent EXCEPT ![e] = intent[e]]
          /\ UNCHANGED <<doc, folders, cleanup, removing, history>>
      BY <1>2, <1>5 DEF CreateOnce, MeetConflict
    <2>2. /\ \E at \in {"done", "conflict"} : putter' = [putter EXCEPT ![e] = at]
          /\ blob' = blob \/ (putter[e] = "putting" /\ blob' = blob \cup {e})
      BY <1>5 DEF CreateOnce, MeetConflict
    <2>3. blob \subseteq blob' /\ blob' \subseteq blob \cup {e}
      BY <2>2
    <2>4. intent[e].state = "none" => e \notin blob'
      BY <1>2, <2>2
    <2>. QED
      BY <1>2, <2>1, <2>2, <2>3, <2>4, OutputGoesOn
  <1>6. CASE CloseConflictedReplacement(e)
    <2>. DEFINE row == [intent[e] EXCEPT !.closed = TRUE]
    <2>1. row \in IntentRows /\ row.state = intent[e].state
      BY <1>2 DEF IntentRows
    <2>2. /\ intent' = [intent EXCEPT ![e] = row]
          /\ UNCHANGED <<doc, folders, putter, blob, cleanup, removing, history>>
      BY <1>6 DEF CloseConflictedReplacement, Closed
    <2>. HIDE DEF row
    <2>. QED
      BY <1>2, <2>1, <2>2, OutputGoesOn
  <1>. QED
    BY <1>3, <1>4, <1>5, <1>6


\* A document is published from a row that had none, over one that is hidden.
LEMMA PublishedKeeps ==
  ASSUME LibraryKept, NEW d \in Docs, Published(d), d \in blob,
         intent[d].state \in {"PENDING", "SENT"},
         intent[d].replaces = NoDocument \/ Replaceable(intent[d].replaces, intent[d].path),
         \/ putter' = putter
         \/ d \in Uploads /\ putter' = [putter EXCEPT ![d] = "done"],
         d \in Uploads => putter'[d] = "done",
         UNCHANGED <<folders, blob, cleanup, removing, history, edits>>
  PROVE  LibraryKept'
  <1>. DEFINE i == intent[d]
              r == i.replaces
              linked == d \in Outputs
              new == [state |-> "live", path |-> i.path, byRun |-> FALSE, linked |-> linked]
              row == [i EXCEPT !.state = "PUBLISHED"]
  <1>1. /\ doc \in [Docs -> DocRows] /\ intent \in [Docs -> IntentRows]
        /\ putter \in [Docs -> {"idle", "checked", "putting", "stored", "done", "conflict"}]
    BY LibraryRows
  <1>2. i \in IntentRows /\ i.path \in Paths \cup {NoDocument} /\ r \in Docs \cup {NoDocument}
    BY <1>1 DEF IntentRows
  <1>3. doc[d].state = "none" /\ d \notin removing /\ d \notin cleanup
    BY <1>1, LibraryRows DEF LibraryKept, RowsMatch
  <1>4. row \in IntentRows /\ row.state = "PUBLISHED"
    BY <1>2 DEF IntentRows
  <1>5. new \in DocRows /\ new.state = "live" /\ new.linked = linked
    <2>1. linked \in BOOLEAN
      OBVIOUS
    <2>. HIDE DEF linked
    <2>. QED
      BY <1>2, <2>1 DEF DocRows
  <1>6. /\ intent' = [intent EXCEPT ![d] = row]
        /\ doc' = [x \in Docs |-> CASE x = d -> new
                                    [] x = r -> [doc[x] EXCEPT !.state = "trashed"]
                                    [] OTHER -> doc[x]]
    BY DEF Published
  <1>7. \A x \in Docs : x = r => doc[x].state = "live" /\ x # d
    BY <1>3 DEF Replaceable
  <1>. HIDE DEF i, r, new, row, linked
  <1>8. ASSUME NEW x \in Docs, x # d
        PROVE  /\ doc'[x] \in DocRows /\ Present(x)' = Present(x)
               /\ doc'[x].state = "none" <=> doc[x].state = "none"
               /\ doc'[x].state = "gone" <=> doc[x].state = "gone"
               /\ doc'[x].linked = doc[x].linked
    <2>1. doc[x] \in DocRows
      BY <1>1
    <2>2. CASE x = r
      <3>1. doc'[x] = [doc[x] EXCEPT !.state = "trashed"] /\ doc[x].state = "live"
        BY <1>6, <1>7, <1>8, <2>2
      <3>. QED
        BY <2>1, <3>1 DEF DocRows, Present
    <2>3. CASE x # r
      <3>1. doc'[x] = doc[x]
        BY <1>6, <1>8, <2>3
      <3>. QED
        BY <2>1, <3>1 DEF Present
    <2>. QED
      BY <2>2, <2>3
  <1>9. doc'[d] = new
    BY <1>6, <1>7
  <1>10. doc' \in [Docs -> DocRows]
    <2>1. DOMAIN doc' = Docs /\ doc' = [x \in Docs |-> doc'[x]]
      BY <1>6
    <2>2. \A x \in Docs : doc'[x] \in DocRows
      BY <1>5, <1>8, <1>9
    <2>. QED
      BY <2>1, <2>2
  <1>11. /\ intent' \in [Docs -> IntentRows] /\ intent'[d] = row
         /\ \A x \in Docs : x # d => intent'[x] = intent[x]
    BY <1>1, <1>4, <1>6
  <1>12. /\ putter' \in [Docs -> {"idle", "checked", "putting", "stored", "done", "conflict"}]
         /\ \A x \in Docs : x # d => putter'[x] = putter[x]
         /\ d \in Outputs => putter'[d] = putter[d]
    BY <1>1
  <1>13. DocTypeOK'
    BY <1>10, <1>11, <1>12, LibraryRows DEF DocTypeOK, DocRows, IntentRows, HistoryRows
  <1>14. Present(d)'
    BY <1>5, <1>9 DEF Present
  <1>15. RowsMatch'
    BY <1>3, <1>4, <1>5, <1>8, <1>9, <1>11, <1>14 DEF LibraryKept, RowsMatch
  <1>16. \A x \in Uploads \cup Outputs : x \in Docs
    BY DEF Docs
  <1>17. UploadsMatch'
    BY <1>4, <1>11, <1>12, <1>16 DEF LibraryKept, UploadsMatch
  <1>18. OutputsMatch'
    <2>1. ASSUME NEW e \in Outputs, e # d
          PROVE  /\ putter'[e] = "putting" => intent'[e].state # "none"
                 /\ Present(e)' => (doc'[e].linked <=> intent'[e].state = "PUBLISHED")
      BY <1>8, <1>11, <1>12, <1>16, <2>1 DEF LibraryKept, OutputsMatch
    <2>2. d \in Outputs => doc'[d].linked /\ intent'[d].state = "PUBLISHED"
      BY <1>4, <1>5, <1>9, <1>11 DEF linked
    <2>. QED
      BY <2>1, <2>2 DEF OutputsMatch
  <1>. QED
    BY <1>13, <1>15, <1>17, <1>18 DEF LibraryKept

\* The publication of an upload, or the reason why there is none.
LEMMA PublishUploadKeeps ==
  ASSUME LibraryKept, NEW u \in Uploads, UNCHANGED edits, PublishUpload(u)
  PROVE  LibraryKept'
  <1>1. /\ intent \in [Docs -> IntentRows] /\ u \in Docs
        /\ putter \in [Docs -> {"idle", "checked", "putting", "stored", "done", "conflict"}]
    BY LibraryRows DEF Docs
  <1>2. /\ putter[u] = "stored" /\ putter' = [putter EXCEPT ![u] = "done"] /\ putter'[u] = "done"
        /\ UNCHANGED <<folders, blob, cleanup, removing, history>>
    BY <1>1 DEF PublishUpload, ReadyToPublish
  <1>3. intent[u] \in IntentRows /\ intent[u].state = "PENDING" /\ u \in blob
    BY <1>1, <1>2 DEF LibraryKept, UploadsMatch
  <1>4. CASE UNCHANGED <<doc, intent>>
    <2>1. intent' = [intent EXCEPT ![u] = intent[u]]
      BY <1>1, <1>4
    <2>. QED
      BY <1>2, <1>3, <1>4, <2>1, UploadGoesOn
  <1>5. CASE Closed(u)
    <2>. DEFINE row == [intent[u] EXCEPT !.closed = TRUE]
    <2>1. row \in IntentRows /\ row.state = "PENDING"
      BY <1>3 DEF IntentRows
    <2>2. intent' = [intent EXCEPT ![u] = row] /\ UNCHANGED doc
      BY <1>5 DEF Closed
    <2>. HIDE DEF row
    <2>. QED
      BY <1>2, <1>3, <2>1, <2>2, UploadGoesOn
  <1>6. CASE /\ intent[u].replaces = NoDocument \/ Replaceable(intent[u].replaces, intent[u].path)
             /\ Published(u)
    BY <1>1, <1>2, <1>3, <1>6, PublishedKeeps
  <1>. QED
    BY <1>4, <1>5, <1>6 DEF PublishUpload

\* The publication of what an effect has put.
LEMMA PublishOutputKeeps ==
  ASSUME LibraryKept, NEW e \in Outputs, UNCHANGED edits, PublishOutput(e)
  PROVE  LibraryKept'
  <1>1. e \in Docs /\ e \notin Uploads
    BY DEF Docs
  <1>2. /\ Published(e) /\ e \in blob /\ intent[e].state = "SENT"
        /\ intent[e].replaces = NoDocument \/ Replaceable(intent[e].replaces, intent[e].path)
        /\ UNCHANGED <<folders, putter, blob, cleanup, removing, history>>
    BY DEF PublishOutput, ReplacementLost
  <1>. QED
    BY <1>1, <1>2, PublishedKeeps


\* What a user does to documents and folders, short of deleting a document.
LEMMA ManageKeeps ==
  ASSUME LibraryKept, edits' \in 0..MaxEdits,
         \/ \E d \in Docs : Trash(d) \/ Restore(d)
         \/ \E p \in Places : CreateFolder(p) \/ DeleteFolder(p)
         \/ \E S \in SUBSET LiveDocs : S # {} /\ \E moved \in [S -> Paths] : Move(moved)
         \/ \E p, q \in Places : MoveFolder(p, q)
  PROVE  LibraryKept'
  <1>1. /\ doc \in [Docs -> DocRows] /\ history \in [Holders -> HistoryRows]
        /\ folders \subseteq Places
    BY LibraryRows
  <1>2. \A d \in Docs : doc[d] \in DocRows
    BY <1>1
  <1>3. ASSUME NEW d \in Docs, Trash(d) \/ Restore(d)
        PROVE  LibraryKept'
    <2>1. /\ doc[d].state \in {"live", "trashed"}
          /\ \E state \in {"live", "trashed"} :
               doc' = [doc EXCEPT ![d].state = state, ![d].byRun = FALSE]
          /\ UNCHANGED <<folders, intent, putter, blob, cleanup, removing, history>>
      BY <1>3 DEF Trash, Restore
    <2>2. PICK state \in {"live", "trashed"} :
            doc' = [doc EXCEPT ![d].state = state, ![d].byRun = FALSE]
      BY <2>1
    <2>. DEFINE row == [doc[d] EXCEPT !.state = state, !.byRun = FALSE]
    <2>3. doc' = [doc EXCEPT ![d] = row]
      BY <1>1, <2>2
    <2>4. row \in DocRows /\ row.state = state /\ row.linked = doc[d].linked
      BY <1>2 DEF DocRows
    <2>. HIDE DEF row
    <2>5. doc' \in [Docs -> DocRows] /\ DocsStay
      BY <1>1, <2>1, <2>3, <2>4 DEF DocsStay
    <2>. QED
      BY <1>1, <2>1, <2>5, LibraryMoves
  <1>4. ASSUME NEW p \in Places, CreateFolder(p) \/ DeleteFolder(p)
        PROVE  LibraryKept'
    <2>1. /\ folders' \subseteq Places
          /\ UNCHANGED <<doc, intent, putter, blob, cleanup, removing, history>>
      BY <1>1, <1>4 DEF CreateFolder, DeleteFolder
    <2>2. doc' \in [Docs -> DocRows] /\ DocsStay
      BY <1>1, <2>1 DEF DocsStay
    <2>. QED
      BY <1>1, <2>1, <2>2, LibraryMoves
  <1>5. ASSUME NEW S \in SUBSET Docs, NEW moved \in [S -> Paths], MoveDocs(moved)
        PROVE  doc' \in [Docs -> DocRows] /\ DocsStay
    <2>1. doc' = [d \in Docs |-> IF d \in S THEN [doc[d] EXCEPT !.path = moved[d]] ELSE doc[d]]
      BY <1>5 DEF MoveDocs
    <2>2. ASSUME NEW d \in Docs
          PROVE  /\ doc'[d] \in DocRows
                 /\ doc'[d].state = doc[d].state /\ doc'[d].linked = doc[d].linked
      <3>1. CASE d \in S
        <4>. DEFINE path == moved[d]
        <4>1. path \in Paths /\ doc'[d] = [doc[d] EXCEPT !.path = path]
          BY <2>1, <3>1
        <4>. HIDE DEF path
        <4>. QED
          BY <1>2, <4>1 DEF DocRows
      <3>2. CASE d \notin S
        BY <1>2, <2>1, <3>2
      <3>. QED
        BY <3>1, <3>2
    <2>3. doc' \in [Docs -> DocRows]
      <3>1. doc' = [d \in Docs |-> doc'[d]]
        BY <2>1
      <3>. QED
        BY <2>2, <3>1
    <2>. QED
      BY <2>2, <2>3 DEF DocsStay
  <1>6. ASSUME NEW S \in SUBSET LiveDocs, NEW moved \in [S -> Paths], Move(moved)
        PROVE  LibraryKept'
    <2>1. S \in SUBSET Docs
      BY DEF LiveDocs
    <2>2. /\ MoveDocs(moved)
          /\ UNCHANGED <<folders, intent, putter, blob, cleanup, removing, history>>
      BY <1>6 DEF Move
    <2>. QED
      BY <1>1, <1>5, <2>1, <2>2, LibraryMoves
  <1>7. ASSUME NEW p \in Places, NEW q \in Places, MoveFolder(p, q)
        PROVE  LibraryKept'
    <2>. DEFINE members == {d \in LiveDocs : p \in Above(doc[d].path)}
                moved == [d \in members |-> Rebase(doc[d].path, p, q)]
                nested == {f \in folders : Within(f, p)}
    <2>1. /\ \A d \in members : moved[d] \in Paths
          /\ \A f \in nested : Rebase(f, p, q) \in Places
          /\ MoveDocs(moved)
          /\ folders' = IF nested = {} THEN folders \cup {q} ELSE {Rebase(f, p, q) : f \in folders}
          /\ UNCHANGED <<intent, putter, blob, cleanup, removing, history>>
      BY <1>7 DEF MoveFolder
    <2>2. members \in SUBSET Docs /\ moved \in [members -> Paths]
      BY <2>1 DEF LiveDocs
    <2>. HIDE DEF moved
    <2>3. doc' \in [Docs -> DocRows] /\ DocsStay
      BY <1>5, <2>1, <2>2
    <2>4. folders' \subseteq Places
      <3>1. ASSUME NEW f \in folders
            PROVE  Rebase(f, p, q) \in Places
        <4>1. CASE Within(f, p)
          BY <2>1, <4>1
        <4>2. CASE ~Within(f, p)
          BY <1>1, <4>2 DEF Rebase
        <4>. QED
          BY <4>1, <4>2
      <3>. QED
        BY <1>1, <2>1, <3>1
    <2>. QED
      BY <1>1, <2>1, <2>3, <2>4, LibraryMoves
  <1>. QED
    BY <1>3, <1>4, <1>6, <1>7


\* What a Run does to its history, short of its deletion.
LEMMA HistoryKeeps ==
  ASSUME LibraryKept, NEW r \in Holders, UNCHANGED edits,
         \/ \E chosen \in SUBSET LiveDocs : BindDocuments(r, chosen)
         \/ CommitRun(r) \/ FinishRun(r) \/ RestoreHistory(r)
         \/ \E include \in BOOLEAN : TrashHistory(r, include)
  PROVE  LibraryKept'
  <1>1. /\ doc \in [Docs -> DocRows] /\ history \in [Holders -> HistoryRows]
        /\ folders \subseteq Places /\ edits \in 0..MaxEdits
    BY LibraryRows
  <1>2. \A d \in Docs : doc[d] \in DocRows
    BY <1>1
  <1>3. UNCHANGED <<folders, intent, putter, blob, cleanup, removing>>
    BY DEF BindDocuments, CommitRun, FinishRun, RestoreHistory, TrashHistory
  <1>4. history' \in [Holders -> HistoryRows]
    <2>1. ASSUME NEW chosen \in SUBSET LiveDocs, BindDocuments(r, chosen)
          PROVE  history' \in [Holders -> HistoryRows]
      <3>. DEFINE row == [state |-> "binding", docs |-> chosen]
      <3>1. row \in HistoryRows
        BY DEF HistoryRows, LiveDocs
      <3>2. history' = [history EXCEPT ![r] = row]
        BY <2>1 DEF BindDocuments
      <3>. HIDE DEF row
      <3>. QED
        BY <1>1, <3>1, <3>2
    <2>2. ASSUME NEW state \in {"active", "finished", "trashed"},
                 history' = [history EXCEPT ![r].state = state]
          PROVE  history' \in [Holders -> HistoryRows]
      BY <1>1, <2>2 DEF HistoryRows
    <2>3. CASE CommitRun(r) \/ FinishRun(r) \/ RestoreHistory(r)
      BY <2>2, <2>3 DEF CommitRun, FinishRun, RestoreHistory
    <2>4. ASSUME NEW include \in BOOLEAN, TrashHistory(r, include)
          PROVE  history' \in [Holders -> HistoryRows]
      BY <2>2, <2>4 DEF TrashHistory
    <2>. QED
      BY <2>1, <2>3, <2>4
  <1>5. ASSUME NEW D \in SUBSET Docs, NEW state \in {"live", "trashed"}, NEW byRun \in BOOLEAN,
               \A d \in D : Present(d),
               doc' = [d \in Docs |-> IF d \in D THEN [doc[d] EXCEPT !.state = state, !.byRun = byRun]
                                      ELSE doc[d]]
        PROVE  doc' \in [Docs -> DocRows] /\ DocsStay
    <2>1. ASSUME NEW d \in Docs
          PROVE  /\ doc'[d] \in DocRows /\ doc'[d].linked = doc[d].linked
                 /\ doc'[d].state = doc[d].state \/ (Present(d) /\ doc'[d].state = state)
      <3>1. CASE d \in D
        <4>1. doc'[d] = [doc[d] EXCEPT !.state = state, !.byRun = byRun] /\ Present(d)
          BY <1>5, <3>1
        <4>. QED
          BY <1>2, <4>1 DEF DocRows
      <3>2. CASE d \notin D
        BY <1>2, <1>5, <3>2
      <3>. QED
        BY <3>1, <3>2
    <2>2. doc' \in [Docs -> DocRows]
      <3>1. doc' = [d \in Docs |-> doc'[d]]
        BY <1>5
      <3>. QED
        BY <2>1, <3>1
    <2>. QED
      BY <2>1, <2>2 DEF DocsStay, Present
  <1>6. doc' \in [Docs -> DocRows] /\ DocsStay
    <2>1. CASE UNCHANGED doc
      BY <1>1, <2>1 DEF DocsStay
    <2>2. CASE RestoreHistory(r)
      <3>. DEFINE back == {d \in OutputsOf(r) : doc[d].byRun}
      <3>1. doc' = [d \in Docs |-> IF d \in back THEN [doc[d] EXCEPT !.state = "live", !.byRun = FALSE]
                                   ELSE doc[d]]
        BY <2>2 DEF RestoreHistory
      <3>2. back \in SUBSET Docs /\ \A d \in back : Present(d)
        BY DEF OutputsOf, Docs
      <3>. HIDE DEF back
      <3>. QED
        BY <1>5, <3>1, <3>2
    <2>3. ASSUME NEW include \in BOOLEAN, TrashHistory(r, include)
          PROVE  doc' \in [Docs -> DocRows] /\ DocsStay
      <3>. DEFINE D == {d \in Docs : include /\ d \in OutputsOf(r) /\ doc[d].state = "live" /\ ~Referenced(d)}
      <3>1. doc' = [d \in Docs |-> IF d \in D THEN [doc[d] EXCEPT !.state = "trashed", !.byRun = TRUE]
                                   ELSE doc[d]]
        BY <2>3 DEF TrashHistory
      <3>2. D \in SUBSET Docs /\ \A d \in D : Present(d)
        BY DEF Present
      <3>. HIDE DEF D
      <3>. QED
        BY <1>5, <3>1, <3>2
    <2>. QED
      BY <2>1, <2>2, <2>3 DEF BindDocuments, CommitRun, FinishRun
  <1>. QED
    BY <1>1, <1>3, <1>4, <1>6, LibraryMoves

\* repository.delete: the row goes when its cleanup row is there.
LEMMA DeleteDocumentKeeps ==
  ASSUME LibraryKept, NEW d \in Docs, NEW purge \in BOOLEAN, DeleteDocument(d, purge),
         edits' \in 0..MaxEdits
  PROVE  LibraryKept'
  <1>1. /\ doc \in [Docs -> DocRows] /\ cleanup \subseteq Docs /\ removing \subseteq cleanup
    BY LibraryRows
  <1>. DEFINE row == [doc[d] EXCEPT !.state = "gone"]
  <1>2. row \in DocRows /\ row.state = "gone"
    BY <1>1 DEF DocRows
  <1>3. /\ Present(d) /\ doc' = [doc EXCEPT ![d] = row]
        /\ cleanup' = cleanup \cup {d} /\ removing' = removing \cup {d}
        /\ UNCHANGED <<folders, intent, putter, blob, history>>
    BY DEF DeleteDocument, Gone
  <1>. HIDE DEF row
  <1>4. /\ doc' \in [Docs -> DocRows] /\ doc'[d] = row
        /\ \A x \in Docs : x # d => doc'[x] = doc[x]
    BY <1>1, <1>2, <1>3
  <1>5. DocTypeOK'
    <2>1. cleanup' \subseteq Docs /\ removing' \subseteq cleanup'
      BY <1>1, <1>3
    <2>. QED
      BY <1>3, <1>4, <2>1, LibraryRows DEF DocTypeOK, DocRows, IntentRows, HistoryRows
  <1>6. /\ ~Present(d)' /\ \A x \in Docs : x # d => (Present(x)' <=> Present(x))
    BY <1>2, <1>4 DEF Present
  <1>7. doc[d].state # "none"
    BY <1>3 DEF Present
  <1>8. RowsMatch'
    BY <1>1, <1>2, <1>3, <1>4, <1>6, <1>7 DEF LibraryKept, RowsMatch
  <1>9. UploadsMatch'
    BY <1>3 DEF LibraryKept, UploadsMatch
  <1>10. OutputsMatch'
    BY <1>3, <1>4, <1>6 DEF LibraryKept, OutputsMatch, Docs
  <1>. QED
    BY <1>5, <1>8, <1>9, <1>10 DEF LibraryKept

\* The object goes after that.
LEMMA RemoveObjectKeeps ==
  ASSUME LibraryKept, NEW d \in Docs, RemoveObject(d), UNCHANGED edits
  PROVE  LibraryKept'
  <1>1. /\ blob \subseteq Docs /\ cleanup \subseteq Docs /\ removing \subseteq cleanup
    BY LibraryRows
  <1>2. /\ d \in removing /\ removing' = removing \ {d}
        /\ (blob' = blob \/ blob' = blob \ {d})
        /\ UNCHANGED <<doc, folders, intent, putter, cleanup, history>>
    BY DEF RemoveObject
  <1>3. doc[d].state = "gone" /\ intent[d].state \in {"PUBLISHED", "purged"}
    BY <1>1, <1>2 DEF LibraryKept, RowsMatch
  <1>4. /\ \A x \in Docs : Present(x)' <=> Present(x)
        /\ ~Present(d)
    BY <1>2, <1>3 DEF Present
  <1>5. DocTypeOK'
    <2>1. blob' \subseteq Docs /\ removing' \subseteq cleanup'
      BY <1>1, <1>2
    <2>. QED
      BY <1>2, <2>1, LibraryRows DEF DocTypeOK, DocRows, IntentRows, HistoryRows
  <1>6. RowsMatch'
    BY <1>2, <1>3, <1>4 DEF LibraryKept, RowsMatch
  <1>7. UploadsMatch'
    <2>1. \A u \in Uploads : putter[u] = "stored" => u # d
      BY <1>3 DEF LibraryKept, UploadsMatch
    <2>. QED
      BY <1>2, <2>1 DEF LibraryKept, UploadsMatch
  <1>8. OutputsMatch'
    BY <1>2, <1>4 DEF LibraryKept, OutputsMatch, Docs
  <1>. QED
    BY <1>5, <1>6, <1>7, <1>8 DEF LibraryKept

\* purge_run: of its published documents some go, and the others lose their link.
LEMMA PurgeHistoryKeeps ==
  ASSUME LibraryKept, NEW r \in Holders, NEW include \in BOOLEAN, PurgeHistory(r, include),
         UNCHANGED edits
  PROVE  LibraryKept'
  <1>. DEFINE own == OutputsOf(r)
              dropped == {d \in own : include /\ ~Referenced(d)}
  <1>1. /\ doc \in [Docs -> DocRows] /\ intent \in [Docs -> IntentRows]
        /\ history \in [Holders -> HistoryRows]
        /\ cleanup \subseteq Docs /\ removing \subseteq cleanup
    BY LibraryRows
  <1>2. /\ own \subseteq Outputs /\ dropped \subseteq own /\ Outputs \subseteq Docs
        /\ \A d \in own : Present(d) /\ doc[d].linked /\ OwnerOf[d] = r
    BY DEF OutputsOf, Docs
  <1>3. /\ AllPublished(r)
        /\ doc' = [d \in Docs |-> CASE d \in dropped -> [doc[d] EXCEPT !.state = "gone"]
                                    [] d \in own \ dropped -> [doc[d] EXCEPT !.linked = FALSE, !.byRun = FALSE]
                                    [] OTHER -> doc[d]]
        /\ cleanup' = cleanup \cup dropped /\ removing' = removing \cup dropped
        /\ intent' = [d \in Docs |-> IF d \in Outputs /\ OwnerOf[d] = r /\ intent[d].state # "none"
                                     THEN [intent[d] EXCEPT !.state = "purged"] ELSE intent[d]]
        /\ history' = [history EXCEPT ![r] = [state |-> "purged", docs |-> {}]]
        /\ UNCHANGED <<folders, putter, blob>>
    BY DEF PurgeHistory, Gone
  <1>4. \A d \in own : d \in Outputs /\ Present(d) /\ doc[d].linked /\ OwnerOf[d] = r
    BY <1>2
  <1>5. \A d \in Outputs : Present(d) /\ doc[d].linked /\ OwnerOf[d] = r => d \in own
    BY DEF OutputsOf
  <1>. HIDE DEF own, dropped
  <1>6. ASSUME NEW d \in Docs
        PROVE  /\ doc'[d] \in DocRows
               /\ d \in dropped => doc'[d].state = "gone" /\ ~Present(d)'
               /\ d \notin dropped => doc'[d].state = doc[d].state /\ (Present(d)' <=> Present(d))
               /\ d \in own \ dropped => ~doc'[d].linked
               /\ d \notin own => doc'[d].linked = doc[d].linked
    <2>1. doc[d] \in DocRows
      BY <1>1
    <2>2. CASE d \in dropped
      <3>1. doc'[d] = [doc[d] EXCEPT !.state = "gone"]
        BY <1>3, <2>2
      <3>. QED
        BY <1>2, <2>1, <2>2, <3>1 DEF DocRows, Present
    <2>3. CASE d \in own \ dropped
      <3>1. doc'[d] = [doc[d] EXCEPT !.linked = FALSE, !.byRun = FALSE]
        BY <1>3, <2>3
      <3>. QED
        BY <2>1, <2>3, <3>1 DEF DocRows, Present
    <2>4. CASE d \notin own
      <3>1. doc'[d] = doc[d]
        BY <1>2, <1>3, <2>4
      <3>. QED
        BY <1>2, <2>1, <2>4, <3>1 DEF Present
    <2>. QED
      BY <2>2, <2>3, <2>4
  <1>7. ASSUME NEW d \in Docs
        PROVE  /\ intent'[d] \in IntentRows
               /\ d \notin Outputs => intent'[d] = intent[d]
               /\ intent'[d].state = "none" <=> intent[d].state = "none"
               /\ intent'[d].state \in {"PUBLISHED", "purged"} <=> intent[d].state \in {"PUBLISHED", "purged"}
               /\ d \in own => intent'[d].state = "purged"
               /\ intent'[d].state = intent[d].state
                    \/ (d \in Outputs /\ OwnerOf[d] = r /\ intent'[d].state = "purged")
    <2>1. intent[d] \in IntentRows
      BY <1>1
    <2>2. CASE d \in Outputs /\ OwnerOf[d] = r /\ intent[d].state # "none"
      <3>1. intent'[d] = [intent[d] EXCEPT !.state = "purged"]
        BY <1>3, <2>2
      <3>2. intent[d].state = "PUBLISHED"
        BY <1>3, <2>2 DEF AllPublished
      <3>. QED
        BY <2>1, <2>2, <3>1, <3>2 DEF IntentRows
    <2>3. CASE ~(d \in Outputs /\ OwnerOf[d] = r /\ intent[d].state # "none")
      <3>1. intent'[d] = intent[d]
        BY <1>3, <2>3
      <3>2. d \notin own
        BY <1>4, <2>3 DEF LibraryKept, RowsMatch, Present
      <3>. QED
        BY <2>1, <3>1, <3>2
    <2>. QED
      BY <2>2, <2>3
  <1>8. DocTypeOK'
    <2>1. doc' \in [Docs -> DocRows]
      <3>1. doc' = [d \in Docs |-> doc'[d]]
        BY <1>3
      <3>. QED
        BY <1>6, <3>1
    <2>2. intent' \in [Docs -> IntentRows]
      <3>1. intent' = [d \in Docs |-> intent'[d]]
        BY <1>3
      <3>. QED
        BY <1>7, <3>1
    <2>3. history' \in [Holders -> HistoryRows]
      BY <1>1, <1>3 DEF HistoryRows
    <2>4. cleanup' \subseteq Docs /\ removing' \subseteq cleanup'
      BY <1>1, <1>2, <1>3
    <2>. QED
      BY <1>3, <2>1, <2>2, <2>3, <2>4, LibraryRows DEF DocTypeOK, DocRows, IntentRows, HistoryRows
  <1>9. RowsMatch'
    <2>1. ASSUME NEW d \in Docs
          PROVE  /\ doc'[d].state # "none" <=> intent'[d].state \in {"PUBLISHED", "purged"}
                 /\ d \in cleanup' <=> doc'[d].state = "gone"
                 /\ Present(d)' => d \in blob' /\ d \notin removing'
                 /\ intent'[d].state = "none" => d \notin blob'
      <3>1. d \in dropped => doc[d].state # "none"
        BY <1>2, <1>4 DEF Present
      <3>2. doc'[d].state # "none" <=> doc[d].state # "none"
        BY <1>6, <3>1
      <3>3. /\ doc[d].state # "none" <=> intent[d].state \in {"PUBLISHED", "purged"}
            /\ d \in cleanup <=> doc[d].state = "gone"
            /\ Present(d) => d \in blob /\ d \notin removing
            /\ intent[d].state = "none" => d \notin blob
        BY DEF LibraryKept, RowsMatch
      <3>4. doc'[d].state # "none" <=> intent'[d].state \in {"PUBLISHED", "purged"}
        BY <1>7, <3>2, <3>3
      <3>5. d \in cleanup' <=> doc'[d].state = "gone"
        BY <1>3, <1>6, <3>3
      <3>6. Present(d)' => d \in blob' /\ d \notin removing'
        BY <1>3, <1>6, <3>3
      <3>7. intent'[d].state = "none" => d \notin blob'
        BY <1>3, <1>7, <3>3
      <3>. QED
        BY <3>4, <3>5, <3>6, <3>7
    <2>. QED
      BY <2>1 DEF RowsMatch
  <1>10. UploadsMatch'
    <2>1. \A u \in Uploads : intent'[u] = intent[u]
      BY <1>7 DEF Docs
    <2>. QED
      BY <1>3, <2>1 DEF LibraryKept, UploadsMatch
  <1>11. OutputsMatch'
    <2>1. ASSUME NEW e \in Outputs
          PROVE  /\ putter'[e] = "putting" => intent'[e].state # "none"
                 /\ Present(e)' => (doc'[e].linked <=> intent'[e].state = "PUBLISHED")
      <3>1. e \in Docs
        BY <1>2
      <3>2. putter'[e] = "putting" => intent'[e].state # "none"
        BY <1>3, <1>7, <3>1 DEF LibraryKept, OutputsMatch
      <3>3. ASSUME Present(e)'
            PROVE  doc'[e].linked <=> intent'[e].state = "PUBLISHED"
        <4>1. e \notin dropped /\ Present(e)
          BY <1>6, <3>1, <3>3
        <4>2. CASE e \in own
          BY <1>6, <1>7, <3>1, <4>1, <4>2
        <4>3. CASE e \notin own
          <5>1. doc'[e].linked = doc[e].linked
            BY <1>6, <3>1, <4>3
          <5>2. doc[e].linked <=> intent[e].state = "PUBLISHED"
            BY <4>1 DEF LibraryKept, OutputsMatch
          <5>3. doc[e].linked => OwnerOf[e] # r
            BY <1>5, <4>1, <4>3
          <5>4. ~doc[e].linked => intent'[e].state # "PUBLISHED"
            BY <1>7, <3>1, <5>2
          <5>5. doc[e].linked => intent'[e].state = "PUBLISHED"
            BY <1>7, <3>1, <5>2, <5>3
          <5>. QED
            BY <5>1, <5>4, <5>5
        <4>. QED
          BY <4>2, <4>3
      <3>. QED
        BY <3>2, <3>3
    <2>. QED
      BY <2>1 DEF OutputsMatch
  <1>. QED
    BY <1>8, <1>9, <1>10, <1>11 DEF LibraryKept


\* Every table starts without a row.
LEMMA LibraryInitial == LibraryInit => LibraryKept
  <1>. SUFFICES ASSUME LibraryInit PROVE LibraryKept
    OBVIOUS
  <1>1. EmptyDoc \in DocRows /\ EmptyDoc.state = "none"
    BY DEF EmptyDoc, DocRows
  <1>2. NoIntent \in IntentRows /\ NoIntent.state = "none"
    BY DEF NoIntent, IntentRows
  <1>3. [state |-> "none", docs |-> {}] \in HistoryRows
    BY DEF HistoryRows
  <1>4. \A d \in Docs : doc[d] = EmptyDoc /\ intent[d] = NoIntent /\ putter[d] = "idle"
    BY DEF LibraryInit
  <1>5. /\ doc \in [Docs -> DocRows] /\ intent \in [Docs -> IntentRows]
        /\ history \in [Holders -> HistoryRows]
    BY <1>1, <1>2, <1>3 DEF LibraryInit
  <1>6. DocTypeOK
    <2>1. folders \subseteq Places
      BY DEF LibraryInit, Places
    <2>2. putter \in [Docs -> {"idle", "checked", "putting", "stored", "done", "conflict"}]
      BY DEF LibraryInit
    <2>3. edits \in 0..MaxEdits /\ blob = {} /\ cleanup = {} /\ removing = {}
      BY DEF LibraryInit
    <2>. QED
      BY <1>5, <2>1, <2>2, <2>3 DEF DocTypeOK, DocRows, IntentRows, HistoryRows
  <1>7. blob = {} /\ cleanup = {} /\ \A d \in Docs : ~Present(d)
    BY <1>1, <1>4 DEF LibraryInit, Present
  <1>8. RowsMatch
    BY <1>1, <1>2, <1>4, <1>7 DEF RowsMatch
  <1>9. UploadsMatch
    BY <1>2, <1>4 DEF UploadsMatch, Docs
  <1>10. OutputsMatch
    BY <1>4, <1>7 DEF OutputsMatch, Docs
  <1>. QED
    BY <1>6, <1>8, <1>9, <1>10 DEF LibraryKept

\* One step per transaction, put, deletion and request.
LEMMA LibraryNextKeeps == LibraryKept /\ [LibraryNext]_libraryVars => LibraryKept'
  <1>. SUFFICES ASSUME LibraryKept, [LibraryNext]_libraryVars PROVE LibraryKept'
    OBVIOUS
  <1>1. ASSUME NEW u \in Uploads, LibUploadStep(u), UNCHANGED edits
        PROVE  LibraryKept'
    BY <1>1, UploadKeeps, PublishUploadKeeps DEF LibUploadStep
  <1>2. ASSUME NEW e \in Outputs, OutputStep(e), UNCHANGED edits
        PROVE  LibraryKept'
    BY <1>2, OutputKeeps, PublishOutputKeeps DEF OutputStep
  <1>3. ASSUME NEW d \in Docs, RemoveObject(d), UNCHANGED edits
        PROVE  LibraryKept'
    BY <1>3, RemoveObjectKeeps
  <1>4. ASSUME NEW r \in Holders, RunStep(r), UNCHANGED edits
        PROVE  LibraryKept'
    BY <1>4, HistoryKeeps, PurgeHistoryKeeps DEF RunStep
  <1>5. ASSUME edits < MaxEdits, edits' = edits + 1, Manage
        PROVE  LibraryKept'
    <2>1. edits' \in 0..MaxEdits
      BY <1>5, LibraryRows
    <2>. QED
      BY <1>5, <2>1, ManageKeeps, DeleteDocumentKeeps DEF Manage
  <1>6. CASE UNCHANGED libraryVars
    <2>1. UNCHANGED <<doc, folders, intent, putter, blob, cleanup, removing, history, edits>>
      BY <1>6 DEF libraryVars
    <2>2. DocsStay
      BY <2>1 DEF DocsStay
    <2>. QED
      BY <2>1, <2>2, LibraryRows, LibraryMoves
  <1>. QED
    BY <1>1, <1>2, <1>3, <1>4, <1>5, <1>6 DEF LibraryNext

\* The three tables always match, whatever request or executor died between two transactions.
THEOREM LibraryInductive == LibrarySpec => []LibraryKept
  BY LibraryInitial, LibraryNextKeeps, PTL DEF LibrarySpec

\* Sets without a common element are counted one after the other.
LEMMA CountedApart ==
  ASSUME NEW A, NEW B, IsFiniteSet(A), IsFiniteSet(B), A \cap B = {}
  PROVE  IsFiniteSet(A \cup B) /\ Cardinality(A \cup B) = Cardinality(A) + Cardinality(B)
  <1>1. /\ IsFiniteSet(A \cup B)
        /\ Cardinality(A \cup B) = Cardinality(A) + Cardinality(B) - Cardinality(A \cap B)
    BY FS_Union
  <1>2. Cardinality(A \cap B) = 0
    BY FS_EmptySet
  <1>3. Cardinality(A) \in Nat /\ Cardinality(B) \in Nat
    BY FS_CardinalityType
  <1>. QED
    BY <1>1, <1>2, <1>3

\* The four sums of project_usage_bytes are the objects that have an upload row, each in one of them.
LEMMA UsageIsTrue == LibraryKept => UsageCountsEachOnce
  <1>. SUFFICES ASSUME LibraryKept PROVE UsageCountsEachOnce
    OBVIOUS
  <1>. DEFINE A == {u \in Uploads : intent[u].state \in {"PENDING", "PUBLISHED"}}
              B == {e \in Outputs : intent[e].state \notin {"none", "purged"} /\ e \notin cleanup}
              C == {e \in Outputs : Present(e) /\ ~doc[e].linked}
              D == Outputs \cap cleanup
              All == {d \in Docs : intent[d].state # "none"}
  <1>1. /\ \A d \in Docs : /\ doc[d].state \in {"none", "live", "trashed", "gone"}
                           /\ intent[d].state \in {"none", "PENDING", "SENT", "PUBLISHED", "purged"}
        /\ Uploads \subseteq Docs /\ Outputs \subseteq Docs
    BY LibraryRows DEF DocRows, IntentRows, Docs
  <1>2. \A u \in Uploads : u \in A <=> u \in All
    BY <1>1 DEF LibraryKept, UploadsMatch
  <1>3. \A e \in Outputs :
          /\ doc[e].state # "none" <=> intent[e].state \in {"PUBLISHED", "purged"}
          /\ e \in cleanup <=> doc[e].state = "gone"
          /\ Present(e) <=> doc[e].state \in {"live", "trashed"}
          /\ Present(e) => (doc[e].linked <=> intent[e].state = "PUBLISHED")
    BY <1>1 DEF LibraryKept, RowsMatch, OutputsMatch, Present
  <1>4. ASSUME NEW e \in Outputs
        PROVE  /\ e \in All <=> e \in B \/ e \in C \/ e \in D
               /\ ~(e \in B /\ e \in C) /\ ~(e \in B /\ e \in D) /\ ~(e \in C /\ e \in D)
    BY <1>1, <1>3
  <1>5. /\ A \subseteq Uploads /\ B \subseteq Outputs /\ C \subseteq Outputs /\ D \subseteq Outputs
        /\ All \subseteq Uploads \cup Outputs
    BY DEF Docs
  <1>6. ProjectUsage = Cardinality(A) + Cardinality(B) + Cardinality(C) + Cardinality(D)
    BY DEF ProjectUsage
  <1>7. UsageCountsEachOnce <=> ProjectUsage = Cardinality(All)
    BY DEF UsageCountsEachOnce
  <1>. HIDE DEF A, B, C, D, All
  <1>8. /\ All = ((A \cup B) \cup C) \cup D
        /\ A \cap B = {} /\ (A \cup B) \cap C = {} /\ ((A \cup B) \cup C) \cap D = {}
    BY <1>2, <1>4, <1>5
  <1>9. IsFiniteSet(A) /\ IsFiniteSet(B) /\ IsFiniteSet(C) /\ IsFiniteSet(D)
    BY <1>1, <1>5, FS_Subset
  <1>10. IsFiniteSet(A \cup B) /\ Cardinality(A \cup B) = Cardinality(A) + Cardinality(B)
    BY <1>8, <1>9, CountedApart
  <1>11. /\ IsFiniteSet((A \cup B) \cup C)
         /\ Cardinality((A \cup B) \cup C) = Cardinality(A \cup B) + Cardinality(C)
    BY <1>8, <1>9, <1>10, CountedApart
  <1>12. Cardinality(((A \cup B) \cup C) \cup D) = Cardinality((A \cup B) \cup C) + Cardinality(D)
    BY <1>8, <1>9, <1>11, CountedApart
  <1>. QED
    BY <1>6, <1>7, <1>8, <1>10, <1>11, <1>12

\* Whatever dies between the object store and the database, every document has its object, no
\* object is forgotten and the quota counts each one once: LibraryIsSound, for any library.
THEOREM LibraryStaysSound == LibrarySpec => []LibraryIsSound
  <1>1. LibraryKept => LibraryIsSound
    <2>. SUFFICES ASSUME LibraryKept PROVE LibraryIsSound
      OBVIOUS
    <2>1. DocumentHasObject
      BY DEF LibraryKept, RowsMatch, DocumentHasObject
    <2>2. NoForgottenObject
      <3>1. ASSUME NEW d \in Docs, d \in blob \/ putter[d] = "putting"
            PROVE  Present(d) \/ d \in cleanup \/ intent[d].state \in {"PENDING", "SENT", "PUBLISHED"}
        <4>1. /\ doc[d].state \in {"none", "live", "trashed", "gone"}
              /\ intent[d].state \in {"none", "PENDING", "SENT", "PUBLISHED", "purged"}
          BY LibraryRows DEF DocRows, IntentRows
        <4>2. intent[d].state # "none"
          BY <3>1 DEF LibraryKept, RowsMatch, UploadsMatch, OutputsMatch, Docs
        <4>. QED
          BY <4>1, <4>2 DEF LibraryKept, RowsMatch, Present
      <3>. QED
        BY <3>1 DEF NoForgottenObject
    <2>. QED
      BY <2>1, <2>2, UsageIsTrue DEF LibraryIsSound
  <1>. QED
    BY <1>1, LibraryInductive, PTL
-----------------------------------------------------------------------------
(* The input of a Run (RunInputs), for any documents, files, limits, attempts  *)
(* and commits by others. The one receipt of the Run decides: the attempt that *)
(* created it is the only one that ever writes the generation, and what it     *)
(* published is what everybody is given, or nobody starts.                     *)

\* The phases of the attempt that prepares the input, and those in which all of it is written.
Preparing == {"begun", "created", "documents", "repository", "written", "sealed"}
Written == {"repository", "written", "sealed", "unconfirmed"}

\* An attempt that prepares holds the receipt, one that reuses found a complete one.
PreparersHoldReceipt ==
  \A a \in InputAttempts :
    /\ prep[a] \in Preparing => receipt.status = "PREPARING" /\ receipt.by = a
    /\ prep[a] = "unconfirmed" => receipt.status # "none" /\ receipt.by = a
    /\ prep[a] = "reuse" => receipt.status = "READY"

\* What an attempt has written so far, as it knows it.
SealingIsComplete ==
  \A a \in InputAttempts :
    /\ \A f \in sealing[a].files : f.body # "damaged"
    /\ prep[a] \in Written \cup {"documents"} => DocumentRoot \subseteq sealing[a].files
    /\ prep[a] \in Written =>
         \E revision \in 0..MaxRevision : RepositoryRoot(revision) \subseteq sealing[a].files

\* A complete receipt names a complete input, and who was started was given that one.
ReceiptIsGiven ==
  /\ receipt.status = "READY" => CompleteInputOf(receipt.files)
  /\ \A a \in InputAttempts :
       prep[a] = "ready" => receipt.status = "READY" /\ sees[a] = receipt.files

InputPhases == {"none", "begun", "created", "documents", "repository", "written", "sealed",
                "unconfirmed", "reuse", "ready", "failed"}
InputRows ==
  /\ InputTypeOK
  /\ DOMAIN sealing = InputAttempts /\ DOMAIN sees = InputAttempts
InputKept == InputRows /\ PreparersHoldReceipt /\ SealingIsComplete /\ ReceiptIsGiven


\* One attempt goes on to another phase; nothing is written and nobody is given an input.
LEMMA PrepMoves ==
  ASSUME InputKept, NEW a \in InputAttempts, NEW phase \in InputPhases \ {"ready"},
         prep' = [prep EXCEPT ![a] = phase],
         UNCHANGED <<inputHolder, receipt, sealing, sees, head, bindingSum>>,
         phase \in Preparing => receipt.status = "PREPARING" /\ receipt.by = a,
         phase = "unconfirmed" => receipt.status # "none" /\ receipt.by = a,
         phase = "reuse" => receipt.status = "READY",
         phase \in Written \cup {"documents"} => DocumentRoot \subseteq sealing[a].files,
         phase \in Written =>
           \E revision \in 0..MaxRevision : RepositoryRoot(revision) \subseteq sealing[a].files
  PROVE  InputKept'
  <1>1. /\ prep \in [InputAttempts -> InputPhases]
        /\ DOMAIN sealing = InputAttempts /\ DOMAIN sees = InputAttempts
    BY DEF InputKept, InputRows, InputTypeOK, InputPhases
  <1>2. /\ prep' \in [InputAttempts -> InputPhases] /\ prep'[a] = phase
        /\ \A b \in InputAttempts : b # a => prep'[b] = prep[b]
    BY <1>1
  <1>3. InputRows'
    BY <1>1, <1>2 DEF InputKept, InputRows, InputTypeOK, InputPhases
  <1>4. PreparersHoldReceipt'
    BY <1>2 DEF InputKept, PreparersHoldReceipt
  <1>5. SealingIsComplete'
    <2>1. ASSUME NEW b \in InputAttempts
          PROVE  /\ \A f \in sealing'[b].files : f.body # "damaged"
                 /\ prep'[b] \in Written \cup {"documents"} => DocumentRoot \subseteq sealing'[b].files
                 /\ prep'[b] \in Written =>
                      \E revision \in 0..MaxRevision : RepositoryRoot(revision) \subseteq sealing'[b].files
      BY <1>2 DEF InputKept, SealingIsComplete
    <2>. QED
      BY <2>1 DEF SealingIsComplete
  <1>6. ReceiptIsGiven'
    BY <1>2 DEF InputKept, ReceiptIsGiven
  <1>. QED
    BY <1>3, <1>4, <1>5, <1>6 DEF InputKept

\* The files of the roots are whole.
LEMMA RootsAreWhole ==
  /\ \A f \in DocumentRoot : f.body # "damaged"
  /\ \A revision : \A f \in RepositoryRoot(revision) : f.body # "damaged"
  /\ \A f \in SkillFiles : f.body # "damaged"
  <1>1. \A kind : Body(kind) # "damaged"
    BY DEF Body
  <1>2. \A root, name, body, revision : InputFile(root, name, body, revision).body = body
    BY DEF InputFile
  <1>3. \A f \in DocumentRoot : f.body # "damaged"
    BY <1>1, <1>2 DEF DocumentRoot, UsableFile, Generated
  <1>4. \A revision : \A f \in RepositoryRoot(revision) : f.body # "damaged"
    BY <1>1, <1>2 DEF RepositoryRoot, ReadFiles, Generated, History
  <1>5. \A f \in SkillFiles : f.body # "damaged"
    BY <1>2 DEF SkillFiles
  <1>. QED
    BY <1>3, <1>4, <1>5

\* An attempt fails, in whatever phase.
LEMMA PrepFailsKeeps ==
  ASSUME InputKept, NEW a \in InputAttempts, prep' = [prep EXCEPT ![a] = "failed"],
         UNCHANGED <<inputHolder, receipt, sealing, sees, head, bindingSum>>
  PROVE  InputKept'
  BY PrepMoves DEF InputPhases, Preparing, Written

\* _write_root: one more root is there, and the attempt knows it.
LEMMA WriteRootKeeps ==
  ASSUME InputKept, NEW a \in InputAttempts, NEW files, NEW manifest,
         NEW phase \in {"documents", "repository", "written"},
         WriteRoot(a, files, manifest, phase), prep[a] \in Preparing,
         \A f \in files : f.body # "damaged",
         DocumentRoot \subseteq sealing[a].files \cup files,
         phase # "documents" => \E revision \in 0..MaxRevision :
                                  RepositoryRoot(revision) \subseteq sealing[a].files \cup files
  PROVE  InputKept'
  <1>1. /\ prep \in [InputAttempts -> InputPhases]
        /\ DOMAIN sealing = InputAttempts /\ DOMAIN sees = InputAttempts
    BY DEF InputKept, InputRows, InputTypeOK, InputPhases
  <1>2. CASE prep' = [prep EXCEPT ![a] = "failed"]
             /\ UNCHANGED <<inputHolder, receipt, sealing, sees, head, bindingSum>>
    BY <1>2, PrepFailsKeeps
  <1>3. CASE /\ sealing' = [sealing EXCEPT ![a] = [files |-> sealing[a].files \cup files, manifest |-> manifest]]
             /\ prep' = [prep EXCEPT ![a] = phase]
             /\ UNCHANGED <<inputHolder, receipt, sees, head, bindingSum>>
    <2>1. /\ prep' \in [InputAttempts -> InputPhases] /\ prep'[a] = phase
          /\ \A b \in InputAttempts : b # a => prep'[b] = prep[b] /\ sealing'[b] = sealing[b]
      BY <1>1, <1>3 DEF InputPhases
    <2>2. sealing'[a].files = sealing[a].files \cup files /\ DOMAIN sealing' = InputAttempts
      BY <1>1, <1>3
    <2>3. InputRows'
      BY <1>1, <1>3, <2>1, <2>2 DEF InputKept, InputRows, InputTypeOK, InputPhases
    <2>4. receipt.status = "PREPARING" /\ receipt.by = a
      BY DEF InputKept, PreparersHoldReceipt
    <2>5. PreparersHoldReceipt'
      BY <1>3, <2>1, <2>4 DEF InputKept, PreparersHoldReceipt
    <2>6. SealingIsComplete'
      <3>1. ASSUME NEW b \in InputAttempts
            PROVE  /\ \A f \in sealing'[b].files : f.body # "damaged"
                   /\ prep'[b] \in Written \cup {"documents"} => DocumentRoot \subseteq sealing'[b].files
                   /\ prep'[b] \in Written =>
                        \E revision \in 0..MaxRevision : RepositoryRoot(revision) \subseteq sealing'[b].files
        <4>1. CASE b = a
          BY <2>1, <2>2, <4>1 DEF InputKept, SealingIsComplete, Written
        <4>2. CASE b # a
          BY <2>1, <4>2 DEF InputKept, SealingIsComplete
        <4>. QED
          BY <4>1, <4>2
      <3>. QED
        BY <3>1 DEF SealingIsComplete
    <2>7. ReceiptIsGiven'
      BY <1>3, <2>1 DEF InputKept, ReceiptIsGiven
    <2>. QED
      BY <2>3, <2>5, <2>6, <2>7 DEF InputKept
  <1>. QED
    BY <1>2, <1>3 DEF WriteRoot, PrepFails, PrepGoes, PrepTo, preparing

\* begin: the first receipt of the Run, or the one that is there.
LEMMA BeginInputKeeps ==
  ASSUME InputKept, NEW a \in InputAttempts, BeginInput(a)
  PROVE  InputKept'
  <1>1. /\ prep \in [InputAttempts -> InputPhases] /\ receipt.status \in {"none", "PREPARING", "READY"}
        /\ DOMAIN sealing = InputAttempts /\ DOMAIN sees = InputAttempts
    BY DEF InputKept, InputRows, InputTypeOK, InputPhases
  <1>2. CASE PrepFails(a)
    BY <1>2, PrepFailsKeeps DEF PrepFails, PrepGoes, PrepTo, preparing
  <1>3. CASE receipt.status = "READY" /\ PrepGoes(a, "reuse")
    BY <1>3, PrepMoves DEF PrepGoes, PrepTo, preparing, InputPhases, Preparing, Written
  <1>4. ASSUME NEW phase \in {"begun", "failed"}, receipt.status = "none",
               receipt' = [NoInputReceipt EXCEPT !.status = "PREPARING", !.by = a],
               PrepTo(a, phase), UNCHANGED <<preparing, generation, sealing, sees>>
        PROVE  InputKept'
    <2>1. /\ prep' \in [InputAttempts -> InputPhases] /\ prep'[a] = phase
          /\ \A b \in InputAttempts : b # a => prep'[b] = prep[b]
      BY <1>1, <1>4 DEF InputPhases, PrepTo
    <2>2. receipt'.status = "PREPARING" /\ receipt'.by = a
      BY <1>4 DEF NoInputReceipt
    <2>3. InputRows'
      BY <1>1, <1>4, <2>1, <2>2, InputAssumption
      DEF InputKept, InputRows, InputTypeOK, InputPhases, preparing, InputAttempts
    <2>4. \A b \in InputAttempts : prep[b] \notin Preparing \cup {"unconfirmed", "reuse", "ready"}
      BY <1>4 DEF InputKept, PreparersHoldReceipt, ReceiptIsGiven
    <2>5. PreparersHoldReceipt'
      BY <2>1, <2>2, <2>4 DEF PreparersHoldReceipt, Preparing
    <2>6. SealingIsComplete'
      <3>1. \A b \in InputAttempts : prep'[b] \notin Written \cup {"documents"}
        BY <2>1, <2>4 DEF Written, Preparing
      <3>. QED
        BY <1>4, <3>1 DEF InputKept, SealingIsComplete
    <2>7. ReceiptIsGiven'
      BY <2>1, <2>2, <2>4 DEF ReceiptIsGiven
    <2>. QED
      BY <2>3, <2>5, <2>6, <2>7 DEF InputKept
  <1>. QED
    BY <1>1, <1>2, <1>3, <1>4 DEF BeginInput


\* An attempt is given the complete input that the receipt names.
LEMMA InputGivenKeeps ==
  ASSUME InputKept, NEW a \in InputAttempts, receipt.status = "READY",
         prep' = [prep EXCEPT ![a] = "ready"], sees' = [sees EXCEPT ![a] = receipt.files],
         UNCHANGED <<inputHolder, receipt, sealing, head, bindingSum>>
  PROVE  InputKept'
  <1>1. /\ prep \in [InputAttempts -> InputPhases]
        /\ DOMAIN sealing = InputAttempts /\ DOMAIN sees = InputAttempts
    BY DEF InputKept, InputRows, InputTypeOK, InputPhases
  <1>2. /\ prep' \in [InputAttempts -> InputPhases] /\ prep'[a] = "ready"
        /\ \A b \in InputAttempts : b # a => prep'[b] = prep[b] /\ sees'[b] = sees[b]
        /\ sees'[a] = receipt.files /\ DOMAIN sees' = InputAttempts
    BY <1>1 DEF InputPhases
  <1>3. InputRows'
    BY <1>1, <1>2 DEF InputKept, InputRows, InputTypeOK, InputPhases
  <1>4. PreparersHoldReceipt'
    BY <1>2 DEF InputKept, PreparersHoldReceipt, Preparing
  <1>5. SealingIsComplete'
    BY <1>2 DEF InputKept, SealingIsComplete, Written
  <1>6. ReceiptIsGiven'
    BY <1>2 DEF InputKept, ReceiptIsGiven
  <1>. QED
    BY <1>3, <1>4, <1>5, <1>6 DEF InputKept

\* The receipt becomes complete: until then nobody was given an input.
LEMMA PublishedInputKeeps ==
  ASSUME InputKept, NEW a \in InputAttempts, prep[a] = "sealed",
         receipt' = PublishedInput(a),
         \/ prep' = [prep EXCEPT ![a] = "ready"] /\ sees' = [sees EXCEPT ![a] = sealing[a].files]
         \/ prep' = [prep EXCEPT ![a] = "unconfirmed"] /\ sees' = sees,
         UNCHANGED <<inputHolder, sealing, head, bindingSum>>
  PROVE  InputKept'
  <1>1. /\ prep \in [InputAttempts -> InputPhases]
        /\ DOMAIN sealing = InputAttempts /\ DOMAIN sees = InputAttempts
    BY DEF InputKept, InputRows, InputTypeOK, InputPhases
  <1>2. /\ prep' \in [InputAttempts -> InputPhases] /\ prep'[a] \in {"ready", "unconfirmed"}
        /\ \A b \in InputAttempts : b # a => prep'[b] = prep[b] /\ sees'[b] = sees[b]
        /\ prep'[a] = "ready" => sees'[a] = sealing[a].files
        /\ DOMAIN sees' = InputAttempts
    BY <1>1 DEF InputPhases
  <1>3. /\ receipt.status = "PREPARING" /\ receipt.by = a
        /\ receipt'.status = "READY" /\ receipt'.by = a /\ receipt'.files = sealing[a].files
    BY DEF InputKept, PreparersHoldReceipt, Preparing, PublishedInput
  <1>4. InputRows'
    BY <1>1, <1>2, <1>3 DEF InputKept, InputRows, InputTypeOK, InputPhases
  <1>5. \A b \in InputAttempts : b # a => prep[b] \notin Preparing \cup {"unconfirmed", "ready"}
    BY <1>3 DEF InputKept, PreparersHoldReceipt, ReceiptIsGiven
  <1>6. PreparersHoldReceipt'
    BY <1>2, <1>3, <1>5 DEF InputKept, PreparersHoldReceipt, Preparing
  <1>7. /\ DocumentRoot \subseteq sealing[a].files
        /\ \E revision \in 0..MaxRevision : RepositoryRoot(revision) \subseteq sealing[a].files
        /\ \A f \in sealing[a].files : f.body # "damaged"
    BY DEF InputKept, SealingIsComplete, Written
  <1>8. SealingIsComplete'
    <2>1. ASSUME NEW b \in InputAttempts
          PROVE  /\ \A f \in sealing'[b].files : f.body # "damaged"
                 /\ prep'[b] \in Written \cup {"documents"} => DocumentRoot \subseteq sealing'[b].files
                 /\ prep'[b] \in Written =>
                      \E revision \in 0..MaxRevision : RepositoryRoot(revision) \subseteq sealing'[b].files
      BY <1>2, <1>7 DEF InputKept, SealingIsComplete
    <2>. QED
      BY <2>1 DEF SealingIsComplete
  <1>9. ReceiptIsGiven'
    <2>1. CompleteInputOf(sealing[a].files)
      BY <1>7 DEF CompleteInputOf
    <2>2. CompleteInputOf(receipt'.files)
      BY <1>3, <2>1
    <2>. QED
      BY <1>2, <1>3, <1>5, <2>2 DEF ReceiptIsGiven, CompleteInputOf
  <1>. QED
    BY <1>4, <1>6, <1>8, <1>9 DEF InputKept

\* complete and confirm_completed, with their answer or without it.
LEMMA CompleteInputKeeps ==
  ASSUME InputKept, NEW a \in InputAttempts, CompleteInput(a) \/ ConfirmCompleted(a)
  PROVE  InputKept'
  <1>1. CASE PrepFails(a)
    BY <1>1, PrepFailsKeeps DEF PrepFails, PrepGoes, PrepTo, preparing
  <1>2. ASSUME prep[a] = "sealed", NEW committed \in BOOLEAN, NEW answered \in BOOLEAN,
               answered => committed,
               receipt' = IF committed THEN PublishedInput(a) ELSE receipt,
               IF answered THEN PrepTo(a, "ready") /\ sees' = [sees EXCEPT ![a] = sealing[a].files]
               ELSE PrepTo(a, "unconfirmed") /\ UNCHANGED sees,
               UNCHANGED <<preparing, generation, sealing>>
        PROVE  InputKept'
    <2>1. CASE committed
      BY <1>2, <2>1, PublishedInputKeeps DEF PrepTo, preparing
    <2>2. CASE ~committed
      <3>1. /\ prep' = [prep EXCEPT ![a] = "unconfirmed"]
            /\ UNCHANGED <<inputHolder, receipt, sealing, sees, head, bindingSum>>
        BY <1>2, <2>2 DEF PrepTo, preparing
      <3>2. receipt.status # "none" /\ receipt.by = a
        BY <1>2 DEF InputKept, PreparersHoldReceipt, Preparing
      <3>3. /\ DocumentRoot \subseteq sealing[a].files
            /\ \E revision \in 0..MaxRevision : RepositoryRoot(revision) \subseteq sealing[a].files
        BY <1>2 DEF InputKept, SealingIsComplete, Written
      <3>. QED
        BY <3>1, <3>2, <3>3, PrepMoves DEF InputPhases, Preparing
    <2>. QED
      BY <2>1, <2>2
  <1>3. CASE ConfirmCompleted(a) /\ ~PrepFails(a)
    <2>1. /\ receipt = PublishedInput(a) /\ prep' = [prep EXCEPT ![a] = "ready"]
          /\ sees' = [sees EXCEPT ![a] = sealing[a].files]
          /\ UNCHANGED <<inputHolder, receipt, sealing, head, bindingSum>>
      BY <1>3 DEF ConfirmCompleted, PrepTo, preparing
    <2>2. receipt.status = "READY" /\ receipt.files = sealing[a].files
      BY <2>1 DEF PublishedInput
    <2>. QED
      BY <2>1, <2>2, InputGivenKeeps
  <1>. QED
    BY <1>1, <1>2, <1>3 DEF CompleteInput

\* _reuse: the sealed tree, as the receipt names it.
LEMMA ReuseInputKeeps ==
  ASSUME InputKept, NEW a \in InputAttempts, ReuseInput(a)
  PROVE  InputKept'
  <1>1. CASE PrepFails(a)
    BY <1>1, PrepFailsKeeps DEF PrepFails, PrepGoes, PrepTo, preparing
  <1>2. CASE ~PrepFails(a)
    <2>1. /\ generation.files = receipt.files /\ prep' = [prep EXCEPT ![a] = "ready"]
          /\ sees' = [sees EXCEPT ![a] = generation.files]
          /\ UNCHANGED <<inputHolder, receipt, sealing, head, bindingSum>>
      BY <1>2 DEF ReuseInput, InputVerified, PrepTo, preparing
    <2>2. receipt.status = "READY"
      BY DEF ReuseInput, InputKept, PreparersHoldReceipt
    <2>. QED
      BY <2>1, <2>2, InputGivenKeeps
  <1>. QED
    BY <1>1, <1>2

\* create_generation, the three roots, the seal, and a stop between any two of them.
LEMMA PreparationKeeps ==
  ASSUME InputKept, NEW a \in InputAttempts,
         \/ CreateGeneration(a) \/ WriteDocuments(a) \/ WriteRepository(a)
         \/ WriteSkillFiles(a) \/ SealGeneration(a) \/ StopPreparing(a)
  PROVE  InputKept'
  <1>1. CASE PrepFails(a) \/ StopPreparing(a)
    BY <1>1, PrepFailsKeeps DEF PrepFails, PrepGoes, PrepTo, preparing, StopPreparing
  <1>2. prep[a] \in Preparing => receipt.status = "PREPARING" /\ receipt.by = a
    BY DEF InputKept, PreparersHoldReceipt
  <1>3. head \in 0..MaxRevision
    BY DEF InputKept, InputRows, InputTypeOK
  <1>4. CASE CreateGeneration(a) /\ ~PrepFails(a)
    <2>1. /\ prep[a] = "begun" /\ prep' = [prep EXCEPT ![a] = "created"]
          /\ UNCHANGED <<inputHolder, receipt, sealing, sees, head, bindingSum>>
      BY <1>4 DEF CreateGeneration, PrepTo, preparing
    <2>. QED
      BY <1>2, <2>1, PrepMoves DEF InputPhases, Preparing, Written
  <1>5. CASE WriteDocuments(a)
    <2>1. prep[a] = "created" /\ WriteRoot(a, DocumentRoot, DocumentManifest, "documents")
      BY <1>5 DEF WriteDocuments
    <2>2. prep[a] \in Preparing
      BY <2>1 DEF Preparing
    <2>. QED
      BY <2>1, <2>2, RootsAreWhole, WriteRootKeeps
  <1>6. CASE WriteRepository(a) /\ ~PrepFails(a)
    <2>1. /\ prep[a] = "documents"
          /\ WriteRoot(a, RepositoryRoot(head), sealing[a].manifest, "repository")
      BY <1>6 DEF WriteRepository
    <2>2. prep[a] \in Preparing /\ DocumentRoot \subseteq sealing[a].files
      BY <2>1 DEF Preparing, InputKept, SealingIsComplete
    <2>3. \E revision \in 0..MaxRevision :
            RepositoryRoot(revision) \subseteq sealing[a].files \cup RepositoryRoot(head)
      BY <1>3
    <2>. QED
      BY <2>1, <2>2, <2>3, RootsAreWhole, WriteRootKeeps
  <1>7. CASE WriteSkillFiles(a)
    <2>1. /\ prep[a] = "repository"
          /\ DocumentRoot \subseteq sealing[a].files
          /\ \E revision \in 0..MaxRevision : RepositoryRoot(revision) \subseteq sealing[a].files
          /\ prep[a] \in Preparing
      BY <1>7 DEF WriteSkillFiles, InputKept, SealingIsComplete, Written, Preparing
    <2>2. CASE WriteRoot(a, SkillFiles, sealing[a].manifest, "written")
      <3>1. \E revision \in 0..MaxRevision :
              RepositoryRoot(revision) \subseteq sealing[a].files \cup SkillFiles
        BY <2>1
      <3>. QED
        BY <2>1, <2>2, <3>1, RootsAreWhole, WriteRootKeeps
    <2>3. CASE PrepGoes(a, "written")
      BY <1>2, <2>1, <2>3, PrepMoves DEF PrepGoes, PrepTo, preparing, InputPhases, Preparing, Written
    <2>. QED
      BY <1>7, <2>2, <2>3 DEF WriteSkillFiles
  <1>8. CASE SealGeneration(a) /\ ~PrepFails(a)
    <2>1. /\ prep[a] = "written" /\ PrepGoes(a, "sealed")
          /\ DocumentRoot \subseteq sealing[a].files
          /\ \E revision \in 0..MaxRevision : RepositoryRoot(revision) \subseteq sealing[a].files
      BY <1>8 DEF SealGeneration, InputKept, SealingIsComplete, Written
    <2>. QED
      BY <1>2, <2>1, PrepMoves DEF PrepGoes, PrepTo, preparing, InputPhases, Preparing, Written
  <1>. QED
    BY <1>1, <1>4, <1>5, <1>6, <1>7, <1>8

\* The lease, the repository, the binding and the disk move by themselves.
LEMMA OthersKeepInput ==
  ASSUME InputKept, UNCHANGED <<receipt, prep, sealing, sees>>,
         inputHolder' \in InputAttempts, head' \in 0..MaxRevision, bindingSum' \in {0, 1}
  PROVE  InputKept'
  <1>1. InputRows'
    BY DEF InputKept, InputRows, InputTypeOK
  <1>2. PreparersHoldReceipt' /\ SealingIsComplete' /\ ReceiptIsGiven'
    BY DEF InputKept, PreparersHoldReceipt, SealingIsComplete, ReceiptIsGiven
  <1>. QED
    BY <1>1, <1>2 DEF InputKept

\* A Run starts without a receipt.
LEMMA InputInitial == InputInit => InputKept
  <1>. SUFFICES ASSUME InputInit PROVE InputKept
    OBVIOUS
  <1>1. /\ receipt.status = "none" /\ receipt.by = 0
        /\ \A a \in InputAttempts : prep[a] = "none" /\ sealing[a].files = {}
        /\ DOMAIN sealing = InputAttempts /\ DOMAIN sees = InputAttempts
    BY DEF InputInit, NoInputReceipt
  <1>2. InputRows
    BY <1>1, InputAssumption DEF InputInit, InputRows, InputTypeOK, InputAttempts
  <1>3. PreparersHoldReceipt /\ SealingIsComplete /\ ReceiptIsGiven
    BY <1>1 DEF PreparersHoldReceipt, SealingIsComplete, ReceiptIsGiven, Preparing, Written
  <1>. QED
    BY <1>2, <1>3 DEF InputKept

\* One step of an attempt, of the next one, of others.
LEMMA InputNextKeeps == InputKept /\ [InputNext]_inputVars => InputKept'
  <1>. SUFFICES ASSUME InputKept, [InputNext]_inputVars PROVE InputKept'
    OBVIOUS
  <1>1. inputHolder \in InputAttempts /\ head \in 0..MaxRevision /\ bindingSum \in {0, 1}
    BY DEF InputKept, InputRows, InputTypeOK
  <1>2. CASE NextInputAttempt
    <2>1. inputHolder' \in InputAttempts
      BY <1>1, <1>2, InputAssumption DEF NextInputAttempt, InputAttempts
    <2>. QED
      BY <1>1, <1>2, <2>1, OthersKeepInput DEF NextInputAttempt
  <1>3. CASE OthersCommit
    <2>1. head' \in 0..MaxRevision
      BY <1>1, <1>3, InputAssumption DEF OthersCommit
    <2>. QED
      BY <1>1, <1>3, <2>1, OthersKeepInput DEF OthersCommit
  <1>4. CASE BindingEdited \/ FileDamaged \/ UNCHANGED inputVars
    BY <1>1, <1>4, OthersKeepInput DEF BindingEdited, FileDamaged, inputVars, preparing
  <1>. QED
    BY <1>2, <1>3, <1>4, BeginInputKeeps, CompleteInputKeeps, ReuseInputKeeps, PreparationKeeps
    DEF InputNext

\* One receipt, one writer, and nobody is given anything but what the receipt names.
THEOREM InputInductive == InputSpec => []InputKept
  BY InputInitial, InputNextKeeps, PTL DEF InputSpec

\* Every attempt that gets an agent started sees the whole input, and all of them the same one,
\* although the repository moves on, a preparation stopped half way or a file was damaged.
THEOREM InputsStayOne == InputSpec => []AttemptsSeeOneInput
  <1>1. InputKept => AttemptsSeeOneInput
    BY DEF InputKept, ReceiptIsGiven, AttemptsSeeOneInput
  <1>. QED
    BY <1>1, InputInductive, PTL
-----------------------------------------------------------------------------
(* The files of a workspace (RunFiles), for any files, calls and marks. A call *)
(* that has written remembers what it wrote, and the file has had it; nothing   *)
(* else about the calls that run beside it matters.                            *)

Texts == Seq(FileCalls \cup {CheckedOut})
FileOps == {"write", "edit", "copy", "publish", "checkout", "append", "materialize"}
FileCallRows == [op : FileOps \cup {"none"}, source : FilePaths \cup {"none"},
                 path : FilePaths \cup {"none"}, read : Texts,
                 phase : {"none", "asked", "read", "written", "done", "refused", "lost"}]
FileRows ==
  /\ disk \in [FilePaths -> [there : BOOLEAN, text : Texts]]
  /\ held \in [FilePaths -> SUBSET Texts]
  /\ fileCall \in [FileCalls -> FileCallRows]

\* What is in a file is one of the contents it has had.
FilesAreHeld == \A p \in FilePaths : disk[p].there => disk[p].text \in held[p]

\* A call names its files once it is asked; one about to write knows what, one that has
\* written left it in the file.
CallsKnowFiles ==
  \A c \in FileCalls : fileCall[c].phase # "none" =>
    /\ fileCall[c].op \in FileOps /\ fileCall[c].path \in FilePaths /\ fileCall[c].source \in FilePaths
    /\ fileCall[c].op \in {"write", "edit", "publish", "checkout"} => fileCall[c].source = fileCall[c].path
    /\ fileCall[c].phase = "read" => fileCall[c].op \notin {"publish", "materialize"}
    /\ fileCall[c].phase = "written" /\ fileCall[c].op # "materialize" =>
         Updated(c) \in held[fileCall[c].path]

\* An artifact is one of the contents of its file, and begins with what it was made from.
ArtifactsAreKept ==
  \A a \in artifacts :
    /\ a.path \in FilePaths /\ a.content \in held[a.path]
    /\ IsPrefix(a.source, a.content)

FilesKept == FileRows /\ FilesAreHeld /\ CallsKnowFiles /\ ArtifactsAreKept

\* A sequence begins with itself, with the empty one and with what it was appended to.
LEMMA Beginnings ==
  ASSUME NEW S, NEW s \in Seq(S), NEW x \in S
  PROVE  IsPrefix(<<>>, s) /\ IsPrefix(s, s) /\ IsPrefix(s, Append(s, x))
  <1>1. Len(s) \in Nat /\ Len(<<>>) = 0 /\ SubSeq(s, 1, 0) = <<>> /\ SubSeq(<<>>, 1, 0) = <<>>
    OBVIOUS
  <1>2. /\ Append(s, x) \in Seq(S) /\ Len(Append(s, x)) = Len(s) + 1
        /\ \A i \in 1..Len(s) : Append(s, x)[i] = s[i]
    OBVIOUS
  <1>3. SubSeq(s, 1, Len(s)) = SubSeq(Append(s, x), 1, Len(s))
    BY <1>2
  <1>4. 0 <= Len(s) /\ Len(s) <= Len(s) /\ Len(s) <= Len(s) + 1
    BY <1>1
  <1>5. IsPrefix(<<>>, s)
    BY <1>1, <1>4 DEF IsPrefix
  <1>6. IsPrefix(s, s)
    BY <1>4 DEF IsPrefix
  <1>7. IsPrefix(s, Append(s, x))
    BY <1>2, <1>3, <1>4 DEF IsPrefix
  <1>. QED
    BY <1>5, <1>6, <1>7

\* What a call writes is a text.
LEMMA UpdatedIsText ==
  ASSUME FilesKept, NEW c \in FileCalls, fileCall[c].op \in FileOps \ {"materialize"}
  PROVE  Updated(c) \in Texts
  <1>1. fileCall[c].read \in Texts
    BY DEF FilesKept, FileRows, FileCallRows
  <1>2. <<c>> \in Texts /\ <<CheckedOut>> \in Texts /\ Append(fileCall[c].read, c) \in Texts
    BY <1>1 DEF Texts
  <1>. QED
    BY <1>1, <1>2 DEF Updated, FileOps

\* A call goes on without writing.
LEMMA FileCallMoves ==
  ASSUME FilesKept, NEW c \in FileCalls, NEW moved \in FileCallRows,
         fileCall' = [fileCall EXCEPT ![c] = moved], UNCHANGED <<disk, held, artifacts>>,
         moved.phase # "none" =>
           /\ moved.op \in FileOps /\ moved.path \in FilePaths /\ moved.source \in FilePaths
           /\ moved.op \in {"write", "edit", "publish", "checkout"} => moved.source = moved.path,
         moved.phase = "read" => moved.op \notin {"publish", "materialize"},
         moved.phase = "written" => moved.op \in {"publish", "materialize"},
         moved.phase = "written" /\ moved.op = "publish" => moved.read \in held[moved.path]
  PROVE  FilesKept'
  <1>1. /\ fileCall' \in [FileCalls -> FileCallRows] /\ fileCall'[c] = moved
        /\ \A b \in FileCalls : b # c => fileCall'[b] = fileCall[b]
    BY DEF FilesKept, FileRows
  <1>2. FileRows'
    BY <1>1 DEF FilesKept, FileRows
  <1>3. FilesAreHeld' /\ ArtifactsAreKept'
    BY DEF FilesKept, FilesAreHeld, ArtifactsAreKept
  <1>4. ASSUME NEW b \in FileCalls, fileCall'[b].phase # "none"
        PROVE  /\ fileCall'[b].op \in FileOps
               /\ fileCall'[b].path \in FilePaths /\ fileCall'[b].source \in FilePaths
               /\ fileCall'[b].op \in {"write", "edit", "publish", "checkout"} =>
                    fileCall'[b].source = fileCall'[b].path
               /\ fileCall'[b].phase = "read" => fileCall'[b].op \notin {"publish", "materialize"}
               /\ fileCall'[b].phase = "written" /\ fileCall'[b].op # "materialize" =>
                    Updated(b)' \in held'[fileCall'[b].path]
    <2>1. CASE b # c
      BY <1>1, <1>4, <2>1 DEF FilesKept, CallsKnowFiles, Updated
    <2>2. CASE b = c
      BY <1>1, <1>4, <2>2 DEF Updated
    <2>. QED
      BY <2>1, <2>2
  <1>5. CallsKnowFiles'
    BY <1>4 DEF CallsKnowFiles
  <1>. QED
    BY <1>2, <1>3, <1>5 DEF FilesKept

\* The steps of a call up to its write.
LEMMA FileCallKeeps ==
  ASSUME FilesKept, NEW c \in FileCalls,
         AskFileCall(c) \/ ReadSource(c) \/ ReadArtifact(c) \/ TakeContent(c) \/ OpenRevision(c)
  PROVE  FilesKept'
  <1>1. /\ fileCall \in [FileCalls -> FileCallRows] /\ fileCall[c] \in FileCallRows
        /\ disk \in [FilePaths -> [there : BOOLEAN, text : Texts]]
        /\ held \in [FilePaths -> SUBSET Texts]
    BY DEF FilesKept, FileRows
  <1>2. fileCall[c].phase # "none" =>
          /\ fileCall[c].op \in FileOps /\ fileCall[c].path \in FilePaths /\ fileCall[c].source \in FilePaths
          /\ fileCall[c].op \in {"write", "edit", "publish", "checkout"} =>
               fileCall[c].source = fileCall[c].path
    BY DEF FilesKept, CallsKnowFiles
  <1>3. ASSUME NEW phase \in {"asked", "read", "written", "done", "refused", "lost"},
               fileCall[c].phase # "none",
               FilePhase(c, phase), UNCHANGED <<disk, held, artifacts>>,
               phase = "read" => fileCall[c].op \notin {"publish", "materialize"},
               phase = "written" => fileCall[c].op = "publish" /\ fileCall[c].read \in held[fileCall[c].path]
        PROVE  FilesKept'
    <2>. DEFINE moved == [fileCall[c] EXCEPT !.phase = phase]
    <2>1. /\ moved \in FileCallRows /\ moved.phase = phase /\ moved.op = fileCall[c].op
          /\ moved.path = fileCall[c].path /\ moved.source = fileCall[c].source
          /\ moved.read = fileCall[c].read
      BY <1>1 DEF FileCallRows
    <2>2. fileCall' = [fileCall EXCEPT ![c] = moved]
      BY <1>3 DEF FilePhase
    <2>. HIDE DEF moved
    <2>. QED
      BY <1>2, <1>3, <2>1, <2>2, FileCallMoves
  <1>4. CASE AskFileCall(c)
    <2>1. PICK op \in FileOps, s \in FilePaths, p \in FilePaths :
            /\ op \in {"write", "edit", "publish", "checkout"} => s = p
            /\ fileCall' = [fileCall EXCEPT ![c] = [op |-> op, source |-> s, path |-> p,
                              read |-> disk[s].text, phase |-> "asked"]]
      BY <1>4 DEF AskFileCall, FileOps
    <2>. DEFINE moved == [op |-> op, source |-> s, path |-> p, read |-> disk[s].text, phase |-> "asked"]
    <2>2. disk[s].text \in Texts
      BY <1>1
    <2>3. moved \in FileCallRows /\ moved.phase = "asked" /\ moved.op = op /\ moved.source = s /\ moved.path = p
      BY <2>2 DEF FileCallRows
    <2>4. fileCall' = [fileCall EXCEPT ![c] = moved] /\ UNCHANGED <<disk, held, artifacts>>
      BY <1>4, <2>1 DEF AskFileCall
    <2>. HIDE DEF moved
    <2>. QED
      BY <2>1, <2>3, <2>4, FileCallMoves
  <1>5. CASE FileRefused(c) /\ fileCall[c].phase # "none"
    BY <1>3, <1>5 DEF FileRefused
  <1>6. CASE ReadSource(c) /\ ~FileRefused(c)
    <2>1. /\ fileCall[c].phase = "asked" /\ fileCall[c].op \in {"edit", "copy", "publish"}
          /\ disk[fileCall[c].source].there /\ disk[fileCall[c].source].text = fileCall[c].read
          /\ FilePhase(c, IF fileCall[c].op = "publish" THEN "written" ELSE "read")
          /\ UNCHANGED <<disk, held, artifacts>>
      BY <1>6 DEF ReadSource
    <2>2. fileCall[c].read \in held[fileCall[c].source]
      BY <1>2, <2>1 DEF FilesKept, FilesAreHeld
    <2>3. CASE fileCall[c].op = "publish"
      BY <1>2, <1>3, <2>1, <2>2, <2>3
    <2>4. CASE fileCall[c].op # "publish"
      BY <1>3, <2>1, <2>4
    <2>. QED
      BY <2>3, <2>4
  <1>7. CASE ReadArtifact(c) /\ ~FileRefused(c)
    <2>1. PICK a \in artifacts :
            fileCall' = [fileCall EXCEPT ![c].read = a.content,
                           ![c].phase = IF fileCall[c].op = "append" THEN "read" ELSE "written"]
      BY <1>7 DEF ReadArtifact
    <2>2. /\ fileCall[c].phase = "asked" /\ fileCall[c].op \in {"append", "materialize"}
          /\ UNCHANGED <<disk, held, artifacts>>
      BY <1>7 DEF ReadArtifact
    <2>. DEFINE text == a.content
                to == IF fileCall[c].op = "append" THEN "read" ELSE "written"
                moved == [fileCall[c] EXCEPT !.read = text, !.phase = to]
    <2>3. text \in Texts
      <3>1. a.path \in FilePaths /\ a.content \in held[a.path]
        BY DEF FilesKept, ArtifactsAreKept
      <3>2. held[a.path] \in SUBSET Texts
        BY <1>1, <3>1
      <3>. QED
        BY <3>1, <3>2
    <2>4. fileCall' = [fileCall EXCEPT ![c] = moved]
      BY <1>1, <2>1
    <2>5. \/ to = "read" /\ fileCall[c].op = "append"
          \/ to = "written" /\ fileCall[c].op = "materialize"
      BY <2>2
    <2>. HIDE DEF text, to
    <2>6. /\ moved \in FileCallRows /\ moved.phase = to /\ moved.op = fileCall[c].op
          /\ moved.path = fileCall[c].path /\ moved.source = fileCall[c].source
      BY <1>1, <2>3, <2>5 DEF FileCallRows
    <2>. HIDE DEF moved
    <2>. QED
      BY <1>2, <2>2, <2>4, <2>5, <2>6, FileCallMoves
  <1>8. CASE TakeContent(c) \/ (OpenRevision(c) /\ ~FileRefused(c))
    <2>1. /\ fileCall[c].phase = "asked" /\ fileCall[c].op \in {"write", "checkout"}
          /\ FilePhase(c, "read") /\ UNCHANGED <<disk, held, artifacts>>
      BY <1>8 DEF TakeContent, OpenRevision
    <2>. QED
      BY <1>3, <2>1
  <1>9. ReadSource(c) \/ ReadArtifact(c) \/ OpenRevision(c) => fileCall[c].phase = "asked"
    BY DEF ReadSource, ReadArtifact, OpenRevision
  <1>. QED
    BY <1>4, <1>5, <1>6, <1>7, <1>8, <1>9

\* The call writes: the file has now had what it wrote, and everything it had before.
LEMMA WriteFileKeeps ==
  ASSUME FilesKept, NEW c \in FileCalls, WriteFile(c)
  PROVE  FilesKept'
  <1>1. CASE FileRefused(c)
    <2>. DEFINE moved == [fileCall[c] EXCEPT !.phase = "refused"]
    <2>1. /\ fileCall[c] \in FileCallRows /\ fileCall[c].phase = "read"
          /\ fileCall' = [fileCall EXCEPT ![c] = moved] /\ UNCHANGED <<disk, held, artifacts>>
      BY <1>1 DEF FilesKept, FileRows, FileRefused, FilePhase, WriteFile
    <2>2. /\ moved \in FileCallRows /\ moved.phase = "refused" /\ moved.op = fileCall[c].op
          /\ moved.path = fileCall[c].path /\ moved.source = fileCall[c].source
      BY <2>1 DEF FileCallRows
    <2>3. /\ fileCall[c].op \in FileOps
          /\ fileCall[c].path \in FilePaths /\ fileCall[c].source \in FilePaths
          /\ fileCall[c].op \in {"write", "edit", "publish", "checkout"} =>
               fileCall[c].source = fileCall[c].path
      BY <2>1 DEF FilesKept, CallsKnowFiles
    <2>. HIDE DEF moved
    <2>. QED
      BY <2>1, <2>2, <2>3, FileCallMoves
  <1>2. CASE ~FileRefused(c)
    <2>. DEFINE p == fileCall[c].path
                text == Updated(c)
    <2>1. /\ disk \in [FilePaths -> [there : BOOLEAN, text : Texts]]
          /\ held \in [FilePaths -> SUBSET Texts]
          /\ fileCall \in [FileCalls -> FileCallRows]
      BY DEF FilesKept, FileRows
    <2>2. /\ fileCall[c].phase = "read"
          /\ disk' = [disk EXCEPT ![p] = File(text)]
          /\ held' = [held EXCEPT ![p] = @ \cup {text}]
          /\ FilePhase(c, "written") /\ UNCHANGED artifacts
      BY <1>2 DEF WriteFile
    <2>3. p \in FilePaths /\ fileCall[c].op \in FileOps \ {"materialize"}
      BY <2>2 DEF FilesKept, CallsKnowFiles
    <2>4. text \in Texts /\ File(text) \in [there : BOOLEAN, text : Texts]
      <3>1. text \in Texts
        BY <2>3, UpdatedIsText
      <3>. HIDE DEF text
      <3>. QED
        BY <3>1 DEF File
    <2>5. /\ fileCall' \in [FileCalls -> FileCallRows]
          /\ \A b \in FileCalls :
               /\ b # c => fileCall'[b] = fileCall[b]
               /\ fileCall'[b].op = fileCall[b].op /\ fileCall'[b].read = fileCall[b].read
               /\ fileCall'[b].path = fileCall[b].path /\ fileCall'[b].source = fileCall[b].source
      <3>. DEFINE moved == [fileCall[c] EXCEPT !.phase = "written"]
      <3>1. fileCall' = [fileCall EXCEPT ![c] = moved]
        BY <2>2 DEF FilePhase
      <3>2. /\ moved \in FileCallRows /\ moved.op = fileCall[c].op /\ moved.read = fileCall[c].read
            /\ moved.path = fileCall[c].path /\ moved.source = fileCall[c].source
        BY <2>1 DEF FileCallRows
      <3>. HIDE DEF moved
      <3>. QED
        BY <2>1, <3>1, <3>2
    <2>6. \A b \in FileCalls : Updated(b)' = Updated(b)
      BY <2>5 DEF Updated
    <2>. HIDE DEF text
    <2>. HIDE DEF p
    <2>7. /\ disk'[p] = File(text) /\ held'[p] = held[p] \cup {text}
          /\ \A q \in FilePaths :
               /\ q # p => disk'[q] = disk[q] /\ held'[q] = held[q]
               /\ held[q] \subseteq held'[q]
      BY <2>1, <2>2, <2>3
    <2>8. /\ disk' \in [FilePaths -> [there : BOOLEAN, text : Texts]]
          /\ held' \in [FilePaths -> SUBSET Texts]
      <3>1. held[p] \cup {text} \in SUBSET Texts
        BY <2>1, <2>3, <2>4
      <3>2. disk' \in [FilePaths -> [there : BOOLEAN, text : Texts]]
        BY <2>1, <2>2, <2>3, <2>4
      <3>3. held' = [held EXCEPT ![p] = held[p] \cup {text}]
        BY <2>2
      <3>4. held' \in [FilePaths -> SUBSET Texts]
        BY <2>1, <3>1, <3>3
      <3>. QED
        BY <3>2, <3>4
    <2>9. FileRows'
      BY <2>5, <2>8 DEF FileRows
    <2>10. ASSUME NEW q \in FilePaths, disk'[q].there
           PROVE  disk'[q].text \in held'[q]
      <3>1. CASE q = p
        BY <2>7, <3>1 DEF File
      <3>2. CASE q # p
        BY <2>7, <2>10, <3>2 DEF FilesKept, FilesAreHeld
      <3>. QED
        BY <3>1, <3>2
    <2>11. FilesAreHeld'
      BY <2>10 DEF FilesAreHeld
    <2>12. ASSUME NEW b \in FileCalls, fileCall'[b].phase # "none"
           PROVE  /\ fileCall'[b].op \in FileOps
                  /\ fileCall'[b].path \in FilePaths /\ fileCall'[b].source \in FilePaths
                  /\ fileCall'[b].op \in {"write", "edit", "publish", "checkout"} =>
                       fileCall'[b].source = fileCall'[b].path
                  /\ fileCall'[b].phase = "read" => fileCall'[b].op \notin {"publish", "materialize"}
                  /\ fileCall'[b].phase = "written" /\ fileCall'[b].op # "materialize" =>
                       Updated(b)' \in held'[fileCall'[b].path]
      <3>1. /\ fileCall'[c].phase = "written"
            /\ fileCall'[b].phase = fileCall[b].phase \/ b = c
        BY <2>1, <2>2, <2>5 DEF FilePhase
      <3>2. fileCall[b].phase # "none"
        BY <2>2, <2>12, <3>1
      <3>3. /\ fileCall[b].op \in FileOps
            /\ fileCall[b].path \in FilePaths /\ fileCall[b].source \in FilePaths
            /\ fileCall[b].op \in {"write", "edit", "publish", "checkout"} =>
                 fileCall[b].source = fileCall[b].path
            /\ fileCall[b].phase = "read" => fileCall[b].op \notin {"publish", "materialize"}
            /\ fileCall[b].phase = "written" /\ fileCall[b].op # "materialize" =>
                 Updated(b) \in held[fileCall[b].path]
        BY <3>2 DEF FilesKept, CallsKnowFiles
      <3>4. CASE b # c
        <4>1. fileCall'[b] = fileCall[b] /\ Updated(b)' = Updated(b)
          BY <2>5, <2>6, <3>4
        <4>. QED
          BY <2>7, <3>3, <4>1
      <3>5. CASE b = c
        <4>1. Updated(b)' = text
          BY <2>6, <3>5 DEF text
        <4>2. fileCall'[b].path = p
          BY <2>5, <3>5 DEF p
        <4>3. Updated(b)' \in held'[fileCall'[b].path]
          BY <2>7, <4>1, <4>2
        <4>. QED
          BY <2>5, <3>1, <3>3, <3>5, <4>3
      <3>. QED
        BY <3>4, <3>5
    <2>13. CallsKnowFiles'
      BY <2>12 DEF CallsKnowFiles
    <2>14. ArtifactsAreKept'
      BY <2>2, <2>7 DEF FilesKept, ArtifactsAreKept
    <2>. QED
      BY <2>9, <2>11, <2>13, <2>14 DEF FilesKept
  <1>. QED
    BY <1>1, <1>2

\* The call is recorded: its artifact is what it left in the file.
LEMMA RecordFileCallKeeps ==
  ASSUME FilesKept, NEW c \in FileCalls, RecordFileCall(c)
  PROVE  FilesKept'
  <1>1. /\ fileCall[c] \in FileCallRows /\ fileCall[c].phase = "written"
        /\ UNCHANGED <<disk, held>>
    BY DEF FilesKept, FileRows, RecordFileCall
  <1>2. /\ fileCall[c].op \in FileOps
        /\ fileCall[c].path \in FilePaths /\ fileCall[c].source \in FilePaths
        /\ fileCall[c].op \in {"write", "edit", "publish", "checkout"} =>
             fileCall[c].source = fileCall[c].path
        /\ fileCall[c].op # "materialize" => Updated(c) \in held[fileCall[c].path]
    BY <1>1 DEF FilesKept, CallsKnowFiles
  <1>3. PICK to \in {"done", "lost"} : FilePhase(c, to)
    BY DEF RecordFileCall
  <1>. DEFINE moved == [fileCall[c] EXCEPT !.phase = to]
  <1>4. /\ moved \in FileCallRows /\ moved.phase = to /\ moved.op = fileCall[c].op
        /\ moved.path = fileCall[c].path /\ moved.source = fileCall[c].source
        /\ moved.read = fileCall[c].read
    BY <1>1 DEF FileCallRows
  <1>5. fileCall' = [fileCall EXCEPT ![c] = moved]
    BY <1>3 DEF FilePhase
  <1>. HIDE DEF moved
  <1>6. /\ fileCall' \in [FileCalls -> FileCallRows] /\ fileCall'[c] = moved
        /\ \A b \in FileCalls : b # c => fileCall'[b] = fileCall[b]
    BY <1>4, <1>5 DEF FilesKept, FileRows
  <1>7. FileRows' /\ FilesAreHeld'
    BY <1>1, <1>6 DEF FilesKept, FileRows, FilesAreHeld
  <1>8. ASSUME NEW b \in FileCalls, fileCall'[b].phase # "none"
        PROVE  /\ fileCall'[b].op \in FileOps
               /\ fileCall'[b].path \in FilePaths /\ fileCall'[b].source \in FilePaths
               /\ fileCall'[b].op \in {"write", "edit", "publish", "checkout"} =>
                    fileCall'[b].source = fileCall'[b].path
               /\ fileCall'[b].phase = "read" => fileCall'[b].op \notin {"publish", "materialize"}
               /\ fileCall'[b].phase = "written" /\ fileCall'[b].op # "materialize" =>
                    Updated(b)' \in held'[fileCall'[b].path]
    <2>1. CASE b # c
      BY <1>1, <1>6, <1>8, <2>1 DEF FilesKept, CallsKnowFiles, Updated
    <2>2. CASE b = c
      BY <1>2, <1>3, <1>4, <1>6, <1>8, <2>2
    <2>. QED
      BY <2>1, <2>2
  <1>9. CallsKnowFiles'
    BY <1>8 DEF CallsKnowFiles
  <1>10. ASSUME NEW a \in Draft(c)
         PROVE  a.path \in FilePaths /\ a.content \in held[a.path] /\ IsPrefix(a.source, a.content)
    <2>1. /\ fileCall[c].op \in {"write", "edit", "copy", "publish", "append"}
          /\ a = [by |-> c, path |-> fileCall[c].path, content |-> Updated(c),
                  source |-> IF fileCall[c].op = "append" THEN fileCall[c].read ELSE <<>>]
      BY DEF Draft
    <2>2. a.path = fileCall[c].path /\ a.content = Updated(c)
      BY <2>1
    <2>3. Updated(c) \in Texts /\ fileCall[c].read \in Texts
      BY <1>1, <1>2, <2>1, UpdatedIsText DEF FileCallRows
    <2>4. CASE fileCall[c].op = "append"
      <3>1. a.source = fileCall[c].read /\ Updated(c) = Append(fileCall[c].read, c)
        BY <2>1, <2>4 DEF Updated
      <3>2. c \in FileCalls \cup {CheckedOut}
        OBVIOUS
      <3>3. IsPrefix(fileCall[c].read, Append(fileCall[c].read, c))
        BY <2>3, <3>2, Beginnings DEF Texts
      <3>. QED
        BY <1>2, <2>2, <2>4, <3>1, <3>3
    <2>5. CASE fileCall[c].op # "append"
      <3>1. a.source = <<>>
        BY <2>1, <2>5
      <3>2. IsPrefix(<<>>, Updated(c))
        <4>1. c \in FileCalls \cup {CheckedOut}
          OBVIOUS
        <4>. QED
          BY <2>3, <4>1, Beginnings DEF Texts
      <3>. QED
        BY <1>2, <2>1, <2>2, <3>1, <3>2
    <2>. QED
      BY <2>4, <2>5
  <1>11. artifacts' \subseteq artifacts \cup Draft(c)
    BY DEF RecordFileCall
  <1>12. ArtifactsAreKept'
    BY <1>1, <1>10, <1>11 DEF FilesKept, ArtifactsAreKept
  <1>. QED
    BY <1>7, <1>9, <1>12 DEF FilesKept

\* Every step of the workspace preserves the invariant; a search or a page only shows.
LEMMA FileNextKeeps ==
  ASSUME FilesKept, [FileNext]_fileVars
  PROVE  FilesKept'
  <1>1. CASE UNCHANGED <<disk, held, fileCall, artifacts>>
    BY <1>1 DEF FilesKept, FileRows, FilesAreHeld, CallsKnowFiles, ArtifactsAreKept, Updated
  <1>2. ASSUME NEW c \in FileCalls,
               \/ AskFileCall(c) \/ ReadSource(c) \/ ReadArtifact(c) \/ TakeContent(c) \/ OpenRevision(c)
               \/ WriteFile(c) \/ RecordFileCall(c)
        PROVE  FilesKept'
    BY <1>2, FileCallKeeps, WriteFileKeeps, RecordFileCallKeeps
  <1>3. SearchFiles \/ ReadPage \/ ReadLines \/ UNCHANGED fileVars =>
          UNCHANGED <<disk, held, fileCall, artifacts>>
    BY DEF SearchFiles, ReadPage, ReadLines, fileVars
  <1>. QED
    BY <1>1, <1>2, <1>3 DEF FileNext

\* An empty workspace satisfies it.
LEMMA FileInitial == FileInit => FilesKept
  <1>. SUFFICES ASSUME FileInit PROVE FilesKept
    OBVIOUS
  <1>1. <<>> \in Texts
    BY DEF Texts
  <1>2. Absent \in [there : BOOLEAN, text : Texts] /\ ~Absent.there
    BY <1>1 DEF Absent
  <1>3. NoFileCall \in FileCallRows /\ NoFileCall.phase = "none"
    BY <1>1 DEF NoFileCall, FileCallRows
  <1>4. FileRows
    BY <1>2, <1>3 DEF FileInit, FileRows
  <1>. QED
    BY <1>2, <1>3, <1>4 DEF FileInit, FilesKept, FilesAreHeld, CallsKnowFiles, ArtifactsAreKept

\* The invariant of the workspace: each file has had what is in it and what its writers
\* left there, whichever calls of the agent, its sub-agents and older attempts run at once.
THEOREM FilesInductive == FileSpec => []FilesKept
  <1>1. FileInit => FilesKept
    BY FileInitial
  <1>2. FilesKept /\ [FileNext]_fileVars => FilesKept'
    BY FileNextKeeps
  <1>. QED
    BY <1>1, <1>2, PTL DEF FileSpec

\* The bytes of an artifact stood in its file, and an appended artifact begins with the one
\* it was made from (ArtifactAppendProvider, validate_append_bytes).
THEOREM ArtifactsStayTrue == FileSpec => []ArtifactsAreTrue
  <1>1. FilesKept => ArtifactsAreTrue
    BY DEF FilesKept, ArtifactsAreKept, ArtifactsAreTrue
  <1>. QED
    BY <1>1, FilesInductive, PTL

\* An edit, a copy or a checkout keeps what the file holds when it writes: expected_hash is
\* compared under the lock of write_workspace_file, after every await of the call.
LEMMA CarefulStep ==
  ASSUME FilesKept, [FileNext]_fileVars, NEW c \in FileCalls,
         fileCall[c].op \in {"edit", "copy", "checkout"},
         fileCall[c].phase = "read", fileCall'[c].phase = "written"
  PROVE  IsPrefix(disk[fileCall[c].path].text, disk'[fileCall[c].path].text)
  <1>1. /\ fileCall \in [FileCalls -> FileCallRows] /\ fileCall[c].read \in Texts
        /\ disk \in [FilePaths -> [there : BOOLEAN, text : Texts]]
        /\ fileCall[c].path \in FilePaths
    BY DEF FilesKept, FileRows, FileCallRows, CallsKnowFiles
  <1>2. WriteFile(c) /\ ~FileRefused(c)
    <2>1. ASSUME NEW b \in FileCalls,
                 \/ AskFileCall(b) \/ ReadSource(b) \/ ReadArtifact(b) \/ TakeContent(b)
                 \/ OpenRevision(b) \/ RecordFileCall(b)
          PROVE  FALSE
      <3>1. /\ b = c => fileCall[b].phase = "read"
            /\ b # c => fileCall'[c] = fileCall[c]
        BY <1>1, <2>1 DEF AskFileCall, ReadSource, ReadArtifact, TakeContent, OpenRevision,
             RecordFileCall, FilePhase, FileRefused
      <3>2. fileCall[b].phase \in {"none", "asked", "written"}
        BY <2>1 DEF AskFileCall, ReadSource, ReadArtifact, TakeContent, OpenRevision, RecordFileCall
      <3>. QED
        BY <3>1, <3>2
    <2>2. ASSUME NEW b \in FileCalls, WriteFile(b), b # c
          PROVE  FALSE
      BY <1>1, <2>2 DEF WriteFile, FileRefused, FilePhase
    <2>3. SearchFiles \/ ReadPage \/ ReadLines \/ UNCHANGED fileVars => fileCall' = fileCall
      BY DEF SearchFiles, ReadPage, ReadLines, fileVars
    <2>4. ~FileRefused(c)
      <3>1. fileCall[c] \in FileCallRows
        BY <1>1
      <3>2. [fileCall[c] EXCEPT !.phase = "refused"].phase = "refused"
        BY <3>1 DEF FileCallRows
      <3>3. FileRefused(c) => fileCall'[c] = [fileCall[c] EXCEPT !.phase = "refused"]
        BY <1>1 DEF FileRefused, FilePhase
      <3>. QED
        BY <3>2, <3>3
    <2>. QED
      BY <2>1, <2>2, <2>3, <2>4 DEF FileNext
  <1>. DEFINE p == fileCall[c].path
  <1>3. /\ disk'[p] = File(Updated(c)) /\ MayReplace(c, disk[p])
    BY <1>1, <1>2 DEF WriteFile
  <1>4. disk'[p].text = Updated(c) /\ disk[p].text \in Texts
    BY <1>1, <1>3 DEF File
  <1>5. c \in FileCalls \cup {CheckedOut} /\ <<CheckedOut>> \in Texts
    BY DEF Texts
  <1>6. CASE fileCall[c].op = "edit"
    <2>1. disk[p].text = fileCall[c].read /\ Updated(c) = Append(fileCall[c].read, c)
      BY <1>3, <1>6 DEF MayReplace, File, Updated
    <2>. QED
      BY <1>1, <1>4, <1>5, <2>1, Beginnings DEF Texts
  <1>7. CASE fileCall[c].op = "copy"
    <2>1. disk[p].text = <<>> /\ Updated(c) \in Texts
      BY <1>1, <1>3, <1>7 DEF MayReplace, Absent, Updated
    <2>. QED
      BY <1>4, <1>5, <2>1, Beginnings DEF Texts
  <1>8. CASE fileCall[c].op = "checkout"
    <2>1. disk[p].text \in {<<>>, <<CheckedOut>>} /\ Updated(c) = <<CheckedOut>>
      BY <1>3, <1>8 DEF MayReplace, Absent, File, Updated
    <2>. QED
      BY <1>4, <1>5, <2>1, Beginnings DEF Texts
  <1>. QED
    BY <1>6, <1>7, <1>8

\* What others wrote since a call read its source is never discarded by an edit, a copy or
\* a checkout (write_workspace_file, expected_hash).
THEOREM WritesStayCareful == FileSpec => CarefulWritesKeepOthers
  <1>1. FilesKept /\ [FileNext]_fileVars =>
          [\A c \in FileCalls :
             /\ fileCall[c].op \in {"edit", "copy", "checkout"}
             /\ fileCall[c].phase = "read" /\ fileCall'[c].phase = "written"
             => IsPrefix(disk[fileCall[c].path].text, disk'[fileCall[c].path].text)]_fileVars
    BY CarefulStep
  <1>. QED
    BY <1>1, FilesInductive, PTL DEF FileSpec, CarefulWritesKeepOthers

\* StepsAreCareful: a finished lookup stays as it is, and no careful write discards what
\* another call wrote, for any calls, lookups and files.
THEOREM StepsStayCareful == ReconciliationSpec /\ FileSpec => StepsAreCareful
  BY LookupsEndOnce, WritesStayCareful DEF StepsAreCareful
=============================================================================
