----------------------------- MODULE RunInputs -----------------------------
(* The input of a Run on disk (agent/workspace_materializer.py): the first    *)
(* attempt copies the frozen documents, the bound repository and the Skill's  *)
(* files into a generation directory of its own, seals it and publishes a     *)
(* receipt (runs/repository_inputs.py); later attempts verify and reuse it.   *)
(* An attempt whose lease is gone goes on until it notices, the process may   *)
(* stop anywhere, and the answer of a commit may be lost.                     *)
EXTENDS Naturals, FiniteSets

CONSTANTS
  InputDocuments,     \* documents of the frozen selection
  DocumentKind,       \* text, convertible, broken, binary, huge, converted_huge, deferred
  RepositoryFiles,    \* files of the bound repository's scope
  RepositoryKind,     \* of each: one of these kinds, or grown since it was listed
  MaxInputFiles,      \* max_total_files
  MaxInputAttempts,   \* bound on the attempts of the Run
  MaxRevision         \* bound on commits by others

ASSUME InputAssumption ==
  /\ DocumentKind \in [InputDocuments -> {"text", "convertible", "broken", "binary", "huge",
                                           "converted_huge", "deferred"}]
  /\ RepositoryKind \in [RepositoryFiles -> {"text", "convertible", "broken", "binary", "huge",
                                              "converted_huge", "grown"}]
  /\ MaxInputFiles \in Nat /\ MaxInputAttempts \in Nat \ {0} /\ MaxRevision \in Nat

VARIABLES
  inputHolder,   \* the attempt that holds the lease
  receipt,       \* RunInputSnapshot: status, prepared_by_attempt_id, files
  generation,    \* the directory: whether it exists, its files, its document manifest
  prep,          \* where each attempt is in materialize
  sealing,       \* the files an attempt has written, as it knows them
  sees,          \* the input an attempt hands to its agent
  head,          \* revision of the bound repository
  bindingSum     \* checksum of the repository binding; 0 was frozen with the Run

inputVars == <<inputHolder, receipt, generation, prep, sealing, sees, head, bindingSum>>
preparing == <<inputHolder, head, bindingSum>>

InputAttempts == 1..MaxInputAttempts
NoManifest == [files |-> {}, skipped |-> {}, deferred |-> {}]
NoInputReceipt == [status |-> "none", by |-> 0, files |-> {}, manifest |-> NoManifest]
InputInit ==
  /\ inputHolder = 1
  /\ receipt = NoInputReceipt
  /\ generation = [dir |-> FALSE, files |-> {}, manifest |-> NoManifest]
  /\ prep = [a \in InputAttempts |-> "none"]
  /\ sealing = [a \in InputAttempts |-> [files |-> {}, manifest |-> NoManifest]]
  /\ sees = [a \in InputAttempts |-> {}]
  /\ head = 0 /\ bindingSum = 0
-----------------------------------------------------------------------------
(* _usable_file, after the size check of _classify_documents: the bytes of a   *)
(* text file are kept, an Office file is rendered into <name>.txt, anything    *)
(* else is skipped with its reason.                                            *)
InputFile(root, name, body, revision) ==
  [root |-> root, name |-> name, body |-> body, revision |-> revision]
SkipReason(kind) ==
  CASE kind \in {"huge", "grown"} -> "exceeds_file_limit"
    [] kind = "binary" -> "binary"
    [] kind = "broken" -> "unconvertible_document"
    [] kind = "converted_huge" -> "conversion_exceeds_file_limit"
    [] OTHER -> "none"
Body(kind) == IF kind = "text" THEN "original" ELSE "rendered"
Eager == {d \in InputDocuments : DocumentKind[d] # "deferred"}
UsableDocuments == {d \in Eager : SkipReason(DocumentKind[d]) = "none"}
UsableFile(d) == InputFile("documents", d, Body(DocumentKind[d]), 0)

(* _file_index and the manifest are generated files of a root.                 *)
Generated(root) == InputFile(root, "index", "generated", 0)
DocumentRoot == {UsableFile(d) : d \in UsableDocuments} \cup {Generated("documents")}
DocumentManifest ==
  [files |-> UsableDocuments, skipped |-> {[doc |-> d, reason |-> SkipReason(DocumentKind[d])] : d \in Eager \ UsableDocuments},
   deferred |-> InputDocuments \ Eager]
(* The repository is read at the revision its session was opened at: what the  *)
(* listing shows to be too large is not read, what was read is classified.     *)
PlannedFiles == {f \in RepositoryFiles : RepositoryKind[f] # "huge"}
ReadFiles(revision) ==
  {InputFile("repository", f, Body(RepositoryKind[f]), revision) :
     f \in {g \in PlannedFiles : SkipReason(RepositoryKind[g]) = "none"}}
(* _history_file *)
History(revision) == InputFile("repository", "history", "generated", revision)
RepositoryRoot(revision) ==
  ReadFiles(revision) \cup {Generated("repository"), History(revision)}
SkillFiles == {InputFile("skill", "file", "original", 0)}

(* _ensure_total_budget                                                        *)
WithinBudget(files) == Cardinality(files) <= MaxInputFiles
-----------------------------------------------------------------------------
(* RunInputRepository._authorize: the lease is this attempt's.                 *)
LeaseIsHeld(a) == inputHolder = a
PrepTo(a, phase) == prep' = [prep EXCEPT ![a] = phase]
PrepGoes(a, phase) == PrepTo(a, phase) /\ UNCHANGED <<preparing, receipt, generation, sealing, sees>>
PrepFails(a) == PrepGoes(a, "failed")

(* materialize up to begin: the binding is inspected, then the receipt of the  *)
(* Run is created or found. A receipt that is not READY belongs to a           *)
(* preparation that did not end: it is kept, and the attempt fails.            *)
BeginInput(a) ==
  /\ prep[a] = "none" /\ a <= inputHolder
  /\ IF bindingSum # 0 \/ ~LeaseIsHeld(a) THEN PrepFails(a)
     ELSE CASE receipt.status = "none" ->
                 /\ receipt' = [NoInputReceipt EXCEPT !.status = "PREPARING", !.by = a]
                 /\ \E phase \in {"begun", "failed"} : PrepTo(a, phase)   \* answered, or lost
                 /\ UNCHANGED <<preparing, generation, sealing, sees>>
            [] receipt.status = "READY" -> PrepGoes(a, "reuse")
            [] receipt.status = "PREPARING" -> PrepFails(a)

(* create_generation: mkdir must create both directories.                      *)
CreateGeneration(a) ==
  /\ prep[a] = "begun"
  /\ IF generation.dir THEN PrepFails(a)
     ELSE /\ generation' = [generation EXCEPT !.dir = TRUE]
          /\ PrepTo(a, "created")
          /\ UNCHANGED <<preparing, receipt, sealing, sees>>

(* _write_root and _write_tree: every file is new, or the attempt fails.       *)
WriteRoot(a, files, manifest, phase) ==
  IF \/ ~WithinBudget(sealing[a].files \cup files)
     \/ \E f \in files, g \in generation.files : f.root = g.root /\ f.name = g.name
    THEN PrepFails(a)
    ELSE /\ generation' = [generation EXCEPT !.files = @ \cup files, !.manifest = manifest]
         /\ sealing' = [sealing EXCEPT ![a] = [files |-> @.files \cup files, manifest |-> manifest]]
         /\ PrepTo(a, phase)
         /\ UNCHANGED <<preparing, receipt, sees>>
WriteDocuments(a) ==
  prep[a] = "created" /\ WriteRoot(a, DocumentRoot, DocumentManifest, "documents")
WriteRepository(a) ==
  /\ prep[a] = "documents"
  /\ IF bindingSum # 0 THEN PrepFails(a)
     ELSE WriteRoot(a, RepositoryRoot(head), sealing[a].manifest, "repository")
(* The Skill's files are left out when they do not fit.                        *)
WriteSkillFiles(a) ==
  /\ prep[a] = "repository"
  /\ IF WithinBudget(sealing[a].files \cup SkillFiles)
       THEN WriteRoot(a, SkillFiles, sealing[a].manifest, "written")
       ELSE PrepGoes(a, "written")

(* verify_input_files: the tree holds these files, byte for byte.              *)
TreeMatches(files) ==
  {<<f.root, f.name>> : f \in generation.files} = {<<f.root, f.name>> : f \in files}
InputVerified(files) == generation.dir /\ generation.files = files
(* seal_generation                                                             *)
SealGeneration(a) ==
  /\ prep[a] = "written"
  /\ IF InputVerified(sealing[a].files) THEN PrepGoes(a, "sealed") ELSE PrepFails(a)

(* complete, and the commit's answer: it came, it was lost, or nothing was     *)
(* committed.                                                                  *)
PublishedInput(a) == [status |-> "READY", by |-> a, files |-> sealing[a].files,
                 manifest |-> sealing[a].manifest]
CompleteInput(a) ==
  /\ prep[a] = "sealed"
  /\ IF ~LeaseIsHeld(a) \/ receipt.by # a THEN PrepFails(a)
     ELSE \E committed, answered \in BOOLEAN :
            /\ answered => committed
            /\ receipt' = IF committed THEN PublishedInput(a) ELSE receipt
            /\ IF answered
                 THEN PrepTo(a, "ready") /\ sees' = [sees EXCEPT ![a] = sealing[a].files]
                 ELSE PrepTo(a, "unconfirmed") /\ UNCHANGED sees
            /\ UNCHANGED <<preparing, generation, sealing>>
(* confirm_completed, in a transaction of its own.                             *)
ConfirmCompleted(a) ==
  /\ prep[a] = "unconfirmed"
  /\ IF LeaseIsHeld(a) /\ receipt = PublishedInput(a)
       THEN /\ PrepTo(a, "ready")
            /\ sees' = [sees EXCEPT ![a] = sealing[a].files]
            /\ UNCHANGED <<preparing, receipt, generation, sealing>>
       ELSE PrepFails(a)

(* _verify_document_members: every frozen document is accounted for once.      *)
MembersVerified(m) ==
  /\ m.files \cup {s.doc : s \in m.skipped} = Eager
  /\ m.files \cap {s.doc : s \in m.skipped} = {}
  /\ \A s \in m.skipped : s.reason = "exceeds_file_limit" <=> DocumentKind[s.doc] = "huge"
  /\ m.deferred = InputDocuments \ Eager
(* _verify_materialized: the files under the root are those of its manifest.   *)
ManifestVerified(m, files) ==
  {f.name : f \in {g \in files : g.root = "documents"}} = m.files \cup {"index"}
RootsVerified(files) ==
  {f.root : f \in files} \ {"skill"} = {"documents", "repository"}
(* The rest of materialize for a READY receipt: verify_input, _reuse.          *)
ReuseUnread(a) ==
  /\ prep[a] = "reuse"
  /\ IF TreeMatches(receipt.files) /\ RootsVerified(receipt.files)
       THEN /\ PrepTo(a, "ready")
            /\ sees' = [sees EXCEPT ![a] = generation.files]
            /\ UNCHANGED <<preparing, receipt, generation, sealing>>
       ELSE PrepFails(a)
ReuseInput(a) ==
  /\ prep[a] = "reuse"
  /\ IF /\ InputVerified(receipt.files)
        /\ RootsVerified(receipt.files) /\ MembersVerified(generation.manifest)
        /\ ManifestVerified(generation.manifest, receipt.files)
       THEN /\ PrepTo(a, "ready")
            /\ sees' = [sees EXCEPT ![a] = generation.files]
            /\ UNCHANGED <<preparing, receipt, generation, sealing>>
       ELSE PrepFails(a)
-----------------------------------------------------------------------------
(* The process stops, or a source cannot be read: part of a root may be there. *)
StopPreparing(a) ==
  /\ prep[a] \notin {"none", "ready", "failed"}
  /\ \E some \in SUBSET (CASE prep[a] = "created" -> DocumentRoot
                            [] prep[a] = "documents" -> RepositoryRoot(head)
                            [] OTHER -> {}) :
       generation' = [generation EXCEPT !.files = @ \cup some]
  /\ PrepTo(a, "failed")
  /\ UNCHANGED <<preparing, receipt, sealing, sees>>
(* The lease runs out and a later attempt is claimed.                          *)
NextInputAttempt ==
  /\ inputHolder < MaxInputAttempts
  /\ inputHolder' = inputHolder + 1
  /\ UNCHANGED <<receipt, generation, prep, sealing, sees, head, bindingSum>>
(* Somebody commits to the repository, edits the integration, or a file of the *)
(* sealed generation is changed or lost on disk.                               *)
OthersCommit ==
  /\ head < MaxRevision /\ head' = head + 1
  /\ UNCHANGED <<inputHolder, receipt, generation, prep, sealing, sees, bindingSum>>
BindingEdited ==
  /\ bindingSum = 0 /\ bindingSum' = 1
  /\ UNCHANGED <<inputHolder, receipt, generation, prep, sealing, sees, head>>
FileDamaged ==
  /\ receipt.status = "READY" /\ \A f \in generation.files : f.body # "damaged"
  /\ \E f \in generation.files, rest \in {{}, {"damaged"}} :
       generation' = [generation EXCEPT !.files =
                        (@ \ {f}) \cup {[f EXCEPT !.body = b] : b \in rest}]
  /\ UNCHANGED <<preparing, receipt, prep, sealing, sees>>

InputNext ==
  \/ \E a \in InputAttempts :
       \/ BeginInput(a) \/ CreateGeneration(a) \/ WriteDocuments(a) \/ WriteRepository(a)
       \/ WriteSkillFiles(a) \/ SealGeneration(a) \/ CompleteInput(a) \/ ConfirmCompleted(a)
       \/ ReuseInput(a) \/ StopPreparing(a)
  \/ NextInputAttempt \/ OthersCommit \/ BindingEdited \/ FileDamaged
InputSpec == InputInit /\ [][InputNext]_inputVars
-----------------------------------------------------------------------------
(* The variables keep their types.                                             *)
InputTypeOK ==
  /\ inputHolder \in InputAttempts
  /\ receipt.status \in {"none", "PREPARING", "READY"} /\ receipt.by \in 0..MaxInputAttempts
  /\ prep \in [InputAttempts -> {"none", "begun", "created", "documents", "repository", "written",
                                 "sealed", "unconfirmed", "reuse", "ready", "failed"}]
  /\ head \in 0..MaxRevision /\ bindingSum \in {0, 1}

(* What an agent may rely on: every document of the frozen selection that can  *)
(* be read, and the repository at one revision, all of it unchanged.           *)
CompleteInputOf(files) ==
  /\ DocumentRoot \subseteq files
  /\ \E revision \in 0..MaxRevision : RepositoryRoot(revision) \subseteq files
  /\ \A f \in files : f.body # "damaged"
(* Every attempt that gets an agent started sees the whole input, and all of   *)
(* them see the same one, although the repository moves on, an attempt without *)
(* lease is still writing, a preparation stopped half way or a file was        *)
(* damaged (materialize, complete, verify_input).                              *)
AttemptsSeeOneInput ==
  \A a \in InputAttempts : prep[a] = "ready" =>
    /\ CompleteInputOf(sees[a])
    /\ \A b \in InputAttempts : prep[b] = "ready" => sees[a] = sees[b]
=============================================================================
