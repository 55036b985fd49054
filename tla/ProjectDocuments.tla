-------------------------- MODULE ProjectDocuments --------------------------
(***************************************************************************)
(* The document library of a Project: uploads, documents written by the      *)
(* effects of a Run, folders, the recycle bin, deletion, and the deletion of *)
(* Run histories that own documents (skillmind/documents/*.py, effects/      *)
(* document_*.py, runs/history_*.py).                                        *)
(*                                                                         *)
(* An upload is admitted in one transaction, its bytes are put into object   *)
(* storage outside any, and it is published in a second one. A document      *)
(* effect does the same through its own row, whose single start allows one   *)
(* put; a retry only looks the object up. A deletion removes the row, leaves *)
(* a cleanup row, and deletes the object after the commit. The process may   *)
(* die between any two of these.                                             *)
(*                                                                         *)
(* A user's transactions lock the row of the Organization, those of an       *)
(* effect do not: what an admission and a Run's creation have checked can be  *)
(* old when they commit. Here checks and commit are two steps that anything  *)
(* may come between, which allows more than the code does: other users'       *)
(* transactions wait. The other transactions are one step. A document is the upload or the effect   *)
(* it came from, of size one; a path is the sequence of its parts; checksums *)
(* and revisions are the identity of the document at a path.                 *)
(***************************************************************************)
EXTENDS Integers, Sequences, FiniteSets, FiniteSetsExt, SequencesExt

CONSTANTS
  Uploads,      \* uploads, each with an upload key of its own
  Outputs,      \* document effects
  Holders,      \* Runs, and schedules: whoever retains a choice of documents
  OwnerOf,      \* the Run of each document effect
  Paths,        \* the paths files are given
  OldFolders,   \* folders the library may start with
  Quota,
  MaxEdits,     \* bound: management requests in all
  NoDocument

Docs == Uploads \cup Outputs

ASSUME LibraryAssumption ==
  /\ IsFiniteSet(Docs) /\ Uploads \cap Outputs = {}
  /\ OwnerOf \in [Outputs -> Holders]
  /\ \A p \in Paths \cup OldFolders : p # <<>>
  /\ NoDocument \notin Docs
  /\ MaxEdits \in Nat /\ Quota \in Nat

VARIABLES
  doc,       \* ProjectDocument rows, present when live or in the recycle bin
  folders,   \* ProjectDocumentFolder.path of the explicit folders
  intent,    \* ProjectDocumentUpload and ProjectDocumentEffectUpload rows
  putter,    \* what the request or executor behind an upload has in hand
  blob,      \* documents whose object is in storage
  cleanup,   \* ProjectDocumentCleanup rows
  removing,  \* objects whose deletion follows a committed transaction
  history,      \* Run rows, with the documents each one selected
  edits      \* management requests so far, for the bound

libraryVars == <<doc, folders, intent, putter, blob, cleanup, removing, history, edits>>
-----------------------------------------------------------------------------
EmptyDoc == [state |-> "none", path |-> NoDocument, byRun |-> FALSE, linked |-> FALSE]
NoIntent == [state |-> "none", path |-> NoDocument, replaces |-> NoDocument, closed |-> FALSE]

Present(d) == doc[d].state \in {"live", "trashed"}
LiveDocs == {d \in Docs : doc[d].state = "live"}
OutputsOf(r) == {e \in Outputs : OwnerOf[e] = r /\ Present(e) /\ doc[e].linked}

(* parents(folder) of a file's path: the folders it lies in.                *)
Above(path) == {SubSeq(path, 1, i) : i \in 1..(Len(path) - 1)}
Within(path, top) == IsPrefix(top, path)
Places == Paths \cup OldFolders \cup UNION {Above(p) : p \in Paths}
KnownFolders ==
  UNION {Above(f) \cup {f} : f \in folders} \cup UNION {Above(doc[d].path) : d \in LiveDocs}

(* Rows whose publication is still open: pending_paths, path_reserved.      *)
Open(d) == intent[d].state \in {"PENDING", "SENT"} /\ ~intent[d].closed
PendingPaths == {intent[d].path : d \in {x \in Docs : Open(x)}}

(* path_conflicts: the path, or a folder on it, is taken by a live document  *)
(* or a folder.                                                              *)
PathConflicts(path, excluding) ==
  \/ path \in UNION {Above(f) \cup {f} : f \in folders}
  \/ \E d \in LiveDocs \ {excluding} :
       \/ doc[d].path = path
       \/ doc[d].path \in Above(path)
       \/ path \in Above(doc[d].path)

(* project_usage_bytes: every upload ever admitted; effect rows, until a     *)
(* cleanup row stands for them; documents whose effect row was purged.       *)
UsageWithCleanedEffects ==
  Cardinality({u \in Uploads : intent[u].state \in {"PENDING", "PUBLISHED"}})
  + Cardinality({e \in Outputs : intent[e].state \notin {"none", "purged"}})
  + Cardinality({e \in Outputs : Present(e) /\ ~doc[e].linked})
  + Cardinality(Outputs \cap cleanup)
ProjectUsage ==
  Cardinality({u \in Uploads : intent[u].state \in {"PENDING", "PUBLISHED"}})
  + Cardinality({e \in Outputs : intent[e].state \notin {"none", "purged"} /\ e \notin cleanup})
  + Cardinality({e \in Outputs : Present(e) /\ ~doc[e].linked})
  + Cardinality(Outputs \cap cleanup)

Replaceable(d, path) == d # NoDocument /\ doc[d].state = "live" /\ doc[d].path = path

(* require_unreferenced: no retained Run or schedule selected it.           *)
Referenced(d) == \E r \in Holders : history[r].state \notin {"none", "binding", "purged"}
                                  /\ d \in history[r].docs
(* require_finished, for the Run an output came from.                       *)
RunFinished(r) == history[r].state \in {"finished", "trashed"}
OutputFinished(d) == doc[d].linked => RunFinished(OwnerOf[d])

LibraryInit ==
  /\ doc = [d \in Docs |-> EmptyDoc]
  /\ folders \in SUBSET OldFolders
  /\ intent = [d \in Docs |-> NoIntent]
  /\ putter = [d \in Docs |-> "idle"]
  /\ blob = {} /\ cleanup = {} /\ removing = {}
  /\ history = [r \in Holders |-> [state |-> "none", docs |-> {}]]
  /\ edits = 0
-----------------------------------------------------------------------------
(* upload_document. Admissible is what the first transaction reads.          *)
Admissible(path, replaces) ==
  /\ IF replaces = NoDocument THEN ~PathConflicts(path, NoDocument) ELSE Replaceable(replaces, path)
  /\ path \notin PendingPaths
  /\ ProjectUsage + 1 <= Quota

BeginUpload(u, path, replaces) ==
  /\ putter[u] = "idle"
  /\ Admissible(path, replaces)
  /\ intent' = [intent EXCEPT ![u] = [NoIntent EXCEPT !.path = path, !.replaces = replaces]]
  /\ putter' = [putter EXCEPT ![u] = "checked"]
  /\ UNCHANGED <<doc, folders, blob, cleanup, removing, history>>

Reserve(u) ==
  /\ putter[u] = "checked"
  /\ intent' = [intent EXCEPT ![u].state = "PENDING"]
  /\ putter' = [putter EXCEPT ![u] = "putting"]
  /\ UNCHANGED <<doc, folders, blob, cleanup, removing, history>>

PutUpload(u) ==
  /\ putter[u] = "putting"
  /\ blob' = blob \cup {u}
  /\ putter' = [putter EXCEPT ![u] = "stored"]
  /\ UNCHANGED <<doc, folders, intent, cleanup, removing, history>>

(* Publishing d hides the document it replaces.                             *)
Published(d) ==
  /\ doc' = [x \in Docs |->
               CASE x = d -> [state |-> "live", path |-> intent[d].path,
                              byRun |-> FALSE, linked |-> d \in Outputs]
                 [] x = intent[d].replaces -> [doc[x] EXCEPT !.state = "trashed"]
                 [] OTHER -> doc[x]]
  /\ intent' = [intent EXCEPT ![d].state = "PUBLISHED"]

Closed(d) == intent' = [intent EXCEPT ![d].closed = TRUE] /\ UNCHANGED doc

(* uq_project_documents_project_folder_name refuses a second live document;  *)
(* the transaction rolls back and the upload stays pending.                  *)
PathTaken(path) == \E d \in LiveDocs : doc[d].path = path

(* Publishing without waiting for the acknowledgement of storage.            *)
ReadyWhilePutting(u) == putter[u] \in {"putting", "stored"}
ReadyToPublish(u) == putter[u] = "stored"
PublishUpload(u) ==
  /\ ReadyToPublish(u)
  /\ putter' = [putter EXCEPT ![u] = "done"]
  /\ LET i == intent[u]
         refused == \/ i.closed \/ ProjectUsage > Quota
                    \/ i.replaces = NoDocument /\ PathTaken(i.path)
     IN \/ refused /\ UNCHANGED <<doc, intent>>
        \/ ~refused /\ i.replaces # NoDocument /\ ~Replaceable(i.replaces, i.path) /\ Closed(u)
        \/ ~refused /\ (i.replaces = NoDocument \/ Replaceable(i.replaces, i.path)) /\ Published(u)
  /\ UNCHANGED <<folders, blob, cleanup, removing, history>>

(* close_upload, by a request of the same user at any time.                  *)
CloseUpload(u) ==
  /\ intent[u].state = "PENDING" /\ ~intent[u].closed
  /\ Closed(u)
  /\ UNCHANGED <<folders, putter, blob, cleanup, removing, history>>

(* The request dies, or storage fails with or without having stored: an      *)
(* uncommitted admission is gone, a committed one stays pending.             *)
AbandonUpload(u) ==
  /\ putter[u] \in {"checked", "putting", "stored"}
  /\ putter' = [putter EXCEPT ![u] = "done"]
  /\ blob' \in (IF putter[u] = "putting" THEN {blob, blob \cup {u}} ELSE {blob})
  /\ intent' = [intent EXCEPT ![u] = IF putter[u] = "checked" THEN NoIntent ELSE @]
  /\ UNCHANGED <<doc, folders, cleanup, removing, history>>
-----------------------------------------------------------------------------
(* DocumentWriteProvider.apply. Any executor of the effect may take a step   *)
(* while its Run is live; the row's single start allows one put.             *)
ReserveOutput(e, path, replaces) ==
  /\ history[OwnerOf[e]].state = "active" /\ intent[e].state = "none"
  /\ Admissible(path, replaces)
  /\ intent' = [intent EXCEPT ![e] = [state |-> "PENDING", path |-> path,
                                      replaces |-> replaces, closed |-> FALSE]]
  /\ UNCHANGED <<doc, folders, putter, blob, cleanup, removing, history>>

StartOnce(e) ==
  /\ history[OwnerOf[e]].state = "active"
  /\ intent[e].state = "PENDING" /\ ~intent[e].closed
  /\ intent' = [intent EXCEPT ![e].state = "SENT"]
  /\ putter' = [putter EXCEPT ![e] = "putting"]
  /\ UNCHANGED <<doc, folders, blob, cleanup, removing, history>>

(* The put lands, even after its executor lost the effect, or never does.    *)
CreateOnce(e) ==
  /\ putter[e] = "putting"
  /\ putter' = [putter EXCEPT ![e] = "done"]
  /\ blob' \in {blob, blob \cup {e}}
  /\ UNCHANGED <<doc, folders, intent, cleanup, removing, history>>

ReplacementLost(e) == intent[e].replaces # NoDocument /\ ~Replaceable(intent[e].replaces, intent[e].path)

(* publish history path_conflicts again, the replaced document aside.           *)
PublishOutput(e) ==
  /\ history[OwnerOf[e]].state = "active"
  /\ intent[e].state = "SENT" /\ ~intent[e].closed /\ e \in blob
  /\ ~ReplacementLost(e) /\ ~PathConflicts(intent[e].path, intent[e].replaces)
  /\ Published(e)
  /\ UNCHANGED <<folders, putter, blob, cleanup, removing, history>>

(* An UPDATE that met a conflict closes its own publication; the closure is  *)
(* a transaction of its own and the conflict may have passed by then.        *)
MeetConflict(e) ==
  /\ history[OwnerOf[e]].state = "active" /\ Open(e) /\ putter[e] # "conflict"
  /\ intent[e].replaces # NoDocument
  /\ ReplacementLost(e) \/ PathConflicts(intent[e].path, intent[e].replaces)
  /\ putter' = [putter EXCEPT ![e] = "conflict"]
  /\ blob' \in (IF putter[e] = "putting" THEN {blob, blob \cup {e}} ELSE {blob})
  /\ UNCHANGED <<doc, folders, intent, cleanup, removing, history>>

CloseConflictedReplacement(e) ==
  /\ history[OwnerOf[e]].state = "active"
  /\ putter[e] = "conflict" /\ intent[e].state # "PUBLISHED" /\ ~intent[e].closed
  /\ Closed(e)
  /\ UNCHANGED <<folders, putter, blob, cleanup, removing, history>>
-----------------------------------------------------------------------------
(* DocumentManagementRepository.apply, for a user or a management effect.    *)
Trash(d) ==
  /\ doc[d].state = "live" /\ OutputFinished(d)
  /\ doc' = [doc EXCEPT ![d].state = "trashed", ![d].byRun = FALSE]
  /\ UNCHANGED <<folders, intent, putter, blob, cleanup, removing, history>>

(* require_restore_path                                                     *)
RestorePathFree(d) ==
  ~PathConflicts(doc[d].path, d) /\ doc[d].path \notin PendingPaths

Restore(d) ==
  /\ doc[d].state = "trashed" /\ RestorePathFree(d)
  /\ doc' = [doc EXCEPT ![d].state = "live", ![d].byRun = FALSE]
  /\ UNCHANGED <<folders, intent, putter, blob, cleanup, removing, history>>

CreateFolder(path) ==
  /\ path \notin KnownFolders
  /\ (Above(path) \cup {path}) \cap PendingPaths = {}
  /\ \A d \in LiveDocs : doc[d].path \notin Above(path) \cup {path}
  /\ folders' = folders \cup {path}
  /\ UNCHANGED <<doc, intent, putter, blob, cleanup, removing, history>>

DeleteFolder(source) ==
  /\ source \in KnownFolders
  /\ \A p \in PendingPaths : ~Within(p, source)
  /\ \A d \in LiveDocs : source \notin Above(doc[d].path)
  /\ folders' = {f \in folders : ~Within(f, source)}
  /\ UNCHANGED <<doc, intent, putter, blob, cleanup, removing, history>>

(* The part MOVE and MOVE_FOLDER share: every destination is free of pending *)
(* uploads, of other documents and of folders.                               *)
Destination(moved, d) == IF d \in DOMAIN moved THEN moved[d] ELSE doc[d].path
MoveAllowed(moved, directories) ==
  /\ \A d \in DOMAIN moved : \A p \in PendingPaths :
       p # moved[d] /\ p \notin Above(moved[d]) /\ moved[d] \notin Above(p)
  /\ \A d, e \in LiveDocs : d # e => Destination(moved, d) # Destination(moved, e)
  /\ \A d \in LiveDocs : Destination(moved, d) \notin
       directories \cup UNION {Above(Destination(moved, e)) : e \in LiveDocs}
  /\ \A d \in DOMAIN moved : \A e \in LiveDocs \ {d} : doc[e].path # moved[d]
MoveDocs(moved) == doc' = [d \in Docs |-> IF d \in DOMAIN moved
                                          THEN [doc[d] EXCEPT !.path = moved[d]] ELSE doc[d]]

Move(moved) ==
  /\ DOMAIN moved \subseteq LiveDocs
  /\ MoveAllowed(moved, KnownFolders)
  /\ MoveDocs(moved)
  /\ UNCHANGED <<folders, intent, putter, blob, cleanup, removing, history>>

Rebase(path, source, target) ==
  IF Within(path, source) THEN target \o SubSeq(path, Len(source) + 1, Len(path)) ELSE path

MoveFolder(source, target) ==
  /\ source \in KnownFolders /\ target \notin KnownFolders /\ ~Within(target, source)
  /\ \A p \in PendingPaths : /\ ~Within(p, source) /\ ~Within(p, target)
                             /\ p \notin Above(target)
  /\ LET members == {d \in LiveDocs : source \in Above(doc[d].path)}
         moved == [d \in members |-> Rebase(doc[d].path, source, target)]
         nested == {f \in folders : Within(f, source)}
     IN /\ \A d \in members : moved[d] \in Paths
        /\ \A f \in nested : Rebase(f, source, target) \in Places
        /\ MoveAllowed(moved, {Rebase(f, source, target) : f \in KnownFolders} \cup {target})
        /\ MoveDocs(moved)
        /\ folders' = IF nested = {} THEN folders \cup {target}
                      ELSE {Rebase(f, source, target) : f \in folders}
  /\ UNCHANGED <<intent, putter, blob, cleanup, removing, history>>
-----------------------------------------------------------------------------
(* repository.delete: the row goes, a cleanup row stays, and the object is   *)
(* deleted after the commit.                                                 *)
Gone(d) == [doc[d] EXCEPT !.state = "gone"]

DeleteDocument(d, purge) ==
  /\ Present(d)
  /\ purge => doc[d].state = "trashed" /\ OutputFinished(d)
  /\ ~Referenced(d)
  /\ ~doc[d].linked \/ purge
  /\ doc' = [doc EXCEPT ![d] = Gone(d)]
  /\ cleanup' = cleanup \cup {d}
  /\ removing' = removing \cup {d}
  /\ UNCHANGED <<folders, intent, putter, blob, history>>

RemoveObject(d) ==
  /\ d \in removing
  /\ removing' = removing \ {d}
  /\ blob' \in {blob, blob \ {d}}
  /\ UNCHANGED <<doc, folders, intent, putter, cleanup, history>>
-----------------------------------------------------------------------------
(* create_task_run freezes the chosen documents, then commits; a schedule's  *)
(* choice is retained in the same way.                                       *)
BindDocuments(r, chosen) ==
  /\ history[r].state = "none" /\ chosen \subseteq LiveDocs
  /\ history' = [history EXCEPT ![r] = [state |-> "binding", docs |-> chosen]]
  /\ UNCHANGED <<doc, folders, intent, putter, blob, cleanup, removing>>

CommitRun(r) ==
  /\ history[r].state = "binding"
  /\ history' = [history EXCEPT ![r].state = "active"]
  /\ UNCHANGED <<doc, folders, intent, putter, blob, cleanup, removing>>

FinishRun(r) ==
  /\ history[r].state = "active"
  /\ history' = [history EXCEPT ![r].state = "finished"]
  /\ UNCHANGED <<doc, folders, intent, putter, blob, cleanup, removing>>

(* manage_history. TRASH may take along the outputs nobody references.       *)
TrashHistory(r, include) ==
  /\ RunFinished(r)
  /\ history' = [history EXCEPT ![r].state = "trashed"]
  /\ doc' = [d \in Docs |->
               IF include /\ d \in OutputsOf(r) /\ doc[d].state = "live" /\ ~Referenced(d)
               THEN [doc[d] EXCEPT !.state = "trashed", !.byRun = TRUE] ELSE doc[d]]
  /\ UNCHANGED <<folders, intent, putter, blob, cleanup, removing>>

RestoreHistory(r) ==
  /\ history[r].state = "trashed"
  /\ LET back == {d \in OutputsOf(r) : doc[d].byRun}
     IN /\ \A d \in back : RestorePathFree(d) /\ \A e \in back \ {d} :
              doc[e].path # doc[d].path /\ doc[e].path \notin Above(doc[d].path)
        /\ doc' = [d \in Docs |-> IF d \in back
                                  THEN [doc[d] EXCEPT !.state = "live", !.byRun = FALSE] ELSE doc[d]]
  /\ history' = [history EXCEPT ![r].state = "finished"]
  /\ UNCHANGED <<folders, intent, putter, blob, cleanup, removing>>

(* purge_run: refused while an output is unpublished; documents that stay    *)
(* lose their link to the effect row, which goes with the Run.               *)
AllSent(r) == \A e \in Outputs : OwnerOf[e] = r => intent[e].state \in {"none", "SENT", "PUBLISHED"}
AllPublished(r) == \A e \in Outputs : OwnerOf[e] = r => intent[e].state \in {"none", "PUBLISHED"}
PurgeHistory(r, include) ==
  /\ history[r].state = "trashed" /\ AllPublished(r)
  /\ LET dropped == {d \in OutputsOf(r) : include /\ ~Referenced(d)}
     IN /\ doc' = [d \in Docs |->
                     CASE d \in dropped -> Gone(d)
                       [] d \in OutputsOf(r) \ dropped ->
                            [doc[d] EXCEPT !.linked = FALSE, !.byRun = FALSE]
                       [] OTHER -> doc[d]]
        /\ cleanup' = cleanup \cup dropped
        /\ removing' = removing \cup dropped
  /\ intent' = [d \in Docs |-> IF d \in Outputs /\ OwnerOf[d] = r /\ intent[d].state # "none"
                               THEN [intent[d] EXCEPT !.state = "purged"] ELSE intent[d]]
  /\ history' = [history EXCEPT ![r] = [state |-> "purged", docs |-> {}]]
  /\ UNCHANGED <<folders, putter, blob>>
-----------------------------------------------------------------------------
LibUploadStep(u) ==
  \/ \E p \in Paths, d \in Docs \cup {NoDocument} : BeginUpload(u, p, d)
  \/ Reserve(u) \/ PutUpload(u) \/ PublishUpload(u) \/ CloseUpload(u) \/ AbandonUpload(u)
\* Each step on its rows is one stage: authority checked, rows written, authority checked again.
OutputStep(e) ==
  \/ \E p \in Paths, d \in Docs \cup {NoDocument} : ReserveOutput(e, p, d)
  \/ StartOnce(e) \/ CreateOnce(e) \/ PublishOutput(e)
  \/ MeetConflict(e) \/ CloseConflictedReplacement(e)
Manage ==
  \/ \E d \in Docs : Trash(d) \/ Restore(d)
  \/ \E d \in Docs, purge \in BOOLEAN : DeleteDocument(d, purge)
  \/ \E p \in Places : CreateFolder(p) \/ DeleteFolder(p)
  \/ \E S \in SUBSET LiveDocs : S # {} /\ \E moved \in [S -> Paths] : Move(moved)
  \/ \E p, q \in Places : MoveFolder(p, q)
RunStep(r) ==
  \/ \E chosen \in SUBSET LiveDocs : BindDocuments(r, chosen)
  \/ CommitRun(r) \/ FinishRun(r) \/ RestoreHistory(r)
  \/ \E include \in BOOLEAN : TrashHistory(r, include) \/ PurgeHistory(r, include)

LibraryNext ==
  \/ /\ \/ \E u \in Uploads : LibUploadStep(u)
        \/ \E e \in Outputs : OutputStep(e)
        \/ \E d \in Docs : RemoveObject(d)
        \/ \E r \in Holders : RunStep(r)
     /\ UNCHANGED edits
  \/ edits < MaxEdits /\ edits' = edits + 1 /\ Manage

LibrarySpec == LibraryInit /\ [][LibraryNext]_libraryVars
-----------------------------------------------------------------------------
DocTypeOK ==
  /\ edits \in 0..MaxEdits
  /\ doc \in [Docs -> [state : {"none", "live", "trashed", "gone"}, path : Paths \cup {NoDocument},
                       byRun : BOOLEAN, linked : BOOLEAN]]
  /\ folders \subseteq Places
  /\ intent \in [Docs -> [state : {"none", "PENDING", "SENT", "PUBLISHED", "purged"},
                          path : Paths \cup {NoDocument}, replaces : Docs \cup {NoDocument}, closed : BOOLEAN]]
  /\ putter \in [Docs -> {"idle", "checked", "putting", "stored", "done", "conflict"}]
  /\ blob \subseteq Docs /\ cleanup \subseteq Docs /\ removing \subseteq cleanup
  /\ history \in [Holders -> [state : {"none", "binding", "active", "finished", "trashed", "purged"},
                        docs : SUBSET Docs]]

(* A document that is listed or in the recycle bin can be read: its object   *)
(* was stored before its row was written and no deletion takes it while the  *)
(* row is there, whatever request died on the way.                           *)
DocumentHasObject == \A d \in Docs : Present(d) => d \in blob /\ d \notin removing

(* No object is forgotten: one that no document uses any more is named by a  *)
(* cleanup row or by an upload row that is kept, also after the histories of *)
(* Runs were purged while a put of theirs was still on its way.              *)
NoForgottenObject ==
  \A d \in Docs : d \in blob \/ putter[d] = "putting" =>
    Present(d) \/ d \in cleanup \/ intent[d].state \in {"PENDING", "SENT", "PUBLISHED"}

(* The quota counts every object once, and keeps counting it when its row    *)
(* moves from the upload tables to a plain document or to a cleanup row.     *)
UsageCountsEachOnce ==
  ProjectUsage = Cardinality({d \in Docs : intent[d].state # "none"})

(* A file and a folder never share a path (management.py:211).              *)
FileAndFolderApart == \A d \in LiveDocs : doc[d].path \notin KnownFolders

(* A document selected by a retained Run or schedule stays available.       *)
SelectedDocumentsKept ==
  \A r \in Holders : history[r].state \in {"active", "finished", "trashed"} =>
    \A d \in history[r].docs : Present(d)

(* Whatever dies between the object store and the database, every document has  *)
(* its object, every object is published or will be cleaned up, and the quota   *)
(* counts each byte once (upload, publication, cleanup).                        *)
LibraryIsSound == DocumentHasObject /\ NoForgottenObject /\ UsageCountsEachOnce
=============================================================================
