------------------------------ MODULE RunFiles ------------------------------
(* The files of a Run's workspace, which tool calls of the agent, of its      *)
(* sub-agents and of an attempt without lease read and write at the same time *)
(* (agent/workspace_provider.py, workspace_edit.py, artifact_append.py,       *)
(* resource_files.py, repository_workspace.py), the artifacts recorded from   *)
(* them (artifacts/repository.py), and what a search or a page tells the      *)
(* agent. A content is the sequence of marks its writers left.                *)
EXTENDS Naturals, Sequences, FiniteSets, SequencesExt

CONSTANTS
  FilePaths,        \* files under workspace/ and output/
  OutputPaths,      \* those under output/, which become artifacts
  FileCalls,        \* tool calls
  CheckedOut,       \* the mark of a file checked out of the repository
  MaxSearchFiles, MaxSearchBytes, MaxFileBytes   \* limits of a search

ASSUME FileAssumption ==
  OutputPaths \subseteq FilePaths /\ CheckedOut \notin FileCalls /\ MaxFileBytes \in Nat \ {0}

VARIABLES
  disk,        \* path -> the file there
  held,        \* path -> every content the file has had
  fileCall,    \* each call: its operation, paths, what it read, where it is
  artifacts,   \* Evidence rows with artifact bytes
  shown       \* the last search or page, with what was asked

fileVars == <<disk, held, fileCall, artifacts, shown>>

Absent == [there |-> FALSE, text |-> <<>>]
File(text) == [there |-> TRUE, text |-> text]
NoFileCall == [op |-> "none", source |-> "none", path |-> "none", read |-> <<>>, phase |-> "none"]
FileInit ==
  /\ disk = [p \in FilePaths |-> Absent]
  /\ held = [p \in FilePaths |-> {}]
  /\ fileCall = [c \in FileCalls |-> NoFileCall]
  /\ artifacts = {}
  /\ shown = [kind |-> "none"]
-----------------------------------------------------------------------------
FilePhase(c, phase) == fileCall' = [fileCall EXCEPT ![c].phase = phase]
FileRefused(c) == FilePhase(c, "refused") /\ UNCHANGED <<disk, held, artifacts, shown>>

(* The agent asks. expected_hash is what it last saw of the source.           *)
AskFileCall(c) ==
  /\ fileCall[c].phase = "none" /\ shown.kind = "none"
  /\ \E op \in {"write", "edit", "copy", "publish", "checkout", "append", "materialize"},
        s, p \in FilePaths :
       /\ op \in {"write", "edit", "publish", "checkout"} => s = p
       /\ fileCall' = [fileCall EXCEPT ![c] = [op |-> op, source |-> s, path |-> p,
                         read |-> disk[s].text, phase |-> "asked"]]
  /\ UNCHANGED <<disk, held, artifacts, shown>>

(* WorkspaceEditProvider.execute up to the write: the source must exist and    *)
(* be what the agent saw; publish takes an output file as it is.               *)
ReadSource(c) ==
  /\ fileCall[c].phase = "asked" /\ fileCall[c].op \in {"edit", "copy", "publish"}
  /\ LET f == fileCall[c] IN
     IF \/ ~disk[f.source].there \/ disk[f.source].text # f.read
        \/ f.op = "publish" /\ f.path \notin OutputPaths
       THEN FileRefused(c)
       ELSE FilePhase(c, IF f.op = "publish" THEN "written" ELSE "read")
            /\ UNCHANGED <<disk, held, artifacts, shown>>
(* ArtifactAppendProvider, ArtifactMaterializeProvider: the source is an       *)
(* artifact of this Run. The file an artifact is restored to is named after    *)
(* its reference and its hash: no other call writes anything else there.       *)
ReadArtifact(c) ==
  /\ fileCall[c].phase = "asked" /\ fileCall[c].op \in {"append", "materialize"}
  /\ \/ \E a \in artifacts :
          /\ fileCall[c].op = "append" => a.path = fileCall[c].path
          /\ fileCall' = [fileCall EXCEPT ![c].read = a.content,
                            ![c].phase = IF fileCall[c].op = "append" THEN "read" ELSE "written"]
          /\ UNCHANGED <<disk, held, artifacts, shown>>
     \/ FileRefused(c)
(* WorkspaceWriteProvider: the content comes with the call.                    *)
TakeContent(c) ==
  /\ fileCall[c].phase = "asked" /\ fileCall[c].op = "write"
  /\ FilePhase(c, "read")
  /\ UNCHANGED <<disk, held, artifacts, shown>>
(* RepositoryWorkspaceProvider, checkout: the bound repository is opened at    *)
(* the revision, and the place of each file is named after the revision.       *)
OpenRevision(c) ==
  /\ fileCall[c].phase = "asked" /\ fileCall[c].op = "checkout"
  /\ \/ FilePhase(c, "read") /\ UNCHANGED <<disk, held, artifacts, shown>>
     \/ FileRefused(c)

(* What the call writes.                                                       *)
Updated(c) ==
  LET f == fileCall[c] IN
  CASE f.op = "write" -> <<c>>
    [] f.op \in {"edit", "append"} -> Append(f.read, c)
    [] f.op \in {"copy", "publish"} -> f.read
    [] f.op = "checkout" -> <<CheckedOut>>
(* write_workspace_file, under its lock on the directory: what expected_hash   *)
(* and reuse_identical allow to be there.                                      *)
MayReplaceUnchecked(c, current) == TRUE
MayReplace(c, current) ==
  LET f == fileCall[c] IN
  CASE f.op \in {"write", "append"} -> TRUE
    [] f.op = "edit" -> current = File(f.read)
    [] f.op = "copy" -> current = Absent
    [] f.op = "checkout" -> current \in {Absent, File(<<CheckedOut>>)}
WriteFile(c) ==
  /\ fileCall[c].phase = "read"
  /\ LET p == fileCall[c].path IN
     IF ~MayReplace(c, disk[p]) THEN FileRefused(c)
     ELSE /\ disk' = [disk EXCEPT ![p] = File(Updated(c))]
          /\ held' = [held EXCEPT ![p] = @ \cup {Updated(c)}]
          /\ FilePhase(c, "written")
          /\ UNCHANGED <<artifacts, shown>>

(* The call is recorded with its evidence, and with the artifact of an output  *)
(* file; or the process stops first, and neither is recorded.                  *)
DraftBeforeEdit(c) ==
  IF fileCall[c].path \in OutputPaths /\ fileCall[c].op \in {"write", "edit", "copy", "publish", "append"}
    THEN {[by |-> c, path |-> fileCall[c].path, content |-> fileCall[c].read,
           source |-> IF fileCall[c].op = "append" THEN fileCall[c].read ELSE <<>>]}
    ELSE {}
Draft(c) ==
  IF fileCall[c].path \in OutputPaths /\ fileCall[c].op \in {"write", "edit", "copy", "publish", "append"}
    THEN {[by |-> c, path |-> fileCall[c].path, content |-> Updated(c),
           source |-> IF fileCall[c].op = "append" THEN fileCall[c].read ELSE <<>>]}
    ELSE {}
(* validate_edit_publication, validate_append_publication                      *)
PublicationValid(d, c) ==
  /\ d.path = fileCall[c].path
  /\ fileCall[c].op = "append" =>
       IsPrefix(d.source, d.content) /\ Len(d.content) = Len(d.source) + 1
RecordFileCall(c) ==
  /\ fileCall[c].phase = "written"
  /\ \/ /\ \A d \in Draft(c) : PublicationValid(d, c)
        /\ artifacts' = artifacts \cup Draft(c)
        /\ FilePhase(c, "done")
     \/ FilePhase(c, "lost") /\ UNCHANGED artifacts
  /\ UNCHANGED <<disk, held, shown>>
-----------------------------------------------------------------------------
(* WorkspaceSearchProvider.execute, file after file. A file has a size, is     *)
(* UTF-8 text or not, and holds a number of matches.                           *)
SearchStart == [matches |-> 0, files |-> 0, bytes |-> 0, truncated |-> FALSE, stop |-> FALSE]
Cut(st) == [st EXCEPT !.truncated = TRUE, !.stop = TRUE]
ScanSilently(st, f, max) ==
  LET remaining == MaxSearchBytes - st.bytes IN
  IF st.stop \/ st.files >= MaxSearchFiles \/ f.size > remaining \/ f.size > MaxFileBytes \/ ~f.utf8
    THEN st
    ELSE [st EXCEPT !.files = @ + 1, !.bytes = @ + f.size,
                    !.matches = IF @ + f.hits < max THEN @ + f.hits ELSE max]
ScanFile(st, f, max) ==
  LET remaining == MaxSearchBytes - st.bytes
      n == IF f.hits < max - st.matches THEN f.hits ELSE max - st.matches
      read == [st EXCEPT !.files = @ + 1, !.bytes = @ + f.size]
  IN CASE st.stop -> st
       [] ~st.stop /\ (st.files >= MaxSearchFiles \/ st.bytes >= MaxSearchBytes) -> Cut(st)
       [] ~st.stop /\ st.files < MaxSearchFiles /\ st.bytes < MaxSearchBytes ->
            IF f.size > remaining \/ f.size > MaxFileBytes
              THEN IF remaining < MaxFileBytes THEN Cut(st) ELSE [st EXCEPT !.truncated = TRUE]
            ELSE IF ~f.utf8 THEN read
            ELSE IF st.matches + n >= max THEN Cut([read EXCEPT !.matches = max])
            ELSE [read EXCEPT !.matches = @ + n]
(* _bounded_files: one file more than the limit is kept, to tell the two apart. *)
BoundedFiles(files) == SubSeq(files, 1, IF Len(files) > MaxSearchFiles + 1
                                          THEN MaxSearchFiles + 1 ELSE Len(files))
SearchResult(files, max) ==
  LET st == FoldLeft(LAMBDA acc, f : ScanFile(acc, f, max), SearchStart, BoundedFiles(files))
  IN [matches |-> st.matches, truncated |-> st.truncated \/ Len(files) > MaxSearchFiles + 1]

(* _character_page, and the array pages of select_json.                        *)
Page(total, offset, limit) ==
  LET end == IF offset + limit < total THEN offset + limit ELSE total
  IN [from |-> offset, to |-> end, next |-> IF end < total THEN end ELSE 0, truncated |-> end < total]
(* select_line_window, for lines of these lengths. *)
LineWindow(lines, start, end, maxChars) ==
  LET last == IF end < Len(lines) THEN end ELSE Len(lines)
      chars == FoldLeft(LAMBDA n, i : n + lines[i], 0, [i \in 1..(IF last < start THEN 0 ELSE last - start + 1)
                                                          |-> start + i - 1])
  IN [line_start |-> start, line_end |-> last, truncated |-> chars > maxChars,
      chars |-> IF chars > maxChars THEN maxChars ELSE chars]

SearchableFiles == [size : 1..2, utf8 : BOOLEAN, hits : 0..2]
Resting == \A c \in FileCalls : fileCall[c].phase = "none"
SearchFiles ==
  /\ Resting /\ shown.kind = "none"
  /\ \E n \in 0..(MaxSearchFiles + 2) : \E files \in [1..n -> SearchableFiles], max \in 1..3 :
       shown' = [kind |-> "search", files |-> files, max |-> max,
                  result |-> SearchResult(files, max)]
  /\ UNCHANGED <<disk, held, fileCall, artifacts>>
(* A reader starts at the beginning and follows next_offset to the end.        *)
ReadPage ==
  /\ Resting
  /\ \/ /\ shown.kind = "none"
        /\ \E total \in 0..5, limit \in 1..3 :
             shown' = [kind |-> "page", total |-> total, limit |-> limit, seen |-> 0,
                        page |-> Page(total, 0, limit)]
     \/ /\ shown.kind = "page" /\ shown.page.truncated
        /\ shown' = [shown EXCEPT !.seen = shown.page.to,
                                    !.page = Page(shown.total, shown.page.next, shown.limit)]
  /\ UNCHANGED <<disk, held, fileCall, artifacts>>
ReadLines ==
  /\ Resting /\ shown.kind = "none"
  /\ \E n \in 0..3 : \E lines \in [1..n -> 1..2], start \in 1..3, end \in 1..4 :
       /\ start <= end /\ start <= (IF n = 0 THEN 1 ELSE n)
       /\ shown' = [kind |-> "lines", lines |-> lines, window |-> LineWindow(lines, start, end, 3)]
  /\ UNCHANGED <<disk, held, fileCall, artifacts>>

FileNext ==
  \/ \E c \in FileCalls :
       \/ AskFileCall(c) \/ ReadSource(c) \/ ReadArtifact(c) \/ TakeContent(c) \/ OpenRevision(c)
       \/ WriteFile(c) \/ RecordFileCall(c)
  \/ SearchFiles \/ ReadPage \/ ReadLines
FileSpec == FileInit /\ [][FileNext]_fileVars
-----------------------------------------------------------------------------
(* The variables keep their types.                                             *)
FileTypeOK ==
  /\ \A p \in FilePaths : disk[p].text \in Seq(FileCalls \cup {CheckedOut}) /\ disk[p].there \in BOOLEAN
  /\ \A c \in FileCalls : fileCall[c].phase \in {"none", "asked", "read", "written", "done", "refused", "lost"}

(* An edit, a copy or a checkout never discards what another call has written  *)
(* since its source was read: it adds to it, or it is refused                  *)
(* (write_workspace_file, expected_hash).                                      *)
CarefulWritesKeepOthers ==
  [][\A c \in FileCalls :
       /\ fileCall[c].op \in {"edit", "copy", "checkout"}
       /\ fileCall[c].phase = "read" /\ fileCall'[c].phase = "written"
       => IsPrefix(disk[fileCall[c].path].text, disk'[fileCall[c].path].text)]_fileVars

(* The bytes of an artifact stood in its file, and an appended artifact begins *)
(* with the artifact it was made from, whatever other calls did to the file in *)
(* between (ArtifactDraft, validate_append_bytes).                             *)
ArtifactsAreTrue ==
  \A a \in artifacts : a.content \in held[a.path] /\ IsPrefix(a.source, a.content)

(* Nothing is left out silently: a search that does not say "truncated" has    *)
(* every match of the text files it was asked about, pages follow each other   *)
(* without a gap up to the end, and a window that is not cut holds the lines   *)
(* it names (execute, _character_page, select_line_window).                    *)
AllHits(files) ==
  FoldLeft(LAMBDA n, f : IF f.utf8 THEN n + f.hits ELSE n, 0, files)
NothingLeftOutSilently ==
  /\ shown.kind = "search" =>
       /\ shown.result.matches <= shown.max
       /\ ~shown.result.truncated => shown.result.matches = AllHits(shown.files)
  /\ shown.kind = "page" =>
       /\ shown.page.from = shown.seen
       /\ ~shown.page.truncated => shown.page.to = shown.total
  /\ shown.kind = "lines" /\ ~shown.window.truncated =>
       shown.window.chars = FoldLeft(LAMBDA n, i : IF i \in shown.window.line_start..shown.window.line_end
                                                     THEN n + shown.lines[i] ELSE n,
                                      0, [i \in DOMAIN shown.lines |-> i])
=============================================================================
