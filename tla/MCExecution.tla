----------------------------- MODULE MCExecution ----------------------------
(* The parts that touch files and the outside world for a run: the project's  *)
(* library, the inputs and the workspace of an attempt, tool calls and the    *)
(* branches one of them starts, the providers of reads and of approved writes, *)
(* and the desktop with the lookups of its calls. They share no row, so a     *)
(* behaviour moves one of them and leaves the others where they began: the    *)
(* states add up.                                                             *)
EXTENDS ProjectDocuments, RunInputs, RunFiles, ToolCalls, Subagents, WriteProviders,
        EffectReconciliation, SourceReads, TLC

CONSTANTS r1, r2, c1, c2, c3, c4, d1, d2, use1, use2, use3, use4, n1, n2, n3, f1, f2

VARIABLE moving                \* the part that moves in this behaviour

executionVars == <<moving, libraryVars, toolVars, writeVars, reconciliationVars,
                   inputVars, fileVars, dispatchVars, readVars>>

(* Calls are cancelled where the lookups rest, and the second Run, which makes *)
(* no document but keeps those it was given, is not put in the recycle bin.    *)
NoCancellation == \A c \in {c3, c4} : mcpCaller'[c].attempt = 0
SecondRunStays == history'[r2].state # "trashed"

ExecutionInit ==
  /\ moving \in {"library", "tools", "writes", "lookups", "desktop", "inputs", "files",
                  "branches", "reads"}
  /\ LibraryInit
  /\ ToolInit
  /\ WriteInit
  /\ ReconciliationInit
  /\ InputInit
  /\ FileInit
  /\ DispatchInit
  /\ ReadsInit
  /\ moving # "writes" => provider = "http"      \* a part at rest starts in one way
  /\ moving # "library" => folders = {}
  /\ moving # "reads" => givenTools = CHOOSE tools \in ToolSets : TRUE
ExecutionNext ==
  /\ UNCHANGED moving
  /\ \/ /\ moving = "library" /\ LibraryNext /\ SecondRunStays
        /\ UNCHANGED <<toolVars, writeVars, reconciliationVars, inputVars, fileVars,
                       dispatchVars, readVars>>
     \/ /\ moving = "tools" /\ ToolNext
        /\ UNCHANGED <<libraryVars, writeVars, reconciliationVars, inputVars, fileVars,
                       dispatchVars, readVars>>
     \/ /\ moving = "writes" /\ WriteNext
        /\ UNCHANGED <<libraryVars, toolVars, reconciliationVars, inputVars, fileVars,
                       dispatchVars, readVars>>
     \/ /\ \/ moving = "lookups" /\ ReconciliationNext /\ NoCancellation
           \/ moving = "desktop" /\ DesktopNext /\ UNCHANGED <<lookup, permitted, changed, reader>>
        /\ UNCHANGED <<libraryVars, toolVars, writeVars, inputVars, fileVars,
                       dispatchVars, readVars>>
     \/ /\ moving = "inputs" /\ InputNext
        /\ UNCHANGED <<libraryVars, toolVars, writeVars, reconciliationVars, fileVars,
                       dispatchVars, readVars>>
     \/ /\ moving = "files" /\ FileNext
        /\ UNCHANGED <<libraryVars, toolVars, writeVars, reconciliationVars, inputVars,
                       dispatchVars, readVars>>
     \/ /\ moving = "branches" /\ DispatchNext
        /\ UNCHANGED <<libraryVars, toolVars, writeVars, reconciliationVars, inputVars,
                       fileVars, readVars>>
     \/ /\ moving = "reads" /\ ReadNext
        /\ UNCHANGED <<libraryVars, toolVars, writeVars, reconciliationVars, inputVars,
                       fileVars, dispatchVars>>
ExecutionSpec == ExecutionInit /\ [][ExecutionNext]_executionVars

(* Every variable of every part keeps its type. *)
ExecutionTypeOK ==
  /\ DocTypeOK
  /\ ToolTypeOK
  /\ WriteTypeOK
  /\ ReconciliationTypeOK
  /\ InputTypeOK
  /\ FileTypeOK
  /\ DispatchTypeOK
  /\ ReadTypeOK

(* All attempts of a Run see the same inputs, an artifact is the file it names, *)
(* a search says what it left out, and a read is of what it says it read        *)
(* (RunInputs, RunFiles, SourceReads).                                          *)
WorkspaceIsTrue ==
  AttemptsSeeOneInput /\ ArtifactsAreTrue /\ NothingLeftOutSilently /\ ReadsAreTrue

(* A lookup ends once, and an edit that names the content it replaces never     *)
(* replaces another (EffectReconciliation, RunFiles).                           *)
StepsAreCareful == LookupEndsOnce /\ CarefulWritesKeepOthers
-----------------------------------------------------------------------------
MCOwner == [x \in Outputs |-> r1]
MCPaths == {<<"a">>, <<"a", "a">>, <<"b", "a">>}
MCOld == {<<"b">>}
MCDigest == (use1 :> 1) @@ (use2 :> 2) @@ (use3 :> 2) @@ (use4 :> 2)
MCSteps == (use1 :> <<use2, use4>>) @@ (use2 :> <<>>) @@ (use3 :> <<>>) @@ (use4 :> <<>>)
MCRunOf == c1 :> d1 @@ c2 :> d2 @@ c3 :> d1 @@ c4 :> d1
MCCancels == c1 :> NoCallEffect @@ c2 :> NoCallEffect @@ c3 :> c1 @@ c4 :> c3
MCAbout == [q \in Lookups |-> c1]

(* A converted, an oversized and a deferred document; a file that outgrows its limit. *)
MCKind == n1 :> "convertible" @@ n2 :> "huge" @@ n3 :> "deferred"
MCRepositoryKind == f1 :> "text" @@ f2 :> "grown"

MCDirectory == <<"x", "y", "z">>
ReadsUpTo(reads, parallel, segments, shifts) ==
  [reads |-> reads, parallel |-> parallel, segments |-> segments, shifts |-> shifts]
MCReadBounds ==
  [tools \in ToolSets |->
     CASE tools = {"database.read", "database.describe"} -> ReadsUpTo(3, 2, 1, 0)
       [] tools = {"database.describe"} -> ReadsUpTo(2, 1, 2, 1)
       [] tools = {"document.files", "audit.export"} -> ReadsUpTo(2, 2, 1, 2)
       [] OTHER -> ReadsUpTo(2, 2, 1, 1)]
=============================================================================
