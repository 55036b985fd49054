----------------------------- MODULE SkillSources -----------------------------
(* What of an uploaded directory becomes a Skill (skills/importer.py,           *)
(* source_loader.py, source_storage.py, source_documents.py and the analysis    *)
(* of interpreter.py): the upload is freed of a common folder, its Skill entry  *)
(* is chosen or discovered, the files of the entry and everything they refer to *)
(* are selected, references are checked, and the package is stored under its    *)
(* hash. Days later an interpretation reads the stored files back, parses them  *)
(* again and sends them to the model.                                           *)
(* A path is its sequence of names; the content of a file is the files it       *)
(* refers to and whether a secret is in it.                                     *)
EXTENDS Naturals, Sequences, FiniteSets, SequencesExt

CONSTANTS
  SourcePaths,      \* paths an upload may have
  SchemaFiles,      \* paths of JSON Schemas, whose references count as well
  SecretFiles,      \* files in which a secret may be found
  MaxImportFiles,   \* max_files
  NoEntry

ASSUME SourceAssumption ==
  /\ \A path \in SourcePaths : Len(path) > 0
  /\ SchemaFiles \cup SecretFiles \subseteq SourcePaths /\ MaxImportFiles \in Nat

VARIABLES
  given,         \* the upload: its files, their references, secrets, the entry asked for
  imported,      \* what prepare_upload or prepare_inline made of it
  storedSource,  \* SkillSource row and stored files
  reread         \* what load_stored made of the stored source, and what was sent

sourceVars == <<given, imported, storedSource, reread>>

Skill == "SKILL.md"
Markdown(path) == path \notin SchemaFiles
SkillsIn(files) == {path \in files : Last(path) = Skill}
Folder(path) == Front(path)
Under(path, folder) == Len(path) > Len(folder) /\ IsPrefix(folder, path)
Escape == <<"..">>                            \* a reference that leaves the root
Links(source, path) == {link[2] : link \in {l \in source.links : l[1] = path}}

(* The folder every file of an upload lies in is taken away, when the Skill     *)
(* entry is then at the root; references are relative and move along.           *)
CommonRoot(files) == {root \in {path[1] : path \in files} :
                        \A path \in files : Len(path) >= 2 /\ path[1] = root}
MoveUp(source, root) ==
  [source EXCEPT
     !.files = {Tail(path) : path \in source.files},
     !.links = {<<Tail(l[1]), IF Len(l[2]) >= 2 /\ l[2][1] = root THEN Tail(l[2]) ELSE Escape>> :
                  l \in source.links},
     !.secrets = {Tail(path) : path \in source.secrets}]
NormalizeRoot(source) ==
  IF <<Skill>> \in source.files \/ CommonRoot(source.files) = {} THEN source
  ELSE LET moved == MoveUp(source, CHOOSE root \in CommonRoot(source.files) : TRUE)
       IN  IF <<Skill>> \in moved.files THEN moved ELSE source

(* Entries that lie in no other Skill's folder. *)
EntryPaths(files) ==
  {path \in SkillsIn(files) :
     \A other \in SkillsIn(files) \ {path} : ~Under(path, Folder(other))}
(* The files of an entry: its folder without the Skills in it, ... *)
NoOtherSkills(files, entry) == {}             \* a mistake: nested Skills come along
OtherSkills(files, entry) ==
  {other \in SkillsIn(files) \ {entry} : Folder(other) # <<>> /\ ~Under(entry, Folder(other))}
OwnFiles(files, entry) ==
  {entry} \cup {path \in files : /\ Under(path, Folder(entry))
                                 /\ \A other \in OtherSkills(files, entry) :
                                      ~Under(path, Folder(other))}
(* ... and what they refer to, and so on. *)
Closure(source, start) ==
  LET reach[n \in 0..Cardinality(source.files)] ==
        IF n = 0 THEN start
        ELSE reach[n - 1] \cup UNION {Links(source, path) : path \in reach[n - 1]}
  IN  reach[Cardinality(source.files)]

RefusedImport(why) == [error |-> why, files |-> {}, entry |-> NoEntry]
(* _select_skill_source *)
SelectSource(source, entry) ==
  LET selected == Closure(source, OwnFiles(source.files, entry))
  IN  CASE entry \notin SkillsIn(source.files) -> RefusedImport("skill_entry_not_found")
        [] ~(selected \subseteq source.files) -> RefusedImport("missing_reference")
        [] EntryPaths(selected) # {entry} -> RefusedImport("skill_selection_ambiguous")
        [] OTHER -> [error |-> "none", files |-> selected, entry |-> entry]

(* _reject_reference_cycles: a depth-first search over the Markdown files. *)
Visit(graph) ==
  LET visit[node \in DOMAIN graph, visiting \in SUBSET DOMAIN graph, visited \in SUBSET DOMAIN graph] ==
        IF node \in visiting THEN [cycle |-> TRUE, visited |-> visited]
        ELSE IF node \in visited THEN [cycle |-> FALSE, visited |-> visited]
        ELSE LET after == FoldSet(LAMBDA target, state :
                                    IF state.cycle THEN state
                                    ELSE visit[target, visiting \cup {node}, state.visited],
                                  [cycle |-> FALSE, visited |-> visited], graph[node])
             IN  [after EXCEPT !.visited = @ \cup {node}]
  IN  visit
HasCycle(graph) ==
  FoldSet(LAMBDA node, state : IF state.cycle THEN state ELSE Visit(graph)[node, {}, state.visited],
          [cycle |-> FALSE, visited |-> {}], DOMAIN graph).cycle
(* _validate_markdown_references *)
ReferenceProblem(source, files) ==
  LET documents == {path \in files : Markdown(path)}
      graph == [path \in documents |-> Links(source, path) \cap documents]
  IN  IF \E path \in documents : ~(Links(source, path) \subseteq files) THEN "missing_reference"
      ELSE IF HasCycle(graph) THEN "reference_cycle" ELSE "none"

(* _scan_directory and the adapters *)
ScanProblem(source) ==
  CASE source.files = {} -> "empty_skill_source"
    [] Cardinality(source.files) > MaxImportFiles -> "too_many_files"
    [] OTHER -> "none"
Supported(files) == \E path \in files : Markdown(path)
(* parse_directory *)
Parse(source, entry, discover) ==
  LET entries == EntryPaths(source.files)
      found == entry = NoEntry /\ discover /\ <<Skill>> \notin source.files /\ entries # {}
      chosen == IF found THEN CHOOSE path \in entries : TRUE ELSE entry
      selection == IF chosen = NoEntry
                   THEN [error |-> "none", files |-> source.files, entry |-> NoEntry]
                   ELSE SelectSource(source, chosen)
      problem == ReferenceProblem(source, selection.files)
  IN  CASE ScanProblem(source) # "none" -> RefusedImport(ScanProblem(source))
        [] found /\ Cardinality(entries) > 1 -> RefusedImport("skill_selection_required")
        [] selection.error # "none" -> selection
        [] problem # "none" -> RefusedImport(problem)
        [] ~Supported(selection.files) -> RefusedImport("unsupported_skill_source")
        [] OTHER -> selection
-----------------------------------------------------------------------------
Nothing == [files |-> {}, links |-> {}, secrets |-> {}]
NotYet == RefusedImport("not yet")
SourceInit ==
  /\ given = Nothing /\ imported = NotYet
  /\ storedSource = [package |-> NotYet, source |-> Nothing]
  /\ reread = [package |-> NotYet, sent |-> {}]

(* prepare_upload: with an entry the paths stay, without one the root is found. *)
PrepareUpload(source, entry) ==
  LET frozen == IF entry = NoEntry THEN NormalizeRoot(source) ELSE source
  IN  /\ given' = frozen
      /\ imported' = Parse(frozen, entry, TRUE)
      /\ UNCHANGED <<storedSource, reread>>
(* prepare_inline: no entry is looked for. *)
PrepareInline(source) ==
  /\ given' = source
  /\ imported' = Parse(source, NoEntry, FALSE)
  /\ UNCHANGED <<storedSource, reread>>

(* The package is saved: row, file index and the selected files. *)
SelectedFiles(source, package) ==
  [files |-> source.files \cap package.files,
   links |-> {l \in source.links : l[1] \in package.files},
   secrets |-> source.secrets \cap package.files]
StoreSource ==
  /\ imported.error = "none" /\ storedSource.package.error = "not yet"
  /\ storedSource' = [package |-> imported, source |-> SelectedFiles(given, imported)]
  /\ UNCHANGED <<given, imported, reread>>

(* load_stored: parsed again from what is stored, the hash must be the same. *)
NoStoredEntry(package) == NoEntry             \* a mistake: the entry is not kept
StoredEntry(package) == package.entry
Reparsed == Parse(storedSource.source, StoredEntry(storedSource.package), FALSE)
LoadStored ==
  /\ storedSource.package.error = "none" /\ reread.package.error = "not yet"
  /\ reread' = [reread EXCEPT
       !.package = IF Reparsed.error = "none" /\ Reparsed # storedSource.package
                   THEN RefusedImport("content hash drifted") ELSE Reparsed]
  /\ UNCHANGED <<given, imported, storedSource>>

(* SkillStaticAnalyzer.analyze and build_interpreter_request: a secret anywhere *)
(* in the package blocks it, all its texts go to the model.                     *)
Blocked(source, package) == source.secrets \cap package.files # {}
SendSource ==
  /\ reread.package.error = "none" /\ reread.sent = {}
  /\ ~Blocked(storedSource.source, reread.package)
  /\ reread' = [reread EXCEPT !.sent = reread.package.files]
  /\ UNCHANGED <<given, imported, storedSource>>

(* What is uploaded: some files, at most two references, perhaps secrets. *)
Uploads ==
  LET With(files) == LET Pairs == files \X (files \cup {Escape}) IN
        {[files |-> files, links |-> links, secrets |-> secrets] :
           links \in {{}} \cup {{l, m} : l, m \in Pairs}, secrets \in {{}, files \cap SecretFiles}}
  IN  UNION {With(files) : files \in {f \in SUBSET SourcePaths : Cardinality(f) <= MaxImportFiles + 1}}
SourceNext ==
  \/ imported = NotYet /\ \E source \in Uploads :
       \/ \E entry \in SkillsIn(source.files) \cup {NoEntry} : PrepareUpload(source, entry)
       \/ PrepareInline(source)
  \/ StoreSource \/ LoadStored \/ SendSource
SourceSpec == SourceInit /\ [][SourceNext]_sourceVars
-----------------------------------------------------------------------------
SourceTypeOK ==
  /\ storedSource.package.error \in {"not yet", "none"}
  /\ \A package \in {imported, storedSource.package, reread.package} :
       package.error = "none" => package.files # {} /\ package.files \subseteq given.files
  /\ reread.sent \subseteq storedSource.source.files

(* A source that was imported can always be read back as the same package:      *)
(* load_stored selects, checks and hashes the stored files again, with the      *)
(* stored entry, and would otherwise report damage where there is none.         *)
StoredSourceLoads == reread.package.error \in {"not yet", "none"}

(* Reference for the selection and for the search of cycles: a package holds    *)
(* everything its files refer to, its documents do not refer to themselves in a *)
(* circle, and nothing of another Skill is in it unless a file refers to it.    *)
Foreign(files, entry, path) ==
  \/ ~Under(path, Folder(entry))
  \/ \E other \in SkillsIn(files) \ {entry} : Under(path, Folder(other)) /\ ~Under(entry, Folder(other))
PackageIsWhole ==
  imported.error = "none" =>
    /\ \A path \in imported.files : Markdown(path) \/ imported.entry # NoEntry =>
         Links(given, path) \subseteq imported.files
    /\ ~\E path \in imported.files : \E seq \in UNION {[1..n -> imported.files] : n \in 1..3} :
         /\ \A i \in DOMAIN seq : Markdown(seq[i])
         /\ seq[1] = path /\ path \in Links(given, seq[Len(seq)])
         /\ \A i \in 1..Len(seq) - 1 : seq[i + 1] \in Links(given, seq[i])
    /\ imported.entry # NoEntry =>
         \A path \in imported.files : Foreign(given.files, imported.entry, path) =>
           \E owner \in imported.files : path \in Links(given, owner)
=============================================================================
