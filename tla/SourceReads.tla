----------------------------- MODULE SourceReads -----------------------------
(* The read-only tools of one Run: what their providers check before and      *)
(* after they ask a source, and what the rows they leave are used for later.  *)
(* A call is a ToolCall row with its Evidence; the gateway inserts it         *)
(* (ToolCalls) and the provider of its tool ends it. A structure read once is *)
(* answered again from its row, a failed read is corrected at most once, a    *)
(* document is converted at the version an inspection saw, a download goes    *)
(* where an earlier answer said, and a directory is listed page after page    *)
(* (skillmind/agent, skillmind/documents).                                    *)
EXTENDS Integers, Sequences, FiniteSets

CONSTANTS
  ToolSets,        \* the sets of tools a Run may be given
  Tables,          \* the tables in the scope of its binding
  Directory,       \* every document the library may hold, in the order of the paths
  PageLimit,
  ReadBounds       \* bounds for a Run with these tools: its calls, those in flight,
                   \* its segments, and the changes outside it

ReadTools == {"database.read", "database.describe", "database.query", "issue.read",
              "repository.read", "http.read", "mcp.read", "mcp.query", "mcp.download",
              "document.read",
              "document.inspect", "document.convert", "document.files", "audit.export"}

ASSUME SourceReadAssumption ==
  /\ \A tools \in ToolSets : tools \subseteq ReadTools
  /\ Tables # {} /\ PageLimit \in Nat \ {0}
  /\ ReadBounds \in [ToolSets -> [reads : Nat, parallel : Nat, segments : Nat, shifts : Nat]]
  /\ \A i, j \in DOMAIN Directory : Directory[i] = Directory[j] => i = j

VARIABLES
  givenTools,      \* the tools of the Run
  standing,    \* the Run's binding stands, its credential, the user may read the project
  source,       \* what there is to read, in versions, and how often it changed
  readCall,     \* the ToolCall rows with their Evidence, in the order of their creation
  readSegment,  \* the current RunSegment: the facts it may show and those frozen for it
  catalogue,    \* the documents in the library, in the order of the paths
  listing       \* how far the agent has come in listing a directory

readVars == <<givenTools, standing, source, readCall, readSegment, catalogue, listing>>

NoBrief == [frozen |-> FALSE, facts |-> {}]
NoListing == [kind |-> "none", first |-> <<>>, docs |-> <<>>, offset |-> 0, covered |-> <<>>,
              page |-> "closed"]
ReadsInit ==
  /\ givenTools \in ToolSets
  /\ standing = [binding |-> TRUE, secret |-> 1, reader |-> TRUE]
  /\ source = [schema |-> [t \in Tables |-> 1], puts |-> <<1>>, listed |-> 1, answer |-> 1,
               shifts |-> 0]
  /\ readCall = <<>>
  /\ readSegment = [number |-> 1, since |-> 0, brief |-> NoBrief, shown |-> NoBrief]
  /\ catalogue = Directory
  /\ listing = NoListing

(* Completions of calls order what happens: created_at of an Evidence.         *)
Clock == Cardinality({i \in DOMAIN readCall : readCall[i].done # 0})
KeepOthers == UNCHANGED <<givenTools, standing, source, readSegment, catalogue, listing>>
Becomes(i, r) == readCall' = [readCall EXCEPT ![i] = r] /\ KeepOthers
Refuse(i, why) ==
  Becomes(i, [readCall[i] EXCEPT !.phase = "FAILED", !.why = why, !.secret = 0, !.done = Clock + 1])
Publish(i) ==
  Becomes(i, [readCall[i] EXCEPT !.phase = "SUCCEEDED", !.secret = 0, !.done = Clock + 1])
Ask(i) == Becomes(i, [readCall[i] EXCEPT !.phase = "asking", !.secret = standing.secret])
Reads(i, v) ==
  Becomes(i, [readCall[i] EXCEPT !.phase = "answered", !.value = v, !.at = Clock,
                !.origin = i, !.stood = standing.binding])
Erred(i, why) == Becomes(i, [readCall[i] EXCEPT !.phase = "erred", !.why = why])

(* load_bound_run_resource and resolve_binding_secret: the integration is      *)
(* active and of the frozen revision, and its credential can be had; and the   *)
(* same once more after the source was asked.                                  *)
Bound == standing.binding
SameCredential(i) == standing.secret = readCall[i].secret
SameBound(i) == Bound /\ standing.secret = readCall[i].secret
Opens(i, ok) == readCall[i].phase = "called" /\ IF ok THEN Ask(i) ELSE Refuse(i, "refused")
Finishes(i, ok) ==
  readCall[i].phase = "answered" /\ IF ok THEN Publish(i) ELSE Refuse(i, "changed")
Fails(i, ok) ==
  readCall[i].phase = "erred" /\ Refuse(i, IF ok THEN readCall[i].why ELSE "changed")
EndsAs(i, ok) == Finishes(i, ok) \/ Fails(i, ok)

FrozenContent == 1    \* a document's content when the Run was created

(* The gateway's row, with the arguments that tie it to earlier ones: the      *)
(* failed read it corrects, the evidence it rests on, and refresh,             *)
(* include_schema or a reading of the whole project.                           *)
RowsOf(tool) == {i \in DOMAIN readCall : readCall[i].tool = tool}
InFlight == {i \in DOMAIN readCall : readCall[i].done = 0}
Ties(tool) ==
  CASE tool = "database.read" ->
         {[of |-> 0, cite |-> 0, option |-> o] : o \in BOOLEAN} \cup
         {[of |-> i, cite |-> j, option |-> FALSE] :
            i \in RowsOf("database.read"), j \in RowsOf("database.describe")}
    [] tool = "database.describe" ->
         {[of |-> i, cite |-> 0, option |-> o] :
            i \in {0} \cup RowsOf("database.read"), o \in BOOLEAN}
    [] tool = "document.read" -> {[of |-> 0, cite |-> 0, option |-> o] : o \in BOOLEAN}
    [] tool \in {"repository.read", "document.convert", "document.files"} ->
         {[of |-> 0, cite |-> j, option |-> FALSE] : j \in {0} \cup DOMAIN readCall}
    [] tool \in {"mcp.download", "audit.export"} ->
         {[of |-> 0, cite |-> j, option |-> FALSE] : j \in DOMAIN readCall}
    [] OTHER -> {[of |-> 0, cite |-> 0, option |-> FALSE]}
InvokeRead(tool) ==
  /\ listing.kind = "none"
  /\ "database.describe" \in givenTools =>
       readSegment.shown.frozen /\ readSegment.shown = readSegment.brief
  /\ Len(readCall) < ReadBounds[givenTools].reads
  /\ Cardinality(InFlight) < ReadBounds[givenTools].parallel
  /\ \E tie \in Ties(tool), t \in Tables :
       /\ tool \notin {"database.read", "database.describe"} => t = CHOOSE u \in Tables : TRUE
       /\ readCall' = Append(readCall,
            [tool |-> tool, table |-> t, of |-> tie.of, cite |-> tie.cite, option |-> tie.option,
             phase |-> "called", secret |-> 0, value |-> 0, at |-> 0, stood |-> TRUE, origin |-> 0,
             done |-> 0, why |-> "none", kept |-> TRUE, content |-> FrozenContent])
  /\ KeepOthers
-----------------------------------------------------------------------------
(* DatabaseObservations.recovery: the row named is this Run's own failed read  *)
(* of the table, which a look at the structure can correct; no other call of   *)
(* this tool has tried; and the structure cited was read for this correction.  *)
FinishedOnly(i) ==
  \A j \in DOMAIN readCall \ {i} :
    ~(readCall[j].tool = readCall[i].tool /\ readCall[j].of = readCall[i].of
        /\ readCall[j].phase = "SUCCEEDED")
NoOtherCorrection(i) ==
  \A j \in DOMAIN readCall \ {i} :
    ~(readCall[j].tool = readCall[i].tool /\ readCall[j].of = readCall[i].of)
MayRecover(i) ==
  LET r == readCall[i]
      original == readCall[r.of]
      seen == readCall[r.cite]
  IN /\ original.tool = "database.read" /\ original.table = r.table /\ original.of = 0
     /\ original.phase = "FAILED" /\ original.why = "correctable"
     /\ NoOtherCorrection(i)
     /\ r.cite # 0 => /\ seen.tool = "database.describe" /\ seen.phase = "SUCCEEDED"
                      /\ seen.of = r.of /\ seen.table = r.table
(* DatabaseReadProvider.execute *)
DatabaseRead(i) ==
  /\ readCall[i].tool = "database.read"
  /\ \/ Opens(i, Bound /\ (readCall[i].of # 0 => MayRecover(i)))
     \/ EndsAs(i, SameBound(i))

(* DatabaseObservations.lookup: the row that last read this structure, up to a *)
(* time. What it is answered from names the row that read the source.          *)
LastObservation(t, before) ==
  LET rows == {j \in DOMAIN readCall :
                 /\ readCall[j].phase = "SUCCEEDED" /\ readCall[j].table = t
                 /\ \/ readCall[j].tool = "database.describe"
                    \/ readCall[j].tool = "database.read" /\ readCall[j].option
                 /\ readCall[j].done <= before}
  IN {j \in rows : \A k \in rows : readCall[k].done <= readCall[j].done}
OriginOf(j) == readCall[j].origin
(* DatabaseReadProvider._describe: a refresh and a correction ask the source,  *)
(* and so does a lookup that cannot be made.                                   *)
Describe(i) ==
  LET r == readCall[i] IN
  /\ r.tool = "database.describe"
  /\ \/ Opens(i, Bound /\ (r.of # 0 => MayRecover(i)))
     \/ /\ r.phase = "called" /\ Bound /\ ~r.option /\ r.of = 0
        /\ \E j \in LastObservation(r.table, Clock) :
             Becomes(i, [r EXCEPT !.phase = "answered", !.secret = standing.secret,
                           !.value = readCall[j].value, !.at = readCall[j].at,
                           !.origin = OriginOf(j)])
     \/ EndsAs(i, SameBound(i))
(* PostgresDatabaseSource._read: one transaction, or what went wrong and where. *)
DatabaseAnswers(i) ==
  /\ readCall[i].tool \in {"database.read", "database.describe"} /\ readCall[i].phase = "asking"
  /\ \/ Reads(i, source.schema[readCall[i].table])
     \/ Erred(i, "unavailable")
     \/ readCall[i].tool = "database.read" /\ Erred(i, "correctable")

(* NativeDatabaseProvider.execute; NativePostgresSource.read checks again      *)
(* inside its transaction, before the query and after it, and what it then     *)
(* answers is published.                                                       *)
NativeQuery(i) ==
  /\ readCall[i].tool = "database.query"
  /\ Opens(i, Bound) \/ Finishes(i, TRUE) \/ Fails(i, SameBound(i))
NativeAnswers(i) ==
  /\ readCall[i].tool = "database.query" /\ readCall[i].phase = "asking"
  /\ IF ~SameBound(i) THEN Refuse(i, "changed")
     ELSE Reads(i, source.answer) \/ Erred(i, "unavailable")
-----------------------------------------------------------------------------
(* HttpReadProvider.execute and McpReadProvider.execute check before and after. *)
HttpRead(i) ==
  /\ readCall[i].tool = "http.read"
  /\ Opens(i, Bound) \/ EndsAs(i, SameBound(i))
McpRead(i) ==
  /\ readCall[i].tool = "mcp.read"
  /\ Opens(i, Bound) \/ EndsAs(i, SameBound(i))
(* McpToolsProvider.execute for mcp.query: a large answer is kept in a file of *)
(* the workspace, which the agent may change.                                  *)
McpQuery(i) ==
  /\ readCall[i].tool = "mcp.query"
  /\ Opens(i, Bound) \/ EndsAs(i, SameBound(i))
AnswerFileChanges(i) ==
  /\ readCall[i].tool = "mcp.query" /\ readCall[i].phase = "SUCCEEDED" /\ readCall[i].kept
  /\ Becomes(i, [readCall[i] EXCEPT !.kept = FALSE])
(* StreamableHttpMcpSource.read; StreamableHttpMcpToolsSource.call, once, and   *)
(* only while the server offers what was registered.                           *)
McpAnswers(i) ==
  /\ readCall[i].tool = "mcp.read" /\ readCall[i].phase = "asking"
  /\ Reads(i, source.answer) \/ Erred(i, "unavailable")
McpToolAnswers(i) ==
  /\ readCall[i].tool = "mcp.query" /\ readCall[i].phase = "asking"
  /\ Reads(i, source.answer) \/ Erred(i, "unavailable")

(* McpDownloadProvider._observed: the answer cited, if its file still holds    *)
(* what the evidence says. A changed file names no path of the answer: 0.      *)
Observed(i) ==
  LET cited == readCall[readCall[i].cite] IN
  cited.tool = "mcp.query" /\ cited.phase = "SUCCEEDED" /\ cited.kept
PathIn(cited) == IF cited.kept THEN cited.value ELSE 0
(* McpDownloadProvider.execute *)
Download(i) ==
  /\ readCall[i].tool = "mcp.download"
  /\ \/ /\ readCall[i].phase = "called"
        /\ IF Bound /\ Observed(i)
             THEN Becomes(i, [readCall[i] EXCEPT !.phase = "asking", !.secret = standing.secret,
                                !.value = PathIn(readCall[readCall[i].cite])])
             ELSE Refuse(i, "refused")
     \/ EndsAs(i, SameBound(i))
(* HttpResourceSource.request: to where the connection is registered, without  *)
(* a redirect and without a second try.                                        *)
HttpAnswers(i) ==
  /\ readCall[i].tool \in {"http.read", "mcp.download"} /\ readCall[i].phase = "asking"
  /\ \/ Reads(i, IF readCall[i].tool = "http.read" THEN source.answer ELSE readCall[i].value)
     \/ Erred(i, "unavailable")

(* RedmineIssueReadProvider.execute checks before it asks, and publishes what  *)
(* comes; RepositoryReadProvider.execute as well. A revision named by the agent *)
(* is opened as such where the binding allows it; else the frozen expression   *)
(* is, and must have led there.                                                *)
IssueRead(i) ==
  /\ readCall[i].tool = "issue.read"
  /\ Opens(i, Bound) \/ EndsAs(i, TRUE)
RevisionAllowed(i) ==
  LET r == readCall[i] IN r.cite # 0 => r.value = readCall[r.cite].value
RepositoryRead(i) ==
  LET r == readCall[i] IN
  /\ r.tool = "repository.read"
  /\ \/ Opens(i, Bound /\ (r.cite # 0 => readCall[r.cite].tool = "repository.read"
                                           /\ readCall[r.cite].phase = "SUCCEEDED"))
     \/ r.phase = "answered" /\ IF RevisionAllowed(i) THEN Publish(i) ELSE Refuse(i, "refused")
     \/ Fails(i, TRUE)
RemoteAnswers(i) ==
  /\ readCall[i].tool \in {"issue.read", "repository.read"} /\ readCall[i].phase = "asking"
  /\ \/ Reads(i, source.answer)
     \/ readCall[i].cite # 0 /\ Reads(i, readCall[readCall[i].cite].value)
     \/ Erred(i, "unavailable")
-----------------------------------------------------------------------------
(* A document: content 1 is what the Run froze, puts are the objects written    *)
(* to its place in storage, and the row of the library may be of another.       *)
StoredContent(i) == source.puts[readCall[i].value]
(* verify_frozen_content: the bytes that came hash to what was frozen, or to   *)
(* what the row of another document said when find_document found it.          *)
VerifyNothing(i) == TRUE
VerifyFrozenContent(i) == StoredContent(i) = readCall[i].content
(* project_document_source: a reading of the whole project needs its reader.   *)
MayReadProject(i) == readCall[i].option => standing.reader
(* DocumentProvider.execute: a document the Run froze or, where the whole      *)
(* project may be read, one it did not select.                                 *)
FindDocument(i) ==
  /\ readCall[i].phase = "called" /\ readCall[i].option /\ standing.reader
  /\ Becomes(i, [readCall[i] EXCEPT !.phase = "asking", !.secret = standing.secret,
                                    !.content = source.listed])
DocumentRead(i) ==
  /\ readCall[i].tool = "document.read"
  /\ \/ Opens(i, MayReadProject(i)) \/ FindDocument(i)
     \/ Finishes(i, MayReadProject(i) /\ VerifyFrozenContent(i))
     \/ Fails(i, TRUE)
(* DocumentInspectProvider.execute: the metadata of the object, whose bytes    *)
(* nobody has read.                                                            *)
DocumentInspect(i) ==
  /\ readCall[i].tool = "document.inspect"
  /\ Opens(i, TRUE) \/ EndsAs(i, TRUE)
(* PostgresDocumentObservationLookup.load and _restore: evidence of a          *)
(* successful inspection of this document in this Run.                         *)
Restored(i) ==
  LET cited == readCall[readCall[i].cite] IN
  cited.tool = "document.inspect" /\ cited.phase = "SUCCEEDED"
(* _load_observed_content: the object that was observed, and no newer one.     *)
SameObservation(i) == readCall[i].cite # 0 => readCall[i].value = readCall[readCall[i].cite].value
(* DocumentConvertProvider.execute *)
DocumentConvert(i) ==
  /\ readCall[i].tool = "document.convert"
  /\ \/ Opens(i, readCall[i].cite # 0 => Restored(i))
     \/ Finishes(i, SameObservation(i) /\ VerifyFrozenContent(i))
     \/ Fails(i, TRUE)
(* read_document_content: the bytes are those the library's row speaks of.     *)
BytesMatchRow == source.puts[Len(source.puts)] = source.listed
(* DatabaseProjectDocumentSource.fetch, inspect, fetch_observed: an answer that *)
(* the library's row is of another content is worth as much as none.           *)
StorageAnswers(i) ==
  /\ readCall[i].tool \in {"document.read", "document.inspect", "document.convert"}
  /\ readCall[i].phase = "asking"
  /\ \/ /\ IF readCall[i].tool = "document.inspect" THEN source.listed = FrozenContent
                                                   ELSE BytesMatchRow
        /\ Reads(i, Len(source.puts))
     \/ Erred(i, "unavailable")

(* DocumentFilesProvider.execute with stat, and with prepare for the state an  *)
(* earlier stat saw: the library's binding is required before and after.       *)
DocumentFiles(i) ==
  /\ readCall[i].tool = "document.files"
  /\ Opens(i, Bound) \/ Finishes(i, Bound)
(* DocumentFilesProvider._execute, observe_file_state *)
FileStateSeen(i) ==
  /\ readCall[i].tool = "document.files" /\ readCall[i].phase = "asking"
  /\ LET c == readCall[i].cite IN
     IF c = 0 \/ (readCall[c].tool = "document.files" /\ readCall[c].phase = "SUCCEEDED"
                    /\ readCall[c].value = source.answer)
       THEN Reads(i, source.answer)
       ELSE Refuse(i, "refused")

(* AuditExportProvider.execute: the user is authorized before the records are  *)
(* read, with them, and after the file is written.                             *)
AuditExport(i) ==
  /\ readCall[i].tool = "audit.export"
  /\ Opens(i, standing.reader) \/ Finishes(i, standing.reader)
(* PostgresAuditExportSource.read: every record named, or none. *)
AuditAnswers(i) ==
  /\ readCall[i].tool = "audit.export" /\ readCall[i].phase = "asking"
  /\ LET c == readCall[i].cite IN
     IF standing.reader /\ readCall[c].phase = "SUCCEEDED"
       THEN Reads(i, readCall[c].value)
       ELSE Refuse(i, "refused")
-----------------------------------------------------------------------------
(* A segment begins: facts observed up to now may be shown in it.              *)
BeginSegment ==
  /\ readSegment.number < ReadBounds[givenTools].segments /\ Clock > readSegment.since
  /\ ~readSegment.shown.frozen
  /\ readSegment' = [number |-> readSegment.number + 1, since |-> Clock,
                     brief |-> NoBrief, shown |-> NoBrief]
  /\ UNCHANGED <<givenTools, standing, source, readCall, catalogue, listing>>
(* DatabaseReadProvider.project_facts, for an attempt of the segment: what its *)
(* brief froze; else the structures last read before the segment; or nothing,  *)
(* when they cannot be had or are too large.                                   *)
FactsUpTo(before) == UNION {LastObservation(t, before) : t \in Tables}
ProjectFacts ==
  /\ "database.describe" \in givenTools /\ listing.kind = "none" /\ Bound
  /\ ~readSegment.shown.frozen
  /\ \E facts \in {IF readSegment.brief.frozen THEN readSegment.brief.facts
                    ELSE FactsUpTo(readSegment.since), {}} :
       readSegment' = [readSegment EXCEPT !.shown = [frozen |-> TRUE, facts |-> facts]]
  /\ UNCHANGED <<givenTools, standing, source, readCall, catalogue, listing>>
(* freeze_agent_task_brief; a brief that differs from the frozen one is refused *)
(* and its attempt goes no further.                                            *)
FreezeBrief ==
  /\ readSegment.shown.frozen /\ ~readSegment.brief.frozen
  /\ readSegment' = [readSegment EXCEPT !.brief = readSegment.shown]
  /\ UNCHANGED <<givenTools, standing, source, readCall, catalogue, listing>>
(* The attempt ends, with the brief frozen or not; another builds its context. *)
AttemptEnds ==
  /\ readSegment.shown.frozen /\ InFlight = {}
  /\ readSegment' = [readSegment EXCEPT !.shown = NoBrief]
  /\ UNCHANGED <<givenTools, standing, source, readCall, catalogue, listing>>
-----------------------------------------------------------------------------
(* Listing a directory: of the documents frozen for the Run, of the project's  *)
(* library, or of its files. The first page names what it lists, and a cursor  *)
(* goes on only while the same is there (DocumentListProvider, _page_start).   *)
Listed(kind) == IF kind = "frozen" THEN Directory ELSE catalogue
PageEnd(docs, offset) == IF offset + PageLimit < Len(docs) THEN offset + PageLimit ELSE Len(docs)
SameLength(docs) == Len(docs) = Len(listing.first)
SameSelection(docs) == docs = listing.first
CursorHolds(docs) ==
  /\ SameSelection(docs)
  /\ 0 < listing.offset /\ listing.offset < Len(docs) /\ listing.offset % PageLimit = 0
Starts(kind) == listing.kind = "none" /\ readCall = <<>>
OpenPage(kind) ==
  /\ listing.page = "closed"
  /\ kind = "project" => standing.reader
  /\ LET docs == Listed(kind) IN
     \/ /\ Starts(kind)
        /\ listing' = [kind |-> kind, first |-> docs, docs |-> docs, offset |-> 0,
                       covered |-> <<>>, page |-> "open"]
     \/ /\ listing.kind = kind /\ CursorHolds(docs)
        /\ listing' = [listing EXCEPT !.docs = docs, !.page = "open"]
  /\ UNCHANGED <<givenTools, standing, source, readCall, readSegment, catalogue>>
(* The documents of the page are observed one by one; one that is no longer    *)
(* there, or a project no longer readable, fails the page as a whole.          *)
ClosePage ==
  /\ listing.page = "open"
  /\ LET from == listing.offset
         end == PageEnd(listing.docs, from)
         page == SubSeq(listing.docs, from + 1, end)
     IN listing' =
          IF /\ \A n \in DOMAIN page : \E m \in DOMAIN catalogue : catalogue[m] = page[n]
             /\ listing.kind = "project" => standing.reader
            THEN [listing EXCEPT !.covered = @ \o page, !.offset = end,
                    !.page = IF end < Len(listing.docs) THEN "closed" ELSE "done"]
            ELSE IF from = 0 THEN NoListing ELSE [listing EXCEPT !.page = "closed"]
  /\ UNCHANGED <<givenTools, standing, source, readCall, readSegment, catalogue>>
(* DocumentFilesProvider._execute with list: a page in one transaction, under  *)
(* the revision of the whole listing.                                          *)
FilesPage ==
  /\ listing.page = "closed" /\ Bound
  /\ \/ Starts("files") /\ listing.kind = "none"
     \/ listing.kind = "files" /\ SameSelection(catalogue)
  /\ LET end == PageEnd(catalogue, listing.offset) IN
     listing' = [kind |-> "files", first |-> catalogue, docs |-> catalogue, offset |-> end,
                 covered |-> listing.covered \o SubSeq(catalogue, listing.offset + 1, end),
                 page |-> IF end < Len(catalogue) THEN "closed" ELSE "done"]
  /\ UNCHANGED <<givenTools, standing, source, readCall, readSegment, catalogue>>
-----------------------------------------------------------------------------
(* What others do meanwhile: an administrator edits or disables the integration *)
(* or changes its credential, a member loses the project or gets it back, and   *)
(* tables, answers, documents and the library change.                           *)
Shift == source.shifts < ReadBounds[givenTools].shifts
ChangeAuthority ==
  /\ Shift
  /\ standing' \in {[standing EXCEPT !.binding = FALSE], [standing EXCEPT !.secret = @ + 1],
                     [standing EXCEPT !.reader = ~@]} \ {standing}
  /\ source' = [source EXCEPT !.shifts = @ + 1]
  /\ UNCHANGED <<givenTools, readCall, readSegment, catalogue, listing>>
ChangeSource ==
  /\ Shift
  /\ \E new \in {[source EXCEPT !.schema[t] = @ + 1] : t \in Tables}
                 \cup {[source EXCEPT !.answer = @ + 1], [source EXCEPT !.listed = 2]}
                 \cup {[source EXCEPT !.puts = Append(@, c)] : c \in 1..2}
                 \cup {[source EXCEPT !.puts = Append(@, 2), !.listed = 2]} :
       source' = [new EXCEPT !.shifts = @ + 1]
  /\ UNCHANGED <<givenTools, standing, readCall, readSegment, catalogue, listing>>
ChangeCatalogue ==
  /\ Shift /\ listing.kind # "none"
  /\ \E kept \in SUBSET {Directory[n] : n \in DOMAIN Directory} :
       catalogue' = SelectSeq(Directory, LAMBDA d : d \in kept)
  /\ source' = [source EXCEPT !.shifts = @ + 1]
  /\ UNCHANGED <<givenTools, standing, readCall, readSegment, listing>>

ReadNext ==
  \/ \E tool \in givenTools : InvokeRead(tool)
  \/ \E i \in DOMAIN readCall :
       \/ DatabaseRead(i) \/ Describe(i) \/ DatabaseAnswers(i) \/ NativeQuery(i) \/ NativeAnswers(i)
       \/ HttpRead(i) \/ McpRead(i) \/ McpQuery(i) \/ AnswerFileChanges(i) \/ McpAnswers(i)
       \/ McpToolAnswers(i)
       \/ Download(i) \/ HttpAnswers(i) \/ IssueRead(i) \/ RepositoryRead(i) \/ RemoteAnswers(i)
       \/ DocumentRead(i) \/ DocumentInspect(i) \/ DocumentConvert(i) \/ StorageAnswers(i)
       \/ DocumentFiles(i) \/ FileStateSeen(i) \/ AuditExport(i) \/ AuditAnswers(i)
  \/ BeginSegment \/ ProjectFacts \/ FreezeBrief \/ AttemptEnds
  \/ \E kind \in {"frozen", "project"} : OpenPage(kind)
  \/ ClosePage \/ FilesPage
  \/ ChangeAuthority \/ ChangeSource \/ ChangeCatalogue
ReadSpec == ReadsInit /\ [][ReadNext]_readVars
-----------------------------------------------------------------------------
(* The rows and the Run's standing keep their types.                          *)
ReadTypeOK ==
  /\ givenTools \in ToolSets
  /\ standing.binding \in BOOLEAN /\ standing.reader \in BOOLEAN /\ standing.secret \in Nat \ {0}
  /\ \A i \in DOMAIN readCall :
       /\ readCall[i].tool \in givenTools /\ readCall[i].table \in Tables
       /\ readCall[i].phase \in {"called", "asking", "answered", "erred", "SUCCEEDED", "FAILED"}
       /\ readCall[i].of \in 0..(i - 1) /\ readCall[i].cite \in 0..(i - 1)
       /\ readCall[i].origin \in {0} \cup DOMAIN readCall

(* What a tool that checks again publishes came from a source the Run was      *)
(* still bound to when it answered (_bound, _same_bound, authorize).           *)
CheckedTwice == {"database.read", "database.describe", "database.query", "http.read", "mcp.read",
                 "mcp.query", "mcp.download", "document.files"}
PublishedWhileBound ==
  \A i \in DOMAIN readCall :
    readCall[i].tool \in CheckedTwice /\ readCall[i].phase = "SUCCEEDED" => readCall[i].stood

(* A structure that is answered from an earlier row says so: it names the      *)
(* reading it comes from, with its time and its content, however often it was  *)
(* passed on (lookup, observation_refs, observed_at).                          *)
StructuresNameTheirReading ==
  \A i \in DOMAIN readCall :
    readCall[i].tool = "database.describe" /\ readCall[i].phase = "SUCCEEDED" =>
      LET o == readCall[i].origin IN
      /\ o \in DOMAIN readCall /\ readCall[o].origin = o /\ readCall[o].phase = "SUCCEEDED"
      /\ readCall[o].table = readCall[i].table /\ readCall[o].value = readCall[i].value
      /\ readCall[o].at = readCall[i].at

(* A failed read is looked into once and corrected once, whatever is asked at  *)
(* the same time, and a correction rests on a structure read after the failure *)
(* (DatabaseObservations.recovery, _describe).                                 *)
Tried(i) ==
  /\ readCall[i].of # 0 /\ readCall[i].phase # "called"
  /\ readCall[i].phase = "FAILED" => readCall[i].why # "refused"
CorrectedOnce ==
  \A i, j \in DOMAIN readCall :
    Tried(i) /\ Tried(j) /\ readCall[i].tool = readCall[j].tool /\ readCall[i].of = readCall[j].of
      => i = j
CorrectionsAreInformed ==
  \A i \in DOMAIN readCall :
    Tried(i) /\ readCall[i].cite # 0 =>
      LET seen == readCall[readCall[i].cite] IN
      /\ seen.origin = readCall[i].cite
      /\ seen.at >= readCall[readCall[i].of].done /\ readCall[readCall[i].of].done # 0

(* What rests on an earlier answer is of that answer: the object an inspection *)
(* saw, the path an answer named, the revision and the file state that were    *)
(* read; and a document's bytes are the frozen ones or, of a document that was  *)
(* found in the project, those its row named then (_restore, _observed,         *)
(* verify_frozen_content).                                                     *)
RestsOnWhatItCites ==
  \A i \in DOMAIN readCall :
    readCall[i].phase = "SUCCEEDED" =>
      /\ readCall[i].cite # 0 /\ readCall[i].tool # "database.read" =>
           /\ readCall[readCall[i].cite].phase = "SUCCEEDED"
           /\ readCall[i].value = readCall[readCall[i].cite].value
      /\ readCall[i].tool \in {"document.read", "document.convert"} =>
           /\ source.puts[readCall[i].value] = readCall[i].content
           /\ ~readCall[i].option => readCall[i].content = FrozenContent

(* A segment shows the structures that were last read before it began, however *)
(* often it is attempted and whatever is read in it (project_facts).           *)
FactsPrecedeTheSegment ==
  \A facts \in {readSegment.brief.facts, readSegment.shown.facts} :
    \A j \in facts :
      /\ readCall[j].phase = "SUCCEEDED" /\ readCall[j].done <= readSegment.since
      /\ \A k \in facts : readCall[k].table = readCall[j].table => k = j

(* Pages followed to the end cover the directory as the first one saw it, each *)
(* document once (_page_start, expected_revision).                             *)
ListingIsWhole ==
  /\ listing.covered = SubSeq(listing.first, 1, listing.offset)
  /\ listing.page = "done" => listing.covered = listing.first

ReadsAreTrue ==
  /\ PublishedWhileBound
  /\ StructuresNameTheirReading
  /\ CorrectedOnce
  /\ CorrectionsAreInformed
  /\ RestsOnWhatItCites
  /\ FactsPrecedeTheSegment
  /\ ListingIsWhole
=============================================================================
