--------------------------- MODULE MCTaskService ---------------------------
(* The parts of the service that admit work: users and projects, schedules,   *)
(* skills from import to published task, and admission of tasks against the   *)
(* catalogue of skills and integrations. They share no row, so a behaviour    *)
(* moves one of them and leaves the others where they began: the states add   *)
(* up.                                                                        *)
(* Schedules: two workers, a calendar of two one-minute hours a day, and a   *)
(* zone whose clock skips local minute 3 and shows local minute 5 twice.      *)
EXTENDS Accounts, Projects, ScheduleOccurrences, SkillInterpretation, TaskAdmission,
        SkillSources, SkillDesign, TLC

VARIABLE moving                \* the part that moves in this behaviour

serviceVars == <<moving, schedVars, skillVars, admissionVars, accountVars,
                 projectVars, sourceVars, designVars>>

ServiceInit ==
  /\ moving \in {"schedules", "skills", "admission", "accounts", "projects", "sources", "design"}
  /\ SchedInit
  /\ SkillInit
  /\ AdmissionInit
  /\ AccountInit
  /\ ProjectInit
  /\ SourceInit
  /\ DesignInit
ServiceNext ==
  /\ UNCHANGED moving
  /\ \/ /\ moving = "schedules" /\ SchedNext
        /\ UNCHANGED <<skillVars, admissionVars, accountVars, projectVars,
                       sourceVars, designVars>>
     \/ /\ moving = "skills" /\ SkillNext
        /\ UNCHANGED <<schedVars, admissionVars, accountVars, projectVars,
                       sourceVars, designVars>>
     \/ /\ moving = "admission" /\ AdmissionNext
        /\ UNCHANGED <<schedVars, skillVars, accountVars, projectVars, sourceVars,
                       designVars>>
     \/ /\ moving = "accounts" /\ AccountNext
        /\ UNCHANGED <<schedVars, skillVars, admissionVars, projectVars, sourceVars,
                       designVars>>
     \/ /\ moving = "projects" /\ ProjectNext
        /\ UNCHANGED <<schedVars, skillVars, admissionVars, accountVars, sourceVars,
                       designVars>>
     \/ /\ moving = "sources" /\ SourceNext
        /\ UNCHANGED <<schedVars, skillVars, admissionVars, accountVars,
                       projectVars, designVars>>
     \/ /\ moving = "design" /\ DesignNext
        /\ UNCHANGED <<schedVars, skillVars, admissionVars, accountVars,
                       projectVars, sourceVars>>
ServiceSpec == ServiceInit /\ [][ServiceNext]_serviceVars

(* Every variable of every part keeps its type. *)
ServiceTypeOK ==
  /\ SchedTypeOK
  /\ SkillTypeOK
  /\ CatalogTypeOK
  /\ AccountTypeOK
  /\ ProjectTypeOK
  /\ SourceTypeOK
  /\ DesignTypeOK

(* A skill request has one call on its way and an outcome that its stored       *)
(* interpretation backs, a published version in use is never taken away, and a  *)
(* deleted project leaves no row behind (SkillInterpretation, TaskAdmission,    *)
(* Projects).                                                                   *)
AdmissionIsSound == OneCallAtATime /\ OutcomeBacked /\ UsedVersionKept /\ NothingLeftBehind

(* A stored skill source loads again as it was imported, with all of its files  *)
(* and none of another skill's; what is published from it passed every gate     *)
(* (SkillSources, SkillDesign).                                                 *)
SkillsAreSound == StoredSourceLoads /\ PackageIsWhole /\ DesignIsSound

(* Nothing that was settled is settled again or in another way: occurrences     *)
(* and skill requests only move on, and an admission that was refused left no   *)
(* Run under its key.                                                           *)
RecordsOnlyAdvance == OccurrencesAdvance /\ RequestSettledForGood /\ RefusedOnlyWithoutRun
-----------------------------------------------------------------------------
Number(n) == [Star EXCEPT !.body = "n", !.from = n]
SecondDayOrSunday ==
  ParseCron([[f \in CronFields |-> {Star}] EXCEPT !.hour = {[Star EXCEPT !.step = 1]},
                                                 !.dayOfMonth = {Number(2)},
                                                 !.dayOfWeek = {Number(2)}])
MCDefinitions ==
  {[kind |-> "CRON", cron |-> SecondDayOrSunday,
    runAt |-> None, endAt |-> 4, maxRuns |-> None],
   [kind |-> "ONCE", cron |-> SecondDayOrSunday,
    runAt |-> 4, endAt |-> None, maxRuns |-> 1]}
MCZone == [t \in 1..Horizon |-> IF t < 4 THEN t - 1 ELSE IF t < 6 THEN t ELSE t - 1]

\* The calendar above is one on which no instant is lost.
ASSUME CalendarIsExact == SearchIsExact

(* An upload with nested skills, a schema that is no part of one, and a secret. *)
MCPaths == {<<"SKILL.md">>, <<"a", "SKILL.md">>, <<"a", "x.md">>, <<"a", "b", "SKILL.md">>,
            <<"a", "b", "x.md">>, <<"c", "s.schema.json">>}
MCSchemas == {<<"c", "s.schema.json">>}
MCSecret == {<<"a", "b", "x.md">>}

(* Designs that pass every gate of skills/service.py, and one or two for each   *)
(* gate that does not.                                                          *)
Res(caps, mode, required, misfit) ==
  [capabilities |-> caps, access |-> mode, required |-> required, misfit |-> misfit]
Apply(r, approval) == [resource |-> r, mode |-> "apply", approval |-> approval]
T(c, q) == [capability |-> c, required |-> q]
Base ==
  [kind |-> "native", contract |-> "plain", sourced |-> TRUE, traced |-> TRUE, tools |-> {T("read", TRUE)},
   resources |-> [r \in {"db"} |-> Res({"read"}, "read", TRUE, FALSE)], intents |-> {},
   prerequisite |-> FALSE, flagged |-> FALSE]
Writes == [Base EXCEPT !.resources = [r \in {"db"} |-> Res({"read", "write"}, "write", TRUE, FALSE)],
                       !.intents = {Apply("db", "absent")}]
MCNative ==
  { Base, Writes,
    [Base EXCEPT !.sourced = FALSE], [Base EXCEPT !.traced = FALSE], [Base EXCEPT !.contract = "too_deep"],
    [Base EXCEPT !.flagged = TRUE],
    [Writes EXCEPT !.tools = {T("read", TRUE), T("write", FALSE)}],
    [Writes EXCEPT !.resources = [r \in {"db"} |-> Res({"read", "write"}, "write", FALSE, FALSE)]],
    [Writes EXCEPT !.resources = [r \in {"db"} |-> Res({"write"}, "write", TRUE, FALSE)]],
    [Writes EXCEPT !.intents = {Apply("db", "auto")}], [Writes EXCEPT !.intents = {Apply("none", "ask")}],
    [Base EXCEPT !.resources = [r \in {"db"} |-> Res({"write"}, "write", TRUE, FALSE)], !.tools = {},
                 !.intents = {Apply("db", "ask"), [resource |-> "none", mode |-> "propose", approval |-> "absent"]}],
    [Writes EXCEPT !.prerequisite = TRUE],
    [Writes EXCEPT !.prerequisite = TRUE, !.tools = {T(Readiness, TRUE)}] }
Direct(contract, res, sourced, flagged) ==
  [Base EXCEPT !.kind = "direct", !.contract = contract, !.tools = {}, !.resources = res, !.sourced = sourced,
               !.flagged = flagged]
Resource(misfit) == [r \in {"db"} |-> Res({}, "read", TRUE, misfit)]
MCDirect ==
  { Direct("plain", <<>>, TRUE, FALSE), Direct("other", <<>>, TRUE, FALSE),
    Direct("plain", Resource(FALSE), TRUE, FALSE), Direct("other", Resource(FALSE), TRUE, FALSE),
    Direct("not_an_object", Resource(FALSE), TRUE, FALSE), Direct("too_deep", <<>>, TRUE, FALSE),
    Direct("plain", Resource(TRUE), TRUE, FALSE), Direct("other", Resource(FALSE), FALSE, FALSE),
    Direct("plain", Resource(FALSE), TRUE, TRUE) }
MCCandidates == MCNative \cup MCDirect
MCPlatform == {Readiness}

=============================================================================
