---------------------------- MODULE ToolBoundary ---------------------------
(***************************************************************************)
(* The tool boundary: run_query of mining_agents/tools/bq_query.py, as     *)
(* bq_query and run_diagnostic call it, for several callers at a time.     *)
(* BigQuery is external: it resolves a view to its base tables, and names  *)
(* a table by the project's id.  A name is a project's spelling and a      *)
(* table; rows, with their masks and wrappings, are left out.              *)
(***************************************************************************)
CONSTANTS Caller, Table, View,
          Foreign,    \* tables of another project
          Query,      \* what a text may read, as it spells it: sets of sources
          Grant,      \* caller -> the tables its agent declares
          Spelling    \* caller -> how it spells them: "none" or a project

Source == Table \cup View \cup Foreign
Spellings == {"none", "id", "number"}

ASSUME SourcesAssumption ==
    /\ Table \cap (View \cup Foreign) = {} /\ View \cap Foreign = {}
    /\ Query \subseteq SUBSET Source
ASSUME GrantAssumption ==
    /\ Grant \in [Caller -> SUBSET Table] /\ Spelling \in [Caller -> Spellings]

VARIABLES base,       \* view -> its tables
          setting,    \* settings().project_id: the id, or on Agent Engine the number
          homes,      \* _home_projects: {} until a probe has answered
          call        \* caller -> its call

boundaryVars == <<base, setting, homes, call>>

Idle == [at |-> "idle", tool |-> "none", text |-> {}, listed |-> {}, found |-> {},
         code |-> "none"]

BoundaryInit ==
    /\ base \in [View -> SUBSET Table]
    /\ setting \in {"id", "number"}
    /\ \A c \in Caller : Spelling[c] \in {"none", "id", setting}
    /\ homes = {}
    /\ call = [c \in Caller |-> Idle]

Shared == <<base, setting, homes>>
Step(c, from, r) == call[c].at = from /\ call' = [call EXCEPT ![c] = r]
Ends(c, from, code) == Step(c, from, [call[c] EXCEPT !.at = "done", !.code = code])

\* A view is replaced.
Redefine ==
    /\ base' \in [View -> SUBSET Table]
    /\ UNCHANGED <<setting, homes, call>>

-----------------------------------------------------------------------------
(* The callers.                                                            *)

Declared(c) == {<<Spelling[c], t>> : t \in Grant[c]}

\* bq_query: the list is what the agent declares.
BqQuery(c) ==
    /\ \E q \in Query :
         Step(c, "idle", [Idle EXCEPT !.at = "check", !.tool = "bq_query", !.text = q,
                                      !.listed = Declared(c)])
    /\ UNCHANGED Shared

DiagnoseUnchecked(c) ==    \* a bug: the list derived from the text is the only check
    /\ \E q \in Query :
         Step(c, "idle", [Idle EXCEPT !.at = "check", !.tool = "run_diagnostic", !.text = q,
                                      !.listed = {<<"none", s>> : s \in q}])
    /\ UNCHANGED Shared

\* run_diagnostic: the list is what the diagnostic's text names, once that is within
\* what the agent declares.
Diagnose(c) ==
    /\ \E q \in Query :
         /\ q \cap Foreign = {}    \* of the packs, whose names are all of this project
         /\ Step(c, "idle",
                 [Idle EXCEPT !.at = IF q \subseteq Grant[c] THEN "check" ELSE "done",
                              !.code = IF q \subseteq Grant[c] THEN "none" ELSE "UNDECLARED_TABLE",
                              !.tool = "run_diagnostic", !.text = q,
                              !.listed = {<<"none", s>> : s \in q}])
    /\ UNCHANGED Shared

\* The codes an envelope reports: run_diagnostic reports all that run_query raises as one.
Code(c, code) == IF call[c].tool = "run_diagnostic" THEN "QUERY_FAILED" ELSE code

-----------------------------------------------------------------------------
(* run_query.                                                              *)

Resolved(text) == (text \ View) \cup UNION {base[v] : v \in text \cap View}

\* What the lint, a dry run that fails, or a statement that is no SELECT comes to.
Refuse(c) ==
    /\ \E code \in {"SQL_INTERPOLATION", "QUERY_FAILED", "NOT_SELECT"} :
         Ends(c, "check", Code(c, code))
    /\ UNCHANGED Shared

\* The dry run: referenced_tables.
DryRun(c) ==
    /\ Step(c, "check", [call[c] EXCEPT !.at = "compare", !.found = Resolved(call[c].text)])
    /\ UNCHANGED Shared

\* The probe behind _home_project_aliases fails: an error the wrapper makes an envelope
\* of, and nothing is cached.
ProbeFails(c) ==
    /\ homes = {} /\ Ends(c, "compare", Code(c, "INTERNAL"))
    /\ UNCHANGED Shared

AliasesOfSetting == IF homes = {} THEN {setting} ELSE homes    \* a bug: no probe

\* _home_project_aliases: the cached spellings, or those of a probe.
Aliases == IF homes = {} THEN {setting, "id"} ELSE homes

\* _strip_home_project.
Strip(name, aliases) == IF name[1] \in aliases THEN <<"none", name[2]>> ELSE name

\* _table_name: BigQuery's reference, stripped.
TableName(t, aliases) == Strip(<<IF t \in Foreign THEN "other" ELSE "id", t>>, aliases)

Within(c, aliases) ==
    /\ call[c].found # {}
    /\ {TableName(t, aliases) : t \in call[c].found}
         \subseteq {Strip(n, aliases) : n \in call[c].listed}

\* The rest of assert_reads_only_declared_tables.
Compare(c) ==
    /\ homes' = Aliases
    /\ IF Within(c, Aliases)
       THEN Step(c, "compare", [call[c] EXCEPT !.at = "run"])
       ELSE Ends(c, "compare", Code(c, "UNDECLARED"))
    /\ UNCHANGED <<base, setting>>

\* The query runs, or fails.
Run(c) ==
    /\ \E code \in {"ok", Code(c, "QUERY_FAILED")} : Ends(c, "run", code)
    /\ UNCHANGED Shared

Again(c) == Step(c, "done", Idle) /\ UNCHANGED Shared

BoundaryNext ==
    \/ Redefine
    \/ \E c \in Caller :
         \/ BqQuery(c) \/ Diagnose(c) \/ Refuse(c) \/ DryRun(c) \/ ProbeFails(c)
         \/ Compare(c) \/ Run(c) \/ Again(c)

BoundarySpec == BoundaryInit /\ [][BoundaryNext]_boundaryVars

-----------------------------------------------------------------------------
BoundaryTypeOK ==
    /\ base \in [View -> SUBSET Table] /\ setting \in {"id", "number"}
    /\ homes \in {{}, {setting, "id"}}
    /\ call \in [Caller -> [at : {"idle", "check", "compare", "run", "done"},
                           tool : {"none", "bq_query", "run_diagnostic"}, text : Query \cup {{}},
                           listed : SUBSET (Spellings \X Source), found : SUBSET (Table \cup Foreign),
                           code : {"none", "ok", "UNDECLARED_TABLE", "SQL_INTERPOLATION",
                                   "QUERY_FAILED", "NOT_SELECT", "INTERNAL", "UNDECLARED"}]]

\* Whatever list it was checked against, and by whatever spelling, a query that runs
\* was found to read tables of this project that the agent declares, and only those.
GrantHolds ==
    \A c \in Caller : call[c].at = "run" \/ call[c].code = "ok" => call[c].found \subseteq Grant[c]

\* "The subset check refuses every query an agent makes ... is what the first live run
\* did": a query that reads what its caller listed is not refused for it, whether the
\* settings hold the project's id or its number, and whichever caller's probe was cached
\* or failed.
NoFalseRefusal ==
    \A c \in Caller :
      call[c].code = "UNDECLARED"
        => call[c].found = {} \/ ~(call[c].found \subseteq Grant[c])

\* What a call's list stands for, and how far it has come.
ListFits ==
    \A c \in Caller :
      /\ Spelling[c] \in {"none", "id", setting}
      /\ call[c].at \in {"check", "compare", "run"} =>
           /\ call[c].code = "none"
           /\ \/ call[c].tool = "bq_query" /\ call[c].listed = Declared(c)
              \/ /\ call[c].tool = "run_diagnostic"
                 /\ call[c].listed \subseteq {<<"none", t>> : t \in Grant[c]}
      /\ call[c].at = "idle" => call[c] = Idle

BoundaryInv == BoundaryTypeOK /\ ListFits /\ GrantHolds /\ NoFalseRefusal
=============================================================================
