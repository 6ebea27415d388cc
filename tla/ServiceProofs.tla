--------------------------- MODULE ServiceProofs ---------------------------
(***************************************************************************)
(* What runs behind the pages: the audit of a swarm is whole and its       *)
(* critic's budget its own (Swarm), a query that runs is within its        *)
(* caller's grant (ToolBoundary), and the proxy's threads send no token    *)
(* that is about to expire (Proxy); and all of it together (Service).      *)
(***************************************************************************)
EXTENDS Service, TLAPS

-----------------------------------------------------------------------------
(* The swarm.                                                              *)

\* What precedes each node in the graph.
LEMMA Predecessors ==
    /\ \A s \in Specialist : Before(s) = {"START"}
    /\ Before("START") = {} /\ Before("join") = Specialist
    /\ Before("critic") = {"join"} /\ Before("coordinator") = {"critic"}
  BY SpecialistAssumption DEF Before, Edges, Nodes, Agents

\* No question has been asked.
LEMMA InitSwarmInv == SwarmInit => SwarmInv
  <1> SUFFICES ASSUME SwarmInit PROVE SwarmInv
    OBVIOUS
  <1>1. SwarmTypeOK
    BY SwarmBounds DEF SwarmInit, SwarmTypeOK
  <1>2. AuditIsWhole
    BY DEF SwarmInit, AuditIsWhole, Nodes, Agents
  <1>3. HeardSoFar /\ CountIsServed
    BY DEF SwarmInit, HeardSoFar, CountIsServed, Nodes, Agents
  <1>4. QED
    BY <1>1, <1>2, <1>3 DEF SwarmInv

\* A node that starts has heard what the graph promises it.
LEMMA StartStep ==
    ASSUME SwarmInv, NEW i \in Invocation, NEW n \in Nodes, Start(i, n)
    PROVE  SwarmInv'
  <1> DEFINE new == UNION {heard[i][m] \cup ({m} \cap Agents) : m \in Reported(i, n)}
             status == IF n = "join" THEN "reported" ELSE "running"
  <1>1. /\ node \in [Invocation -> [Nodes -> {"idle", "running", "reported"}]]
        /\ heard \in [Invocation -> [Nodes -> SUBSET Agents]]
        /\ node' = [node EXCEPT ![i][n] = status]
        /\ heard' = [heard EXCEPT ![i][n] = new]
        /\ node[i][n] = "idle"
        /\ Reported(i, n) # {} /\ Reported(i, n) \subseteq Before(n)
        /\ n = "join" => Reported(i, n) = Before(n)
    BY DEF Start, SwarmInv, SwarmTypeOK, Reported
  <1>2. new \subseteq Agents
    BY <1>1 DEF Before
  <1>3. SwarmTypeOK'
    <2>1. node' \in [Invocation -> [Nodes -> {"idle", "running", "reported"}]]
      BY <1>1
    <2>2. heard' \in [Invocation -> [Nodes -> SUBSET Agents]]
      BY <1>1, <1>2
    <2>3. QED
      BY <2>1, <2>2 DEF Start, SwarmInv, SwarmTypeOK, budgetVars
  <1>4. n \in Specialist \cup {"START"} => new = {}
    BY <1>1, Predecessors, SpecialistAssumption
    DEF SwarmInv, HeardSoFar, Agents
  <1>5. n = "join" => new = Specialist
    <2> SUFFICES ASSUME n = "join" PROVE new = Specialist
      OBVIOUS
    <2>1. Reported(i, n) = Specialist
      BY <1>1, Predecessors
    <2>2. \A s \in Specialist : heard[i][s] \cup ({s} \cap Agents) = {s}
      BY DEF SwarmInv, HeardSoFar, Agents
    <2>3. QED
      BY <2>1, <2>2
  <1>6. n = "critic" => new = Specialist
    <2> SUFFICES ASSUME n = "critic" PROVE new = Specialist
      OBVIOUS
    <2>1. Reported(i, n) = {"join"}
      BY <1>1, Predecessors
    <2>2. node[i]["join"] = "reported"
      BY <2>1 DEF Reported
    <2>3. heard[i]["join"] \cup ({"join"} \cap Agents) = Specialist
      BY <2>2, SpecialistAssumption DEF SwarmInv, HeardSoFar, Agents
    <2>4. QED
      BY <2>1, <2>3
  <1>7. n = "coordinator" => new = Audited
    <2> SUFFICES ASSUME n = "coordinator" PROVE new = Audited
      OBVIOUS
    <2>1. Reported(i, n) = {"critic"}
      BY <1>1, Predecessors
    <2>2. node[i]["critic"] = "reported"
      BY <2>1 DEF Reported
    <2>3. heard[i]["critic"] \cup ({"critic"} \cap Agents) = Audited
      BY <2>2 DEF SwarmInv, AuditIsWhole, Agents, Audited
    <2>4. QED
      BY <2>1, <2>3
  <1>8. \A j \in Invocation, m \in Nodes :
          /\ node'[j][m] = (IF j = i /\ m = n THEN status ELSE node[j][m])
          /\ heard'[j][m] = (IF j = i /\ m = n THEN new ELSE heard[j][m])
    BY <1>1
  <1>a. /\ Specialist \cup {"START", "join", "critic", "coordinator"} \subseteq Nodes
        /\ "join" \notin Specialist \cup {"START"}
    BY SpecialistAssumption DEF Nodes, Agents
  <1> HIDE DEF new, status
  <1>9. HeardSoFar'
    <2>1. ASSUME NEW j \in Invocation, NEW s \in Specialist \cup {"START"}
          PROVE  heard'[j][s] = {}
      BY <1>4, <1>8, <1>a DEF SwarmInv, HeardSoFar
    <2>2. ASSUME NEW j \in Invocation, node'[j]["join"] # "idle"
          PROVE  heard'[j]["join"] = Specialist
      BY <1>5, <1>8, <1>a, <2>2 DEF SwarmInv, HeardSoFar
    <2>3. QED
      BY <2>1, <2>2 DEF HeardSoFar
  <1>10. AuditIsWhole'
    <2>1. ASSUME NEW j \in Invocation
          PROVE  /\ node'[j]["critic"] # "idle" => heard'[j]["critic"] = Specialist
                 /\ node'[j]["coordinator"] # "idle" => heard'[j]["coordinator"] = Audited
      BY <1>6, <1>7, <1>8, <1>a DEF SwarmInv, AuditIsWhole
    <2>2. approvals' = approvals
      BY DEF Start
    <2>3. QED
      BY <2>1, <2>2 DEF SwarmInv, AuditIsWhole
  <1>11. CountIsServed'
    BY DEF Start, SwarmInv, CountIsServed, budgetVars
  <1>12. QED
    BY <1>3, <1>9, <1>10, <1>11 DEF SwarmInv

\* A question, a report and an exception change no input that was heard.
LEMMA GraphStep ==
    ASSUME SwarmInv, NEW i \in Invocation, NEW n \in Nodes,
           Ask(i) \/ Report(i, n) \/ Raise(i, n)
    PROVE  SwarmInv'
  <1>1. UNCHANGED <<heard, state, called, running, served, refused, approvals>>
    BY DEF Ask, Report, Raise, budgetVars
  <1>2. /\ node' \in [Invocation -> [Nodes -> {"idle", "running", "reported"}]]
        /\ aborted' \subseteq Invocation
        /\ \A j \in Invocation, m \in {"join", "critic", "coordinator"} :
             node'[j][m] # "idle" => node[j][m] # "idle"
    <2>1. /\ node \in [Invocation -> [Nodes -> {"idle", "running", "reported"}]]
          /\ aborted \subseteq Invocation
      BY DEF SwarmInv, SwarmTypeOK
    <2>2. "START" \in Nodes /\ {"join", "critic", "coordinator"} \subseteq Nodes
      BY DEF Nodes, Agents
    <2>3. CASE Ask(i)
      BY <2>1, <2>2, <2>3 DEF Ask
    <2>4. CASE Report(i, n)
      BY <2>1, <2>2, <2>4 DEF Report
    <2>5. CASE Raise(i, n)
      BY <2>1, <2>5 DEF Raise
    <2>6. QED
      BY <2>3, <2>4, <2>5
  <1>3. SwarmTypeOK'
    BY <1>1, <1>2 DEF SwarmInv, SwarmTypeOK
  <1>4. AuditIsWhole' /\ HeardSoFar' /\ CountIsServed'
    BY <1>1, <1>2 DEF SwarmInv, AuditIsWhole, HeardSoFar, CountIsServed
  <1>5. QED
    BY <1>3, <1>4 DEF SwarmInv

\* A call of the critic is counted where its own calls are.
LEMMA BudgetStep ==
    ASSUME SwarmInv, NEW i \in Invocation,
           CallTools(i) \/ CriticToolBudget(i) \/ ToolAnswers(i)
    PROVE  SwarmInv'
  <1>1. UNCHANGED <<node, heard, aborted, approvals>>
    BY DEF CallTools, CriticToolBudget, ToolAnswers, workflowVars
  <1>2. AuditIsWhole' /\ HeardSoFar'
    BY <1>1 DEF SwarmInv, AuditIsWhole, HeardSoFar
  <1>3. CASE CallTools(i)
    <2>1. called' \in [Invocation -> 0..MaxCalls]
      <3>1. \A k \in 1..MaxCalls : k \in 0..MaxCalls
        BY SwarmBounds
      <3>2. QED
        BY <1>3, <3>1 DEF CallTools, SwarmInv, SwarmTypeOK
    <2>2. SwarmTypeOK' /\ CountIsServed'
      BY <1>1, <1>3, <2>1 DEF CallTools, SwarmInv, SwarmTypeOK, CountIsServed
    <2>3. QED
      BY <1>2, <2>2 DEF SwarmInv
  <1>4. CASE CriticToolBudget(i)
    <2>1. /\ called \in [Invocation -> 0..MaxCalls] /\ state \in [Invocation -> 0..Ceiling]
          /\ running \in [Invocation -> Nat] /\ served \in [Invocation -> Nat]
          /\ called[i] > 0 /\ called' = [called EXCEPT ![i] = @ - 1]
      BY <1>4 DEF CriticToolBudget, SwarmInv, SwarmTypeOK
    <2>2. called[i] - 1 \in 0..MaxCalls
      BY <2>1, SwarmBounds
    <2>3. called' \in [Invocation -> 0..MaxCalls]
      BY <2>1, <2>2
    <2>4. CASE state[i] >= Ceiling
      <3>1. refused' = refused \cup {i} /\ UNCHANGED <<state, running, served>>
        BY <1>4, <2>4 DEF CriticToolBudget, Key
      <3>2. state[i] = Ceiling
        BY <2>1, <2>4, SwarmBounds
      <3>3. SwarmTypeOK' /\ CountIsServed'
        BY <1>1, <2>3, <3>1, <3>2 DEF SwarmInv, SwarmTypeOK, CountIsServed
      <3>4. QED
        BY <1>2, <3>3 DEF SwarmInv
    <2>5. CASE ~(state[i] >= Ceiling)
      <3>1. /\ state' = [state EXCEPT ![i] = @ + 1]
            /\ running' = [running EXCEPT ![i] = @ + 1]
            /\ served' = [served EXCEPT ![i] = @ + 1]
            /\ refused' = refused
        BY <1>4, <2>5 DEF CriticToolBudget, Key
      <3>2. /\ state[i] + 1 \in 0..Ceiling
            /\ running[i] + 1 \in Nat /\ served[i] + 1 \in Nat
        BY <2>1, <2>5, SwarmBounds
      <3>3. SwarmTypeOK'
        BY <1>1, <2>1, <2>3, <3>1, <3>2 DEF SwarmInv, SwarmTypeOK
      <3>4. i \notin refused
        BY <2>1, <2>5, SwarmBounds DEF SwarmInv, CountIsServed
      <3>5. CountIsServed'
        BY <2>1, <3>1, <3>4 DEF SwarmInv, CountIsServed
      <3>6. QED
        BY <1>2, <3>3, <3>5 DEF SwarmInv
    <2>6. QED
      BY <2>4, <2>5
  <1>5. CASE ToolAnswers(i)
    <2>1. running \in [Invocation -> Nat] /\ running[i] > 0
      BY <1>5 DEF ToolAnswers, SwarmInv, SwarmTypeOK
    <2>2. running' \in [Invocation -> Nat]
      BY <1>5, <2>1 DEF ToolAnswers
    <2>3. SwarmTypeOK' /\ CountIsServed'
      BY <1>1, <1>5, <2>2 DEF ToolAnswers, SwarmInv, SwarmTypeOK, CountIsServed
    <2>4. QED
      BY <1>2, <2>3 DEF SwarmInv
  <1>6. QED
    BY <1>3, <1>4, <1>5

\* A request is raised by a coordinator that has heard the whole audit.
LEMMA RequestStep ==
    ASSUME SwarmInv, NEW i \in Invocation, RequestApproval(i)
    PROVE  SwarmInv'
  <1>1. PICK id \in 1..MaxRequests : approvals' = approvals \cup {Row(i, id)}
    BY DEF RequestApproval
  <1>2. UNCHANGED <<node, heard, aborted, state, called, running, served, refused>>
    BY DEF RequestApproval, workflowVars, budgetVars
  <1>3. heard[i]["coordinator"] = Audited
    BY DEF RequestApproval, SwarmInv, AuditIsWhole
  <1>4. Row(i, id).heard = Audited
    BY <1>3 DEF Row
  <1>5. Row(i, id) \in [id : 1..MaxRequests, by : Invocation,
                        decision : {"PENDING"}, heard : SUBSET Agents]
    BY <1>3 DEF Row, Audited, Agents
  <1>6. SwarmTypeOK'
    BY <1>1, <1>2, <1>5 DEF SwarmInv, SwarmTypeOK
  <1>7. AuditIsWhole'
    BY <1>1, <1>2, <1>4 DEF SwarmInv, AuditIsWhole
  <1>8. HeardSoFar' /\ CountIsServed'
    BY <1>2 DEF SwarmInv, HeardSoFar, CountIsServed
  <1>9. QED
    BY <1>6, <1>7, <1>8 DEF SwarmInv

\* Nodes, budgets and approval requests.
LEMMA NextSwarmInv == SwarmInv /\ [SwarmNext]_swarmVars => SwarmInv'
  <1> SUFFICES ASSUME SwarmInv, [SwarmNext]_swarmVars PROVE SwarmInv'
    OBVIOUS
  <1>1. CASE UNCHANGED swarmVars
    BY <1>1 DEF swarmVars, workflowVars, budgetVars, SwarmInv, SwarmTypeOK,
                AuditIsWhole, HeardSoFar, CountIsServed
  <1>2. CASE SwarmNext
    <2>1. PICK i \in Invocation :
            \/ Ask(i) \/ CallTools(i) \/ CriticToolBudget(i) \/ ToolAnswers(i)
            \/ RequestApproval(i)
            \/ \E n \in Nodes : Start(i, n) \/ Report(i, n) \/ Raise(i, n)
      BY <1>2 DEF SwarmNext
    <2>2. CASE Ask(i)
      BY <2>2, GraphStep DEF Nodes
    <2>3. CASE CallTools(i) \/ CriticToolBudget(i) \/ ToolAnswers(i)
      BY <2>3, BudgetStep
    <2>4. CASE RequestApproval(i)
      BY <2>4, RequestStep
    <2>5. CASE \E n \in Nodes : Start(i, n) \/ Report(i, n) \/ Raise(i, n)
      BY <2>5, StartStep, GraphStep
    <2>6. QED
      BY <2>1, <2>2, <2>3, <2>4, <2>5
  <1>3. QED
    BY <1>1, <1>2

\* Put together.
LEMMA SwarmHolds == SwarmSpec => []SwarmInv
  BY InitSwarmInv, NextSwarmInv, PTL DEF SwarmSpec

\* The state of the graph, of the counters and of the requests has its shape.
THEOREM SwarmTypes == SwarmSpec => []SwarmTypeOK
  BY SwarmHolds, PTL DEF SwarmInv

\* The critic audits and the coordinator concludes on the reports of all specialists,
\* and no approval is asked for that was not audited.
THEOREM AuditsAreWhole == SwarmSpec => []AuditIsWhole
  BY SwarmHolds, PTL DEF SwarmInv

\* A critic is served up to the ceiling and refused from it, whatever the critics of
\* other questions of the session have spent.
THEOREM BudgetsAreOwn == SwarmSpec => []BudgetIsItsOwn
  <1>1. SwarmInv => BudgetIsItsOwn
    <2> SUFFICES ASSUME SwarmInv PROVE BudgetIsItsOwn
      OBVIOUS
    <2>1. \A i \in Invocation : state[i] \in 0..Ceiling /\ state[i] = served[i]
      BY DEF SwarmInv, SwarmTypeOK, CountIsServed
    <2>2. \A i \in Invocation : served[i] <= Ceiling
      BY <2>1, SwarmBounds
    <2>3. \A i \in refused : served[i] = Ceiling
      BY DEF SwarmInv, SwarmTypeOK, CountIsServed
    <2>4. QED
      BY <2>2, <2>3 DEF BudgetIsItsOwn
  <1>2. QED
    BY <1>1, SwarmHolds, PTL

-----------------------------------------------------------------------------
(* The tool boundary.                                                      *)

\* Nothing is called and nothing cached.
LEMMA InitBoundaryInv == BoundaryInit => BoundaryInv
<1> SUFFICES ASSUME BoundaryInit PROVE BoundaryInv
  OBVIOUS
<1>1. BoundaryTypeOK
  BY DEF BoundaryInit, BoundaryTypeOK, Idle, Source, Spellings
<1>2. ListFits /\ GrantHolds /\ NoFalseRefusal
  BY DEF BoundaryInit, ListFits, GrantHolds, NoFalseRefusal, Idle
<1>3. QED
  BY <1>1, <1>2 DEF BoundaryInv

\* The two sides of the subset check, as normalised: a table of this project loses its
\* project, whichever spelling a list gives it, and one of another project keeps it.
LEMMA Normalised ==
  ASSUME BoundaryInv, NEW c \in Caller, NEW aliases, aliases = {setting, "id"}
  PROVE  /\ \A t \in Table : TableName(t, aliases) = <<"none", t>>
         /\ \A t \in Foreign : TableName(t, aliases) = <<"other", t>>
         /\ \A t \in Table : Strip(<<Spelling[c], t>>, aliases) = <<"none", t>>
         /\ \A t \in Table : Strip(<<"none", t>>, aliases) = <<"none", t>>
<1>1. setting \in {"id", "number"} /\ Spelling[c] \in {"none", "id", setting}
  BY DEF BoundaryInv, BoundaryTypeOK, ListFits
<1>2. QED
  BY <1>1, SourcesAssumption DEF TableName, Strip

\* Whatever is cached, the aliases are both spellings.
LEMMA AliasesKnown ==
  ASSUME BoundaryInv PROVE Aliases = {setting, "id"}
  BY DEF BoundaryInv, BoundaryTypeOK, Aliases

\* What the subset check lets through is granted.
LEMMA WithinIsGranted ==
  ASSUME BoundaryInv, NEW c \in Caller, call[c].at = "compare", Within(c, Aliases)
  PROVE  call[c].found \subseteq Grant[c]
<1> DEFINE aliases == {setting, "id"}
<1>1. Aliases = aliases
  BY AliasesKnown
<1> HIDE DEF aliases
<1>2. Grant[c] \subseteq Table
  BY GrantAssumption
<1>3. ASSUME NEW n \in call[c].listed
      PROVE  \E t \in Grant[c] : Strip(n, aliases) = <<"none", t>>
  <2>1. PICK t \in Grant[c] : n \in {<<Spelling[c], t>>, <<"none", t>>}
    BY DEF BoundaryInv, ListFits, Declared
  <2>2. QED
    BY <1>2, <2>1, Normalised DEF aliases
<1> SUFFICES ASSUME NEW t \in call[c].found PROVE t \in Grant[c]
  OBVIOUS
<1>4. PICK n \in call[c].listed : TableName(t, aliases) = Strip(n, aliases)
  BY <1>1 DEF Within
<1>5. PICK g \in Grant[c] : TableName(t, aliases) = <<"none", g>>
  BY <1>3, <1>4
<1>t. t \in Table \cup Foreign
  BY DEF BoundaryInv, BoundaryTypeOK
<1>6. CASE t \in Table
  BY <1>5, <1>6, Normalised DEF aliases
<1>7. CASE t \in Foreign
  BY <1>5, <1>7, Normalised DEF aliases
<1>8. QED
  BY <1>t, <1>6, <1>7

\* And what is granted is let through, of a list that is the agent's own.
LEMMA GrantedIsWithin ==
  ASSUME BoundaryInv, NEW c \in Caller, call[c].at = "compare", call[c].tool = "bq_query",
         call[c].found # {}, call[c].found \subseteq Grant[c]
  PROVE  Within(c, Aliases)
<1> DEFINE aliases == {setting, "id"}
<1>1. Aliases = aliases
  BY AliasesKnown
<1> HIDE DEF aliases
<1>2. Grant[c] \subseteq Table /\ call[c].listed = Declared(c)
  BY GrantAssumption DEF BoundaryInv, ListFits
<1>3. ASSUME NEW t \in call[c].found
      PROVE  TableName(t, aliases) \in {Strip(n, aliases) : n \in call[c].listed}
  <2>1. <<Spelling[c], t>> \in call[c].listed
    BY <1>2 DEF Declared
  <2>2. TableName(t, aliases) = Strip(<<Spelling[c], t>>, aliases)
    BY <1>2, Normalised DEF aliases
  <2>3. QED
    BY <2>1, <2>2
<1>4. QED
  BY <1>1, <1>3 DEF Within

\* A call that goes on as r, which is well typed and fits, disturbs no other.
LEMMA CallStep ==
  ASSUME BoundaryInv, NEW c \in Caller,
         NEW r \in [at : {"idle", "check", "compare", "run", "done"},
                    tool : {"none", "bq_query", "run_diagnostic"}, text : Query \cup {{}},
                    listed : SUBSET (Spellings \X Source), found : SUBSET (Table \cup Foreign),
                    code : {"none", "ok", "UNDECLARED_TABLE", "SQL_INTERPOLATION",
                            "QUERY_FAILED", "NOT_SELECT", "INTERNAL", "UNDECLARED"}],
         call' = [call EXCEPT ![c] = r],
         base' = base, setting' = setting, homes' \in {{}, {setting, "id"}},
         r.at \in {"check", "compare", "run"} =>
           /\ r.code = "none"
           /\ \/ r.tool = "bq_query" /\ r.listed = Declared(c)
              \/ r.tool = "run_diagnostic" /\ r.listed \subseteq {<<"none", t>> : t \in Grant[c]},
         r.at = "idle" => r = Idle,
         r.at = "run" \/ r.code = "ok" => r.found \subseteq Grant[c],
         r.code = "UNDECLARED" => r.found = {} \/ ~(r.found \subseteq Grant[c])
  PROVE  BoundaryInv'
<1>1. \A d \in Caller : call'[d] = IF d = c THEN r ELSE call[d]
  BY DEF BoundaryInv, BoundaryTypeOK
<1>2. BoundaryTypeOK'
  BY DEF BoundaryInv, BoundaryTypeOK
<1>3. ListFits'
  BY <1>1 DEF BoundaryInv, ListFits, Declared
<1>4. GrantHolds' /\ NoFalseRefusal'
  BY <1>1 DEF BoundaryInv, GrantHolds, NoFalseRefusal
<1>5. QED
  BY <1>2, <1>3, <1>4 DEF BoundaryInv

\* A call comes in with the list that its tool checks against.
LEMMA BeginStep ==
  ASSUME BoundaryInv, NEW c \in Caller, BqQuery(c) \/ Diagnose(c)
  PROVE  BoundaryInv'
<1>1. homes \in {{}, {setting, "id"}} /\ Shared' = Shared
  BY DEF BoundaryInv, BoundaryTypeOK, BqQuery, Diagnose, Shared
<1>2. Declared(c) \subseteq Spellings \X Source
  BY GrantAssumption DEF Declared, Source
<1>3. CASE BqQuery(c)
  <2>1. PICK q \in Query :
          call' = [call EXCEPT ![c] =
                     [Idle EXCEPT !.at = "check", !.tool = "bq_query", !.text = q,
                                  !.listed = Declared(c)]]
    BY <1>3 DEF BqQuery, Step
  <2>2. QED
    BY <1>1, <1>2, <2>1, CallStep DEF Idle, Shared
<1>4. CASE Diagnose(c)
  <2>1. PICK q \in Query :
          call' = [call EXCEPT ![c] =
                     [Idle EXCEPT !.at = IF q \subseteq Grant[c] THEN "check" ELSE "done",
                                  !.code = IF q \subseteq Grant[c] THEN "none"
                                           ELSE "UNDECLARED_TABLE",
                                  !.tool = "run_diagnostic", !.text = q,
                                  !.listed = {<<"none", s>> : s \in q}]]
    BY <1>4 DEF Diagnose, Step
  <2>2. {<<"none", s>> : s \in q} \subseteq Spellings \X Source
    BY SourcesAssumption DEF Spellings
  <2>3. CASE q \subseteq Grant[c]
    BY <1>1, <2>1, <2>2, <2>3, CallStep DEF Idle, Shared
  <2>4. CASE ~(q \subseteq Grant[c])
    BY <1>1, <2>1, <2>2, <2>4, CallStep DEF Idle, Shared
  <2>5. QED
    BY <2>3, <2>4
<1>5. QED
  BY <1>3, <1>4

\* Refusals, the dry run, the probe and the run itself.
LEMMA QueryStep ==
  ASSUME BoundaryInv, NEW c \in Caller, Refuse(c) \/ DryRun(c) \/ ProbeFails(c) \/ Run(c)
  PROVE  BoundaryInv'
<1>1. homes \in {{}, {setting, "id"}} /\ Shared' = Shared
  BY DEF BoundaryInv, BoundaryTypeOK, Refuse, DryRun, ProbeFails, Run, Shared
<1>2. CASE Refuse(c) \/ ProbeFails(c) \/ Run(c)
  <2>1. PICK code \in {"SQL_INTERPOLATION", "QUERY_FAILED", "NOT_SELECT", "INTERNAL", "ok"} :
          /\ call' = [call EXCEPT ![c] = [call[c] EXCEPT !.at = "done", !.code = code]]
          /\ code = "ok" => call[c].at = "run"
    BY <1>2 DEF Refuse, ProbeFails, Run, Ends, Step, Code
  <2>2. code = "ok" => call[c].found \subseteq Grant[c]
    BY <2>1 DEF BoundaryInv, GrantHolds
  <2>3. QED
    BY <1>1, <2>1, <2>2, CallStep DEF BoundaryInv, BoundaryTypeOK, Shared
<1>3. CASE DryRun(c)
  <2>1. /\ call[c].at = "check"
        /\ call' = [call EXCEPT ![c] =
                      [call[c] EXCEPT !.at = "compare", !.found = Resolved(call[c].text)]]
    BY <1>3 DEF DryRun, Step
  <2>2. Resolved(call[c].text) \subseteq Table \cup Foreign
    BY SourcesAssumption DEF Resolved, BoundaryInv, BoundaryTypeOK, Source
  <2>3. QED
    BY <1>1, <2>1, <2>2, CallStep DEF BoundaryInv, BoundaryTypeOK, ListFits, Shared
<1>4. QED
  BY <1>2, <1>3

\* The subset check, which may fill the cache.
LEMMA CompareStep ==
  ASSUME BoundaryInv, NEW c \in Caller, Compare(c)
  PROVE  BoundaryInv'
<1>1. homes' = {setting, "id"} /\ base' = base /\ setting' = setting
  BY AliasesKnown DEF Compare
<1>2. CASE Within(c, Aliases)
  <2>1. call[c].at = "compare" /\ call' = [call EXCEPT ![c] = [call[c] EXCEPT !.at = "run"]]
    BY <1>2 DEF Compare, Step
  <2>2. call[c].found \subseteq Grant[c]
    BY <1>2, <2>1, WithinIsGranted
  <2>3. QED
    BY <1>1, <2>1, <2>2, CallStep DEF BoundaryInv, BoundaryTypeOK, ListFits
<1>3. CASE ~Within(c, Aliases)
  <2>1. /\ call[c].at = "compare"
        /\ call' = [call EXCEPT ![c] =
                      [call[c] EXCEPT !.at = "done", !.code = Code(c, "UNDECLARED")]]
    BY <1>3 DEF Compare, Ends, Step
  <2>2. call[c].tool = "bq_query" => call[c].found = {} \/ ~(call[c].found \subseteq Grant[c])
    BY <1>3, <2>1, GrantedIsWithin
  <2>3. Code(c, "UNDECLARED") = IF call[c].tool = "bq_query" THEN "UNDECLARED"
                                ELSE "QUERY_FAILED"
    BY <2>1 DEF Code, BoundaryInv, ListFits
  <2>4. QED
    BY <1>1, <2>1, <2>2, <2>3, CallStep DEF BoundaryInv, BoundaryTypeOK
<1>4. QED
  BY <1>2, <1>3

\* One lemma for each group of steps.
LEMMA NextBoundaryInv == BoundaryInv /\ [BoundaryNext]_boundaryVars => BoundaryInv'
<1> SUFFICES ASSUME BoundaryInv, [BoundaryNext]_boundaryVars PROVE BoundaryInv'
  OBVIOUS
<1>1. CASE UNCHANGED boundaryVars
  BY <1>1 DEF boundaryVars, BoundaryInv, BoundaryTypeOK, ListFits, Declared, GrantHolds,
              NoFalseRefusal
<1>2. CASE Redefine
  BY <1>2 DEF Redefine, BoundaryInv, BoundaryTypeOK, ListFits, Declared, GrantHolds,
              NoFalseRefusal
<1>3. ASSUME NEW c \in Caller, Again(c) PROVE BoundaryInv'
  <2>1. call' = [call EXCEPT ![c] = Idle] /\ Shared' = Shared
    BY <1>3 DEF Again, Step, Shared
  <2>2. QED
    BY <2>1, CallStep DEF Idle, Shared, BoundaryInv, BoundaryTypeOK
<1>4. QED
  BY <1>1, <1>2, <1>3, BeginStep, QueryStep, CompareStep DEF BoundaryNext

\* Put together.
LEMMA BoundaryHolds == BoundarySpec => []BoundaryInv
  BY InitBoundaryInv, NextBoundaryInv, PTL DEF BoundarySpec

\* The calls, the cache and the views have their shape.
THEOREM BoundaryTypes == BoundarySpec => []BoundaryTypeOK
  BY BoundaryHolds, PTL DEF BoundaryInv

\* For any grants, views and queries, and however they are spelled, a query that runs was
\* found to read only what its caller's agent declares.
THEOREM GrantsHold == BoundarySpec => []GrantHolds
  BY BoundaryHolds, PTL DEF BoundaryInv

\* And one that reads only that is not refused for it.
THEOREM NoneFalselyRefused == BoundarySpec => []NoFalseRefusal
  BY BoundaryHolds, PTL DEF BoundaryInv

-----------------------------------------------------------------------------
(* The proxy.                                                              *)

\* The main thread is about to mint.
LEMMA InitProxyInv == ProxyInit => ProxyInv
<1> SUFFICES ASSUME ProxyInit PROVE ProxyInv
  OBVIOUS
<1>1. ProxyTypeOK
  BY TimesAssumption DEF ProxyInit, ProxyTypeOK, InGet
<1>2. CacheFits
  BY TimesAssumption DEF ProxyInit, CacheFits, InGet, NoToken
<1>3. TokenOutlivesRequest /\ \A t \in Threads : relayed[t] <= chunks[t]
  BY ThreadsAssumption DEF ProxyInit, TokenOutlivesRequest, Threads
<1>4. QED
  BY <1>1, <1>2, <1>3 DEF ProxyInv

\* A thread that looks, mints or is refused changes neither field of the cache.
LEMMA LookStep ==
  ASSUME ProxyInv, NEW t \in Threads,
         Request(t) \/ Look(t) \/ Mint(t) \/ MintRefused(t)
  PROVE  ProxyInv'
<1> USE DEF ProxyInv
<1>1. ProxyTypeOK'
  BY TimesAssumption
  DEF ProxyTypeOK, Request, Look, Mint, MintRefused, Goes, InGet, tokenVars, streamVars
<1>2. CacheFits'
  <2>1. /\ now' = now /\ token' = token /\ expiresAt' = expiresAt
        /\ \A u \in Threads : u # t => /\ at'[u] = at[u] /\ since'[u] = since[u]
                                       /\ minted'[u] = minted[u]
    BY DEF ProxyTypeOK, Request, Look, Mint, MintRefused, Goes, tokenVars
  <2>2. /\ at'[t] \in InGet => since'[t] <= now /\ now <= since'[t] + MaxPause
        /\ at'[t] = "assign" => minted'[t] \in since'[t]..now
        /\ at'[t] # "stamp"
    BY TimesAssumption
    DEF ProxyTypeOK, CacheFits, Request, Look, Mint, MintRefused, Goes, tokenVars, InGet
  <2>3. at'[t] = "return" => /\ token # NoToken
                             /\ token + Lifetime > since'[t] + Margin - 2 * MaxPause
    <3> SUFFICES ASSUME at'[t] = "return"
                 PROVE  /\ token # NoToken
                        /\ token + Lifetime > since'[t] + Margin - 2 * MaxPause
      OBVIOUS
    <3>1. /\ at[t] = "get" /\ since' = since
          /\ token # NoToken /\ now < expiresAt - Margin
      BY DEF ProxyTypeOK, Request, Look, Mint, MintRefused, Goes, tokenVars
    <3>2. expiresAt <= token + Lifetime + 2 * MaxPause /\ since[t] <= now
      BY <3>1 DEF CacheFits, InGet
    <3>3. QED
      BY <3>1, <3>2, TimesAssumption DEF ProxyTypeOK, NoToken
  <2>4. QED
    BY <2>1, <2>2, <2>3 DEF CacheFits
<1>3. TokenOutlivesRequest' /\ \A u \in Threads : relayed'[u] <= chunks'[u]
  BY DEF ProxyTypeOK, TokenOutlivesRequest, Threads, Request, Look, Mint, MintRefused, Goes,
         tokenVars, streamVars
<1>4. QED
  BY <1>1, <1>2, <1>3

\* A token that is put there was minted by a thread that has been inside get() for a
\* short time only, so whoever finds it there finds it young.
LEMMA AssignStep ==
  ASSUME ProxyInv, NEW t \in Threads, Assign(t)
  PROVE  ProxyInv'
<1> USE DEF ProxyInv
<1>1. ProxyTypeOK'
  BY TimesAssumption
  DEF ProxyTypeOK, CacheFits, Assign, Goes, InGet, NoToken, streamVars
<1>2. CacheFits'
  <2>1. /\ now' = now /\ expiresAt' = expiresAt /\ since' = since
        /\ token' = minted[t] /\ at[t] = "assign" /\ at'[t] = "stamp"
        /\ \A u \in Threads : u # t => at'[u] = at[u] /\ minted'[u] = minted[u]
    BY DEF ProxyTypeOK, Assign, Goes
  <2>2. /\ token' \in since[t]..now /\ now <= since[t] + MaxPause
        /\ since[t] \in Nat /\ now \in Nat
    BY <2>1, TimesAssumption DEF ProxyTypeOK, CacheFits, InGet
  <2>3. token' # NoToken /\ token' <= now /\ token' + MaxPause >= now
    BY <2>2, TimesAssumption DEF NoToken
  <2>4. expiresAt <= token' + Lifetime + 2 * MaxPause
    BY <2>2, <2>3, TimesAssumption DEF ProxyTypeOK, CacheFits
  <2>5. ASSUME NEW u \in Threads, at'[u] \in InGet
        PROVE  /\ token' >= since[u] - MaxPause
               /\ token' + Lifetime > since[u] + Margin - 2 * MaxPause
    <3>1. since[u] <= now /\ since[u] \in Nat
      BY <2>1, <2>5, TimesAssumption DEF ProxyTypeOK, CacheFits, InGet
    <3>2. QED
      BY <2>2, <2>3, <3>1, TimesAssumption
  <2>6. QED
    BY <2>1, <2>2, <2>3, <2>4, <2>5 DEF CacheFits, InGet
<1>3. TokenOutlivesRequest' /\ \A u \in Threads : relayed'[u] <= chunks'[u]
  BY DEF ProxyTypeOK, TokenOutlivesRequest, Threads, Assign, Goes, streamVars
<1>4. QED
  BY <1>1, <1>2, <1>3

\* Whatever token is there when a thread dates it, it is at most two stays old.
LEMMA StampStep ==
  ASSUME ProxyInv, NEW t \in Threads, Stamp(t)
  PROVE  ProxyInv'
<1> USE DEF ProxyInv
<1>1. ProxyTypeOK'
  BY TimesAssumption DEF ProxyTypeOK, Stamp, Goes, InGet, streamVars
<1>2. CacheFits'
  <2>1. /\ now' = now /\ token' = token /\ since' = since /\ minted' = minted
        /\ expiresAt' = now + Lifetime /\ at[t] = "stamp" /\ at'[t] = "return"
        /\ \A u \in Threads : u # t => at'[u] = at[u]
    BY DEF ProxyTypeOK, Stamp, Goes
  <2>2. /\ token # NoToken /\ token >= since[t] - MaxPause
        /\ now <= since[t] + MaxPause /\ since[t] <= now
        /\ token \in Int /\ since[t] \in Nat /\ now \in Nat
    BY <2>1, TimesAssumption DEF ProxyTypeOK, CacheFits, InGet, NoToken
  <2>3. /\ expiresAt' <= token + Lifetime + 2 * MaxPause
        /\ token + Lifetime > since[t] + Margin - 2 * MaxPause
    BY <2>1, <2>2, TimesAssumption
  <2>4. expiresAt' <= now + Lifetime
    BY <2>1, <2>2, TimesAssumption
  <2>5. QED
    BY <2>1, <2>2, <2>3, <2>4 DEF CacheFits, InGet
<1>3. TokenOutlivesRequest' /\ \A u \in Threads : relayed'[u] <= chunks'[u]
  BY DEF ProxyTypeOK, TokenOutlivesRequest, Threads, Stamp, Goes, streamVars
<1>4. QED
  BY <1>1, <1>2, <1>3

\* get() returns what the cache then holds.
LEMMA ReturnStep ==
  ASSUME ProxyInv, NEW t \in Threads, Return(t)
  PROVE  ProxyInv'
<1> USE DEF ProxyInv
<1>1. /\ now' = now /\ token' = token /\ expiresAt' = expiresAt /\ minted' = minted
      /\ at[t] = "return" /\ at'[t] \in {"serving", "sent"}
      /\ left' = [left EXCEPT ![t] = token + Lifetime - now]
      /\ \A u \in Threads : u # t => at'[u] = at[u] /\ since'[u] = since[u]
  BY DEF ProxyTypeOK, Return, Goes
<1>2. /\ token # NoToken /\ token + Lifetime > since[t] + Margin - 2 * MaxPause
      /\ now <= since[t] + MaxPause /\ token <= now
      /\ token \in Nat /\ since[t] \in Nat /\ now \in Nat
  BY <1>1, TimesAssumption DEF ProxyTypeOK, CacheFits, InGet, NoToken
<1>3. left'[t] = token + Lifetime - now
  BY <1>1 DEF ProxyTypeOK
<1>4. token + Lifetime - now > Margin - 3 * MaxPause /\ token + Lifetime - now \in 0..Lifetime
  BY <1>2, TimesAssumption
<1>5. ProxyTypeOK'
  BY <1>1, <1>4, TimesAssumption DEF ProxyTypeOK, Return, Goes, InGet, streamVars
<1>6. CacheFits'
  BY <1>1 DEF CacheFits, InGet
<1>7. TokenOutlivesRequest' /\ \A u \in Threads : relayed'[u] <= chunks'[u]
  BY <1>1, <1>3, <1>4 DEF ProxyTypeOK, TokenOutlivesRequest, Threads, Return, streamVars
<1>8. QED
  BY <1>5, <1>6, <1>7

\* Time passes for no thread that has stayed in get() for as long as it may.
LEMMA TickStep ==
  ASSUME ProxyInv, Tick
  PROVE  ProxyInv'
<1> USE DEF ProxyInv
<1>1. ProxyTypeOK'
  BY TimesAssumption DEF ProxyTypeOK, Tick, tokenVars, streamVars
<1>2. CacheFits'
  <2>1. /\ now' = now + 1 /\ now \in Nat /\ UNCHANGED <<token, expiresAt, at, since, minted>>
        /\ token \in Int /\ expiresAt \in Int
        /\ \A t \in Threads : since[t] \in Nat /\ minted[t] \in Int
        /\ \A t \in Threads : at[t] \in InGet => now - since[t] < MaxPause
    BY TimesAssumption DEF ProxyTypeOK, Tick, tokenVars, NoToken
  <2>2. \A t \in Threads : at[t] \in InGet => since[t] <= now' /\ now' <= since[t] + MaxPause
    BY <2>1, TimesAssumption DEF CacheFits
  <2>3. \A t \in Threads : at[t] = "assign" => minted[t] \in since[t]..now'
    BY <2>1 DEF CacheFits
  <2>4. expiresAt <= now' + Lifetime /\ (token # NoToken => token <= now')
    BY <2>1, TimesAssumption DEF CacheFits
  <2>5. QED
    BY <2>1, <2>2, <2>3, <2>4 DEF CacheFits
<1>3. TokenOutlivesRequest' /\ \A u \in Threads : relayed'[u] <= chunks'[u]
  BY DEF TokenOutlivesRequest, Tick, tokenVars, streamVars
<1>4. QED
  BY <1>1, <1>2, <1>3

\* A reply that is relayed, whoever ends it.
LEMMA ReplyStep ==
  ASSUME ProxyInv, NEW t \in Threads,
         \/ Relay(t) \/ Reap(t) \/ StreamOpens(t) \/ Produce(t) \/ UpstreamEnds(t)
         \/ ReaderLeaves(t) \/ Proxied(t)
  PROVE  ProxyInv'
<1> USE DEF ProxyInv, Relay, Reap, StreamOpens, Produce, UpstreamEnds, ReaderLeaves, Proxied,
            RelayChunk, Write, RelayEnds, Close, Goes, tokenVars, streamVars
<1>1. ProxyTypeOK'
  <2>1. CASE Relay(t) \/ Reap(t) \/ RelayEnds(t)
    <3>1. Close(t)
      BY <2>1
    <3>2. 0 \in 0..MaxNow /\ 0 \in 0..Lifetime /\ 0 \in 0..MaxChunks
      BY TimesAssumption
    <3>3. QED
      BY <3>1, <3>2 DEF ProxyTypeOK
  <2>2. CASE StreamOpens(t) \/ UpstreamEnds(t) \/ ReaderLeaves(t)
    BY <2>2 DEF ProxyTypeOK
  <2>3. CASE Produce(t) \/ RelayChunk(t)
    BY <2>3, TimesAssumption DEF ProxyTypeOK
  <2>4. QED
    BY <2>1, <2>2, <2>3
<1>2. CacheFits'
  <2>1. /\ now' = now /\ token' = token /\ expiresAt' = expiresAt /\ minted' = minted
        /\ at'[t] \notin InGet
        /\ \A u \in Threads : u # t => at'[u] = at[u] /\ since'[u] = since[u]
    BY DEF ProxyTypeOK, InGet
  <2>2. QED
    BY <2>1 DEF CacheFits, InGet
<1>3. TokenOutlivesRequest'
  <2>1. \A u \in Threads : u # t => at'[u] = at[u] /\ left'[u] = left[u]
    BY DEF ProxyTypeOK
  <2>2. at'[t] \in {"sent", "stream"}
          => at[t] \in {"sent", "stream"} /\ left'[t] = left[t]
    BY DEF ProxyTypeOK
  <2>3. QED
    BY <2>1, <2>2 DEF TokenOutlivesRequest, Threads
<1>4. \A u \in Threads : relayed'[u] <= chunks'[u]
  BY TimesAssumption DEF ProxyTypeOK
<1>5. QED
  BY <1>1, <1>2, <1>3, <1>4

\* One lemma for each group of steps.
LEMMA NextProxyInv == ProxyInv /\ [ProxyNext]_proxyVars => ProxyInv'
<1> SUFFICES ASSUME ProxyInv, [ProxyNext]_proxyVars PROVE ProxyInv'
  OBVIOUS
<1>1. CASE UNCHANGED proxyVars
  BY <1>1 DEF proxyVars, tokenVars, streamVars, ProxyInv, ProxyTypeOK, CacheFits,
              TokenOutlivesRequest
<1>2. CASE ProxyNext
  BY <1>2, LookStep, AssignStep, StampStep, ReturnStep, TickStep, ReplyStep DEF ProxyNext
<1>3. QED
  BY <1>1, <1>2

\* Put together.
LEMMA ProxyHolds == ProxySpec => []ProxyInv
  BY InitProxyInv, NextProxyInv, PTL DEF ProxySpec

\* The cache, the threads and their replies have their shape.
THEOREM ProxyTypes == ProxySpec => []ProxyTypeOK
  BY ProxyHolds, PTL DEF ProxyInv

\* For any number of threads and any times, of which three stays in get() are less than
\* the margin, no race on the cache sends a request with a token that is about to expire.
THEOREM TokensOutliveRequests == ProxySpec => []TokenOutlivesRequest
  BY ProxyHolds, PTL DEF ProxyInv

-----------------------------------------------------------------------------
(* The processes together.                                                 *)

ServiceInv == SwarmInv /\ BoundaryInv /\ ProxyInv

\* Whichever is looked at, each process takes a step of its own or none.
LEMMA ProcessesAreApart ==
  [ServiceNext]_serviceVars
    => [SwarmNext]_swarmVars /\ [BoundaryNext]_boundaryVars /\ [ProxyNext]_proxyVars
  BY DEF ServiceNext, serviceVars

\* Every invariant of every process holds whichever is looked at, for any specialists and
\* questions, callers and grants, threads and times.
THEOREM ServicesAreSound == ServiceSpec => []ServiceInv
<1>1. ServiceInit => ServiceInv
  BY InitSwarmInv, InitBoundaryInv, InitProxyInv DEF ServiceInit, ServiceInv
<1>2. ServiceInv /\ [ServiceNext]_serviceVars => ServiceInv'
  BY ProcessesAreApart, NextSwarmInv, NextBoundaryInv, NextProxyInv DEF ServiceInv
<1>3. QED
  BY <1>1, <1>2, PTL DEF ServiceSpec
=============================================================================
