------------------------------- MODULE Swarm -------------------------------
(***************************************************************************)
(* One swarm of mining_agents/patterns/swarm.py at work: the workflow      *)
(* graph that build_swarm declares, run for several questions of one       *)
(* session at a time, the critic's tool budget kept in the session's       *)
(* state, and the approval requests of the coordinator                     *)
(* (mining_agents/tools/request_approval.py).                              *)
(*                                                                         *)
(* The workflow engine is external: an agent starts when a predecessor has *)
(* reported, a JoinNode when all of them have, and an agent that raises    *)
(* aborts the run.  What a model decides to do is left open.               *)
(***************************************************************************)
EXTENDS Naturals

CONSTANTS Specialist,
          Invocation,    \* the runs of the graph over one session state
          Ceiling,       \* CRITIC_TOOL_CALL_CEILING
          MaxCalls,      \* bound: tools a critic calls at once
          MaxRequests    \* bound: approval requests of one run

ASSUME SpecialistAssumption ==
    Specialist \cap {"START", "join", "critic", "coordinator"} = {}
ASSUME SwarmBounds == Ceiling \in Nat /\ MaxCalls \in Nat /\ MaxRequests \in Nat

VARIABLES node,      \* invocation -> what each node of its graph is doing
          heard,     \* invocation -> node -> the agents its input derives from
          aborted,   \* the invocations whose workflow was aborted
          state,     \* tool_context.state: the value of each key
          called,    \* invocation -> calls of the critic not yet let through
          running,   \* invocation -> calls of the critic that a tool is serving
          served,    \* invocation -> calls of its critic that a tool served
          refused,   \* the invocations whose critic was refused a call
          approvals  \* the rows of agent_approvals

workflowVars == <<node, heard, aborted>>
budgetVars == <<state, called, running, served, refused>>
swarmVars == <<workflowVars, budgetVars, approvals>>

Agents == Specialist \cup {"critic", "coordinator"}
Nodes == Agents \cup {"START", "join"}
Audited == Specialist \cup {"critic"}

EdgesWithoutBarrier ==    \* a bug: the critic follows each specialist
    {<<"START", s>> : s \in Specialist} \cup {<<s, "critic">> : s \in Specialist}
      \cup {<<"critic", "coordinator">>}

\* build_swarm: fan-out, barrier, critic, coordinator.
Edges ==
    {<<"START", s>> : s \in Specialist} \cup {<<s, "join">> : s \in Specialist}
      \cup {<<"join", "critic">>, <<"critic", "coordinator">>}

Before(n) == {m \in Nodes : <<m, n>> \in Edges}

KeyOfTheSession(i) == CHOOSE j \in Invocation : TRUE    \* a bug: no invocation_id

\* temp:critic_tool_calls_<invocation_id>
Key(i) == i

SwarmInit ==
    /\ node = [i \in Invocation |-> [n \in Nodes |-> "idle"]]
    /\ heard = [i \in Invocation |-> [n \in Nodes |-> {}]]
    /\ aborted = {}
    /\ state = [i \in Invocation |-> 0]
    /\ called = [i \in Invocation |-> 0] /\ running = [i \in Invocation |-> 0]
    /\ served = [i \in Invocation |-> 0] /\ refused = {}
    /\ approvals = {}

-----------------------------------------------------------------------------
(* The graph.                                                              *)

\* A question starts the graph.
Ask(i) ==
    /\ node[i]["START"] = "idle"
    /\ node' = [node EXCEPT ![i]["START"] = "reported"]
    /\ UNCHANGED <<heard, aborted, budgetVars, approvals>>

Reported(i, n) == {m \in Before(n) : node[i][m] = "reported"}

\* A node starts on what the predecessors that triggered it have reported; the
\* barrier only passes it on.
Start(i, n) ==
    /\ i \notin aborted /\ node[i][n] = "idle"
    /\ Reported(i, n) # {} /\ (n = "join" => Reported(i, n) = Before(n))
    /\ heard' = [heard EXCEPT ![i][n] =
                   UNION {heard[i][m] \cup ({m} \cap Agents) : m \in Reported(i, n)}]
    /\ node' = [node EXCEPT ![i][n] = IF n = "join" THEN "reported" ELSE "running"]
    /\ UNCHANGED <<aborted, budgetVars, approvals>>

Busy(i) == called[i] + running[i] > 0

\* DONE or BLOCKED; the critic has the answers to all the calls it made.
Report(i, n) ==
    /\ i \notin aborted /\ node[i][n] = "running"
    /\ n = "critic" => ~Busy(i)
    /\ node' = [node EXCEPT ![i][n] = "reported"]
    /\ UNCHANGED <<heard, aborted, budgetVars, approvals>>

\* A node raises: the model's endpoint refused it, or the process was stopped.
Raise(i, n) ==
    /\ i \notin aborted /\ node[i][n] = "running"
    /\ aborted' = aborted \cup {i}
    /\ UNCHANGED <<node, heard, budgetVars, approvals>>

-----------------------------------------------------------------------------
(* The critic's budget.                                                    *)

CriticRuns(i) == i \notin aborted /\ node[i]["critic"] = "running"

\* One turn of the critic's model calls several tools in parallel.
CallTools(i) ==
    /\ CriticRuns(i) /\ ~Busy(i)
    /\ called' \in {[called EXCEPT ![i] = k] : k \in 1..MaxCalls}
    /\ UNCHANGED <<state, running, served, refused, workflowVars, approvals>>

\* critic_tool_budget_callback: it awaits nothing between the read and the write.
CriticToolBudget(i) ==
    /\ CriticRuns(i) /\ called[i] > 0
    /\ called' = [called EXCEPT ![i] = @ - 1]
    /\ IF state[Key(i)] >= Ceiling
       THEN /\ refused' = refused \cup {i}
            /\ UNCHANGED <<state, running, served>>
       ELSE /\ state' = [state EXCEPT ![Key(i)] = @ + 1]
            /\ running' = [running EXCEPT ![i] = @ + 1]
            /\ served' = [served EXCEPT ![i] = @ + 1]
            /\ UNCHANGED refused
    /\ UNCHANGED <<workflowVars, approvals>>

\* The tool's envelope, which says whether the call succeeded: a tool never raises.
ToolAnswers(i) ==
    /\ CriticRuns(i) /\ running[i] > 0
    /\ running' = [running EXCEPT ![i] = @ - 1]
    /\ UNCHANGED <<state, called, served, refused, workflowVars, approvals>>

-----------------------------------------------------------------------------
(* request_approval, which of a swarm only the coordinator is given.       *)

Row(i, id) == [id |-> id, by |-> i, decision |-> "PENDING",
               heard |-> heard[i]["coordinator"]]

\* The insert is applied, under an id of its own, whether or not its answer reaches
\* the agent, which may try again. One that is refused leaves no trace.
RequestApproval(i) ==
    /\ i \notin aborted /\ node[i]["coordinator"] = "running"
    /\ \E id \in 1..MaxRequests :
         /\ \A row \in approvals : row.by = i => row.id # id
         /\ approvals' = approvals \cup {Row(i, id)}
    /\ UNCHANGED <<workflowVars, budgetVars>>

SwarmNext ==
    \E i \in Invocation :
      \/ Ask(i) \/ CallTools(i) \/ CriticToolBudget(i) \/ ToolAnswers(i)
      \/ RequestApproval(i)
      \/ \E n \in Nodes : Start(i, n) \/ Report(i, n) \/ Raise(i, n)

SwarmSpec == SwarmInit /\ [][SwarmNext]_swarmVars

-----------------------------------------------------------------------------
SwarmTypeOK ==
    /\ node \in [Invocation -> [Nodes -> {"idle", "running", "reported"}]]
    /\ heard \in [Invocation -> [Nodes -> SUBSET Agents]]
    /\ aborted \subseteq Invocation /\ refused \subseteq Invocation
    /\ state \in [Invocation -> 0..Ceiling]
    /\ called \in [Invocation -> 0..MaxCalls]
    /\ running \in [Invocation -> Nat] /\ served \in [Invocation -> Nat]
    /\ approvals \subseteq [id : 1..MaxRequests, by : Invocation,
                            decision : {"PENDING"}, heard : SUBSET Agents]

\* "It must never be a peer of the specialists (that would make it audit partial
\* output)", "only after the critic reports do you conclude": the critic audits and
\* the coordinator concludes on the reports of all specialists, and a human is asked
\* to approve nothing that was not audited, whichever agent raised, was slow, or was
\* running for another question.
AuditIsWhole ==
    /\ \A i \in Invocation :
         /\ node[i]["critic"] # "idle" => heard[i]["critic"] = Specialist
         /\ node[i]["coordinator"] # "idle" => heard[i]["coordinator"] = Audited
    /\ \A row \in approvals : row.heard = Audited

\* "You have at most N tool calls for the entire audit", and "two audits can never
\* share a counter": no critic is served more calls than the ceiling, however many
\* it makes at once, and none is refused one that it has left, whatever the critics
\* of other questions over the same session state have spent.
BudgetIsItsOwn ==
    /\ \A i \in Invocation : served[i] <= Ceiling
    /\ \A i \in refused : served[i] = Ceiling

-----------------------------------------------------------------------------
(* The inductive invariant.                                                *)

\* What a node that has started derives from, and before it has, nothing.
HeardSoFar ==
    \A i \in Invocation :
      /\ \A s \in Specialist \cup {"START"} : heard[i][s] = {}
      /\ node[i]["join"] # "idle" => heard[i]["join"] = Specialist

\* The counter of an invocation counts the calls that were let through.
CountIsServed ==
    \A i \in Invocation : state[i] = served[i] /\ (i \in refused => served[i] = Ceiling)

SwarmInv == SwarmTypeOK /\ AuditIsWhole /\ HeardSoFar /\ CountIsServed
=============================================================================
