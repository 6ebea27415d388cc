---------------------------- MODULE GraphScreen ----------------------------
(***************************************************************************)
(* Screen 1.5 of the case, apps/case/graph.js: three connection traces     *)
(* walked in the browser and played back step by step on timers, beside    *)
(* the raw call that the agent would make.  The walks are the code's; the  *)
(* patterns they have to agree with are the MATCH clauses of               *)
(* mining_agents/tools/graph_traverse.py.                                  *)
(*                                                                         *)
(* A row is the path it was found on, from the seed outwards, so the nodes *)
(* that step i lights are the (i+1)th nodes of the paths.                  *)
(***************************************************************************)
EXTENDS Naturals, Sequences

CONSTANTS Asset, Part, WorkOrder, Operator, FatigueLog, Vehicle, Incident,
          DependsOn, ReplacedPart, HasWorkOrder, LoggedFor, Operates, InvolvedIn,
          LowParts,     \* the parts ticked when the tab opens: below reorder point
          FirstAsset, PreferredOperator,   \* the options selected when a tab opens
          EveryMachine  \* the value of a part trace that is not narrowed

ASSUME LinksAssumption ==
    /\ DependsOn \subseteq Asset \X Asset
    /\ ReplacedPart \subseteq WorkOrder \X Part
    /\ HasWorkOrder \subseteq Asset \X WorkOrder
    /\ LoggedFor \subseteq FatigueLog \X Operator
    /\ Operates \subseteq Operator \X Vehicle
    /\ InvolvedIn \subseteq Vehicle \X Incident
ASSUME DefaultsAssumption ==
    /\ LowParts \subseteq Part
    /\ FirstAsset \in Asset /\ PreferredOperator \in Operator

VARIABLES tab,      \* current: the trace whose tab is selected
          setting,  \* what the controls say
          walk,     \* the timers still pending: whose run they are, steps played
          asked,    \* the parameters printed in the drawer's call
          log,      \* whose run wrote the drawer's log
          trace,    \* STEP_LINES: the walk in words, and whose each line is
          lit,      \* the nodes that carry the class seed or hit
          rows      \* the result table: whose it is, and its rows

graphVars == <<tab, setting, walk, asked, log, trace, lit, rows>>

Tabs == {"asset", "supply_chain", "safety"}

BlastAsks   == [tab : {"asset"}, asset_id : Asset]
StockAsks   == [tab : {"supply_chain"}, below_rop_parts : SUBSET Part,
                asset_id : Asset \cup {EveryMachine}]
FatigueAsks == [tab : {"safety"}, operator_id : Operator]
Asks == BlastAsks \cup StockAsks \cup FatigueAsks

NoAsk  == [tab |-> "none"]
NoWalk == [of |-> NoAsk, played |-> 0]
NoRows == [of |-> NoAsk, paths |-> {}]

\* What controls() selects when it draws a tab.
Opening(t) ==
    CASE t = "asset"        -> [tab |-> t, asset_id |-> FirstAsset]
      [] t = "supply_chain" -> [tab |-> t, below_rop_parts |-> LowParts,
                                asset_id |-> EveryMachine]
      [] t = "safety"       -> [tab |-> t, operator_id |-> PreferredOperator]

-----------------------------------------------------------------------------
(* The three walks.                                                        *)

MaxHops == 3

FirstWayOnly(origin) ==    \* a bug: the walk visits nodes, not paths
    LET paths[hop \in 0..MaxHops] ==
          IF hop = 0 THEN {<<origin>>}
          ELSE LET next == {step \in paths[hop - 1] \X DependsOn :
                              step[1][hop] = step[2][1]}
               IN  {Append((CHOOSE s \in next : s[2][2] = n)[1], n) :
                      n \in {s[2][2] : s \in next}}
    IN  UNION {paths[hop] : hop \in 1..MaxHops}

\* blastRadius: each hop extends every path of the hop before along every link.
BlastRadius(origin) ==
    LET paths[hop \in 0..MaxHops] ==
          IF hop = 0 THEN {<<origin>>}
          ELSE {Append(step[1], step[2][2]) :
                  step \in {s \in paths[hop - 1] \X DependsOn :
                              s[1][hop] = s[2][1]}}
    IN  UNION {paths[hop] : hop \in 1..MaxHops}

\* stockoutExposure: part, orders that consumed it, the machines they sit on.
StockoutExposure(parts, only) ==
    {<<link[1][2], link[1][1], link[2][1]>> :
        link \in {l \in ReplacedPart \X HasWorkOrder :
                    /\ l[1][2] \in parts
                    /\ l[1][1] = l[2][2]
                    /\ only = EveryMachine \/ l[2][1] = only}}

\* fatigueToIncident: every log against every incident of the operator's vehicles.
FatigueToIncident(operator) ==
    LET logs == {l[1] : l \in {x \in LoggedFor : x[2] = operator}}
        ends == {e \in Operates \X InvolvedIn :
                   e[1][1] = operator /\ e[1][2] = e[2][1]}
    IN  {<<operator, m[1], m[2][1][2], m[2][2][2]>> : m \in logs \X ends}

\* RUNNERS.
Rows(ask) ==
    CASE ask.tab = "asset"        -> BlastRadius(ask.asset_id)
      [] ask.tab = "supply_chain" -> StockoutExposure(ask.below_rop_parts, ask.asset_id)
      [] ask.tab = "safety"       -> FatigueToIncident(ask.operator_id)

\* result.seed: a part is a seed only if a row was found for it.
Seed(ask) ==
    CASE ask.tab = "asset"        -> {ask.asset_id}
      [] ask.tab = "supply_chain" -> {path[1] : path \in Rows(ask)}
      [] ask.tab = "safety"       -> {ask.operator_id}

\* result.steps: the part and fatigue traces always have theirs, empty or not.
Steps(ask) ==
    CASE ask.tab = "asset"        -> {hop \in 1..MaxHops :
                                        \E path \in Rows(ask) : Len(path) = hop + 1}
      [] ask.tab = "supply_chain" -> 1..2
      [] ask.tab = "safety"       -> 1..3

StepNodes(ask, i) == {path[i + 1] : path \in {p \in Rows(ask) : Len(p) > i}}

\* The tool refuses a part trace that names no part.
Refused(ask) == ask.tab = "supply_chain" /\ ask.below_rop_parts = {}

-----------------------------------------------------------------------------
GraphInit ==
    /\ tab = "asset" /\ setting = Opening("asset")
    /\ walk = NoWalk /\ asked = NoAsk /\ log = NoAsk
    /\ trace = <<>> /\ lit = {} /\ rows = NoRows

\* reset(): the timers are cleared and the page says that nothing has run.
Cleared ==
    /\ walk' = NoWalk /\ asked' = NoAsk /\ log' = NoAsk
    /\ trace' = <<>> /\ lit' = {} /\ rows' = NoRows

ResetKeepingTimers ==    \* a bug: the pending steps outlive the tab
    /\ asked' = NoAsk /\ log' = NoAsk
    /\ trace' = <<>> /\ lit' = {} /\ rows' = NoRows
    /\ UNCHANGED walk

Reset == Cleared /\ UNCHANGED <<tab, setting>>

MountKeepingTimers(t) ==
    /\ t # tab
    /\ tab' = t /\ setting' = Opening(t)
    /\ ResetKeepingTimers

\* A tab, and mount(): the index, the drawing, the controls, then reset().
Mount(t) ==
    /\ t # tab
    /\ tab' = t /\ setting' = Opening(t)
    /\ Cleared

\* The reader changes a control. Nothing runs and nothing on the page changes.
Change(ask) ==
    /\ ask.tab = tab
    /\ setting' = ask
    /\ UNCHANGED <<tab, walk, asked, log, trace, lit, rows>>

\* run(), refused: it returns before it comes to the timers and the drawing.
Refuse ==
    /\ Refused(setting)
    /\ trace' = <<setting>>
    /\ asked' = setting /\ log' = setting
    /\ rows' = [of |-> setting, paths |-> {}]
    /\ UNCHANGED <<tab, setting, walk, lit>>

\* run(): the walk is taken at once and played later; the table is left alone.
Run ==
    /\ ~Refused(setting)
    /\ walk' = [of |-> setting, played |-> 0]
    /\ lit' = Seed(setting)
    /\ trace' = <<setting>>
    /\ asked' = setting /\ log' = setting
    /\ UNCHANGED <<tab, setting, rows>>

\* The next of the run's timers: they were set together and fire in order.
PlayStep ==
    LET i == walk.played + 1 IN
    /\ walk # NoWalk /\ i \in Steps(walk.of)
    /\ lit' = lit \cup StepNodes(walk.of, i)
    /\ trace' = Append(trace, walk.of)
    /\ log' = walk.of
    /\ walk' = [walk EXCEPT !.played = i]
    /\ UNCHANGED <<tab, setting, asked, rows>>

\* The last timer hands the rows back.
HandBack ==
    /\ walk # NoWalk /\ walk.played + 1 \notin Steps(walk.of)
    /\ trace' = Append(trace, walk.of)
    /\ log' = walk.of
    /\ rows' = [of |-> walk.of, paths |-> Rows(walk.of)]
    /\ walk' = NoWalk
    /\ UNCHANGED <<tab, setting, asked, lit>>

GraphNext == \/ \E t \in Tabs : Mount(t)
             \/ \E ask \in Asks : Change(ask)
             \/ Reset \/ Refuse \/ Run \/ PlayStep \/ HandBack

GraphSpec == GraphInit /\ [][GraphNext]_graphVars

-----------------------------------------------------------------------------
\* The state of the screen has the shape the code gives it.
GraphTypeOK ==
    /\ tab \in Tabs
    /\ setting \in Asks
    /\ {walk.of, asked, log, rows.of} \subseteq Asks \cup {NoAsk}
    /\ walk.played \in 0..MaxHops
    /\ trace \in Seq(Asks)

\* The MATCH clauses: all paths that satisfy the pattern, one row for each.
Match(ask) ==
    CASE ask.tab = "asset" ->
           {path \in UNION {[1..n -> Asset] : n \in 2..(MaxHops + 1)} :
              /\ path[1] = ask.asset_id
              /\ \A i \in 1..(Len(path) - 1) : <<path[i], path[i + 1]>> \in DependsOn}
      [] ask.tab = "supply_chain" ->
           {path \in Part \X WorkOrder \X Asset :
              /\ path[1] \in ask.below_rop_parts
              /\ <<path[2], path[1]>> \in ReplacedPart
              /\ <<path[3], path[2]>> \in HasWorkOrder
              /\ ask.asset_id = EveryMachine \/ path[3] = ask.asset_id}
      [] ask.tab = "safety" ->
           {path \in Operator \X FatigueLog \X Vehicle \X Incident :
              /\ path[1] = ask.operator_id
              /\ <<path[2], path[1]>> \in LoggedFor
              /\ <<path[1], path[3]>> \in Operates
              /\ <<path[3], path[4]>> \in InvolvedIn}

NodesOn(paths) == UNION {{path[i] : i \in DOMAIN path} : path \in paths}

\* "The pattern it walks in the browser is the pattern the deployed agent sends":
\* when a run has come to its end, the table holds the rows of the pattern for the
\* parameters printed above it, and the drawing lights what they go through, with
\* nothing left over from a run before it.
AnswerIsTheMatch ==
    walk = NoWalk /\ asked # NoAsk /\ ~Refused(asked) =>
        /\ rows = [of |-> asked, paths |-> Match(asked)]
        /\ lit = NodesOn(rows.paths) \cup Seed(asked)

\* The words, the drawer's log and the steps still to be played belong to the call
\* that is printed in the drawer, whatever was switched, changed, run again or
\* reset in between, unless that call is one the tool refused; and no step is ever
\* played into the drawing of another graph.
OneWalkOnScreen ==
    /\ walk # NoWalk => walk.of.tab = tab
    /\ ~Refused(asked) =>
         /\ log = asked
         /\ walk # NoWalk => walk.of = asked
         /\ \A i \in DOMAIN trace : trace[i] = asked

\* "Both are written by the same run so neither can describe a walk the other did
\* not take": the trace in words and the raw call in the drawer.
TraceAndCallAgree == \A i \in DOMAIN trace : trace[i] = asked

-----------------------------------------------------------------------------
(* The inductive invariant.                                                *)

\* The controls are those of the tab, and what is walked can be.
ControlsAreOfTab == setting.tab = tab
WalkFits == walk = NoWalk \/ (walk \in [of : Asks, played : 0..MaxHops])

GraphInv == GraphTypeOK /\ OneWalkOnScreen /\ ControlsAreOfTab /\ WalkFits

\* While a walk is played, what is lit is its seed and the steps played so far.
LitSoFar ==
    walk # NoWalk =>
        lit = Seed(walk.of) \cup UNION {StepNodes(walk.of, i) : i \in 1..walk.played}

AnswerInv == GraphInv /\ LitSoFar /\ AnswerIsTheMatch
=============================================================================
