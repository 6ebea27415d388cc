------------------------------- MODULE Router -------------------------------
(***************************************************************************)
(* Which of a persona's agents takes a question, and the questions that    *)
(* the role page offers: apps/workspace/router.js.                         *)
(*                                                                         *)
(* A word is a model value and a stop word is no word; a phrase is the     *)
(* sequence of its words.  A capability is what an agent declares, and its *)
(* words are those of its plain phrase and of its id.                      *)
(***************************************************************************)
EXTENDS Naturals, Sequences, FiniteSets, SequencesExt

CONSTANTS Word,
          Traversals, Tables,  \* the capabilities, each in the order of declaration
          OtherTerms,          \* agent -> its names, then its tools and branches
          WeightOf,            \* WEIGHT, of a capability or another term
          WordsOf,             \* tokens(term.plain) and tokens(term.id)
          QuestionOf,          \* capability -> the words of the question made of it
          Listed,              \* persona.agents, each a number in the order of ids
          Coordinators,        \* those with swarm_role "coordinator"
          Methods,             \* <<its governing question>> if it has a method pack
          Backstops,           \* the three generic questions
          Catalogues           \* bound: the declarations that are looked at

Agent == DOMAIN Listed
Capability == ToSet(Traversals) \cup ToSet(Tables)
OtherTerm == UNION {ToSet(OtherTerms[a]) : a \in Agent}
IsSeq(s) == s \in Seq(ToSet(s))

ASSUME AgentsAssumption ==
    /\ Listed \in Seq(Nat) /\ Listed # <<>> /\ ToSet(Listed) = DOMAIN Listed
    /\ Coordinators \subseteq Agent
\* The weights of WEIGHT, and the order in which termsFor pushes the kinds.
ASSUME TermsAssumption ==
    /\ IsSeq(Traversals) /\ IsSeq(Tables) /\ (\A a \in Agent : IsSeq(OtherTerms[a]))
    /\ (\A t \in ToSet(Traversals) : WeightOf[t] = 4)
    /\ (\A t \in ToSet(Tables) : WeightOf[t] = 3)
    /\ (\A t \in OtherTerm : WeightOf[t] \in {1, 2})
    /\ \A a \in Agent : \A i, j \in DOMAIN OtherTerms[a] :
         i <= j => WeightOf[OtherTerms[a][i]] >= WeightOf[OtherTerms[a][j]]
ASSUME WordsAssumption == IsFiniteSet(Word) /\ \A c \in Capability : QuestionOf[c] \subseteq Word
ASSUME QuestionsAssumption ==
    /\ IsSeq(Methods) /\ Len(Methods) <= 1 /\ IsSeq(Backstops) /\ Len(Backstops) = 3
    /\ (\A i, j \in DOMAIN Backstops : i # j => Backstops[i] # Backstops[j])
    /\ (ToSet(Methods) \cup ToSet(Backstops)) \cap Capability = {}
    /\ ToSet(Methods) \cap ToSet(Backstops) = {}
ASSUME CataloguesAssumption == Catalogues \subseteq [Agent -> SUBSET Capability]

VARIABLES declared,   \* agent -> the capabilities it declares
          starters,   \* the questions offered, and the agent each derives from
          spoken,      \* the words of the reader's question
          routed      \* what route() answered

routerVars == <<declared, starters, spoken, routed>>

NoAgent == 0
NotAsked == [agent |-> NoAgent, runners |-> <<>>]

-----------------------------------------------------------------------------
\* The members of s that are in T, in their order.
Only(s, T) ==
    LET kept[i \in 0..Len(s)] ==
          IF i = 0 THEN <<>>
          ELSE IF s[i] \in T THEN Append(kept[i - 1], s[i]) ELSE kept[i - 1]
    IN  kept[Len(s)]

\* termsFor: traversals, tables, then the terms of lesser weight.
TermsFor(caps, a) == Only(Traversals, caps[a]) \o Only(Tables, caps[a]) \o OtherTerms[a]

ScoreAgentTwice(question, caps, a) ==    \* a bug: a word scores with every term
    LET terms == TermsFor(caps, a)
        total[i \in 0..Len(terms)] ==
          IF i = 0 THEN 0
          ELSE total[i - 1]
                 + WeightOf[terms[i]] * Cardinality(question \cap WordsOf[terms[i]])
    IN  total[Len(terms)]

\* scoreAgent: a word of the question scores with the first term that has it.
ScoreAgent(question, caps, a) ==
    LET terms == TermsFor(caps, a)
        hits(i) == {w \in question \cap WordsOf[terms[i]] :
                      \A j \in 1..(i - 1) : w \notin WordsOf[terms[j]]}    \* asked.delete(word)
        total[i \in 0..Len(terms)] ==
          IF i = 0 THEN 0 ELSE total[i - 1] + WeightOf[terms[i]] * Cardinality(hits(i))
    IN  total[Len(terms)]

Scores(question, caps) == [a \in Agent |-> ScoreAgent(question, caps, a)]

\* _better, of agents with these scores.
Better(score, a, b) ==
    IF score[a] # score[b] THEN score[a] > score[b]
    ELSE IF (a \in Coordinators) # (b \in Coordinators) THEN a \in Coordinators
    ELSE a < b

\* The best of the persona's agents, and up to three that also scored.
Winner(score) ==
    LET winner[i \in 0..Len(Listed)] ==
          IF i = 0 THEN Listed[1]
          ELSE LET held == winner[i - 1]
               IN  IF Better(score, Listed[i], held) THEN Listed[i] ELSE held
    IN  winner[Len(Listed)]

Ahead(score, a, b) == score[a] > score[b] \/ (score[a] = score[b] /\ a < b)
Foremost(score, S) == CHOOSE a \in S : \A b \in S \ {a} : Ahead(score, a, b)

RunnersUp(score, winner) ==
    LET others == {a \in Agent \ {winner} : score[a] > 0}
        count == IF Cardinality(others) < 3 THEN Cardinality(others) ELSE 3
        left[i \in 0..count] ==
          IF i = 0 THEN others
          ELSE LET held == left[i - 1] IN held \ {Foremost(score, held)}
    IN  [i \in 1..count |-> Foremost(score, left[i - 1])]

Route(question, caps) ==
    LET score == Scores(question, caps)
    IN  [agent |-> Winner(score), runners |-> RunnersUp(score, Winner(score))]

-----------------------------------------------------------------------------
(* _starterItems.                                                          *)

Declaring(caps, c) == {a \in Agent : c \in caps[a]}

\* _candidateQuestions: traversals, then tables, that one agent or several declare.
Pool(caps, a, shared) ==
    Only(Traversals \o Tables,
         {c \in caps[a] : (Cardinality(Declaring(caps, c)) > 1) = shared})

Derived(c, a) == [kind |-> "derived", of |-> c, agent |-> a]
Underived(k, questions) ==
    [i \in DOMAIN questions |-> [kind |-> k, of |-> questions[i], agent |-> NoAgent]]

\* What tryPool asks of a candidate: there is room, it is new, and it routes back to
\* the agent that it came from.
Fresh(chosen, item) ==
    Len(chosen) < 3 /\ \A i \in DOMAIN chosen : chosen[i].of # item.of
TryUnchecked(caps, chosen, item) ==    \* a bug: no candidate is routed back
    IF Fresh(chosen, item) THEN Append(chosen, item) ELSE chosen
Try(caps, chosen, item) ==
    IF Fresh(chosen, item) /\ Route(QuestionOf[item.of], caps).agent = item.agent
    THEN Append(chosen, item) ELSE chosen

\* The candidates at one depth of the pools, agent by agent.
TryRow(caps, chosen, shared, depth) ==
    LET tried[i \in 0..Len(Listed)] ==
          IF i = 0 THEN chosen
          ELSE LET held == tried[i - 1]
                   pool == Pool(caps, Listed[i], shared)
               IN  IF depth > Len(pool) THEN held
                   ELSE Try(caps, held, Derived(pool[depth], Listed[i]))
    IN  tried[Len(Listed)]

\* tryPool: the first of each agent's pool, then the second of each, and so on.
TryPool(caps, chosen, shared) ==
    LET rows == Len(Traversals) + Len(Tables)
        tried[depth \in 0..rows] ==
          IF depth = 0 THEN chosen ELSE TryRow(caps, tried[depth - 1], shared, depth)
    IN  tried[rows]

StarterItems(caps) ==
    LET governing == Underived("method", Methods)
        tried == TryPool(caps, TryPool(caps, governing, FALSE), TRUE)
    IN  SubSeq(tried \o Underived("generic", Backstops), 1, 3)

-----------------------------------------------------------------------------
RouterInit ==
    /\ declared = [a \in Agent |-> {}] /\ starters = <<>>
    /\ spoken = {} /\ routed = NotAsked

\* The role page opens on a persona of some catalogue.
OpenRole(caps) ==
    /\ starters = <<>>
    /\ declared' = caps /\ starters' = StarterItems(caps)
    /\ UNCHANGED <<spoken, routed>>

\* The reader asks, and the page routes the question before it streams an answer.
\* Routing keeps nothing, so one question of each page is enough.
AskRole(question) ==
    /\ starters # <<>> /\ routed = NotAsked
    /\ spoken' = question /\ routed' = Route(question, declared)
    /\ UNCHANGED <<declared, starters>>

RouterNext == \/ \E caps \in Catalogues : OpenRole(caps)
              \/ \E question \in SUBSET Word : AskRole(question)

RouterSpec == RouterInit /\ [][RouterNext]_routerVars

-----------------------------------------------------------------------------
RouterTypeOK ==
    /\ declared \in [Agent -> SUBSET Capability] /\ spoken \subseteq Word
    /\ Len(starters) \in {0, 3}
    /\ routed.agent \in Agent \cup {NoAgent} /\ routed.runners \in Seq(Agent)

\* What a question is worth to an agent: each of its words counts once, at the
\* weight of the strongest term of the agent that has it.
Heavy(question, caps, a, k) ==    \* its words with a term of weight k or more
    {w \in question : \E t \in ToSet(TermsFor(caps, a)) : WeightOf[t] >= k /\ w \in WordsOf[t]}
Worth(question, caps, a) ==
    Cardinality(Heavy(question, caps, a, 1)) + Cardinality(Heavy(question, caps, a, 2))
      + Cardinality(Heavy(question, caps, a, 3)) + Cardinality(Heavy(question, caps, a, 4))

\* "Total and stable": no agent of the persona is worth more than the one that is
\* asked, "ties break toward the swarm coordinator, then toward the lowest agent
\* id", and the buttons beside it offer the next best, in order and never an agent
\* that the question says nothing to.
PickIsBest ==
    routed # NotAsked =>
      LET worth == [a \in Agent |-> Worth(spoken, declared, a)]
          picked == routed.agent
          offered == ToSet(routed.runners)
      IN  /\ \A a \in Agent \ {picked} :
               \/ worth[a] < worth[picked]
               \/ /\ worth[a] = worth[picked]
                  /\ a \in Coordinators => picked \in Coordinators
                  /\ (a \in Coordinators <=> picked \in Coordinators) => picked < a
          /\ picked \notin offered
          /\ \A a \in offered : worth[a] > 0
          /\ \A i, j \in DOMAIN routed.runners :
               i < j => Ahead(worth, routed.runners[i], routed.runners[j])
          /\ \A a \in Agent \ (offered \cup {picked}) :
               worth[a] > 0 => /\ Len(routed.runners) = 3
                               /\ \A b \in offered : worth[b] >= worth[a]

\* "A starter that did not route to the agent it came from would teach the reader
\* the wrong thing": asked as it stands, each derived starter goes to its agent; no
\* question is offered twice; a capability that an agent shares is offered only when
\* the agents have no more of their own that route back.
StartersRouteBack ==
    /\ \A i \in DOMAIN starters : starters[i].kind = "derived" =>
         LET own(j) == ToSet(Pool(declared, starters[j].agent, FALSE)) IN
         /\ Route(QuestionOf[starters[i].of], declared).agent = starters[i].agent
         /\ starters[i].of \in declared[starters[i].agent]
         /\ starters[i].of \notin own(i) =>
              \A j \in DOMAIN starters : j > i /\ starters[j].kind = "derived" =>
                 starters[j].of \notin own(j)
    /\ \A i, j \in DOMAIN starters : i # j => starters[i].of # starters[j].of

\* What the page shows is what the declarations of its agents make of it.
RouterInv ==
    /\ RouterTypeOK /\ PickIsBest /\ StartersRouteBack
    /\ starters = <<>> => routed = NotAsked
=============================================================================
