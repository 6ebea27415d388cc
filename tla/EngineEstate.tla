---------------------------- MODULE EngineEstate ----------------------------
(***************************************************************************)
(* The estate of deployed agents and the three scripts that change it:     *)
(* scripts/rebuild_engines.py, register_agents.py and                      *)
(* prune_redundant_engines.py. Each works from a listing taken when it     *)
(* starts, one agent at a time and one remote call at a time; any call may *)
(* be refused, and a run may be interrupted between two of them. One       *)
(* script runs at a time.                                                  *)
(***************************************************************************)
EXTENDS Naturals, Sequences, FiniteSets

CONSTANTS Agent,      \* catalogue ids
          Legacy,     \* engines under a name without a catalogue id
          Twin,       \* the agent that each of them duplicates
          None,       \* no engine, no entry
          Cap,        \* ENGINE_CAP: engines the region holds
          Orders,     \* the --agents lists an operator passes
          MaxBuilds,  \* bound: engines ever built
          MaxRuns     \* bound: script runs

Holder == Agent \cup Legacy

ASSUME HolderAssumption == IsFiniteSet(Agent) /\ IsFiniteSet(Legacy)
ASSUME TwinAssumption == Twin \in [Legacy -> Agent] /\ Agent \cap Legacy = {}
ASSUME NoneAssumption == None \notin [of : Agent \cup Legacy, build : Nat]
ASSUME CapAssumption == Cap \in Nat /\ MaxBuilds \in Nat \ {0} /\ MaxRuns \in Nat
ASSUME OrdersAssumption == Orders \subseteq Seq(Agent)

VARIABLES engines,    \* the engines that exist
          entries,    \* the engines that Gemini Enterprise entries point at
          busy,       \* quota slots held by anything else, a just deleted engine too
          script,     \* the script that runs, or ran last
          at,         \* the call it is about to make
          todo,       \* the agents still to do, the current one first
          seenEngine, \* engines.get(aid) of its listing
          seenEntry,  \* ge.get(aid) of its listing
          built,      \* res: the engine the entry is to point at
          builds,     \* engines built so far: names are never reused
          runs,       \* script runs so far
          asked,      \* what the run was asked to do (history)
          size,       \* engines that existed when it started (history)
          trouble,    \* a call of this run was refused (history)
          missed,     \* whose entry some run could not delete or list (history)
          short,      \* the script and agent that ever stopped for a slot (history)
          twice       \* agents that a register run was asked for twice (history)

world == <<engines, entries, busy, builds, missed>>
run == <<script, todo, seenEngine, seenEntry, runs, asked, size, short, twice>>
estateVars == <<world, run, at, built, trouble>>

Engine == [of : Holder, build : 0..MaxBuilds]

Calls == {"next", "entry", "engine", "slot", "create", "again", "point"}

\* The estate and the running script have the shape the code gives them.
EstateTypeOK ==
    /\ engines \subseteq Engine /\ entries \subseteq Engine
    /\ busy \in 0..Cap
    /\ script \in {"none", "rebuild", "register", "prune"}
    /\ at \in Calls \cup {"idle", "over", "stopped"}
    /\ todo \in Seq(Holder)
    /\ seenEngine \in [Holder -> Engine \cup {None}]
    /\ seenEntry \in [Holder -> Engine \cup {None}]
    /\ built \in Engine \cup {None}
    /\ builds \in 1..MaxBuilds /\ runs \in 0..MaxRuns
    /\ asked \subseteq Holder /\ size \in Nat
    /\ trouble \in BOOLEAN /\ missed \subseteq Holder
    /\ short \subseteq {"rebuild", "register"} \X Agent /\ twice \subseteq Agent

First == {[of |-> h, build |-> 1] : h \in Agent} \cup {[of |-> h, build |-> 0] : h \in Legacy}

EstateInit ==
    /\ engines \in {E \in SUBSET First : Cardinality(E) <= Cap}
    /\ entries \in SUBSET engines
    /\ busy \in 0..(Cap - Cardinality(engines))
    /\ script = "none" /\ at = "idle" /\ todo = <<>>
    /\ seenEngine = [h \in Holder |-> None] /\ seenEntry = [h \in Holder |-> None]
    /\ built = None /\ builds = 1 /\ runs = 0
    /\ asked = {} /\ size = 0 /\ trouble = FALSE
    /\ missed = {} /\ short = {} /\ twice = {}

Has(h) == \E e \in engines : e.of = h
Me == Head(todo)

-----------------------------------------------------------------------------
(* A run starts.                                                           *)

\* Listings are dicts by agent: of several resources of one agent, one is kept.
Listings(S) ==
    {f \in [Holder -> S \cup {None}] :
        \A h \in Holder : IF \E e \in S : e.of = h
                          THEN f[h] # None /\ f[h].of = h ELSE f[h] = None}

\* paged() in register_agents stops the script when a listing fails, so a run of
\* it or of rebuild_engines works from a whole one.
Begin(name, work, listed, shown) ==
    /\ at \in {"idle", "over", "stopped"} /\ runs < MaxRuns
    /\ script' = name /\ at' = "next" /\ runs' = runs + 1
    /\ todo' = work /\ asked' = {work[i] : i \in 1..Len(work)}
    /\ seenEngine' \in Listings(listed)
    /\ seenEntry' \in Listings(shown)
    /\ size' = Cardinality(engines) /\ trouble' = FALSE /\ built' = None
    /\ UNCHANGED <<engines, entries, busy, builds, short>>

StartRebuild ==
    /\ \E work \in Orders : Begin("rebuild", work, engines, entries)
    /\ UNCHANGED <<missed, twice>>

\* Nothing removes an id that --agents names a second time.
Repeated(work) == {work[i] : i \in {i \in 1..Len(work) :
                                       \E j \in 1..(i - 1) : work[j] = work[i]}}

StartRegister ==
    /\ \E work \in Orders : /\ Begin("register", work, engines, entries)
                            /\ twice' = twice \cup Repeated(work)
    /\ UNCHANGED missed

PlanWithoutTwins(listed) == {e.of : e \in listed} \cap Legacy   \* a bug: trusts the names

\* What prune_redundant_engines deletes: the older engines whose twin it has seen.
Plan(listed) == {l \in {e.of : e \in listed} \cap Legacy :
                    \E e \in listed : e.of = Twin[l]}

\* Its own paged() reads a page it was refused as an empty last one.
StartPrune ==
    \E listed \in SUBSET engines, shown \in SUBSET entries :
        LET n == Cardinality(Plan(listed))
        IN /\ \E work \in [1..n -> Plan(listed)] :
                  /\ {work[i] : i \in 1..n} = Plan(listed)
                  /\ Begin("prune", work, listed, shown)
           /\ missed' = missed \cup {e.of : e \in entries \ shown}
    /\ UNCHANGED twice

-----------------------------------------------------------------------------
(* The calls of a run, in order.                                           *)

Go(to) == at' = to /\ UNCHANGED run

\* continue: the loop takes the next agent.
Continue == /\ at' = "next" /\ todo' = Tail(todo)
            /\ UNCHANGED <<script, seenEngine, seenEntry, runs, asked, size, short, twice>>

\* The script ends early: what it has listed goes with it.
Stops == /\ at' = "stopped" /\ trouble' = TRUE /\ todo' = <<>> /\ built' = None
         /\ seenEngine' = [h \in Holder |-> None] /\ seenEntry' = seenEngine'
         /\ UNCHANGED <<world, script, runs, asked, size, twice>>

Finish ==
    /\ at = "next" /\ todo = <<>>
    /\ Go("over") /\ UNCHANGED <<world, built, trouble>>

\* "has no engine -- skipped", and not counted as a failure.
RebuildNext ==
    /\ script = "rebuild" /\ at = "next" /\ todo # <<>>
    /\ IF seenEngine[Me] = None THEN Continue ELSE Go("entry")
    /\ UNCHANGED <<world, built, trouble>>

PruneNext ==
    /\ script = "prune" /\ at = "next" /\ todo # <<>>
    /\ Go("entry") /\ UNCHANGED <<world, built, trouble>>

RegisterNextByEntry ==   \* a bug: takes an entry as proof of an engine
    /\ script = "register" /\ at = "next" /\ todo # <<>>
    /\ IF seenEntry[Me] # None THEN Continue /\ UNCHANGED built
       ELSE IF seenEngine[Me] # None THEN Go("point") /\ built' = seenEngine[Me]
       ELSE Go("slot") /\ UNCHANGED built
    /\ UNCHANGED <<world, trouble>>

\* An agent that carries an engine is not given a second one.
RegisterNext ==
    /\ script = "register" /\ at = "next" /\ todo # <<>>
    /\ IF seenEngine[Me] # None THEN Go("point") /\ built' = seenEngine[Me]
       ELSE Go("slot") /\ UNCHANGED built
    /\ UNCHANGED <<world, trouble>>

DeleteEntryAfter ==      \* a bug: the engine goes first, its entry afterwards
    /\ at = "entry" /\ seenEngine[Me] \in engines
    /\ engines' = engines \ {seenEngine[Me]} /\ busy' = busy + 1
    /\ Go("engine") /\ UNCHANGED <<entries, missed, trouble, builds, built>>

\* DELETE of the entry, if the listing has one. Its result is not looked at.
DeleteEntry ==
    /\ at = "entry"
    /\ \/ /\ entries' = entries \ {seenEntry[Me]}
          /\ UNCHANGED <<missed, trouble>>
       \/ /\ seenEntry[Me] # None
          /\ missed' = missed \cup {Me} /\ trouble' = TRUE
          /\ UNCHANGED entries
    /\ Go("engine") /\ UNCHANGED <<engines, busy, builds, built>>

\* DELETE of the engine. Its quota slot is not free yet.
DeleteEngine ==
    /\ at = "engine" /\ seenEngine[Me] \in engines
    /\ engines' = engines \ {seenEngine[Me]} /\ busy' = busy + 1
    /\ IF script = "rebuild" THEN Go("slot") ELSE Continue
    /\ UNCHANGED <<entries, builds, missed, built, trouble>>

DeleteRefusedIgnored ==  \* a bug: builds although the old engine is still there
    /\ at = "engine"
    /\ IF script = "rebuild" THEN Go("slot") ELSE Continue
    /\ trouble' = TRUE /\ UNCHANGED <<world, built>>

\* "delete failed -- leaving this agent alone".
DeleteRefused ==
    /\ at = "engine"
    /\ Continue /\ trouble' = TRUE /\ UNCHANGED <<world, built>>

\* create_engine polls the listing, which may or may not still show what was
\* deleted, until it is below the cap; a listing that fails ends the wait too.
SlotFree ==
    /\ at = "slot"
    /\ Go("create") /\ UNCHANGED <<world, built, trouble>>

\* Seven polls and no slot: SystemExit, which no except clause stops.
NoSlot ==
    /\ at = "slot" /\ Cardinality(engines) + busy >= Cap
    /\ Stops /\ short' = short \cup {<<script, Me>>}

\* The service's own check, which a create that comes too early fails.
Room == Cardinality(engines) + busy < Cap

\* agent_engines.create(), the first time or the second.
Create ==
    /\ at \in {"create", "again"} /\ Room /\ builds < MaxBuilds
    /\ built' = [of |-> Me, build |-> builds + 1]
    /\ builds' = builds + 1
    /\ engines' = engines \cup {built'}
    /\ Go("point") /\ UNCHANGED <<entries, busy, missed, trouble>>

\* ResourceExhausted, the first time: one more try.
Exhausted ==
    /\ at = "create" /\ ~Room
    /\ Go("again") /\ UNCHANGED <<world, built, trouble>>

\* Exhausted again, or any other exception: rebuild_engines catches it and goes
\* on, register_agents does not.
CreateFails ==
    /\ at = "create" \/ at = "again"
    /\ IF script = "rebuild" THEN Continue /\ trouble' = TRUE /\ UNCHANGED <<world, built>>
       ELSE Stops /\ UNCHANGED short

\* create_ge_entry; register_agents leaves an agent alone that has an entry.
Point ==
    /\ at = "point"
    /\ IF script = "register" /\ seenEntry[Me] # None THEN UNCHANGED <<entries, trouble>>
       ELSE \/ entries' = entries \cup {built} /\ UNCHANGED trouble
            \/ trouble' = TRUE /\ UNCHANGED entries
    /\ Continue /\ UNCHANGED <<engines, busy, builds, missed, built>>

\* Ctrl-C, or a call that got no answer at all (api() catches HTTPError alone).
Interrupt ==
    /\ at \in Calls
    /\ Stops /\ UNCHANGED short

-----------------------------------------------------------------------------
(* Everything else that uses the region.                                   *)

\* The slot of a deleted engine, or of another consumer's, becomes free.
Release ==
    /\ busy > 0 /\ busy' = busy - 1
    /\ UNCHANGED <<engines, entries, builds, missed, run, at, built, trouble>>

Take ==
    /\ Room /\ busy' = busy + 1
    /\ UNCHANGED <<engines, entries, builds, missed, run, at, built, trouble>>

EstateNext ==
    \/ StartRebuild \/ StartRegister \/ StartPrune
    \/ Finish \/ RebuildNext \/ PruneNext \/ RegisterNext
    \/ DeleteEntry \/ DeleteEngine \/ DeleteRefused
    \/ SlotFree \/ NoSlot \/ Create \/ Exhausted \/ CreateFails \/ Point
    \/ Interrupt \/ Release \/ Take

EstateSpec == EstateInit /\ [][EstateNext]_estateVars

-----------------------------------------------------------------------------
(* Properties.                                                             *)

\* Idempotent scripts: whatever was refused or interrupted before, no run gives
\* an agent a second engine, but where one list named the agent twice.
OneEngineEach ==
    \A e, f \in engines : e.of = f.of => e = f \/ e.of \in twice

\* "Each agent is deleted and rebuilt in place, which keeps the count flat and
\* means an interrupted run leaves the estate smaller, never over quota."
EstateNeverGrows ==
    /\ script \in {"rebuild", "prune"} => Cardinality(engines) <= size
    /\ Cardinality(engines) + busy <= Cap

\* The assistant holds no reference to an engine that was deleted, but where a
\* run was refused the deletion of the entry or its listing, or where an agent
\* was given two engines.
OnlyMissedDangle == \A e \in entries : e \in engines \/ e.of \in missed \cup twice

\* The same without the excuse, as rebuild_engines and prune_redundant_engines
\* say of themselves.
NothingDangles == entries \subseteq engines

\* What a script is to achieve for one agent.
Served(h) ==
    /\ script = "register" => Has(h) /\ \E e \in entries : e.of = h
    /\ script = "rebuild" /\ seenEngine[h] # None =>
           \E e \in engines \cap entries : e.of = h /\ e # seenEngine[h]
    /\ script = "prune" => ~Has(h)

\* A run in which every call succeeded has done what it was asked: register gave
\* each agent an engine and an entry, and rebuild a new engine and an entry that
\* points at it.
CleanRunCompletes == at = "over" /\ ~trouble => \A h \in asked : Served(h)

\* "The estate may be short an agent -- re-run to finish it": a later run of the
\* same script that is asked for that agent, and is refused nothing, has given it
\* an engine.
ReRunFinishes ==
    at = "over" /\ ~trouble => \A h \in asked : <<script, h>> \in short => Has(h)

\* "An engine whose catalogue twin is missing is refused, not deleted": when a
\* duplicate goes, the agent it duplicates is there.
TwinIsKept ==
    [][\A l \in Legacy : Has(l) /\ ~Has(l)' => Has(Twin[l])']_estateVars

-----------------------------------------------------------------------------
(* Why they hold. A run trusts listings that grow old while it works: what *)
(* matters is how each stays true of the agents that are still to do.      *)

Left == {todo[i] : i \in 1..Len(todo)}
Building == at \in {"slot", "create", "again"}

\* Each script makes only its own calls, for agents of its own kind.
WorkFits ==
    /\ at = "over" => todo = <<>>
    /\ at \in Calls =>
          /\ at # "next" => todo # <<>>
          /\ at \in {"entry", "engine"} => script \in {"rebuild", "prune"}
          /\ Building \/ at = "point" => script \in {"rebuild", "register"}
          /\ script \in {"rebuild", "register"} => todo \in Seq(Agent)
          /\ script = "prune" => todo \in Seq(Legacy) /\ \A h \in Left : Has(Twin[h])

\* Listings file a resource under its agent; a name built later is in none.
NamesAreNew ==
    /\ \A e \in engines \cup entries : e.build <= builds
    /\ \A h \in Holder : \A e \in {seenEngine[h], seenEntry[h]} :
          e # None => e.of = h /\ e.build <= builds

\* register_agents deletes nothing, so what it saw is still there; and what it
\* did not see is not, unless it has just built it.
RegisterSees ==
    script = "register" /\ at \in Calls =>
        /\ \A h \in Holder : /\ seenEngine[h] # None => seenEngine[h] \in engines
                             /\ seenEntry[h] # None => seenEntry[h] \in entries
        /\ \A i \in 1..Len(todo) :
              (seenEngine[todo[i]] = None /\ Has(todo[i])) =>
                  (todo[i] \in twice \/ (at = "point" /\ i = 1))
        /\ \A i, j \in 1..Len(todo) : i # j /\ todo[i] = todo[j] => todo[i] \in twice

\* rebuild_engines has deleted what it replaces before it builds.
RebuildReplaces ==
    /\ script = "rebuild" /\ (Building \/ at = "point") => seenEngine[Me] \notin engines
    /\ Building => ~Has(Me) \/ Me \in twice
    /\ at = "point" => built \in engines /\ built.of = Me

\* The entry that a run has listed is the one that would dangle.
EntryIsKnown ==
    script \in {"rebuild", "prune"} /\ at \in Calls =>
        \A h \in Holder \ (missed \cup twice), e \in entries :
            seenEngine[h] \in engines /\ e.of = h =>
                e = seenEntry[h] /\ ~(at = "engine" /\ h = Me)

\* The slot of the engine that was deleted is the one that is built in.
InPlace ==
    /\ EstateNeverGrows
    /\ script = "rebuild" /\ Building => Cardinality(engines) < size

\* An agent that a run without trouble is done with has been served.
ServedSoFar ==
    at \in Calls \cup {"over"} /\ ~trouble => \A h \in asked \ Left : Served(h)

EstateInv ==
    /\ EstateTypeOK /\ WorkFits /\ NamesAreNew /\ OneEngineEach
    /\ RegisterSees /\ RebuildReplaces /\ EntryIsKnown /\ OnlyMissedDangle
    /\ IsFiniteSet(engines) /\ InPlace /\ ServedSoFar
=============================================================================
