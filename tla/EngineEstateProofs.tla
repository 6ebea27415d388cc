------------------------- MODULE EngineEstateProofs -------------------------
(***************************************************************************)
(* What the estate scripts guarantee for any catalogue, quota and number   *)
(* of runs.                                                                *)
(***************************************************************************)
EXTENDS EngineEstate, FiniteSetTheorems, SequenceTheorems, TLAPS

-----------------------------------------------------------------------------
(* Engines, listings and lists of agents.                                  *)

\* The estate before the first run is finite: a holder has one engine at most.
LEMMA FirstIsFinite == IsFiniteSet(First)
<1> DEFINE Name == [e \in First |-> e.of]
<1>1. IsFiniteSet(Holder)
  BY HolderAssumption, FS_Union DEF Holder
<1>2. Name \in Injection(First, Holder)
  <2>1. Name \in [First -> Holder]
    BY DEF First, Holder
  <2>2. ASSUME NEW e \in First, NEW f \in First, e.of = f.of PROVE e = f
    BY <2>2, TwinAssumption DEF First
  <2>3. QED
    BY <2>1, <2>2 DEF Injection, IsInjective
<1>3. QED
  BY <1>1, <1>2, FS_Injection

\* A dict keyed by agent shows one resource of each agent that has one.
LEMMA ListingShows ==
  ASSUME NEW S \in SUBSET Engine, NEW f \in Listings(S)
  PROVE  /\ f \in [Holder -> Engine \cup {None}]
         /\ \A h \in Holder : f[h] # None => f[h] \in S /\ f[h].of = h
         /\ \A h \in Holder : f[h] = None => \A e \in S : e.of # h
  BY DEF Listings

\* The loop over the agents takes the first and leaves the others in order.
LEMMA NextAgent ==
  ASSUME NEW S, todo \in Seq(S), todo # <<>>
  PROVE  /\ Me \in S /\ Me = todo[1] /\ 1 \in 1..Len(todo)
         /\ Tail(todo) \in Seq(S)
         /\ \A i \in 1..Len(Tail(todo)) :
               i + 1 \in 1..Len(todo) /\ Tail(todo)[i] = todo[i + 1]
         /\ \A i \in 1..Len(todo) : i = 1 \/ i - 1 \in 1..Len(Tail(todo))
  BY HeadTailProperties DEF Me

\* None is not the name of an engine.
LEMMA NoneIsNoEngine == None \notin Engine
  BY NoneAssumption, CapAssumption DEF Engine, Holder

\* No script is running.
LEMMA InitEstateInv == EstateInit => EstateInv
<1> SUFFICES ASSUME EstateInit PROVE EstateInv
  OBVIOUS
<1> USE DEF EstateInit
<1>1. First \subseteq Engine
  BY CapAssumption DEF First, Engine, Holder
<1>2. IsFiniteSet(engines) /\ Cardinality(engines) \in Nat /\ Cardinality(engines) <= Cap
  BY FirstIsFinite, FS_Subset, FS_CardinalityType
<1>3. EstateTypeOK
  <2>1. engines \subseteq Engine /\ entries \subseteq Engine /\ busy \in 0..Cap
    BY <1>1, <1>2, CapAssumption
  <2>2. builds \in 1..MaxBuilds /\ runs \in 0..MaxRuns
    BY CapAssumption
  <2>3. /\ script \in {"none"} /\ at = "idle" /\ todo \in Seq(Holder)
        /\ seenEngine \in [Holder -> Engine \cup {None}]
        /\ seenEntry \in [Holder -> Engine \cup {None}]
        /\ built \in Engine \cup {None}
    OBVIOUS
  <2>4. /\ asked \subseteq Holder /\ size \in Nat /\ trouble \in BOOLEAN
        /\ missed \subseteq Holder
    OBVIOUS
  <2>5. short \subseteq {"rebuild", "register"} \X Agent /\ twice \subseteq Agent
    OBVIOUS
  <2>6. QED
    BY <2>1, <2>2, <2>3, <2>4, <2>5 DEF EstateTypeOK, Calls
<1>4. WorkFits /\ RegisterSees /\ RebuildReplaces /\ EntryIsKnown /\ ServedSoFar
  BY DEF WorkFits, RegisterSees, RebuildReplaces, EntryIsKnown, ServedSoFar, Calls, Building
<1>5. NamesAreNew
  <2>1. \A e \in First : e.build <= 1
    BY DEF First
  <2>2. QED
    BY <2>1 DEF NamesAreNew
<1>6. OneEngineEach
  BY TwinAssumption DEF OneEngineEach, First
<1>7. OnlyMissedDangle
  BY DEF OnlyMissedDangle
<1>8. InPlace
  BY <1>2, CapAssumption DEF InPlace, EstateNeverGrows, Building
<1>9. QED
  BY <1>2, <1>3, <1>4, <1>5, <1>6, <1>7, <1>8 DEF EstateInv

-----------------------------------------------------------------------------
(* Steps that wait, end or stop a run, and other users of the region.      *)

\* The end of a run, and the wait for a slot, met or not.
LEMMA WaitKeepsEstateInv ==
  ASSUME EstateInv, Finish \/ SlotFree \/ Exhausted
  PROVE  EstateInv'
<1> USE DEF EstateInv
<1>1. /\ UNCHANGED <<world, built, run, trouble>>
      /\ \/ at = "next" /\ todo = <<>> /\ at' = "over"
         \/ Building /\ at' = "create"
         \/ Building /\ at' = "again"
  BY DEF Finish, SlotFree, Exhausted, Go, Building
<1>2. EstateTypeOK'
  BY <1>1 DEF EstateTypeOK, world, run, Building, Calls
<1>3. WorkFits'
  BY <1>1 DEF WorkFits, world, run, Building, Calls, Left, Has
<1>4. NamesAreNew' /\ OneEngineEach' /\ OnlyMissedDangle' /\ IsFiniteSet(engines)'
  BY <1>1 DEF NamesAreNew, OneEngineEach, OnlyMissedDangle, world, run
<1>5. RegisterSees' /\ EntryIsKnown'
  BY <1>1 DEF RegisterSees, EntryIsKnown, world, run, Building, Calls, Has, Me
<1>6. RebuildReplaces'
  BY <1>1 DEF RebuildReplaces, world, run, Building, Has, Me
<1>7. InPlace'
  BY <1>1 DEF InPlace, world, run, EstateNeverGrows, Building
<1>8. ServedSoFar'
  BY <1>1 DEF ServedSoFar, world, run, Left, Served, Has, Building, Calls
<1>9. QED
  BY <1>2, <1>3, <1>4, <1>5, <1>6, <1>7, <1>8

\* A script that stops leaves the estate as it is, whatever it was about to do.
LEMMA StopKeepsEstateInv ==
  ASSUME EstateInv, NoSlot \/ (CreateFails /\ script # "rebuild") \/ Interrupt
  PROVE  EstateInv'
<1> USE DEF EstateInv
<1>1. Stops
  BY DEF NoSlot, CreateFails, Interrupt
<1>2. short' \subseteq {"rebuild", "register"} \X Agent
  <2>1. CASE NoSlot
    <3>1. script \in {"rebuild", "register"} /\ todo \in Seq(Agent) /\ todo # <<>>
      BY <2>1 DEF NoSlot, WorkFits, Building, Calls
    <3>2. Me \in Agent
      BY <3>1, NextAgent
    <3>3. QED
      BY <2>1, <3>1, <3>2 DEF NoSlot, EstateTypeOK
  <2>2. CASE ~NoSlot
    BY <2>2 DEF CreateFails, Interrupt, EstateTypeOK
  <2>3. QED
    BY <2>1, <2>2
<1>3. EstateTypeOK'
  BY <1>1, <1>2 DEF Stops, world, EstateTypeOK
<1>4. NamesAreNew'
  BY <1>1 DEF Stops, world, NamesAreNew
<1>5. WorkFits' /\ OneEngineEach' /\ OnlyMissedDangle' /\ IsFiniteSet(engines)'
  BY <1>1 DEF Stops, world, WorkFits, Calls, OneEngineEach, OnlyMissedDangle
<1>6. RegisterSees' /\ EntryIsKnown' /\ RebuildReplaces' /\ InPlace' /\ ServedSoFar'
  BY <1>1 DEF Stops, world, RegisterSees, EntryIsKnown, RebuildReplaces, InPlace,
       EstateNeverGrows, ServedSoFar, Building, Calls
<1>7. QED
  BY <1>3, <1>4, <1>5, <1>6

\* Slots that others take and release.
LEMMA OthersKeepEstateInv ==
  ASSUME EstateInv, Release \/ Take
  PROVE  EstateInv'
<1> USE DEF EstateInv
<1>1. /\ UNCHANGED <<engines, entries, builds, missed, run, at, built, trouble>>
      /\ Cardinality(engines) \in Nat
  BY FS_CardinalityType DEF Release, Take
<1>2. busy' \in 0..Cap /\ Cardinality(engines) + busy' <= Cap
  <2>1. CASE Release
    BY <1>1, <2>1, CapAssumption DEF Release, EstateTypeOK, InPlace, EstateNeverGrows
  <2>2. CASE Take
    BY <1>1, <2>2, CapAssumption DEF Take, Room, EstateTypeOK
  <2>3. QED
    BY <2>1, <2>2
<1>3. EstateTypeOK'
  BY <1>1, <1>2 DEF EstateTypeOK, run
<1>4. InPlace'
  BY <1>1, <1>2 DEF InPlace, EstateNeverGrows, Building, run
<1>5. WorkFits' /\ NamesAreNew' /\ OneEngineEach' /\ RegisterSees' /\ RebuildReplaces'
  BY <1>1 DEF run, WorkFits, Left, Building, Has, NamesAreNew, OneEngineEach,
       RegisterSees, RebuildReplaces, Me
<1>6. EntryIsKnown' /\ OnlyMissedDangle' /\ ServedSoFar'
  BY <1>1 DEF run, EntryIsKnown, OnlyMissedDangle, ServedSoFar, Left, Served, Has, Me
<1>7. QED
  BY <1>1, <1>3, <1>4, <1>5, <1>6

-----------------------------------------------------------------------------
(* The calls of a run.                                                     *)

\* An agent of a running script is one of the holders, and the first to do.
LEMMA MeIsToDo ==
  ASSUME EstateInv, at \in Calls, todo # <<>>
  PROVE  /\ Me \in Holder /\ Me \in Left /\ Me = todo[1]
         /\ script \in {"rebuild", "register"} => Me \in Agent
         /\ script = "prune" => Me \in Legacy /\ Has(Twin[Me])
<1>1. Me \in Holder /\ Me = todo[1] /\ Me \in Left
  BY NextAgent DEF EstateInv, EstateTypeOK, Left
<1>2. script \in {"rebuild", "register"} => Me \in Agent
  BY NextAgent DEF EstateInv, WorkFits
<1>3. script = "prune" => Me \in Legacy /\ Has(Twin[Me])
  BY <1>1, NextAgent DEF EstateInv, WorkFits
<1>4. QED
  BY <1>1, <1>2, <1>3

\* An entry is deleted before its engine is.
LEMMA DeleteEntryKeepsEstateInv ==
  ASSUME EstateInv, DeleteEntry
  PROVE  EstateInv'
<1> USE DEF EstateInv
<1>1. /\ at = "entry" /\ at' = "engine" /\ todo # <<>> /\ script \in {"rebuild", "prune"}
      /\ UNCHANGED <<engines, busy, builds, built, run>>
      /\ entries' \subseteq entries /\ missed \subseteq missed'
      /\ \/ entries' = entries \ {seenEntry[Me]} /\ missed' = missed /\ trouble' = trouble
         \/ entries' = entries /\ missed' = missed \cup {Me} /\ trouble' = TRUE
  BY DEF DeleteEntry, Go, WorkFits, Calls, Building
<1>2. Me \in Holder /\ Me \in Left
  BY <1>1, MeIsToDo DEF Calls
<1>3. EstateTypeOK'
  BY <1>1, <1>2 DEF EstateTypeOK, run, Calls
<1>4. WorkFits' /\ NamesAreNew' /\ OneEngineEach' /\ RegisterSees' /\ RebuildReplaces'
  BY <1>1 DEF run, WorkFits, Calls, Left, Building, Has, NamesAreNew, OneEngineEach,
       RegisterSees, RebuildReplaces, Me
<1>5. EntryIsKnown'
  BY <1>1 DEF EntryIsKnown, run, Calls, Me
<1>6. OnlyMissedDangle' /\ InPlace'
  BY <1>1 DEF OnlyMissedDangle, InPlace, EstateNeverGrows, Building, run
<1>7. ServedSoFar'
  <2>1. ASSUME ~trouble', NEW h \in asked, h \notin Left PROVE Served(h)'
    <3>1. Served(h) /\ entries' = entries \ {seenEntry[Me]} /\ h # Me /\ ~trouble
      BY <1>1, <1>2, <2>1 DEF ServedSoFar, Calls
    <3>2. seenEntry[Me] # None => seenEntry[Me].of = Me
      BY <1>2 DEF NamesAreNew
    <3>3. \A e \in entries : e.of = h => e \in entries'
      BY <3>1, <3>2, NoneIsNoEngine DEF EstateTypeOK
    <3>4. QED
      BY <1>1, <3>1, <3>3 DEF Served, Has, run
  <2>2. QED
    BY <1>1, <2>1 DEF ServedSoFar, Left, run
<1>8. QED
  BY <1>1, <1>3, <1>4, <1>5, <1>6, <1>7

\* A build in a slot that is free.
LEMMA CreateKeepsEstateInv ==
  ASSUME EstateInv, Create
  PROVE  EstateInv'
<1> USE DEF EstateInv
<1>1. /\ at \in {"create", "again"} /\ at' = "point" /\ todo # <<>> /\ Building
      /\ script \in {"rebuild", "register"} /\ builds < MaxBuilds /\ Room
      /\ UNCHANGED <<entries, busy, missed, trouble, run>>
      /\ built' = [of |-> Me, build |-> builds + 1] /\ builds' = builds + 1
      /\ engines' = engines \cup {built'}
  BY DEF Create, Go, WorkFits, Calls, Building
<1>2. Me \in Holder /\ Me \in Left /\ Me = todo[1] /\ Me \in Agent
  BY <1>1, MeIsToDo DEF Calls
<1>3. built' \in Engine /\ built'.of = Me /\ built'.build = builds + 1
  BY <1>1, <1>2, CapAssumption DEF Engine, EstateTypeOK
<1>4. built' \notin engines /\ \A h \in Holder : seenEngine[h] # built'
  <2>1. \A e \in engines : e.build # builds + 1
    BY DEF NamesAreNew, EstateTypeOK, Engine
  <2>2. ASSUME NEW h \in Holder PROVE seenEngine[h] # built'
    <3>1. CASE seenEngine[h] = None
      BY <1>3, <3>1, NoneIsNoEngine
    <3>2. CASE seenEngine[h] # None
      <4>1. seenEngine[h].build <= builds /\ seenEngine[h].build \in Nat
        BY <3>2, CapAssumption DEF NamesAreNew, EstateTypeOK, Engine
      <4>2. QED
        BY <1>3, <4>1 DEF EstateTypeOK
    <3>3. QED
      BY <3>1, <3>2
  <2>3. QED
    BY <1>3, <2>1, <2>2
<1>5. /\ IsFiniteSet(engines)' /\ Cardinality(engines)' = Cardinality(engines) + 1
      /\ Cardinality(engines) \in Nat
  BY <1>1, <1>4, FS_AddElement, FS_CardinalityType
<1>6. EstateTypeOK'
  BY <1>1, <1>3, CapAssumption DEF EstateTypeOK, run, Calls
<1>7. WorkFits'
  BY <1>1 DEF WorkFits, Calls, Left, Building, Has, run
<1>8. NamesAreNew'
  BY <1>1, <1>3 DEF NamesAreNew, run, EstateTypeOK, Engine
<1>9. OneEngineEach'
  BY <1>1, <1>3 DEF OneEngineEach, RebuildReplaces, Has, run
<1>10. RegisterSees'
  <2>1. ASSUME script = "register", NEW i \in 1..Len(todo), seenEngine[todo[i]] = None,
               Has(todo[i])', todo[i] \notin twice, i # 1
        PROVE  FALSE
    <3>1. 1 \in 1..Len(todo) /\ Me = todo[1]
      BY <1>1, NextAgent DEF EstateTypeOK
    <3>2. todo[i] # Me /\ ~Has(todo[i])
      BY <1>1, <2>1, <3>1 DEF RegisterSees, Calls
    <3>3. QED
      BY <1>1, <1>3, <2>1, <3>2 DEF Has, run
  <2>2. QED
    BY <1>1, <2>1 DEF RegisterSees, run, Calls
<1>11. RebuildReplaces'
  BY <1>1, <1>2, <1>3, <1>4 DEF RebuildReplaces, Building, run, Me
<1>12. EntryIsKnown' /\ OnlyMissedDangle'
  BY <1>1, <1>4 DEF EntryIsKnown, OnlyMissedDangle, run, Calls, Me
<1>13. InPlace'
  BY <1>1, <1>5, CapAssumption DEF InPlace, EstateNeverGrows, Room, Building, run, EstateTypeOK
<1>14. ServedSoFar'
  BY <1>1 DEF ServedSoFar, Left, Served, Has, run, Calls
<1>15. QED
  BY <1>5, <1>6, <1>7, <1>8, <1>9, <1>10, <1>11, <1>12, <1>13, <1>14

\* The agents left after the first.
LEMMA LeftAfter ==
  ASSUME EstateInv, at \in Calls, todo # <<>>, Continue
  PROVE  /\ todo' \in Seq(Holder)
         /\ Left' \subseteq Left /\ Left \subseteq Left' \cup {Me}
         /\ script \in {"rebuild", "register"} => todo' \in Seq(Agent)
         /\ script = "prune" => todo' \in Seq(Legacy)
         /\ \A i \in 1..Len(todo') : i + 1 \in 1..Len(todo) /\ todo'[i] = todo[i + 1]
<1>1. todo \in Seq(Holder) /\ todo' = Tail(todo)
  BY DEF EstateInv, EstateTypeOK, Continue
<1>2. todo' \in Seq(Holder)
      /\ \A i \in 1..Len(todo') : i + 1 \in 1..Len(todo) /\ todo'[i] = todo[i + 1]
  BY <1>1, NextAgent
<1>3. Left' \subseteq Left
  BY <1>2 DEF Left
<1>4. ASSUME NEW i \in 1..Len(todo), i # 1 PROVE todo[i] \in Left'
  <2>1. i - 1 \in 1..Len(todo') /\ todo'[i - 1] = todo[(i - 1) + 1] /\ (i - 1) + 1 = i
    BY <1>1, <1>2, <1>4, NextAgent
  <2>2. QED
    BY <2>1 DEF Left
<1>5. Left \subseteq Left' \cup {Me}
  BY <1>1, <1>4, NextAgent DEF Left
<1>6. script \in {"rebuild", "register"} => todo' \in Seq(Agent)
  BY <1>1, NextAgent DEF EstateInv, WorkFits
<1>7. script = "prune" => todo' \in Seq(Legacy)
  BY <1>1, NextAgent DEF EstateInv, WorkFits
<1>8. QED
  BY <1>2, <1>3, <1>5, <1>6, <1>7

\* An agent is left alone: nothing to do for it, or a call was refused.
LEMMA LeavingAnAgentKeepsEstateInv ==
  ASSUME EstateInv, at \in Calls, todo # <<>>, script \in {"rebuild", "prune"},
         Continue, UNCHANGED <<world, built>>, trouble' \in BOOLEAN, trouble => trouble',
         ~trouble' => Served(Me)
  PROVE  EstateInv'
<1> USE DEF EstateInv
<1>1. /\ UNCHANGED <<engines, entries, busy, builds, missed, built, script>>
      /\ UNCHANGED <<seenEngine, seenEntry, runs, asked, size, short, twice>>
      /\ at' = "next"
  BY DEF Continue, world
<1>2. EstateTypeOK'
  BY <1>1, LeftAfter DEF EstateTypeOK, Calls
<1>3. WorkFits'
  BY <1>1, LeftAfter DEF WorkFits, Building, Has
<1>4. NamesAreNew' /\ OneEngineEach' /\ OnlyMissedDangle' /\ IsFiniteSet(engines)'
  BY <1>1 DEF NamesAreNew, OneEngineEach, OnlyMissedDangle
<1>5. RegisterSees' /\ RebuildReplaces' /\ EntryIsKnown' /\ InPlace'
  BY <1>1 DEF RegisterSees, RebuildReplaces, EntryIsKnown, InPlace, EstateNeverGrows,
       Building, Calls
<1>6. ServedSoFar'
  BY <1>1, LeftAfter DEF ServedSoFar, Served, Has
<1>7. QED
  BY <1>2, <1>3, <1>4, <1>5, <1>6

\* A script takes up its next agent.
LEMMA NextKeepsEstateInv ==
  ASSUME EstateInv, RebuildNext \/ PruneNext \/ RegisterNext
  PROVE  EstateInv'
<1> USE DEF EstateInv
<1>1. /\ at = "next" /\ at \in Calls /\ todo # <<>> /\ script \in {"rebuild", "prune", "register"}
      /\ UNCHANGED world /\ trouble' = trouble
  BY DEF RebuildNext, PruneNext, RegisterNext, Calls
<1>2. CASE Continue
  BY <1>1, <1>2, LeavingAnAgentKeepsEstateInv
     DEF Continue, RebuildNext, PruneNext, RegisterNext, Go, EstateTypeOK, Served
<1>3. CASE ~Continue
  <2>1. /\ UNCHANGED run
        /\ \/ script \in {"rebuild", "prune"} /\ at' = "entry" /\ built' = built
           \/ script = "register" /\ at' = "slot" /\ built' = built /\ seenEngine[Me] = None
           \/ /\ script = "register" /\ at' = "point"
              /\ built' = seenEngine[Me] /\ seenEngine[Me] # None
    BY <1>1, <1>3 DEF RebuildNext, PruneNext, RegisterNext, Go
  <2>2. Me \in Holder /\ Me = todo[1] /\ 1 \in 1..Len(todo)
    BY <1>1, NextAgent DEF EstateTypeOK
  <2>3. EstateTypeOK'
    BY <1>1, <2>1, <2>2 DEF EstateTypeOK, run, world, Calls
  <2>4. WorkFits' /\ NamesAreNew' /\ OneEngineEach' /\ OnlyMissedDangle' /\ IsFiniteSet(engines)'
    BY <1>1, <2>1 DEF run, world, WorkFits, Building, Calls, Has, Left, NamesAreNew,
         OneEngineEach, OnlyMissedDangle
  <2>5. RegisterSees' /\ EntryIsKnown'
    BY <1>1, <2>1 DEF run, world, RegisterSees, EntryIsKnown, Calls, Has
  <2>6. RebuildReplaces'
    <3>1. script = "register" /\ seenEngine[Me] = None => ~Has(Me) \/ Me \in twice
      BY <1>1, <2>2 DEF RegisterSees
    <3>2. script = "register" /\ seenEngine[Me] # None =>
             seenEngine[Me] \in engines /\ seenEngine[Me].of = Me
      BY <1>1, <2>2 DEF RegisterSees, NamesAreNew
    <3>3. QED
      BY <1>1, <2>1, <3>1, <3>2 DEF run, world, RebuildReplaces, Building, Has, Me
  <2>7. InPlace'
    BY <1>1, <2>1 DEF run, world, InPlace, EstateNeverGrows, Building
  <2>8. ServedSoFar'
    BY <1>1, <2>1 DEF run, world, ServedSoFar, Left, Served, Has, Calls
  <2>9. QED
    BY <2>3, <2>4, <2>5, <2>6, <2>7, <2>8
<1>4. QED
  BY <1>2, <1>3

\* "delete failed -- leaving this agent alone".
LEMMA DeleteRefusedKeepsEstateInv ==
  ASSUME EstateInv, DeleteRefused
  PROVE  EstateInv'
<1>1. at \in Calls /\ todo # <<>> /\ script \in {"rebuild", "prune"}
  BY DEF DeleteRefused, EstateInv, WorkFits, Calls
<1>2. QED
  BY <1>1, LeavingAnAgentKeepsEstateInv DEF DeleteRefused

\* A build that fails.
LEMMA CreateFailsKeepsEstateInv ==
  ASSUME EstateInv, CreateFails
  PROVE  EstateInv'
<1>1. at \in Calls /\ todo # <<>> /\ script \in {"rebuild", "register"}
  BY DEF CreateFails, EstateInv, WorkFits, Calls, Building
<1>2. CASE script = "rebuild"
  BY <1>1, <1>2, LeavingAnAgentKeepsEstateInv DEF CreateFails
<1>3. CASE script = "register"
  BY <1>3, StopKeepsEstateInv
<1>4. QED
  BY <1>1, <1>2, <1>3

\* An engine is deleted after its entry.
LEMMA DeleteEngineKeepsEstateInv ==
  ASSUME EstateInv, DeleteEngine
  PROVE  EstateInv'
<1> USE DEF EstateInv
<1>1. /\ at = "engine" /\ at \in Calls /\ todo # <<>> /\ script \in {"rebuild", "prune"}
      /\ seenEngine[Me] \in engines
      /\ engines' = engines \ {seenEngine[Me]} /\ busy' = busy + 1
      /\ UNCHANGED <<entries, builds, missed, built, trouble>>
      /\ UNCHANGED <<script, seenEngine, seenEntry, runs, asked, size, short, twice>>
      /\ \/ script = "rebuild" /\ at' = "slot" /\ todo' = todo
         \/ script = "prune" /\ at' = "next" /\ Continue
  BY DEF DeleteEngine, WorkFits, Calls, Go, Continue, run
<1>2. /\ Me \in Holder /\ Me \in Left
      /\ script = "rebuild" => Me \in Agent
      /\ script = "prune" => Me \in Legacy
  BY <1>1, MeIsToDo
<1>3. seenEngine[Me].of = Me /\ seenEngine[Me] # None
  BY <1>1, <1>2, NoneIsNoEngine DEF NamesAreNew, EstateTypeOK
<1>4. /\ IsFiniteSet(engines)' /\ Cardinality(engines)' = Cardinality(engines) - 1
      /\ Cardinality(engines) \in Nat
  BY <1>1, FS_RemoveElement, FS_CardinalityType
<1>5. Me \notin twice => \A e \in engines' : e.of # Me
  BY <1>1, <1>3 DEF OneEngineEach
<1>6. /\ todo' \in Seq(Holder) /\ Left' \subseteq Left /\ Left \subseteq Left' \cup {Me}
      /\ script = "rebuild" => todo' \in Seq(Agent)
      /\ script = "prune" => todo' \in Seq(Legacy)
  <2>1. CASE script = "rebuild"
    BY <1>1, <2>1 DEF EstateTypeOK, WorkFits, Left
  <2>2. CASE script = "prune"
    BY <1>1, <2>2, LeftAfter
  <2>3. QED
    BY <1>1, <2>1, <2>2
<1>7. /\ busy' \in 0..Cap
      /\ Cardinality(engines)' + busy' <= Cap
      /\ script = "rebuild" => Cardinality(engines)' < size
      /\ script = "prune" => Cardinality(engines)' <= size
  <2>1. /\ Cardinality(engines)' + busy' = Cardinality(engines) + busy
        /\ Cardinality(engines)' \in Nat
    BY <1>1, <1>4, FS_CardinalityType DEF EstateTypeOK
  <2>2. QED
    BY <1>1, <1>4, <2>1, CapAssumption DEF InPlace, EstateNeverGrows, EstateTypeOK
<1>8. EstateTypeOK'
  BY <1>1, <1>6, <1>7 DEF EstateTypeOK, Calls
<1>9. WorkFits'
  <2>1. ASSUME script = "prune", NEW h \in Left' PROVE Has(Twin[h])'
    <3>1. h \in Legacy /\ Has(Twin[h])
      <4>1. h \in Left
        BY <1>6
      <4>2. todo \in Seq(Legacy) /\ \A l \in Left : Has(Twin[l])
        BY <1>1, <2>1 DEF WorkFits
      <4>3. QED
        BY <4>1, <4>2 DEF Left
    <3>2. Twin[h] # Me
      BY <1>2, <2>1, <3>1, TwinAssumption
    <3>3. QED
      BY <1>1, <1>3, <3>1, <3>2 DEF Has
  <2>2. QED
    BY <1>1, <1>6, <2>1 DEF WorkFits, Building
<1>10. NamesAreNew' /\ OneEngineEach' /\ RegisterSees' /\ InPlace'
  <2>1. NamesAreNew' /\ OneEngineEach' /\ RegisterSees'
    BY <1>1 DEF NamesAreNew, OneEngineEach, RegisterSees
  <2>2. InPlace'
    <3>1. Cardinality(engines)' <= size
      BY <1>1, <1>4, <1>7, FS_CardinalityType DEF EstateTypeOK
    <3>2. QED
      BY <1>1, <1>7, <3>1 DEF InPlace, EstateNeverGrows, Building
  <2>3. QED
    BY <2>1, <2>2
<1>11. RebuildReplaces'
  BY <1>1, <1>5 DEF RebuildReplaces, Building, Has, Me
<1>12. EntryIsKnown'
  BY <1>1 DEF EntryIsKnown
<1>13. OnlyMissedDangle'
  BY <1>1, <1>2, <1>3 DEF OnlyMissedDangle, EntryIsKnown
<1>14. ServedSoFar'
  <2>1. ASSUME ~trouble, NEW h \in asked, h \notin Left' PROVE Served(h)'
    <3>1. CASE script = "prune" /\ h = Me
      <4>1. Me \notin twice
        BY <1>2, <3>1, TwinAssumption DEF EstateTypeOK
      <4>2. QED
        BY <1>1, <1>5, <3>1, <4>1 DEF Served, Has
    <3>2. CASE script = "prune" /\ h # Me
      BY <1>1, <1>6, <2>1, <3>2 DEF ServedSoFar, Served, Has
    <3>3. CASE script = "rebuild"
      BY <1>1, <1>2, <1>3, <2>1, <3>3 DEF ServedSoFar, Served, Left
    <3>4. QED
      BY <1>1, <3>1, <3>2, <3>3
  <2>2. QED
    BY <1>1, <2>1 DEF ServedSoFar
<1>15. QED
  BY <1>4, <1>8, <1>9, <1>10, <1>11, <1>12, <1>13, <1>14

\* An entry is made, or pointed at the engine just built.
LEMMA PointKeepsEstateInv ==
  ASSUME EstateInv, Point
  PROVE  EstateInv'
<1> USE DEF EstateInv
<1>1. /\ at = "point" /\ at \in Calls /\ todo # <<>> /\ script \in {"rebuild", "register"}
      /\ at' = "next" /\ Continue /\ trouble' \in BOOLEAN /\ (trouble => trouble')
      /\ UNCHANGED <<engines, busy, builds, missed, built>>
      /\ UNCHANGED <<script, seenEngine, seenEntry, runs, asked, size, short, twice>>
      /\ \/ entries' = entries
            /\ (trouble' \/ (script = "register" /\ seenEntry[Me] # None))
         \/ entries' = entries \cup {built}
  BY DEF Point, WorkFits, Calls, Building, Continue, EstateTypeOK
<1>2. /\ Me \in Holder /\ Me \in Left /\ built \in engines /\ built.of = Me
      /\ script = "rebuild" => seenEngine[Me] \notin engines
  BY <1>1, MeIsToDo DEF RebuildReplaces
<1>3. entries \subseteq entries'
  BY <1>1
<1>4. EstateTypeOK'
  BY <1>1, <1>2, LeftAfter DEF EstateTypeOK, Calls
<1>5. WorkFits'
  BY <1>1, LeftAfter DEF WorkFits, Building
<1>6. NamesAreNew' /\ OneEngineEach' /\ OnlyMissedDangle' /\ IsFiniteSet(engines)'
  BY <1>1, <1>2 DEF NamesAreNew, OneEngineEach, OnlyMissedDangle
<1>7. RegisterSees'
  <2>1. \A i \in 1..Len(todo') : /\ i + 1 \in 1..Len(todo) /\ todo'[i] = todo[i + 1]
                                 /\ i \in Nat /\ i + 1 # 1
    BY <1>1, LeftAfter
  <2>2. ASSUME script = "register", NEW i \in 1..Len(todo'), seenEngine[todo'[i]] = None,
               Has(todo'[i])
        PROVE  todo'[i] \in twice
    BY <1>1, <2>1, <2>2 DEF RegisterSees
  <2>3. ASSUME script = "register", NEW i \in 1..Len(todo'), NEW j \in 1..Len(todo'),
               i # j, todo'[i] = todo'[j]
        PROVE  todo'[i] \in twice
    <3>1. i + 1 # j + 1
      BY <2>3
    <3>2. QED
      BY <1>1, <2>1, <2>3, <3>1 DEF RegisterSees
  <2>4. QED
    BY <1>1, <1>3, <2>2, <2>3 DEF RegisterSees, Has
<1>8. RebuildReplaces' /\ InPlace'
  BY <1>1 DEF RebuildReplaces, InPlace, EstateNeverGrows, Building
<1>9. EntryIsKnown'
  BY <1>1, <1>2 DEF EntryIsKnown
<1>10. ServedSoFar'
  <2>1. ASSUME ~trouble', NEW h \in asked, h \notin Left' PROVE Served(h)'
    <3>1. CASE h \notin Left
      <4>1. Served(h)
        BY <1>1, <2>1, <3>1 DEF ServedSoFar
      <4>2. QED
        BY <1>1, <1>3, <4>1 DEF Served, Has
    <3>2. CASE h \in Left
      <4>1. h = Me /\ ~trouble
        BY <1>1, <2>1, <3>2, LeftAfter
      <4>2. CASE entries' = entries \cup {built}
        BY <1>1, <1>2, <4>1, <4>2 DEF Served, Has
      <4>3. CASE entries' = entries /\ script = "register" /\ seenEntry[Me] # None
        BY <1>1, <1>2, <4>1, <4>3 DEF Served, Has, RegisterSees, NamesAreNew
      <4>4. QED
        BY <1>1, <2>1, <4>2, <4>3
    <3>3. QED
      BY <3>1, <3>2
  <2>2. QED
    BY <1>1, <2>1 DEF ServedSoFar
<1>11. QED
  BY <1>4, <1>5, <1>6, <1>7, <1>8, <1>9, <1>10

-----------------------------------------------------------------------------
(* A run starts.                                                           *)

\* What every run starts from, whichever script it is.
LEMMA BeginIsFresh ==
  ASSUME EstateInv, NEW name \in {"rebuild", "register", "prune"}, NEW work \in Seq(Holder),
         NEW listed \in SUBSET engines, NEW shown \in SUBSET entries,
         Begin(name, work, listed, shown),
         missed' \in SUBSET Holder, twice' \in SUBSET Agent,
         missed \subseteq missed', twice \subseteq twice',
         \A e \in entries \ shown : e.of \in missed'
  PROVE  /\ EstateTypeOK' /\ NamesAreNew' /\ OneEngineEach' /\ RebuildReplaces' /\ InPlace'
         /\ OnlyMissedDangle' /\ EntryIsKnown' /\ ServedSoFar' /\ IsFiniteSet(engines)'
<1> USE DEF EstateInv
<1>1. /\ at' = "next" /\ script' = name /\ todo' = work /\ runs' = runs + 1 /\ runs < MaxRuns
      /\ asked' = {work[i] : i \in 1..Len(work)}
      /\ seenEngine' \in Listings(listed) /\ seenEntry' \in Listings(shown)
      /\ size' = Cardinality(engines) /\ trouble' = FALSE /\ built' = None
      /\ UNCHANGED <<engines, entries, busy, builds, short>>
  BY DEF Begin
<1>2. /\ listed \in SUBSET Engine /\ shown \in SUBSET Engine
  BY DEF EstateTypeOK
<1>3. /\ seenEngine' \in [Holder -> Engine \cup {None}]
      /\ \A h \in Holder : seenEngine'[h] # None =>
                              seenEngine'[h] \in engines /\ seenEngine'[h].of = h
  BY <1>1, <1>2, ListingShows
<1>4. /\ seenEntry' \in [Holder -> Engine \cup {None}]
      /\ \A h \in Holder : seenEntry'[h] # None =>
                              seenEntry'[h] \in shown /\ seenEntry'[h].of = h
      /\ \A h \in Holder : seenEntry'[h] = None => \A e \in shown : e.of # h
  BY <1>1, <1>2, ListingShows
<1>5. Cardinality(engines) \in Nat
  BY FS_CardinalityType
<1>6. EstateTypeOK'
  <2>1. asked' \subseteq Holder /\ runs' \in 0..MaxRuns
    BY <1>1, CapAssumption DEF EstateTypeOK
  <2>2. script' \in {"none", "rebuild", "register", "prune"} /\ at' \in Calls
    BY <1>1 DEF Calls
  <2>3. QED
    BY <1>1, <1>3, <1>4, <1>5, <2>1, <2>2 DEF EstateTypeOK
<1>7. NamesAreNew'
  BY <1>1, <1>3, <1>4 DEF NamesAreNew
<1>8. OneEngineEach' /\ OnlyMissedDangle' /\ IsFiniteSet(engines)'
  BY <1>1 DEF OneEngineEach, OnlyMissedDangle
<1>9. RebuildReplaces' /\ InPlace'
  BY <1>1, <1>5 DEF RebuildReplaces, InPlace, EstateNeverGrows, Building
<1>10. EntryIsKnown'
  <2>1. ASSUME NEW h \in Holder \ (missed' \cup twice'), NEW e \in entries, e.of = h
        PROVE  e = seenEntry'[h]
    <3>1. e \in shown /\ e \in engines
      BY <2>1 DEF OnlyMissedDangle
    <3>2. seenEntry'[h] \in shown /\ seenEntry'[h].of = h
      BY <1>4, <2>1, <3>1
    <3>3. seenEntry'[h] \in engines
      BY <2>1, <3>2 DEF OnlyMissedDangle
    <3>4. QED
      BY <2>1, <3>1, <3>2, <3>3 DEF OneEngineEach
  <2>2. QED
    BY <1>1, <2>1 DEF EntryIsKnown
<1>11. ServedSoFar'
  BY <1>1 DEF ServedSoFar, Left
<1>12. QED
  BY <1>6, <1>7, <1>8, <1>9, <1>10, <1>11

\* rebuild takes its listings.
LEMMA StartRebuildKeepsEstateInv ==
  ASSUME EstateInv, StartRebuild
  PROVE  EstateInv'
<1>1. PICK work \in Orders : Begin("rebuild", work, engines, entries)
  BY DEF StartRebuild
<1>2. work \in Seq(Agent) /\ work \in Seq(Holder)
  BY OrdersAssumption DEF Holder
<1>3. WorkFits' /\ RegisterSees'
  BY <1>1, <1>2 DEF Begin, WorkFits, RegisterSees, Building
<1>4. missed' = missed /\ twice' = twice /\ missed \in SUBSET Holder /\ twice \in SUBSET Agent
  BY DEF StartRebuild, EstateInv, EstateTypeOK
<1>5. QED
  BY <1>1, <1>2, <1>3, <1>4, BeginIsFresh DEF EstateInv

\* register takes its listings.
LEMMA StartRegisterKeepsEstateInv ==
  ASSUME EstateInv, StartRegister
  PROVE  EstateInv'
<1>1. PICK work \in Orders : Begin("register", work, engines, entries)
                             /\ twice' = twice \cup Repeated(work)
  BY DEF StartRegister
<1>2. work \in Seq(Agent) /\ work \in Seq(Holder)
  BY OrdersAssumption DEF Holder
<1>3. /\ missed' = missed /\ twice \subseteq twice'
      /\ missed \in SUBSET Holder /\ twice' \in SUBSET Agent
  BY <1>1, <1>2 DEF StartRegister, EstateInv, EstateTypeOK, Repeated
<1>4. WorkFits'
  BY <1>1, <1>2 DEF Begin, WorkFits, Building
<1>5. RegisterSees'
  <2>1. /\ seenEngine' \in Listings(engines) /\ seenEntry' \in Listings(entries)
        /\ at' = "next" /\ todo' = work /\ UNCHANGED <<engines, entries>>
    BY <1>1 DEF Begin
  <2>2. engines \in SUBSET Engine /\ entries \in SUBSET Engine
    BY DEF EstateInv, EstateTypeOK
  <2>3. \A h \in Holder : /\ seenEngine'[h] # None => seenEngine'[h] \in engines
                          /\ seenEntry'[h] # None => seenEntry'[h] \in entries
                          /\ seenEngine'[h] = None => \A e \in engines : e.of # h
    BY <2>1, <2>2, ListingShows
  <2>4. \A i \in 1..Len(work) : work[i] \in Holder
    BY <1>2
  <2>5. ASSUME NEW i \in 1..Len(work), NEW j \in 1..Len(work), i # j, work[i] = work[j]
        PROVE  work[i] \in Repeated(work)
    <3>1. CASE i < j
      BY <2>5, <3>1 DEF Repeated
    <3>2. CASE j < i
      BY <2>5, <3>2 DEF Repeated
    <3>3. QED
      BY <2>5, <3>1, <3>2
  <2>6. ASSUME NEW i \in 1..Len(work), seenEngine'[work[i]] = None
        PROVE  \A e \in engines : e.of # work[i]
    <3>1. work[i] \in Holder
      BY <2>4
    <3>2. QED
      BY <2>3, <2>6, <3>1
  <2>7. \A i \in 1..Len(todo') : seenEngine'[todo'[i]] = None => ~(Has(todo[i])')
    BY <2>1, <2>6 DEF Has
  <2>8. \A i, j \in 1..Len(todo') : i # j /\ todo'[i] = todo'[j] => todo'[i] \in twice'
    BY <1>1, <2>1, <2>5
  <2>9. \A h \in Holder : /\ seenEngine'[h] # None => seenEngine'[h] \in engines'
                          /\ seenEntry'[h] # None => seenEntry'[h] \in entries'
    BY <2>1, <2>3
  <2>10. QED
    BY <2>7, <2>8, <2>9 DEF RegisterSees
<1>6. QED
  BY <1>1, <1>2, <1>3, <1>4, <1>5, BeginIsFresh DEF EstateInv

\* prune takes its listings and plans.
LEMMA StartPruneKeepsEstateInv ==
  ASSUME EstateInv, StartPrune
  PROVE  EstateInv'
<1>1. PICK listed \in SUBSET engines, shown \in SUBSET entries :
         LET n == Cardinality(Plan(listed))
         IN  /\ \E work \in [1..n -> Plan(listed)] :
                   /\ {work[i] : i \in 1..n} = Plan(listed)
                   /\ Begin("prune", work, listed, shown)
             /\ missed' = missed \cup {e.of : e \in entries \ shown}
  BY DEF StartPrune
<1>2. /\ Cardinality(Plan(listed)) \in Nat
      /\ Plan(listed) \subseteq Legacy
      /\ \A l \in Plan(listed) : Has(Twin[l])
  <2>1. Plan(listed) \subseteq Legacy
    BY DEF Plan
  <2>2. Cardinality(Plan(listed)) \in Nat
    BY <2>1, HolderAssumption, FS_Subset, FS_CardinalityType
  <2>3. QED
    BY <2>1, <2>2 DEF Plan, Has
<1>3. PICK work \in [1..Cardinality(Plan(listed)) -> Plan(listed)] :
         Begin("prune", work, listed, shown)
  BY <1>1
<1>4. /\ work \in Seq(Plan(listed)) /\ work \in Seq(Legacy) /\ work \in Seq(Holder)
      /\ \A i \in 1..Len(work) : work[i] \in Plan(listed)
  <2>1. work \in Seq(Plan(listed))
    BY <1>2, <1>3
  <2>2. QED
    BY <1>2, <2>1 DEF Holder
<1>5. WorkFits' /\ RegisterSees'
  <2>1. at' = "next" /\ script' = "prune" /\ todo' = work /\ engines' = engines
    BY <1>3 DEF Begin
  <2>2. \A h \in Left' : Has(Twin[h])'
    BY <1>2, <1>4, <2>1 DEF Left, Has
  <2>3. QED
    BY <1>4, <2>1, <2>2 DEF WorkFits, RegisterSees, Building
<1>6. /\ twice' = twice /\ missed \subseteq missed'
      /\ \A e \in entries \ shown : e.of \in missed'
      /\ missed' \in SUBSET Holder /\ twice' \in SUBSET Agent
  <2>1. missed' = missed \cup {e.of : e \in entries \ shown} /\ twice' = twice
    BY <1>1 DEF StartPrune
  <2>2. \A e \in entries : e.of \in Holder
    BY DEF EstateInv, EstateTypeOK, Engine
  <2>3. QED
    BY <2>1, <2>2 DEF EstateInv, EstateTypeOK
<1>7. QED
  BY <1>3, <1>4, <1>5, <1>6, BeginIsFresh DEF EstateInv

-----------------------------------------------------------------------------
(* The theorems.                                                           *)

\* Put together.
LEMMA StepKeepsEstateInv == EstateInv /\ [EstateNext]_estateVars => EstateInv'
<1> SUFFICES ASSUME EstateInv, [EstateNext]_estateVars PROVE EstateInv'
  OBVIOUS
<1>1. CASE UNCHANGED estateVars
  <2>1. UNCHANGED <<world, run, at, built, trouble>>
    BY <1>1 DEF estateVars
  <2>2. EstateTypeOK' /\ WorkFits' /\ NamesAreNew' /\ OneEngineEach' /\ RegisterSees'
    BY <2>1 DEF world, run, EstateInv, EstateTypeOK, WorkFits, Building, Left, Has, NamesAreNew,
         OneEngineEach, RegisterSees
  <2>3. RebuildReplaces' /\ EntryIsKnown' /\ OnlyMissedDangle' /\ IsFiniteSet(engines)'
    BY <2>1 DEF world, run, EstateInv, RebuildReplaces, Building, Has, Me, EntryIsKnown,
         OnlyMissedDangle
  <2>4. InPlace' /\ ServedSoFar'
    BY <2>1 DEF world, run, EstateInv, InPlace, EstateNeverGrows, Building, ServedSoFar, Left,
         Served, Has
  <2>5. QED
    BY <2>2, <2>3, <2>4 DEF EstateInv
<1>2. CASE EstateNext
  BY <1>2, StartRebuildKeepsEstateInv, StartRegisterKeepsEstateInv, StartPruneKeepsEstateInv,
     WaitKeepsEstateInv, StopKeepsEstateInv, OthersKeepEstateInv,
     NextKeepsEstateInv, DeleteEntryKeepsEstateInv, DeleteEngineKeepsEstateInv,
     DeleteRefusedKeepsEstateInv, CreateKeepsEstateInv, CreateFailsKeepsEstateInv,
     PointKeepsEstateInv
     DEF EstateNext
<1>3. QED
  BY <1>1, <1>2

\* Whatever is refused or interrupted, a run works from listings that still tell
\* the truth about the agents it has yet to do.
THEOREM EstateInvariance == EstateSpec => []EstateInv
  BY InitEstateInv, StepKeepsEstateInv, PTL DEF EstateSpec

\* The estate and the running script always have the shape the code gives them.
THEOREM EstateTypeCorrect == EstateSpec => []EstateTypeOK
<1>1. EstateInv => EstateTypeOK
  BY DEF EstateInv
<1>2. QED
  BY <1>1, EstateInvariance, PTL

\* No script gives an agent a second engine, in any number of runs, but where one
\* list named it twice.
THEOREM EnginesAreUnique == EstateSpec => []OneEngineEach
<1>1. EstateInv => OneEngineEach
  BY DEF EstateInv
<1>2. QED
  BY <1>1, EstateInvariance, PTL

\* Rebuilding and pruning never leave more engines than they found, and nothing
\* takes the region over its quota.
THEOREM NeverOverQuota == EstateSpec => []EstateNeverGrows
<1>1. EstateInv => EstateNeverGrows
  BY DEF EstateInv, InPlace
<1>2. QED
  BY <1>1, EstateInvariance, PTL

\* An entry points at a deleted engine only where a run was refused its deletion
\* or its listing, or met an agent with two engines.
THEOREM EntriesPointAtEngines == EstateSpec => []OnlyMissedDangle
<1>1. EstateInv => OnlyMissedDangle
  BY DEF EstateInv
<1>2. QED
  BY <1>1, EstateInvariance, PTL

\* A run that was refused nothing has done all that it was asked.
THEOREM CleanRunsComplete == EstateSpec => []CleanRunCompletes
<1>1. EstateInv => CleanRunCompletes
  BY DEF EstateInv, WorkFits, ServedSoFar, CleanRunCompletes, Left
<1>2. QED
  BY <1>1, EstateInvariance, PTL

\* An older duplicate is deleted only while the agent it duplicates is there.
THEOREM TwinsAreKept == EstateSpec => TwinIsKept
<1>1. ASSUME EstateInv, [EstateNext]_estateVars, NEW l \in Legacy, Has(l), ~(Has(l)')
      PROVE  Has(Twin[l])'
  <2>1. DeleteEngine
    <3>1. ~(engines \subseteq engines')
      BY <1>1 DEF Has
    <3>2. QED
      BY <1>1, <3>1 DEF EstateNext, estateVars, world, run, Go, Continue, Stops, Begin, StartRebuild,
         StartRegister, StartPrune, Finish, RebuildNext, PruneNext, RegisterNext,
         DeleteEntry, DeleteRefused, SlotFree, NoSlot, Create, Exhausted, CreateFails,
         Point, Interrupt, Release, Take
  <2>2. /\ at \in Calls /\ todo # <<>> /\ script \in {"rebuild", "prune"}
        /\ seenEngine[Me] \in engines /\ engines' = engines \ {seenEngine[Me]}
    BY <1>1, <2>1 DEF DeleteEngine, EstateInv, WorkFits, Calls
  <2>3. seenEngine[Me].of = Me
    BY <1>1, <2>2, MeIsToDo, NoneIsNoEngine DEF EstateInv, NamesAreNew, EstateTypeOK
  <2>4. l = Me /\ l \notin Agent
    BY <1>1, <2>2, <2>3, TwinAssumption DEF Has
  <2>5. Has(Twin[l])
    BY <1>1, <2>2, <2>4, MeIsToDo
  <2>6. QED
    BY <2>2, <2>3, <2>4, <2>5, TwinAssumption DEF Has
<1>2. EstateInv /\ [EstateNext]_estateVars =>
         [\A l \in Legacy : Has(l) /\ ~Has(l)' => Has(Twin[l])']_estateVars
  BY <1>1
<1>3. QED
  BY <1>2, EstateInvariance, PTL DEF EstateSpec, TwinIsKept
=============================================================================
