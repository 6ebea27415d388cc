------------------------------- MODULE Motion ------------------------------
(***************************************************************************)
(* What moves on the landing page: apps/shared/motion.js, and the slider   *)
(* of landing.js over the recorded window.  Time passes in units of sixty  *)
(* milliseconds; two timeouts with different deadlines expire in that      *)
(* order, and the intervals of the slider and of the figures may be late.  *)
(***************************************************************************)
EXTENDS Integers, FiniteSets

CONSTANTS Elements,    \* how many elements carry .reveal
          STEPS,       \* frames of the slider
          Figure,      \* elements with a data-count
          Frames,      \* bound: steps of a count
          NoChoice

ASSUME MotionBounds ==
    /\ {Elements, Frames} \subseteq Nat /\ STEPS \in Nat \ {0} /\ NoChoice \notin Nat

VARIABLES reduced,     \* REDUCED
          seen,        \* how many elements are above the mark, in reading order
          entered,     \* the elements with class "in"
          timeouts,    \* element -> times until its timeouts run
          stagger,
          poll,        \* time to the next tick, or Off
          sweep, frame,
          slider, at,  \* the slider, and the frame that the figures show
          chosen,      \* what the reader last set the slider to
          count        \* figure -> steps shown

revealVars == <<seen, entered, timeouts, stagger, poll>>
sliderVars == <<sweep, frame, slider, at, chosen>>
motionVars == <<reduced, revealVars, sliderVars, count>>

Element == 1..Elements
Off == -1
Wrap == 6      \* stagger++ % 6
Interval == 2  \* 120 ms

\* The page has run its scripts; reveal's first tick is due at once.
MotionInit ==
    /\ reduced \in BOOLEAN /\ seen \in 0..Elements
    /\ entered = (IF reduced THEN Element ELSE {})
    /\ timeouts = [e \in Element |-> {}] /\ stagger = 0
    /\ poll = (IF reduced \/ Elements = 0 THEN Off ELSE 0)
    /\ sweep = ~reduced /\ frame = 0
    /\ slider = (IF reduced THEN STEPS - 1 ELSE 0) /\ at = slider
    /\ chosen = NoChoice
    /\ count = [f \in Figure |-> IF reduced THEN Frames ELSE 0]

-----------------------------------------------------------------------------
(* reveal.                                                                 *)

\* The reader scrolls.
Scroll ==
    /\ seen' \in 0..Elements
    /\ UNCHANGED <<reduced, entered, timeouts, stagger, poll, sliderVars, count>>

Noticed == (1..seen) \ entered

\* A timeout for each element above the mark that has not entered, scheduled or not.
Schedule ==
    /\ timeouts' = [e \in Element |->
                 IF e \in Noticed
                 THEN timeouts[e] \cup {(stagger + Cardinality({d \in Noticed : d < e})) % Wrap}
                 ELSE timeouts[e]]
    /\ stagger' = (stagger + Cardinality(Noticed)) % Wrap
    /\ UNCHANGED <<reduced, seen, entered, sliderVars, count>>

PollWhileNew ==    \* a bug: the interval ends at the first tick that notices nothing
    /\ poll = 0
    /\ poll' = IF Noticed = {} THEN Off ELSE Interval
    /\ Schedule

\* tick: nothing is pending once every element is in or has its timeout.
Poll ==
    /\ poll = 0
    /\ poll' = IF Element \ entered \subseteq Noticed THEN Off ELSE Interval
    /\ Schedule

\* A timeout adds the class; those that follow it add nothing.
Enter(e) ==
    /\ 0 \in timeouts[e]
    /\ entered' = entered \cup {e} /\ timeouts' = [timeouts EXCEPT ![e] = {}]
    /\ UNCHANGED <<reduced, seen, stagger, poll, sliderVars, count>>

\* Sixty milliseconds pass, once all that is due has run.
Elapse ==
    /\ poll # 0 /\ \A e \in Element : 0 \notin timeouts[e]
    /\ poll # Off \/ \E e \in Element : timeouts[e] # {}
    /\ timeouts' = [e \in Element |-> {d - 1 : d \in timeouts[e]}]
    /\ poll' = IF poll = Off THEN Off ELSE poll - 1
    /\ UNCHANGED <<reduced, seen, entered, stagger, sliderVars, count>>

-----------------------------------------------------------------------------
(* The figures and the slider.                                             *)

\* One step of countUp, the last of which writes the figure itself.
Count(f) ==
    /\ count[f] < Frames
    /\ count' = [count EXCEPT ![f] = @ + 1]
    /\ UNCHANGED <<reduced, revealVars, sliderVars>>

Show(i) == slider' = i /\ at' = i

\* The interval that plays the window through once.
Sweep ==
    /\ sweep /\ frame' = frame + 1
    /\ sweep' = ~(frame' >= STEPS)
    /\ IF sweep' THEN Show(frame') ELSE UNCHANGED <<slider, at>>
    /\ UNCHANGED <<reduced, revealVars, chosen, count>>

\* input: the reader has moved the slider.
Input(i) ==
    /\ Show(i) /\ chosen' = i
    /\ sweep' = FALSE
    /\ UNCHANGED <<reduced, revealVars, frame, count>>

Timers == Poll \/ Elapse \/ \E e \in Element : Enter(e)

MotionNext ==
    \/ Scroll \/ Timers \/ Sweep
    \/ \E f \in Figure : Count(f)
    \/ \E i \in 0..STEPS - 1 : Input(i)

\* Timers run; the reader need do nothing.
MotionFairness ==
    /\ WF_motionVars(Timers) /\ WF_motionVars(Sweep)
    /\ \A f \in Figure : WF_motionVars(Count(f))

MotionSpec == MotionInit /\ [][MotionNext]_motionVars /\ MotionFairness

-----------------------------------------------------------------------------
MotionTypeOK ==
    /\ reduced \in BOOLEAN /\ sweep \in BOOLEAN
    /\ seen \in 0..Elements /\ entered \subseteq Element
    /\ timeouts \in [Element -> SUBSET (0..Wrap - 1)] /\ stagger \in 0..Wrap - 1
    /\ poll \in Off..Interval
    /\ frame \in 0..STEPS /\ slider \in 0..STEPS - 1 /\ at \in 0..STEPS - 1
    /\ chosen \in 0..STEPS - 1 \cup {NoChoice}
    /\ count \in [Figure -> 0..Frames]

\* "A slider input cancels the playback rather than fighting it": the figures show the
\* day that the slider is on, and once the reader has set it, it stays there.
ReaderOwnsSlider == at = slider /\ chosen \in {NoChoice, slider}

\* A page that hides what has not entered hides nothing for good, stops polling, and
\* finishes its counts and its playback, whatever the reader did before, once the
\* reader has scrolled to its end.
PageSettles ==
    <>[](seen = Elements)
      => <>[](/\ entered = Element /\ poll = Off /\ ~sweep
              /\ \A f \in Figure : count[f] = Frames)
=============================================================================
