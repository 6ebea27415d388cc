------------------------------ MODULE Screens ------------------------------
(***************************************************************************)
(* The five screens of apps/frontend/app.js: the App router that shows one *)
(* of them and writes its address, the browser's history under it, and the *)
(* two screens that draw something of their own when they are entered: the *)
(* schematic's animated canvas (S2) and the architecture's graph (S5).     *)
(*                                                                         *)
(* A pane that is not shown measures zero wide.                            *)
(***************************************************************************)
EXTENDS Naturals, Sequences

CONSTANTS Screen,      \* SCREENS
          MaxEntries,  \* bound: entries in the tab's history
          MaxTimers,   \* bound: clicks on one tab within 50 ms
          MaxDue       \* bound: hashchange events on their way

ASSUME ScreenAssumption ==
    /\ {"macro", "schematic", "architecture"} \subseteq Screen
    /\ "none" \notin Screen
ASSUME ScreenBounds ==
    /\ MaxEntries \in Nat \ {0, 1} /\ MaxTimers \in Nat \ {0} /\ MaxDue \in Nat \ {0}

VARIABLES active,   \* the pane and the tab that carry the class
          timers,   \* pending setTimeout(enter, 50), of each drawing screen
          raf,      \* rafId: the canvas is animated
          laidOut,  \* the graph has been laid out
          entries, current,   \* the history of the tab, and where it stands
          due       \* hashchange events that have not been handled

screensVars == <<active, timers, raf, laidOut, entries, current, due>>

Drawing == {"schematic", "architecture"}
Hash == Screen \cup {"", "governance"}   \* "": any that names no screen

Legacy(hash) == IF hash = "governance" THEN "architecture" ELSE hash
Named(hash) == IF Legacy(hash) \in Screen THEN Legacy(hash) ELSE "macro"

\* Before DOMContentLoaded, on an address without a hash.
ScreensInit ==
    /\ active = "none" /\ timers = [s \in Drawing |-> 0]
    /\ raf = FALSE /\ laidOut = FALSE
    /\ entries = <<"">> /\ current = 1 /\ due = 0

\* A new entry takes the place of those ahead of it.
Push(hash) ==
    /\ current < MaxEntries
    /\ entries' = Append(SubSeq(entries, 1, current), hash)
    /\ current' = current + 1

StartCanvasUnseen == raf' = TRUE    \* a bug: the width is not looked at

\* S2.enter and S2.resize: startCanvas, which returns if its host has no width.
StartCanvas == raf' = (raf \/ active = "schematic")

GoKeepingAddress(hash) ==    \* a bug: the address that was asked for is written
    /\ active' = Named(hash)
    /\ timers' = [s \in Drawing |-> IF s = Named(hash) THEN timers[s] + 1 ELSE timers[s]]
    /\ \A s \in Drawing : timers'[s] <= MaxTimers
    /\ raf' = (raf /\ Named(hash) = "schematic")
    /\ Push(hash)
    /\ UNCHANGED laidOut

\* App.go: the pane, its timer or the end of the animation, and the address.
Go(hash) ==
    /\ active' = Named(hash)
    /\ timers' = [s \in Drawing |-> IF s = Named(hash) THEN timers[s] + 1 ELSE timers[s]]
    /\ \A s \in Drawing : timers'[s] <= MaxTimers
    /\ raf' = (raf /\ Named(hash) = "schematic")
    /\ Push(Named(hash))
    /\ UNCHANGED laidOut

\* App.init.
Start == active = "none" /\ Go(entries[current]) /\ UNCHANGED due

\* A tab, the search button of the header, a card that leads to a screen.
Tab(s) == active # "none" /\ Go(s) /\ UNCHANGED due

\* The browser announces a change of the fragment; pushState it never announces.
Announce(from, to) ==
    /\ due' = IF from = to THEN due ELSE due + 1
    /\ due' <= MaxDue

TypeAddress(hash) ==
    /\ active # "none" /\ hash # entries[current]
    /\ Push(hash) /\ Announce(entries[current], hash)
    /\ UNCHANGED <<active, timers, raf, laidOut>>

Travel(to) ==
    /\ active # "none" /\ to \in {current - 1, current + 1} \cap DOMAIN entries
    /\ current' = to /\ Announce(entries[current], entries[to])
    /\ UNCHANGED <<active, timers, raf, laidOut, entries>>

\* The hashchange listener reads the address as it is by now.
HashChange ==
    /\ due > 0
    /\ due' = due - 1
    /\ Go(entries[current])

EnterCanvas ==
    /\ timers["schematic"] > 0
    /\ timers' = [timers EXCEPT !["schematic"] = @ - 1]
    /\ StartCanvas
    /\ UNCHANGED <<active, laidOut, entries, current, due>>

\* S5.enter lays out once, in the pane's width or, if that is zero, in 900.
EnterGraph ==
    /\ timers["architecture"] > 0
    /\ timers' = [timers EXCEPT !["architecture"] = @ - 1]
    /\ laidOut' = TRUE
    /\ UNCHANGED <<active, raf, entries, current, due>>

\* S5.resize lays out again and only if it has been: nothing to tell apart here.
Resize ==
    /\ active = "schematic"
    /\ StartCanvas
    /\ UNCHANGED <<active, timers, laidOut, entries, current, due>>

ScreensNext ==
    \/ Start \/ HashChange \/ EnterCanvas \/ EnterGraph \/ Resize
    \/ \E s \in Screen : Tab(s)
    \/ \E hash \in Hash : TypeAddress(hash)
    \/ \E to \in 1..MaxEntries : Travel(to)

ScreensSpec == ScreensInit /\ [][ScreensNext]_screensVars

-----------------------------------------------------------------------------
ScreensTypeOK ==
    /\ active \in Screen \cup {"none"}
    /\ timers \in [Drawing -> 0..MaxTimers]
    /\ raf \in BOOLEAN /\ laidOut \in BOOLEAN
    /\ entries \in Seq(Hash) /\ current \in DOMAIN entries
    /\ due \in 0..MaxDue

\* "Only Screen 2 animates": never behind another screen, however fast the reader
\* changes tabs under the 50 ms timers, and a screen that is shown and has no timer
\* left is drawn.
ShownIsDrawn ==
    /\ raf => active = "schematic"
    /\ active = "schematic" /\ timers["schematic"] = 0 => raf
    /\ active = "architecture" /\ timers["architecture"] = 0 => laidOut

\* The address names the screen that is shown, once the browser has announced what
\* the reader did with Back, Forward and the address bar, and under its present
\* name: "the old name resolves rather than silently falling back".
AddressNamesScreen == active # "none" /\ due = 0 => entries[current] = active
=============================================================================
