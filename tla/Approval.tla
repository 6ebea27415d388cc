------------------------------ MODULE Approval ------------------------------
(***************************************************************************)
(* The sign-off sheet, apps/workspace/hitl.js: raised over a page that has *)
(* its own connection blocks, and completed by two seconds of held contact *)
(* or of a held Space key.                                                 *)
(*                                                                         *)
(* Time is counted in units of which a hold takes HoldUnits; a count stops *)
(* there, since nothing in the sheet tells longer times apart.             *)
(***************************************************************************)
EXTENDS Connection

CONSTANT HoldUnits    \* HOLD_MS

ASSUME HoldAssumption == HoldUnits \in Nat \ {0}

VARIABLES open,     \* openSheet
          raised,   \* the sheets that have been opened so far
          hold,     \* sheet -> the hold that is on, where `start` is set
          intervals,   \* sheet -> the intervals that call its tick()
          done,     \* sheet -> hold.disabled, and "You held it for ms"
          down,     \* what the person holds down: contact on the button, Space
          lasted,   \* how long each has been down without a break
          away      \* the window has lost focus: keys go elsewhere

holdVars == <<hold, intervals, done>>
bodyVars == <<down, lasted, away>>
approvalVars == <<connVars, open, raised, holdVars, bodyVars>>

Devices == {"contact", "Space"}
NoSheet == "no sheet"

ASSUME NoSheetAssumption == NoSheet \notin Sheet

\* A hold: who began it, the time since, and whether a release of Space since then
\* went to another window.
Holds == [by : Devices, elapsed : 0..HoldUnits, unseen : BOOLEAN]
NoHold == [by |-> "none", elapsed |-> 0, unseen |-> FALSE]

HoldIsOn(s) == hold[s] # NoHold

ApprovalInit ==
    /\ ConnInit
    /\ open = NoSheet /\ raised = {}
    /\ hold = [s \in Sheet |-> NoHold] /\ intervals = [s \in Sheet |-> 0]
    /\ done = [s \in Sheet |-> FALSE]
    /\ down = {} /\ lasted = [d \in Devices |-> 0] /\ away = FALSE

-----------------------------------------------------------------------------
\* openApproval(): one sheet at a time, its case block drawn with it.
Open(s) ==
    /\ runtime # "not asked"
    /\ open = NoSheet /\ s \notin raised
    /\ open' = s /\ raised' = raised \cup {s}
    /\ block' = [block EXCEPT ![<<s, "case">>] = Drawn]
    /\ UNCHANGED <<server, runtime, holdVars, bodyVars>>

\* close(), from Cancel, Escape or the backdrop: listeners and sheet go, and the
\* interval of a hold that is on does not.
Close ==
    /\ open # NoSheet
    /\ open' = NoSheet
    /\ block' = [b \in Block |-> IF b[1] = open THEN "absent" ELSE block[b]]
    /\ UNCHANGED <<server, runtime, raised, holdVars, bodyVars>>

\* begin(): a hold that is on, or a disabled button, leaves all as it is.
Begin(d) ==
    IF open = NoSheet \/ HoldIsOn(open) \/ done[open] THEN UNCHANGED holdVars
    ELSE /\ hold' = [hold EXCEPT ![open] = [NoHold EXCEPT !.by = d]]
         /\ intervals' = [intervals EXCEPT ![open] = @ + 1]
         /\ UNCHANGED done

CancelLeavingTimer ==    \* a bug: the interval runs on with start at zero
    IF open = NoSheet \/ ~HoldIsOn(open) THEN UNCHANGED holdVars
    ELSE /\ hold' = [hold EXCEPT ![open] = NoHold]
         /\ UNCHANGED <<intervals, done>>

\* cancelHold(): clearInterval stops the interval that was set last.
CancelHold ==
    IF open = NoSheet \/ ~HoldIsOn(open) THEN UNCHANGED holdVars
    ELSE /\ hold' = [hold EXCEPT ![open] = NoHold]
         /\ intervals' = [intervals EXCEPT ![open] = @ - 1]
         /\ UNCHANGED done

\* pointerdown on the hold button.
Touch ==
    /\ "contact" \notin down
    /\ down' = down \cup {"contact"}
    /\ Begin("contact")
    /\ UNCHANGED <<connVars, open, raised, lasted, away>>

\* pointerup, pointerleave or pointercancel of that contact.
LetGo ==
    /\ "contact" \in down
    /\ down' = down \ {"contact"} /\ lasted' = [lasted EXCEPT !["contact"] = 0]
    /\ CancelHold
    /\ UNCHANGED <<connVars, open, raised, away>>

\* keydown of Space, the button focused: the first one, a repeat is ignored.
PressSpace ==
    /\ "Space" \notin down /\ ~away
    /\ down' = down \cup {"Space"}
    /\ Begin("Space")
    /\ UNCHANGED <<connVars, open, raised, lasted, away>>

\* keyup of Space; no page hears it while the window is without focus.
ReleaseSpace ==
    /\ "Space" \in down
    /\ down' = down \ {"Space"} /\ lasted' = [lasted EXCEPT !["Space"] = 0]
    /\ IF away
       THEN /\ hold' = [s \in Sheet |-> IF HoldIsOn(s) THEN [hold[s] EXCEPT !.unseen = TRUE]
                                        ELSE NoHold]
            /\ UNCHANGED <<intervals, done>>
       ELSE CancelHold
    /\ UNCHANGED <<connVars, open, raised, away>>

\* The window loses the focus, or has it back.
SwitchWindow ==
    /\ away' = ~away
    /\ UNCHANGED <<connVars, open, raised, holdVars, down, lasted>>

-----------------------------------------------------------------------------
Later(n) == IF n < HoldUnits THEN n + 1 ELSE n

Pass ==
    /\ hold' = [s \in Sheet |-> IF HoldIsOn(s)
                                THEN [hold[s] EXCEPT !.elapsed = Later(@)]
                                ELSE NoHold]
    /\ lasted' = [d \in Devices |-> IF d \in down THEN Later(lasted[d]) ELSE 0]
    /\ UNCHANGED <<connVars, open, raised, intervals, done, down, away>>

\* performance.now() - start, and start is 0 when no hold is on.
Held(s) == IF HoldIsOn(s) THEN hold[s].elapsed ELSE HoldUnits

CompleteLeavingTimer(s) ==    \* a bug: the interval is not cleared
    /\ intervals[s] > 0 /\ Held(s) >= HoldUnits
    /\ hold' = [hold EXCEPT ![s] = NoHold]
    /\ done' = [done EXCEPT ![s] = TRUE]
    /\ block' = IF open = s THEN [block EXCEPT ![<<s, "result">>] = Drawn] ELSE block
    /\ UNCHANGED <<server, runtime, open, raised, intervals, bodyVars>>

\* tick() at the end of the hold, and complete(): on a closed sheet it finds no
\* document to write to. A tick before the end only moves the stroke.
Complete(s) ==
    /\ intervals[s] > 0 /\ Held(s) >= HoldUnits
    /\ intervals' = [intervals EXCEPT ![s] = @ - 1]
    /\ hold' = [hold EXCEPT ![s] = NoHold]
    /\ done' = [done EXCEPT ![s] = TRUE]
    /\ block' = IF open = s THEN [block EXCEPT ![<<s, "result">>] = Drawn] ELSE block
    /\ UNCHANGED <<server, runtime, open, raised, bodyVars>>

PageStep == (LoadPage \/ AnyAnswer) /\ UNCHANGED <<open, raised, holdVars, bodyVars>>

ApprovalNext ==
    \/ PageStep
    \/ \E s \in Sheet : Open(s) \/ Complete(s)
    \/ Close \/ Touch \/ LetGo \/ PressSpace \/ ReleaseSpace \/ SwitchWindow
    \/ Pass

\* The server answers or its connection fails; a browser's clock and its intervals
\* do not stop. What the person does is never promised.
ApprovalFairness ==
    /\ WF_approvalVars(AnyAnswer /\ UNCHANGED <<open, raised, holdVars, bodyVars>>)
    /\ WF_approvalVars(Pass)
    /\ \A s \in Sheet : WF_approvalVars(Complete(s))

ApprovalSpec == ApprovalInit /\ [][ApprovalNext]_approvalVars /\ ApprovalFairness

-----------------------------------------------------------------------------
ApprovalTypeOK ==
    /\ ConnTypeOK
    /\ open \in Sheet \cup {NoSheet} /\ raised \subseteq Sheet
    /\ hold \in [Sheet -> Holds \cup {NoHold}]
    /\ intervals \in [Sheet -> Nat] /\ done \in [Sheet -> BOOLEAN]
    /\ down \subseteq Devices /\ lasted \in [Devices -> 0..HoldUnits]
    /\ away \in BOOLEAN

\* "Release early and nothing happens", "two seconds of sustained intent": a sheet
\* on the screen is completed only while what began its hold is still down and has
\* been for the whole time, whichever device was pressed or let go beside it. The
\* exception is the release that the window did not see.
CompletesOnlyHeld ==
    [][\A s \in Sheet :
          (~done[s] /\ done'[s] /\ open = s /\ ~hold[s].unseen)
             => \E d \in down : d = hold[s].by /\ lasted[d] >= HoldUnits]_approvalVars

\* One interval for a hold that is on and none otherwise: what cancelHold clears is
\* all there is to clear.
TimerIsOfTheHold == \A s \in Sheet : intervals[s] = (IF HoldIsOn(s) THEN 1 ELSE 0)

\* Whatever is pressed, released or closed, an interval stops in the end.
TimerStops == \A s \in Sheet : intervals[s] > 0 ~> intervals[s] = 0

-----------------------------------------------------------------------------
(* The inductive invariant: what holds between the events.                 *)

\* Before the page is loaded there is nothing on it; a sheet is raised once.
Raising ==
    /\ runtime = "not asked" => raised = {} /\ \A b \in Block : block[b] = "absent"
    /\ open # NoSheet => open \in raised
    /\ \A s \in Sheet \ raised : hold[s] = NoHold

\* What began the hold of the sheet on the screen is down, and its clock does not
\* run ahead of it, unless a release went to another window.
HeldSinceBegun ==
    \A s \in Sheet : open = s /\ HoldIsOn(s) /\ ~hold[s].unseen =>
        hold[s].by \in down /\ lasted[hold[s].by] >= hold[s].elapsed

ApprovalInv == /\ ApprovalTypeOK /\ BlocksSayTheAnswer /\ TimerIsOfTheHold
               /\ Raising /\ HeldSinceBegun
=============================================================================
