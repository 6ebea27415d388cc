---------------------------- MODULE PagesProofs ----------------------------
(***************************************************************************)
(* What each page guarantees for every value of its constants: the sign-   *)
(* off sheet for any blocks, sheets and length of the hold (Approval), the *)
(* front end for any screens and any length of history (Screens), for any  *)
(* tables, joins and filters (DataGraph), the case's connection traces for *)
(* any data behind them (GraphScreen), the landing page's slider for any   *)
(* length of its window (Motion); and, with what AnswersProofs says of the *)
(* router and of the answer, all of them together (Pages).                 *)
(***************************************************************************)
EXTENDS Pages, AnswersProofs

-----------------------------------------------------------------------------
(* The sign-off sheet.                                                     *)

\* Where the counts start and end.
LEMMA Counts == 0 \in 0..HoldUnits /\ 0 \in Nat /\ 1 - 1 = 0
  BY HoldAssumption

\* A block that is drawn is checking or says what the call answered.
LEMMA DrawnType ==
  ASSUME runtime \in {"not asked", "pending"} \cup Outcomes, runtime # "not asked"
  PROVE  Drawn \in {"checking"} \cup Outcomes
  BY DEF Drawn

\* What comes back is one of the outcomes.
LEMMA OutcomeType ==
  ASSUME NEW s \in Servers, NEW reply \in Replies(s)
  PROVE  Outcome(reply) \in Outcomes
  BY DEF Servers, Replies, Outcome, Outcomes

\* No sheet is open and no call made.
LEMMA InitApprovalInv == ApprovalInit => ApprovalInv
<1> SUFFICES ASSUME ApprovalInit PROVE ApprovalInv
  OBVIOUS
<1> USE DEF ApprovalInit, ConnInit
<1>1. ConnTypeOK
  BY DEF ConnTypeOK, Servers
<1>2. ApprovalTypeOK
  <2>1. lasted \in [Devices -> 0..HoldUnits] /\ intervals \in [Sheet -> Nat]
    BY Counts
  <2>2. QED
    BY <1>1, <2>1 DEF ApprovalTypeOK
<1>3. BlocksSayTheAnswer /\ TimerIsOfTheHold /\ Raising /\ HeldSinceBegun
  BY DEF BlocksSayTheAnswer, TimerIsOfTheHold, Raising, HeldSinceBegun, HoldIsOn
<1>4. QED
  BY <1>2, <1>3 DEF ApprovalInv

-----------------------------------------------------------------------------
(* The page and its call. No hold changes.                                 *)

\* The page makes its call and draws its blocks.
LEMMA LoadPageStep ==
  ASSUME ApprovalInv, LoadPage, UNCHANGED <<open, raised, holdVars, bodyVars>>
  PROVE  ApprovalInv'
<1> USE DEF ApprovalInv, LoadPage, holdVars, bodyVars
<1>1. ApprovalTypeOK'
  BY DEF ApprovalTypeOK, ConnTypeOK
<1>2. BlocksSayTheAnswer'
  BY DEF BlocksSayTheAnswer, Drawn
<1>3. TimerIsOfTheHold' /\ Raising' /\ HeldSinceBegun'
  BY DEF TimerIsOfTheHold, Raising, HeldSinceBegun, HoldIsOn
<1>4. QED
  BY <1>1, <1>2, <1>3

\* What the call answered is painted into every block there is.
LEMMA AnswerStep ==
  ASSUME ApprovalInv, AnyAnswer, UNCHANGED <<open, raised, holdVars, bodyVars>>
  PROVE  ApprovalInv'
<1>1. PICK reply \in Replies(server) : Answer(reply)
  BY DEF AnyAnswer
<1> USE <1>1 DEF ApprovalInv, Answer, holdVars, bodyVars
<1>2. Outcome(reply) \in Outcomes
  BY OutcomeType DEF ApprovalTypeOK, ConnTypeOK
<1>3. ApprovalTypeOK'
  BY <1>2 DEF ApprovalTypeOK, ConnTypeOK
<1>4. BlocksSayTheAnswer'
  BY <1>2 DEF BlocksSayTheAnswer, Drawn, Outcomes
<1>5. TimerIsOfTheHold' /\ Raising' /\ HeldSinceBegun'
  BY <1>2 DEF TimerIsOfTheHold, Raising, HeldSinceBegun, HoldIsOn, Outcomes
<1>6. QED
  BY <1>3, <1>4, <1>5

-----------------------------------------------------------------------------
(* A sheet comes and goes.                                                 *)

\* A sheet opens with a block of its own and no hold.
LEMMA OpenStep ==
  ASSUME ApprovalInv, NEW s \in Sheet, Open(s)
  PROVE  ApprovalInv'
<1> USE DEF ApprovalInv, Open, holdVars, bodyVars
<1>1. Drawn \in {"checking"} \cup Outcomes /\ Drawn' = Drawn
  BY DrawnType DEF ApprovalTypeOK, ConnTypeOK, Drawn
<1>2. ApprovalTypeOK'
  BY <1>1 DEF ApprovalTypeOK, ConnTypeOK
<1>3. BlocksSayTheAnswer'
  BY <1>1 DEF BlocksSayTheAnswer, ApprovalTypeOK, ConnTypeOK
<1>4. TimerIsOfTheHold' /\ Raising' /\ HeldSinceBegun'
  BY NoSheetAssumption DEF TimerIsOfTheHold, Raising, HeldSinceBegun, HoldIsOn
<1>5. QED
  BY <1>2, <1>3, <1>4

\* A sheet is taken away, with whatever hold is on.
LEMMA CloseStep ==
  ASSUME ApprovalInv, Close
  PROVE  ApprovalInv'
<1> USE DEF ApprovalInv, Close, holdVars, bodyVars
<1>1. Drawn' = Drawn
  BY DEF Drawn
<1>2. ApprovalTypeOK'
  BY DEF ApprovalTypeOK, ConnTypeOK
<1>3. BlocksSayTheAnswer'
  BY <1>1 DEF BlocksSayTheAnswer
<1>4. TimerIsOfTheHold' /\ Raising' /\ HeldSinceBegun'
  BY NoSheetAssumption DEF TimerIsOfTheHold, Raising, HeldSinceBegun, HoldIsOn
<1>5. QED
  BY <1>2, <1>3, <1>4

-----------------------------------------------------------------------------
(* What the person presses and lets go.                                    *)

\* Nothing that a person presses touches the page under the sheet.
LEMMA PageUntouched ==
  ASSUME ApprovalInv, UNCHANGED <<connVars, open, raised>>
  PROVE  ConnTypeOK' /\ BlocksSayTheAnswer' /\ open' = open /\ raised' = raised
  BY DEF ApprovalInv, ApprovalTypeOK, connVars, ConnTypeOK, BlocksSayTheAnswer, Drawn

\* A press begins a hold only on the sheet on the screen, when none is on.
LEMMA BeginHolds ==
  ASSUME ApprovalInv, NEW d \in Devices, Begin(d), UNCHANGED <<connVars, open, raised>>,
         lasted' = lasted, down' = down \cup {d}, away' \in BOOLEAN
  PROVE  ApprovalInv'
<1> USE DEF ApprovalInv
<1>1. CASE open = NoSheet \/ HoldIsOn(open) \/ done[open]
  <2>1. UNCHANGED holdVars
    BY <1>1 DEF Begin
  <2>2. ApprovalTypeOK'
    BY <2>1, PageUntouched DEF ApprovalTypeOK, holdVars
  <2>3. TimerIsOfTheHold' /\ Raising' /\ HeldSinceBegun'
    BY <2>1 DEF TimerIsOfTheHold, Raising, HeldSinceBegun, HoldIsOn, holdVars, connVars
  <2>4. QED
    BY <2>2, <2>3, PageUntouched
<1>2. CASE ~(open = NoSheet \/ HoldIsOn(open) \/ done[open])
  <2> DEFINE new == [by |-> d, elapsed |-> 0, unseen |-> FALSE]
  <2>1. /\ open \in Sheet /\ new \in Holds /\ new # NoHold
        /\ hold' = [hold EXCEPT ![open] = new]
        /\ intervals' = [intervals EXCEPT ![open] = intervals[open] + 1]
        /\ done' = done
    BY <1>2, HoldAssumption
    DEF Begin, ApprovalTypeOK, Holds, NoHold, Devices
  <2>2. ApprovalTypeOK'
    BY <2>1, PageUntouched DEF ApprovalTypeOK
  <2>3. TimerIsOfTheHold'
    BY <1>2, <2>1 DEF TimerIsOfTheHold, HoldIsOn, ApprovalTypeOK
  <2>4. Raising'
    BY <2>1, NoSheetAssumption DEF Raising, ApprovalTypeOK, connVars
  <2>5. HeldSinceBegun'
    <3> SUFFICES ASSUME NEW s \in Sheet, open' = s, HoldIsOn(s)', ~hold'[s].unseen
                 PROVE  hold'[s].by \in down' /\ lasted'[hold'[s].by] >= hold'[s].elapsed
      BY DEF HeldSinceBegun
    <3>1. hold'[s] = new
      BY <2>1 DEF ApprovalTypeOK
    <3>2. hold'[s].by = d /\ hold'[s].elapsed = 0 /\ lasted'[d] \in Nat
      BY <3>1, HoldAssumption DEF ApprovalTypeOK
    <3>3. QED
      BY <3>2
  <2>6. QED
    BY <2>2, <2>3, <2>4, <2>5, PageUntouched
<1>3. QED
  BY <1>1, <1>2

\* A release that is heard leaves no hold on the sheet on the screen.
LEMMA CancelHolds ==
  ASSUME ApprovalInv, NEW d \in Devices, CancelHold, UNCHANGED <<connVars, open, raised>>,
         lasted' = [lasted EXCEPT ![d] = 0], down' = down \ {d}, away' = away
  PROVE  ApprovalInv'
<1> USE DEF ApprovalInv
<1>1. lasted' \in [Devices -> 0..HoldUnits] /\ down' \subseteq Devices
  BY HoldAssumption DEF ApprovalTypeOK
<1>2. CASE open = NoSheet \/ ~HoldIsOn(open)
  <2>1. UNCHANGED holdVars
    BY <1>2 DEF CancelHold
  <2>2. ApprovalTypeOK'
    BY <1>1, <2>1, PageUntouched DEF ApprovalTypeOK, holdVars
  <2>3. TimerIsOfTheHold' /\ Raising' /\ HeldSinceBegun'
    BY <1>2, <2>1, NoSheetAssumption
    DEF TimerIsOfTheHold, Raising, HeldSinceBegun, HoldIsOn, holdVars, connVars
  <2>4. QED
    BY <2>2, <2>3, PageUntouched
<1>3. CASE ~(open = NoSheet \/ ~HoldIsOn(open))
  <2>1. /\ open \in Sheet /\ intervals[open] = 1
        /\ hold' = [hold EXCEPT ![open] = NoHold]
        /\ intervals' = [intervals EXCEPT ![open] = intervals[open] - 1]
        /\ done' = done
    BY <1>3 DEF CancelHold, ApprovalTypeOK, TimerIsOfTheHold
  <2>2. ApprovalTypeOK'
    BY <1>1, <2>1, PageUntouched DEF ApprovalTypeOK
  <2>3. TimerIsOfTheHold'
    BY <2>1 DEF TimerIsOfTheHold, HoldIsOn, ApprovalTypeOK
  <2>4. Raising' /\ HeldSinceBegun'
    BY <2>1 DEF Raising, HeldSinceBegun, HoldIsOn, ApprovalTypeOK, connVars
  <2>5. QED
    BY <2>2, <2>3, <2>4, PageUntouched
<1>4. QED
  BY <1>2, <1>3

\* A release of Space that another window swallows.
LEMMA UnseenRelease ==
  ASSUME ApprovalInv, ReleaseSpace, away
  PROVE  ApprovalInv'
<1> USE DEF ApprovalInv, ReleaseSpace
<1> DEFINE missed(s) == [hold[s] EXCEPT !.unseen = TRUE]
<1>1. UNCHANGED <<connVars, open, raised, intervals, done, away>>
  OBVIOUS
<1>2. \A s \in Sheet : HoldIsOn(s) => /\ hold[s] \in Holds /\ missed(s) \in Holds
                                      /\ missed(s) # NoHold /\ missed(s).unseen
  BY DEF ApprovalTypeOK, Holds, NoHold, HoldIsOn, Devices
<1>3. hold' = [s \in Sheet |-> IF HoldIsOn(s) THEN missed(s) ELSE NoHold]
  OBVIOUS
<1> HIDE DEF missed
<1>4. \A s \in Sheet : (HoldIsOn(s)' <=> HoldIsOn(s)) /\ (HoldIsOn(s) => hold'[s].unseen)
  BY <1>2, <1>3 DEF HoldIsOn
<1>5. ApprovalTypeOK'
  BY <1>1, <1>2, <1>3, PageUntouched, HoldAssumption DEF ApprovalTypeOK, Devices
<1>6. TimerIsOfTheHold' /\ HeldSinceBegun'
  BY <1>1, <1>4 DEF TimerIsOfTheHold, HeldSinceBegun
<1>7. Raising'
  BY <1>1, <1>3 DEF Raising, HoldIsOn, connVars
<1>8. QED
  BY <1>1, <1>5, <1>6, <1>7, PageUntouched

\* The reader turns to another window and back.
LEMMA SwitchStep ==
  ASSUME ApprovalInv, SwitchWindow
  PROVE  ApprovalInv'
<1> USE DEF ApprovalInv, SwitchWindow, holdVars
<1>1. ApprovalTypeOK'
  BY PageUntouched DEF ApprovalTypeOK
<1>2. TimerIsOfTheHold' /\ Raising' /\ HeldSinceBegun'
  BY DEF TimerIsOfTheHold, Raising, HeldSinceBegun, HoldIsOn, connVars
<1>3. QED
  BY <1>1, <1>2, PageUntouched

-----------------------------------------------------------------------------
(* Time.                                                                   *)

\* Time that passes for a contact and for the hold alike.
LEMMA LaterGrows ==
  ASSUME NEW m \in 0..HoldUnits, NEW n \in 0..HoldUnits, m >= n
  PROVE  Later(m) \in 0..HoldUnits /\ Later(m) >= Later(n)
  BY HoldAssumption DEF Later

\* Time passes, for what is down and for the holds that are on.
LEMMA PassStep ==
  ASSUME ApprovalInv, Pass
  PROVE  ApprovalInv'
<1> USE DEF ApprovalInv, Pass
<1> DEFINE older(s) == [hold[s] EXCEPT !.elapsed = Later(hold[s].elapsed)]
<1>1. UNCHANGED <<connVars, open, raised, intervals, done, away, down>>
  OBVIOUS
<1>2. \A s \in Sheet : HoldIsOn(s) =>
         /\ hold[s] \in Holds /\ older(s) \in Holds /\ older(s) # NoHold
         /\ older(s).by = hold[s].by /\ older(s).unseen = hold[s].unseen
         /\ older(s).elapsed = Later(hold[s].elapsed)
  <2> SUFFICES ASSUME NEW s \in Sheet, HoldIsOn(s)
               PROVE  /\ hold[s] \in Holds /\ older(s) \in Holds /\ older(s) # NoHold
                      /\ older(s).by = hold[s].by /\ older(s).unseen = hold[s].unseen
                      /\ older(s).elapsed = Later(hold[s].elapsed)
    OBVIOUS
  <2>1. hold[s] \in Holds
    BY DEF ApprovalTypeOK, HoldIsOn
  <2>2. Later(hold[s].elapsed) \in 0..HoldUnits
    BY <2>1, LaterGrows DEF Holds
  <2>3. QED
    BY <2>1, <2>2 DEF Holds, NoHold, Devices
<1>3. hold' = [s \in Sheet |-> IF HoldIsOn(s) THEN older(s) ELSE NoHold]
  OBVIOUS
<1> HIDE DEF older
<1>4. \A s \in Sheet : HoldIsOn(s)' <=> HoldIsOn(s)
  BY <1>2, <1>3 DEF HoldIsOn
<1>5. lasted' \in [Devices -> 0..HoldUnits]
  BY LaterGrows, HoldAssumption DEF ApprovalTypeOK
<1>6. ApprovalTypeOK'
  BY <1>1, <1>2, <1>3, <1>5, PageUntouched DEF ApprovalTypeOK
<1>7. TimerIsOfTheHold'
  BY <1>1, <1>4 DEF TimerIsOfTheHold
<1>8. Raising'
  BY <1>1, <1>3 DEF Raising, HoldIsOn, connVars
<1>9. HeldSinceBegun'
  <2> SUFFICES ASSUME NEW s \in Sheet, open' = s, HoldIsOn(s)', ~hold'[s].unseen
               PROVE  hold'[s].by \in down' /\ lasted'[hold'[s].by] >= hold'[s].elapsed
    BY DEF HeldSinceBegun
  <2>1. HoldIsOn(s) /\ hold'[s] = older(s)
    BY <1>3, <1>4
  <2>2. /\ hold'[s].by = hold[s].by /\ hold'[s].elapsed = Later(hold[s].elapsed)
        /\ ~hold[s].unseen
    BY <1>2, <2>1
  <2>3. hold[s].by \in down /\ lasted[hold[s].by] >= hold[s].elapsed
    BY <1>1, <2>1, <2>2 DEF HeldSinceBegun
  <2>4. lasted'[hold[s].by] = Later(lasted[hold[s].by])
    BY <2>3 DEF ApprovalTypeOK
  <2>5. Later(lasted[hold[s].by]) >= Later(hold[s].elapsed)
    BY <1>2, <2>1, <2>3, LaterGrows DEF ApprovalTypeOK, Holds
  <2>6. QED
    BY <1>1, <2>2, <2>3, <2>4, <2>5
<1>10. QED
  BY <1>1, <1>6, <1>7, <1>8, <1>9, PageUntouched

\* The interval fires on a hold that has lasted.
LEMMA CompleteStep ==
  ASSUME ApprovalInv, NEW s \in Sheet, Complete(s)
  PROVE  ApprovalInv'
<1> USE DEF ApprovalInv, Complete, bodyVars
<1>1. intervals[s] = 1 /\ HoldIsOn(s) /\ s \in raised /\ runtime # "not asked"
  <2>1. intervals[s] = 1 /\ HoldIsOn(s)
    BY DEF TimerIsOfTheHold
  <2>2. s \in raised
    BY <2>1 DEF Raising, HoldIsOn
  <2>3. QED
    BY <2>1, <2>2 DEF Raising
<1>2. Drawn \in {"checking"} \cup Outcomes /\ Drawn' = Drawn
  BY <1>1, DrawnType DEF ApprovalTypeOK, ConnTypeOK, Drawn
<1>3. ConnTypeOK' /\ BlocksSayTheAnswer'
  BY <1>2 DEF ApprovalTypeOK, ConnTypeOK, BlocksSayTheAnswer
<1> DEFINE rest == [intervals EXCEPT ![s] = 0]
<1>4. intervals' = rest /\ rest \in [Sheet -> Nat]
  <2>1. intervals' = [intervals EXCEPT ![s] = intervals[s] - 1]
    OBVIOUS
  <2>2. intervals' = [intervals EXCEPT ![s] = 1 - 1]
    BY ONLY <1>1, <2>1
  <2>3. QED
    BY <2>2, Counts DEF ApprovalTypeOK
<1>5. ApprovalTypeOK' /\ TimerIsOfTheHold'
  <2>1. ApprovalTypeOK'
    BY <1>3, <1>4 DEF ApprovalTypeOK
  <2>2. TimerIsOfTheHold'
    BY <1>4 DEF TimerIsOfTheHold, HoldIsOn, ApprovalTypeOK
  <2>3. QED
    BY <2>1, <2>2
<1>6. Raising' /\ HeldSinceBegun'
  BY <1>1 DEF Raising, HeldSinceBegun, HoldIsOn, ApprovalTypeOK
<1>7. QED
  BY <1>3, <1>5, <1>6

-----------------------------------------------------------------------------
\* One lemma for each action.
LEMMA NextApprovalInv == ApprovalInv /\ [ApprovalNext]_approvalVars => ApprovalInv'
<1> SUFFICES ASSUME ApprovalInv, [ApprovalNext]_approvalVars PROVE ApprovalInv'
  OBVIOUS
<1>1. CASE PageStep
  BY <1>1, LoadPageStep, AnswerStep DEF PageStep
<1>2. CASE \E s \in Sheet : Open(s) \/ Complete(s)
  BY <1>2, OpenStep, CompleteStep
<1>3. CASE Close
  BY <1>3, CloseStep
<1>4. CASE Touch
  BY <1>4, BeginHolds DEF Touch, Devices, ApprovalInv, ApprovalTypeOK
<1>5. CASE LetGo
  BY <1>5, CancelHolds DEF LetGo, Devices
<1>6. CASE PressSpace
  BY <1>6, BeginHolds DEF PressSpace, Devices, ApprovalInv, ApprovalTypeOK
<1>7. CASE ReleaseSpace
  BY <1>7, UnseenRelease, CancelHolds DEF ReleaseSpace, Devices
<1>8. CASE SwitchWindow
  BY <1>8, SwitchStep
<1>9. CASE Pass
  BY <1>9, PassStep
<1>10. CASE UNCHANGED approvalVars
  BY <1>10 DEF approvalVars, connVars, holdVars, bodyVars, ApprovalInv, ApprovalTypeOK,
       ConnTypeOK, BlocksSayTheAnswer, Drawn, TimerIsOfTheHold, Raising,
       HeldSinceBegun, HoldIsOn
<1>11. QED
  BY <1>1, <1>2, <1>3, <1>4, <1>5, <1>6, <1>7, <1>8, <1>9, <1>10 DEF ApprovalNext

\* The inductive invariant holds of the sheet.
THEOREM ApprovalHolds == ApprovalSpec => []ApprovalInv
  BY InitApprovalInv, NextApprovalInv, PTL DEF ApprovalSpec

\* Every state of the sheet has the shape the code gives it.
THEOREM ApprovalTypes == ApprovalSpec => []ApprovalTypeOK
  BY ApprovalHolds, PTL DEF ApprovalInv

\* Every block of the page and of its sheets says what the one call answered.
THEOREM BlocksAgree == ApprovalSpec => []BlocksSayTheAnswer
  BY ApprovalHolds, PTL DEF ApprovalInv

\* There is one interval for a hold that is on, and none otherwise.
THEOREM OneTimer == ApprovalSpec => []TimerIsOfTheHold
  BY ApprovalHolds, PTL DEF ApprovalInv

\* A sheet on the screen is completed only by what has been held down for it the
\* whole time, unless a release went unseen.
THEOREM OnlyHeldCompletes == ApprovalSpec => CompletesOnlyHeld
<1>1. ASSUME ApprovalInv, [ApprovalNext]_approvalVars, NEW s \in Sheet,
             ~done[s], done'[s], open = s, ~hold[s].unseen
      PROVE  \E d \in down : d = hold[s].by /\ lasted[d] >= HoldUnits
  <2>1. Complete(s)
    BY <1>1 DEF ApprovalNext, PageStep, Open, Close, Touch, LetGo, PressSpace, ReleaseSpace,
         SwitchWindow, Pass, Begin, CancelHold, Complete, holdVars, approvalVars,
         ApprovalInv, ApprovalTypeOK
  <2>2. HoldIsOn(s) /\ hold[s].elapsed >= HoldUnits /\ hold[s] \in Holds
    BY <1>1, <2>1 DEF Complete, ApprovalInv, TimerIsOfTheHold, Held, HoldIsOn, ApprovalTypeOK
  <2>3. hold[s].by \in down /\ lasted[hold[s].by] >= hold[s].elapsed
    BY <1>1, <2>2 DEF ApprovalInv, HeldSinceBegun
  <2>4. lasted[hold[s].by] \in 0..HoldUnits
    BY <1>1, <2>3 DEF ApprovalInv, ApprovalTypeOK
  <2>5. QED
    BY <2>2, <2>3, <2>4, HoldAssumption DEF Holds
<1> DEFINE HeldOne == \A s \in Sheet :
                     (~done[s] /\ done'[s] /\ open = s /\ ~hold[s].unseen)
                        => \E d \in down : d = hold[s].by /\ lasted[d] >= HoldUnits
<1>2. ApprovalInv /\ [ApprovalNext]_approvalVars => [HeldOne]_approvalVars
  BY <1>1
<1> HIDE DEF HeldOne
<1>3. ApprovalSpec => [][HeldOne]_approvalVars
  BY <1>2, ApprovalHolds, PTL DEF ApprovalSpec
<1>4. QED
  BY <1>3 DEF CompletesOnlyHeld, HeldOne

-----------------------------------------------------------------------------
(* The router and what it draws.                                           *)

\* What is on its way to the canvas, the graph or the address.
ScreensInv == /\ ScreensTypeOK /\ ShownIsDrawn /\ AddressNamesScreen
              /\ active = "none" => due = 0

\* A new entry is where the history then stands, whatever was ahead of it.
LEMMA PushWrites ==
  ASSUME entries \in Seq(Hash), current \in DOMAIN entries, NEW hash \in Hash, Push(hash)
  PROVE  /\ entries' \in Seq(Hash) /\ current' \in DOMAIN entries'
         /\ entries'[current'] = hash
<1>1. current \in 1..Len(entries) /\ Len(entries) \in Nat
  OBVIOUS
<1> DEFINE kept == SubSeq(entries, 1, current)
<1>2. kept \in Seq(Hash) /\ Len(kept) = current
  BY <1>1, SubSeqProperties
<1>3. /\ Append(kept, hash) \in Seq(Hash) /\ Len(Append(kept, hash)) = current + 1
      /\ Append(kept, hash)[current + 1] = hash
  BY <1>1, <1>2, AppendProperties
<1>4. entries' = Append(kept, hash) /\ current' = current + 1
  BY DEF Push
<1>5. current + 1 \in DOMAIN Append(kept, hash)
  BY <1>1, <1>3
<1>6. QED
  BY <1>3, <1>4, <1>5

\* Any address names a screen.
LEMMA NamedType == \A hash \in Hash : Named(hash) \in Screen /\ Named(hash) \in Hash
  BY ScreenAssumption DEF Named, Legacy, Hash

\* go() from anywhere to a screen.
LEMMA GoStep ==
  ASSUME ScreensInv, NEW hash \in Hash, Go(hash), due' \in 0..MaxDue
  PROVE  ScreensInv'
<1> USE DEF ScreensInv
<1>1. Named(hash) \in Screen /\ Named(hash) \in Hash
  BY NamedType
<1>2. /\ entries' \in Seq(Hash) /\ current' \in DOMAIN entries'
      /\ entries'[current'] = Named(hash)
  BY <1>1, PushWrites DEF Go, ScreensTypeOK
<1>3. active' = Named(hash) /\ active' # "none"
  BY <1>1, ScreenAssumption DEF Go
<1>4. /\ timers' \in [Drawing -> 0..MaxTimers]
      /\ \A s \in Drawing : s = Named(hash) => timers'[s] > 0
  <2>1. \A s \in Drawing : timers[s] \in Nat /\ timers'[s] \in Nat /\ timers'[s] <= MaxTimers
    BY DEF Go, ScreensTypeOK
  <2>2. timers' = [s \in Drawing |-> IF s = Named(hash) THEN timers[s] + 1 ELSE timers[s]]
    BY DEF Go
  <2>3. QED
    BY <2>1, <2>2, ScreenBounds
<1>5. ScreensTypeOK'
  BY <1>1, <1>2, <1>4 DEF Go, ScreensTypeOK
<1>6. ShownIsDrawn'
  <2>1. raf' => active' = "schematic"
    BY DEF Go
  <2>2. active' \in Drawing => timers'[active'] > 0
    BY <1>3, <1>4
  <2>3. \A s \in Drawing : active' = s => timers'[s] # 0
    BY <1>4, <2>2
  <2>4. QED
    BY <2>1, <2>3 DEF ShownIsDrawn, Drawing
<1>7. QED
  BY <1>2, <1>3, <1>5, <1>6 DEF AddressNamesScreen

\* A timer fires: one is left fewer of that screen, and none of another.
LEMMA TimerFires ==
  ASSUME ScreensInv, NEW s \in Drawing, timers[s] > 0,
         timers' = [timers EXCEPT ![s] = @ - 1]
  PROVE  /\ timers' \in [Drawing -> 0..MaxTimers]
         /\ \A z \in Drawing \ {s} : timers'[z] = timers[z]
<1>1. timers[s] \in Nat /\ timers[s] <= MaxTimers /\ MaxTimers \in Nat
  BY ScreenBounds DEF ScreensInv, ScreensTypeOK
<1>2. timers[s] - 1 \in 0..MaxTimers
  BY <1>1
<1>3. QED
  BY <1>2 DEF ScreensInv, ScreensTypeOK

\* The canvas is started on the schematic and nowhere else.
LEMMA CanvasStep ==
  ASSUME ScreensInv, EnterCanvas \/ Resize
  PROVE  ScreensInv'
<1> USE DEF ScreensInv, EnterCanvas, Resize, StartCanvas
<1>1. timers' \in [Drawing -> 0..MaxTimers]
  BY TimerFires DEF Drawing, ScreensTypeOK
<1>2. timers'["architecture"] = timers["architecture"]
  BY TimerFires DEF Drawing
<1>3. ScreensTypeOK'
  BY <1>1 DEF ScreensTypeOK
<1>4. ShownIsDrawn'
  BY <1>2 DEF ShownIsDrawn
<1>5. QED
  BY <1>3, <1>4 DEF AddressNamesScreen

\* The timer that lays out the graph.
LEMMA EnterGraphStep ==
  ASSUME ScreensInv, EnterGraph
  PROVE  ScreensInv'
<1> USE DEF ScreensInv, EnterGraph
<1>1. timers' \in [Drawing -> 0..MaxTimers] /\ timers'["schematic"] = timers["schematic"]
  BY TimerFires DEF Drawing
<1>2. ScreensTypeOK'
  BY <1>1 DEF ScreensTypeOK
<1>3. ShownIsDrawn'
  BY <1>1 DEF ShownIsDrawn
<1>4. QED
  BY <1>2, <1>3 DEF AddressNamesScreen

\* The reader goes to another address: until the browser has announced it, the
\* address may name what is not shown.
LEMMA AddressStep ==
  ASSUME ScreensInv, (\E hash \in Hash : TypeAddress(hash)) \/ (\E to \in 1..MaxEntries : Travel(to))
  PROVE  ScreensInv'
<1> USE DEF ScreensInv
<1>1. UNCHANGED <<active, timers, raf, laidOut>> /\ active # "none"
  BY DEF TypeAddress, Travel
<1>2. entries' \in Seq(Hash) /\ current' \in DOMAIN entries'
  <2>1. CASE \E hash \in Hash : TypeAddress(hash)
    BY <2>1, PushWrites DEF TypeAddress, ScreensTypeOK
  <2>2. CASE \E to \in 1..MaxEntries : Travel(to)
    BY <2>2 DEF Travel, ScreensTypeOK
  <2>3. QED
    BY <2>1, <2>2
<1>3. due' \in 0..MaxDue /\ (due' = 0 => due = 0 /\ entries'[current'] = entries[current])
  <2> SUFFICES ASSUME NEW to, Announce(entries[current], to), entries'[current'] = to
               PROVE  due' \in 0..MaxDue
                      /\ (due' = 0 => due = 0 /\ entries'[current'] = entries[current])
    <3>1. CASE \E hash \in Hash : TypeAddress(hash)
      BY <3>1, PushWrites DEF TypeAddress, ScreensTypeOK
    <3>2. CASE \E to \in 1..MaxEntries : Travel(to)
      BY <3>2 DEF Travel
    <3>3. QED
      BY <3>1, <3>2
  <2>1. due \in Nat /\ due' \in Nat /\ due' <= MaxDue /\ MaxDue \in Nat
    BY ScreenBounds DEF Announce, ScreensTypeOK
  <2>2. due' = 0 => entries[current] = to /\ due = 0
    BY <2>1 DEF Announce
  <2>3. QED
    BY <2>1, <2>2
<1>4. ScreensTypeOK'
  BY <1>1, <1>2, <1>3 DEF ScreensTypeOK
<1>5. ShownIsDrawn' /\ AddressNamesScreen'
  BY <1>1, <1>3 DEF ShownIsDrawn, AddressNamesScreen
<1>6. QED
  BY <1>1, <1>4, <1>5

\* The document before its first go().
LEMMA InitScreensInv == ScreensInit => ScreensInv
<1> SUFFICES ASSUME ScreensInit PROVE ScreensInv
  OBVIOUS
<1>1. <<"">> \in Seq(Hash) /\ 1 \in DOMAIN <<"">>
  BY DEF Hash
<1>2. 0 \in 0..MaxTimers /\ 0 \in 0..MaxDue
  BY ScreenBounds
<1>3. ScreensTypeOK
  BY <1>1, <1>2 DEF ScreensInit, ScreensTypeOK
<1>4. QED
  BY <1>3 DEF ScreensInit, ScreensInv, ShownIsDrawn, AddressNamesScreen

\* Entries, timers, the animation and the history.
LEMMA NextScreensInv == ScreensInv /\ [ScreensNext]_screensVars => ScreensInv'
<1> SUFFICES ASSUME ScreensInv, [ScreensNext]_screensVars PROVE ScreensInv'
  OBVIOUS
<1>1. entries[current] \in Hash /\ Screen \subseteq Hash /\ due \in 0..MaxDue
  <2>1. entries \in Seq(Hash) /\ current \in DOMAIN entries /\ due \in 0..MaxDue
    BY DEF ScreensInv, ScreensTypeOK
  <2>2. entries[current] \in Hash
    BY ONLY <2>1, ElementOfSeq
  <2>3. Screen \subseteq Hash
    BY DEF Hash
  <2>4. QED
    BY <2>1, <2>2, <2>3
<1>2. CASE Start
  BY <1>1, <1>2, GoStep DEF Start
<1>3. CASE HashChange
  <2>1. due' \in 0..MaxDue
    BY <1>1, <1>3, ScreenBounds DEF HashChange
  <2>2. QED
    BY <1>1, <1>3, <2>1, GoStep DEF HashChange
<1>4. CASE \E s \in Screen : Tab(s)
  BY <1>1, <1>4, GoStep DEF Tab
<1>5. CASE EnterCanvas \/ Resize
  BY <1>5, CanvasStep
<1>6. CASE EnterGraph
  BY <1>6, EnterGraphStep
<1>7. CASE (\E hash \in Hash : TypeAddress(hash)) \/ (\E to \in 1..MaxEntries : Travel(to))
  BY <1>7, AddressStep
<1>8. CASE UNCHANGED screensVars
  BY <1>8 DEF screensVars, ScreensInv, ScreensTypeOK, ShownIsDrawn, AddressNamesScreen
<1>9. QED
  BY <1>2, <1>3, <1>4, <1>5, <1>6, <1>7, <1>8 DEF ScreensNext

\* Put together.
LEMMA ScreensHold == ScreensSpec => []ScreensInv
  BY InitScreensInv, NextScreensInv, PTL DEF ScreensSpec

\* The router's state has the shape the code gives it.
THEOREM ScreensTypes == ScreensSpec => []ScreensTypeOK
  BY ScreensHold, PTL DEF ScreensInv

\* Nothing is animated behind another screen, and what is shown is drawn.
THEOREM ScreensAreDrawn == ScreensSpec => []ShownIsDrawn
  BY ScreensHold, PTL DEF ScreensInv

\* The address names the screen once the browser has announced every change of it.
THEOREM AddressHolds == ScreensSpec => []AddressNamesScreen
  BY ScreensHold, PTL DEF ScreensInv

-----------------------------------------------------------------------------
(* The data graph.                                                         *)

\* The places that the variables of the graph name, and what is painted.
DataGraphInv == DataGraphTypeOK /\ EmphasisIsCurrent

\* Nothing is selected, hovered or filtered.
LEMMA InitDataGraphInv == DataGraphInit => DataGraphInv
  BY DEF DataGraphInit, DataGraphInv, DataGraphTypeOK, EmphasisIsCurrent

\* A selection is repainted and described.
LEMMA SelectStep ==
  ASSUME DataGraphInv, NEW t \in Table \cup {NoTable}, Select(t),
         pressed' \in Table \cup {"up", "ground", "outside"},
         captured' \in BOOLEAN, swallowNextClick' \in BOOLEAN,
         {pending', dragging'} \subseteq Table \cup {NoTable}
  PROVE  DataGraphInv'
  BY DEF DataGraphInv, DataGraphTypeOK, EmphasisIsCurrent, Select, Repaint, filterVars

\* What release() leaves selected is a table or none.
LEMMA ChosenType ==
  ASSUME DataGraphInv
  PROVE  Chosen \in Table \cup {NoTable}
  BY DEF DataGraphInv, DataGraphTypeOK, Chosen, Toggled

\* A press, a move and a release elsewhere leave the selection alone.
LEMMA GestureStep ==
  ASSUME DataGraphInv,
         \/ \E where \in Table \cup {"ground", "outside"} : Press(where)
         \/ Move \/ ReleaseElsewhere
  PROVE  DataGraphInv'
<1> USE DEF DataGraphInv, Press, Move, ReleaseElsewhere, Untouched, filterVars
<1>1. DataGraphTypeOK'
  BY DEF DataGraphTypeOK
<1>2. EmphasisIsCurrent'
  BY DEF EmphasisIsCurrent
<1>3. QED
  BY <1>1, <1>2

\* A release or a cancelled pointer, which may select.
LEMMA ReleaseStep ==
  ASSUME DataGraphInv, Release \/ Cancel
  PROVE  DataGraphInv'
<1>1. NoTable \in Table \cup {NoTable} /\ Chosen \in Table \cup {NoTable}
  BY ChosenType
<1>2. /\ pressed' = "up" /\ captured' = FALSE /\ swallowNextClick' \in BOOLEAN
      /\ pending' = NoTable /\ dragging' = NoTable
      /\ Select(Chosen) \/ Select(NoTable)
  BY DEF Release, Cancel, DataGraphInv, DataGraphTypeOK, Gesture
<1>3. QED
  BY <1>1, <1>2, SelectStep

\* A filter drops what it hides.
LEMMA FilterStep ==
  ASSUME DataGraphInv,
         \/ \E t \in Table : Jump(t)
         \/ \E t \in Table \cup {NoTable} : Hover(t)
         \/ \E d \in Domain \cup {AllDomains} : FilterDomain(d)
         \/ \E l \in Layer : ToggleLayer(l)
  PROVE  DataGraphInv'
<1> USE DEF DataGraphInv, pointerVars, filterVars
<1>1. CASE \E t \in Table : Jump(t)
  BY <1>1 DEF Jump, Toggled, DataGraphTypeOK, EmphasisIsCurrent, Select, Repaint
<1>2. CASE \E t \in Table \cup {NoTable} : Hover(t)
  BY <1>2 DEF Hover, DataGraphTypeOK, EmphasisIsCurrent, Repaint
<1>3. CASE \E d \in Domain \cup {AllDomains} : FilterDomain(d)
  BY <1>3 DEF FilterDomain, DropFiltered, DataGraphTypeOK, EmphasisIsCurrent, Repaint
<1>4. CASE \E l \in Layer : ToggleLayer(l)
  BY <1>4 DEF ToggleLayer, DropFiltered, DataGraphTypeOK, EmphasisIsCurrent, Repaint
<1>5. QED
  BY <1>1, <1>2, <1>3, <1>4

\* Gestures, hovers and filters.
LEMMA NextDataGraphInv == DataGraphInv /\ [DataGraphNext]_dataGraphVars => DataGraphInv'
<1> SUFFICES ASSUME DataGraphInv, [DataGraphNext]_dataGraphVars PROVE DataGraphInv'
  OBVIOUS
<1>1. CASE UNCHANGED dataGraphVars
  BY <1>1 DEF dataGraphVars, pointerVars, filterVars, DataGraphInv, DataGraphTypeOK,
       EmphasisIsCurrent
<1>2. QED
  BY <1>1, GestureStep, ReleaseStep, FilterStep DEF DataGraphNext

\* Put together.
LEMMA DataGraphHolds == DataGraphSpec => []DataGraphInv
  BY InitDataGraphInv, NextDataGraphInv, PTL DEF DataGraphSpec

\* The graph's state has the shape the code gives it.
THEOREM DataGraphTypes == DataGraphSpec => []DataGraphTypeOK
  BY DataGraphHolds, PTL DEF DataGraphInv

\* What is painted is what is selected, hovered and filtered, for any graph.
THEOREM EmphasisHolds == DataGraphSpec => []EmphasisIsCurrent
  BY DataGraphHolds, PTL DEF DataGraphInv

\* A drag leaves the selection alone and a press changes it, click and all.
THEOREM ClickNeverDrags == DataGraphSpec => ClickOrDrag
<1> DEFINE One ==
      /\ dragging # NoTable /\ dragging' = NoTable => selectedId' = selectedId
      /\ pending # NoTable /\ dragging = NoTable /\ pending' = NoTable
            => selectedId' = Toggled(pending)
<1>1. ASSUME DataGraphNext PROVE One \/ UNCHANGED dataGraphVars
  <2>1. CASE Release \/ Cancel
    BY <2>1 DEF Release, Cancel, Gesture, Chosen, Select
  <2>2. CASE ~(Release \/ Cancel)
    <3>1. /\ dragging' # dragging => dragging = NoTable
          /\ pending' # pending => pending' # NoTable
      BY <1>1, <2>2, FiltersAssumption DEF DataGraphNext, Press, Move, ReleaseElsewhere, Jump,
           Hover, FilterDomain, ToggleLayer, DropFiltered, pointerVars
    <3>2. QED
      BY <3>1
  <2>3. QED
    BY <2>1, <2>2
<1>2. [DataGraphNext]_dataGraphVars => [One]_dataGraphVars
  BY <1>1
<1> HIDE DEF One
<1>3. DataGraphSpec => [][One]_dataGraphVars
  BY <1>2, PTL DEF DataGraphSpec
<1>4. QED
  BY <1>3 DEF ClickOrDrag, One

-----------------------------------------------------------------------------
(* The connection traces.                                                  *)

\* What a tab opens with can be asked.
LEMMA OpeningFits == \A t \in Tabs : Opening(t) \in Asks /\ Opening(t).tab = t
<1>1. Opening("asset") \in Asks /\ Opening("asset").tab = "asset"
  BY DefaultsAssumption DEF Opening, Asks, BlastAsks
<1>2. Opening("supply_chain") \in Asks /\ Opening("supply_chain").tab = "supply_chain"
  BY DefaultsAssumption DEF Opening, Asks, StockAsks
<1>3. Opening("safety") \in Asks /\ Opening("safety").tab = "safety"
  BY DefaultsAssumption DEF Opening, Asks, FatigueAsks
<1>4. QED
  BY <1>1, <1>2, <1>3 DEF Tabs

\* A walk has at most as many steps as a trace has hops.
LEMMA StepsFit == \A ask \in Asks : ask.tab \in Tabs /\ Steps(ask) \subseteq 1..MaxHops
<1> SUFFICES ASSUME NEW ask \in Asks
             PROVE  ask.tab \in Tabs /\ Steps(ask) \subseteq 1..MaxHops
  OBVIOUS
<1>1. ask.tab \in {"asset", "supply_chain", "safety"}
  BY DEF Asks, BlastAsks, StockAsks, FatigueAsks
<1>2. CASE ask.tab = "asset"
  BY <1>2 DEF Steps, Tabs
<1>3. CASE ask.tab = "supply_chain"
  BY <1>3 DEF Steps, Tabs, MaxHops
<1>4. CASE ask.tab = "safety"
  BY <1>4 DEF Steps, Tabs, MaxHops
<1>5. QED
  BY <1>1, <1>2, <1>3, <1>4

\* A screen that has been cleared says nothing.
LEMMA ClearedStep ==
  ASSUME Cleared, tab' \in Tabs, setting' \in Asks, setting'.tab = tab'
  PROVE  GraphInv'
<1>1. /\ walk' = NoWalk /\ asked' = NoAsk /\ log' = NoAsk
      /\ trace' = <<>> /\ rows' = NoRows
  BY DEF Cleared
<1>2. GraphTypeOK'
  BY <1>1 DEF GraphTypeOK, NoWalk, NoRows, MaxHops
<1>3. OneWalkOnScreen'
  BY <1>1 DEF OneWalkOnScreen
<1>4. QED
  BY <1>1, <1>2, <1>3 DEF GraphInv, ControlsAreOfTab, WalkFits

\* One trace of one call.
LEMMA OneLine ==
  ASSUME NEW S, NEW x \in S
  PROVE  <<x>> \in Seq(S) /\ \A i \in DOMAIN <<x>> : <<x>>[i] = x
  OBVIOUS

\* The first tab is open on its opening parameters.
LEMMA InitGraphInv == GraphInit => GraphInv
<1> SUFFICES ASSUME GraphInit PROVE GraphInv
  OBVIOUS
<1>1. Opening("asset") \in Asks /\ Opening("asset").tab = "asset"
  BY OpeningFits DEF Tabs
<1>2. GraphTypeOK
  BY <1>1 DEF GraphInit, GraphTypeOK, Tabs, NoWalk, NoRows, MaxHops
<1>3. OneWalkOnScreen
  BY DEF GraphInit, OneWalkOnScreen
<1>4. QED
  BY <1>1, <1>2, <1>3 DEF GraphInit, GraphInv, ControlsAreOfTab, WalkFits

\* Tabs, controls, runs, steps, refusals and resets.
LEMMA NextGraphInv == GraphInv /\ [GraphNext]_graphVars => GraphInv'
<1> SUFFICES ASSUME GraphInv, [GraphNext]_graphVars PROVE GraphInv'
  OBVIOUS
<1>1. /\ tab \in Tabs /\ setting \in Asks /\ setting.tab = tab
      /\ {walk.of, asked, log, rows.of} \subseteq Asks \cup {NoAsk}
      /\ walk.played \in 0..MaxHops /\ trace \in Seq(Asks)
  BY DEF GraphInv, GraphTypeOK, ControlsAreOfTab
<1>2. CASE \E t \in Tabs : Mount(t)
  BY <1>2, ClearedStep, OpeningFits DEF Mount
<1>3. CASE Reset
  BY <1>1, <1>3, ClearedStep DEF Reset
<1>4. CASE \E ask \in Asks : Change(ask)
  BY <1>1, <1>4 DEF Change, GraphInv, GraphTypeOK, OneWalkOnScreen, ControlsAreOfTab, WalkFits
<1>5. CASE Refuse
  <2>1. /\ trace' = <<setting>> /\ asked' = setting /\ log' = setting
        /\ rows' = [of |-> setting, paths |-> {}]
        /\ UNCHANGED <<tab, setting, walk>> /\ Refused(setting)
    BY <1>5 DEF Refuse
  <2>2. GraphTypeOK'
    BY <1>1, <2>1, OneLine DEF GraphTypeOK
  <2>3. OneWalkOnScreen'
    BY <2>1 DEF GraphInv, OneWalkOnScreen, Refused
  <2>4. QED
    BY <2>1, <2>2, <2>3 DEF GraphInv, ControlsAreOfTab, WalkFits
<1>6. CASE Run
  <2>1. /\ trace' = <<setting>> /\ asked' = setting /\ log' = setting
        /\ walk' = [of |-> setting, played |-> 0]
        /\ UNCHANGED <<tab, setting, rows>>
    BY <1>6 DEF Run
  <2>2. 0 \in 0..MaxHops
    BY DEF MaxHops
  <2>3. GraphTypeOK'
    BY <1>1, <2>1, <2>2, OneLine DEF GraphTypeOK
  <2>4. OneWalkOnScreen'
    BY <1>1, <2>1 DEF OneWalkOnScreen
  <2>5. QED
    BY <1>1, <2>1, <2>2, <2>3, <2>4 DEF GraphInv, ControlsAreOfTab, WalkFits
<1>7. ASSUME walk # NoWalk, trace' = Append(trace, walk.of), log' = walk.of,
             \/ walk' = NoWalk
             \/ /\ walk' \in [of : Asks, played : 0..MaxHops]
                /\ walk'.of = walk.of,
             rows'.of \in Asks \cup {NoAsk}, UNCHANGED <<tab, setting, asked>>
      PROVE  GraphInv'
  <2>1. walk.of \in Asks /\ walk.of.tab = tab
    BY <1>7 DEF GraphInv, WalkFits, OneWalkOnScreen
  <2>2. Append(trace, walk.of) \in Seq(Asks)
    BY <1>1, <2>1
  <2>3. GraphTypeOK'
    BY <1>1, <1>7, <2>1, <2>2 DEF GraphTypeOK, NoWalk, MaxHops
  <2>4. OneWalkOnScreen'
    <3>1. walk' # NoWalk => walk'.of.tab = tab'
      BY <1>7, <2>1
    <3>2. ASSUME ~Refused(asked)'
          PROVE  /\ log' = asked' /\ (walk' # NoWalk => walk'.of = asked')
                 /\ \A i \in DOMAIN trace' : trace'[i] = asked'
      <4>1. walk.of = asked /\ asked' = asked /\ \A i \in DOMAIN trace : trace[i] = asked
        BY <1>7, <3>2 DEF GraphInv, OneWalkOnScreen, Refused
      <4>2. \A i \in DOMAIN Append(trace, walk.of) : Append(trace, walk.of)[i] = asked
        BY <1>1, <2>1, <4>1
      <4>3. QED
        BY <1>7, <4>1, <4>2
    <3>3. QED
      BY <3>1, <3>2 DEF OneWalkOnScreen
  <2>5. QED
    BY <1>1, <1>7, <2>3, <2>4 DEF GraphInv, ControlsAreOfTab, WalkFits
<1>8. CASE PlayStep
  <2>1. walk \in [of : Asks, played : 0..MaxHops]
    BY <1>8 DEF PlayStep, GraphInv, WalkFits
  <2>2. walk.played + 1 \in 0..MaxHops
    BY <1>8, <2>1, StepsFit DEF PlayStep, MaxHops
  <2>3. walk' = [walk EXCEPT !.played = walk.played + 1]
    BY <1>8 DEF PlayStep
  <2>4. walk' \in [of : Asks, played : 0..MaxHops] /\ walk'.of = walk.of
    BY <2>1, <2>2, <2>3
  <2>5. QED
    BY <1>1, <1>7, <1>8, <2>4 DEF PlayStep
<1>9. CASE HandBack
  BY <1>1, <1>7, <1>9 DEF HandBack
<1>10. CASE UNCHANGED graphVars
  BY <1>10 DEF graphVars, GraphInv, GraphTypeOK, OneWalkOnScreen, ControlsAreOfTab, WalkFits,
               Refused
<1>11. QED
  BY <1>2, <1>3, <1>4, <1>5, <1>6, <1>8, <1>9, <1>10 DEF GraphNext

\* Put together.
LEMMA GraphHolds == GraphSpec => []GraphInv
  BY InitGraphInv, NextGraphInv, PTL DEF GraphSpec

\* The screen's state has the shape the code gives it, for any data.
THEOREM GraphTypes == GraphSpec => []GraphTypeOK
  BY GraphHolds, PTL DEF GraphInv

\* No step of a walk outlives its tab or another run.
THEOREM WalksAreOne == GraphSpec => []OneWalkOnScreen
  BY GraphHolds, PTL DEF GraphInv

\* Two of the three walks return the rows of their pattern, whatever the data.
THEOREM StockAndFatigueMatch ==
  \A ask \in StockAsks \cup FatigueAsks : Rows(ask) = Match(ask)
<1>1. ASSUME NEW ask \in StockAsks PROVE Rows(ask) = Match(ask)
  <2>1. ask.tab = "supply_chain"
    BY DEF StockAsks
  <2>2. StockoutExposure(ask.below_rop_parts, ask.asset_id)
          = {path \in Part \X WorkOrder \X Asset :
               /\ path[1] \in ask.below_rop_parts
               /\ <<path[2], path[1]>> \in ReplacedPart
               /\ <<path[3], path[2]>> \in HasWorkOrder
               /\ ask.asset_id = EveryMachine \/ path[3] = ask.asset_id}
    <3> DEFINE parts == ask.below_rop_parts
               only == ask.asset_id
               links == {l \in ReplacedPart \X HasWorkOrder :
                           /\ l[1][2] \in parts
                           /\ l[1][1] = l[2][2]
                           /\ only = EveryMachine \/ l[2][1] = only}
               pattern(path) == /\ path[1] \in parts
                                /\ <<path[2], path[1]>> \in ReplacedPart
                                /\ <<path[3], path[2]>> \in HasWorkOrder
                                /\ only = EveryMachine \/ path[3] = only
    <3>1. ASSUME NEW l \in links
          PROVE  /\ <<l[1][2], l[1][1], l[2][1]>> \in Part \X WorkOrder \X Asset
                 /\ pattern(<<l[1][2], l[1][1], l[2][1]>>)
      <4>1. l[1] = <<l[1][1], l[1][2]>> /\ l[2] = <<l[2][1], l[2][2]>>
            /\ l[1] \in WorkOrder \X Part /\ l[2] \in Asset \X WorkOrder
        BY LinksAssumption
      <4>2. QED
        BY <4>1
    <3>2. ASSUME NEW path \in Part \X WorkOrder \X Asset, pattern(path)
          PROVE  \E l \in links : path = <<l[1][2], l[1][1], l[2][1]>>
      <4>1. path = <<path[1], path[2], path[3]>>
        OBVIOUS
      <4>2. <<<<path[2], path[1]>>, <<path[3], path[2]>>>> \in links
        BY <3>2
      <4>3. QED
        BY <4>1, <4>2
    <3>3. QED
      BY <3>1, <3>2 DEF StockoutExposure
  <2>3. QED
    BY <2>1, <2>2 DEF Rows, Match
<1>2. ASSUME NEW ask \in FatigueAsks PROVE Rows(ask) = Match(ask)
  <2>1. ask.tab = "safety"
    BY DEF FatigueAsks
  <2>2. FatigueToIncident(ask.operator_id)
          = {path \in Operator \X FatigueLog \X Vehicle \X Incident :
               /\ path[1] = ask.operator_id
               /\ <<path[2], path[1]>> \in LoggedFor
               /\ <<path[1], path[3]>> \in Operates
               /\ <<path[3], path[4]>> \in InvolvedIn}
    <3> DEFINE o == ask.operator_id
               logs == {l[1] : l \in {x \in LoggedFor : x[2] = o}}
               ends == {e \in Operates \X InvolvedIn :
                          e[1][1] = o /\ e[1][2] = e[2][1]}
               row(m) == <<o, m[1], m[2][1][2], m[2][2][2]>>
               pattern(path) == /\ path[1] = o
                                /\ <<path[2], path[1]>> \in LoggedFor
                                /\ <<path[1], path[3]>> \in Operates
                                /\ <<path[3], path[4]>> \in InvolvedIn
    <3>1. \A f : f \in logs <=> <<f, o>> \in LoggedFor
      <4>1. \A x \in LoggedFor : x = <<x[1], x[2]>>
        BY LinksAssumption
      <4>2. QED
        BY <4>1
    <3>2. ASSUME NEW m \in logs \X ends
          PROVE  /\ row(m) \in Operator \X FatigueLog \X Vehicle \X Incident
                 /\ pattern(row(m))
      <4>1. m[1] \in logs /\ m[2] \in ends
        OBVIOUS
      <4>2. <<m[1], o>> \in LoggedFor
        BY <3>1, <4>1
      <4>3. /\ m[2][1] \in Operates /\ m[2][2] \in InvolvedIn
            /\ m[2][1][1] = o /\ m[2][1][2] = m[2][2][1]
        BY <4>1
      <4>4. /\ m[2][1] = <<m[2][1][1], m[2][1][2]>> /\ m[2][1] \in Operator \X Vehicle
            /\ m[2][2] = <<m[2][2][1], m[2][2][2]>> /\ m[2][2] \in Vehicle \X Incident
        BY <4>3, LinksAssumption
      <4>5. m[1] \in FatigueLog /\ o \in Operator
        BY <4>2, LinksAssumption
      <4>6. QED
        BY <4>2, <4>3, <4>4, <4>5
    <3>3. ASSUME NEW path \in Operator \X FatigueLog \X Vehicle \X Incident, pattern(path)
          PROVE  \E m \in logs \X ends : path = row(m)
      <4> DEFINE e == <<<<path[1], path[3]>>, <<path[3], path[4]>>>>
      <4>1. path = <<path[1], path[2], path[3], path[4]>>
        OBVIOUS
      <4>2. path[2] \in logs
        BY <3>1, <3>3
      <4>3. e \in ends
        BY <3>3
      <4>4. <<path[2], e>> \in logs \X ends /\ row(<<path[2], e>>) = path
        BY <3>3, <4>1, <4>2, <4>3
      <4>5. QED
        BY <4>4
    <3>4. QED
      BY <3>2, <3>3 DEF FatigueToIncident
  <2>3. QED
    BY <2>1, <2>2 DEF Rows, Match
<1>3. QED
  BY <1>1, <1>2

\* Every path of so many nodes along the dependencies, from where it starts.
Walks(origin, n) ==
    {path \in [1..n -> Asset] :
        /\ path[1] = origin
        /\ \A i \in 1..(n - 1) : <<path[i], path[i + 1]>> \in DependsOn}

Extended(paths, hop) ==
    {Append(step[1], step[2][2]) :
        step \in {s \in paths \X DependsOn : s[1][hop] = s[2][1]}}

\* One hop extends every path of the hop before along every dependency.
LEMMA HopExtends ==
  ASSUME NEW origin \in Asset, NEW n \in Nat \ {0}
  PROVE  /\ Extended(Walks(origin, n), n) = Walks(origin, n + 1)
         /\ \A p \in Walks(origin, n + 1) : [i \in 1..n |-> p[i]] \in Walks(origin, n)
<1>1. ASSUME NEW s \in Walks(origin, n) \X DependsOn, s[1][n] = s[2][1]
      PROVE  Append(s[1], s[2][2]) \in Walks(origin, n + 1)
  <2>1. /\ s[1] \in Walks(origin, n) /\ s[2] \in DependsOn
        /\ s[2] \in Asset \X Asset /\ s[2] = <<s[2][1], s[2][2]>>
    BY LinksAssumption
  <2> DEFINE w == s[1]
             x == s[2][2]
             p == Append(w, x)
  <2>2. /\ w \in [1..n -> Asset] /\ w[1] = origin /\ x \in Asset
        /\ \A i \in 1..(n - 1) : <<w[i], w[i + 1]>> \in DependsOn
        /\ <<w[n], x>> \in DependsOn
    BY <1>1, <2>1 DEF Walks
  <2> HIDE DEF w, x
  <2>3. w \in Seq(Asset) /\ Len(w) = n
    BY <2>2
  <2>4. p \in [1..(n + 1) -> Asset] /\ (\A i \in 1..n : p[i] = w[i]) /\ p[n + 1] = x
    <3>1. /\ p \in Seq(Asset) /\ Len(p) = n + 1
          /\ (\A i \in 1..n : p[i] = w[i]) /\ p[n + 1] = x
      BY <2>2, <2>3, AppendProperties
    <3> HIDE DEF p
    <3>2. QED
      BY <3>1, LenProperties
  <2> HIDE DEF p
  <2>5. ASSUME NEW i \in 1..n PROVE <<p[i], p[i + 1]>> \in DependsOn
    <3>1. CASE i = n
      BY <2>2, <2>4, <3>1
    <3>2. CASE i # n
      <4>1. i \in 1..(n - 1) /\ i + 1 \in 1..n
        BY <3>2
      <4>2. QED
        BY <2>2, <2>4, <4>1
    <3>3. QED
      BY <3>1, <3>2
  <2>6. p[1] = origin
    BY <2>2, <2>4
  <2>7. p \in Walks(origin, n + 1)
    BY <2>4, <2>5, <2>6 DEF Walks
  <2>8. QED
    BY <2>7 DEF p, w, x
<1>2. ASSUME NEW p \in Walks(origin, n + 1)
      PROVE  /\ [i \in 1..n |-> p[i]] \in Walks(origin, n)
             /\ <<p[n], p[n + 1]>> \in DependsOn
             /\ p = Append([i \in 1..n |-> p[i]], p[n + 1])
  <2> DEFINE q == [i \in 1..n |-> p[i]]
  <2>1. /\ p \in [1..(n + 1) -> Asset] /\ p[1] = origin
        /\ \A i \in 1..n : <<p[i], p[i + 1]>> \in DependsOn
    BY DEF Walks
  <2>2. q \in [1..n -> Asset] /\ \A i \in 1..n : q[i] = p[i]
    BY <2>1
  <2> HIDE DEF q
  <2>3. \A i \in 1..(n - 1) : i \in 1..n /\ i + 1 \in 1..n
    OBVIOUS
  <2>4. \A i \in 1..(n - 1) : <<q[i], q[i + 1]>> \in DependsOn
    BY <2>1, <2>2, <2>3
  <2>5. 1 \in 1..n /\ n \in 1..n
    OBVIOUS
  <2>6. q \in Walks(origin, n)
    BY <2>1, <2>2, <2>4, <2>5 DEF Walks
  <2>7. p[n + 1] \in Asset
    BY <2>1
  <2>8. /\ q \in Seq(Asset) /\ Len(q) = n
    BY <2>2
  <2>9. p = Append(q, p[n + 1])
    <3> DEFINE a == Append(q, p[n + 1])
    <3>1. /\ a \in [1..(n + 1) -> Asset] /\ (\A i \in 1..n : a[i] = q[i]) /\ a[n + 1] = p[n + 1]
      <4>1. /\ a \in Seq(Asset) /\ Len(a) = n + 1
            /\ (\A i \in 1..n : a[i] = q[i]) /\ a[n + 1] = p[n + 1]
        BY <2>7, <2>8, AppendProperties
      <4> HIDE DEF a
      <4>2. QED
        BY <4>1, LenProperties
    <3> HIDE DEF a
    <3>2. \A i \in 1..(n + 1) : i \in 1..n \/ i = n + 1
      OBVIOUS
    <3>3. \A i \in 1..(n + 1) : a[i] = p[i]
      BY <2>2, <3>1, <3>2
    <3>4. a = p
      BY <2>1, <3>1, <3>3
    <3>5. QED
      BY <3>4 DEF a
  <2>10. QED
    BY <2>1, <2>5, <2>6, <2>9 DEF q
<1>3. ASSUME NEW p \in Walks(origin, n + 1) PROVE p \in Extended(Walks(origin, n), n)
  <2> DEFINE s == <<[i \in 1..n |-> p[i]], <<p[n], p[n + 1]>>>>
  <2>1. s \in Walks(origin, n) \X DependsOn /\ s[1][n] = s[2][1]
    BY <1>2
  <2>2. p = Append(s[1], s[2][2])
    BY <1>2
  <2>3. QED
    BY <2>1, <2>2 DEF Extended
<1>4. QED
  BY <1>1, <1>2, <1>3 DEF Extended

\* blastRadius follows every path of one to three dependencies.
LEMMA BlastRadiusWalks ==
  ASSUME NEW origin \in Asset
  PROVE  BlastRadius(origin) = UNION {Walks(origin, hop + 1) : hop \in 1..MaxHops}
<1> DEFINE paths[hop \in 0..MaxHops] ==
          IF hop = 0 THEN {<<origin>>}
          ELSE {Append(step[1], step[2][2]) :
                  step \in {s \in paths[hop - 1] \X DependsOn :
                              s[1][hop] = s[2][1]}}
<1> DEFINE unrolled(f) == [hop \in 0..MaxHops |->
          IF hop = 0 THEN {<<origin>>}
          ELSE {Append(step[1], step[2][2]) :
                  step \in {s \in f[hop - 1] \X DependsOn :
                              s[1][hop] = s[2][1]}}]
<1> DEFINE walks == [hop \in 0..MaxHops |-> Walks(origin, hop + 1)]
<1>1. BlastRadius(origin) = UNION {paths[hop] : hop \in 1..MaxHops}
  BY DEF BlastRadius
<1>2. walks = unrolled(walks)
  <2>1. Walks(origin, 1) = {<<origin>>}
    <3>1. <<origin>> \in [1..1 -> Asset] /\ <<origin>>[1] = origin
      OBVIOUS
    <3>2. \A p \in [1..1 -> Asset] : p[1] = origin => p = <<origin>>
      OBVIOUS
    <3>3. QED
      BY <3>1, <3>2 DEF Walks
  <2>2. ASSUME NEW hop \in 1..MaxHops
        PROVE  Walks(origin, hop + 1)
                 = {Append(step[1], step[2][2]) :
                      step \in {s \in walks[hop - 1] \X DependsOn : s[1][hop] = s[2][1]}}
    <3>1. hop \in Nat \ {0} /\ hop - 1 \in 0..MaxHops /\ (hop - 1) + 1 = hop
      BY DEF MaxHops
    <3>2. walks[hop - 1] = Walks(origin, hop)
      BY <3>1
    <3>3. Walks(origin, hop + 1) = Extended(Walks(origin, hop), hop)
      BY <3>1, HopExtends
    <3> HIDE DEF walks
    <3>4. QED
      BY <3>2, <3>3 DEF Extended
  <2> HIDE DEF walks
  <2>3. ASSUME NEW hop \in 0..MaxHops PROVE walks[hop] = unrolled(walks)[hop]
    <3>1. walks[hop] = Walks(origin, hop + 1)
      BY DEF walks
    <3>2. CASE hop = 0
      BY <2>1, <3>1, <3>2
    <3>3. CASE hop # 0
      <4>1. hop \in 1..MaxHops
        BY <3>3 DEF MaxHops
      <4>2. QED
        BY <2>2, <3>1, <3>3, <4>1
    <3>4. QED
      BY <3>2, <3>3
  <2>4. QED
    BY <2>3 DEF walks
<1>3. paths = unrolled(paths)
  <2>1. \E f : f = unrolled(f)
    BY <1>2
  <2>2. QED
    BY <2>1
<1> HIDE DEF paths, walks
<1>4. /\ paths[0] = walks[0]
      /\ \A hop \in 1..MaxHops : paths[hop - 1] = walks[hop - 1] => paths[hop] = walks[hop]
  <2>1. \A f : /\ unrolled(f)[0] = {<<origin>>}
               /\ \A hop \in 1..MaxHops : unrolled(f)[hop] = Extended(f[hop - 1], hop)
    BY DEF MaxHops, Extended
  <2> HIDE DEF unrolled
  <2>2. paths[0] = unrolled(paths)[0] /\ walks[0] = unrolled(walks)[0]
    BY <1>2, <1>3
  <2>3. ASSUME NEW hop \in 1..MaxHops, paths[hop - 1] = walks[hop - 1]
        PROVE  paths[hop] = walks[hop]
    <3>1. paths[hop] = unrolled(paths)[hop] /\ walks[hop] = unrolled(walks)[hop]
      BY <1>2, <1>3
    <3>2. QED
      BY <2>1, <2>3, <3>1
  <2>4. QED
    BY <2>1, <2>2, <2>3
<1>5. \A hop \in 1..MaxHops : paths[hop] = walks[hop]
  <2>1. paths[1] = walks[1]
    BY <1>4 DEF MaxHops
  <2>2. paths[2] = walks[2]
    BY <1>4, <2>1 DEF MaxHops
  <2>3. paths[3] = walks[3]
    BY <1>4, <2>2 DEF MaxHops
  <2>4. QED
    BY <2>1, <2>2, <2>3 DEF MaxHops
<1>6. \A hop \in 1..MaxHops : walks[hop] = Walks(origin, hop + 1)
  BY DEF walks, MaxHops
<1>7. QED
  BY <1>1, <1>5, <1>6

\* A walk is as long as it says.
LEMMA WalkLength ==
  ASSUME NEW origin, NEW n \in Nat, NEW p \in Walks(origin, n)
  PROVE  Len(p) = n /\ DOMAIN p = 1..n
  BY DEF Walks

\* So its rows are those of the pattern too.
THEOREM BlastRadiusMatches == \A ask \in BlastAsks : Rows(ask) = Match(ask)
<1> SUFFICES ASSUME NEW ask \in BlastAsks PROVE Rows(ask) = Match(ask)
  OBVIOUS
<1>1. ask.tab = "asset" /\ ask.asset_id \in Asset
  BY DEF BlastAsks
<1> DEFINE origin == ask.asset_id
<1>2. Rows(ask) = UNION {Walks(origin, hop + 1) : hop \in 1..MaxHops}
  BY <1>1, BlastRadiusWalks DEF Rows
<1>3. Match(ask) = {path \in UNION {[1..n -> Asset] : n \in 2..(MaxHops + 1)} :
              /\ path[1] = origin
              /\ \A i \in 1..(Len(path) - 1) : <<path[i], path[i + 1]>> \in DependsOn}
  BY <1>1 DEF Match
<1>4. ASSUME NEW hop \in 1..MaxHops, NEW p \in Walks(origin, hop + 1) PROVE p \in Match(ask)
  <2>1. hop + 1 \in 2..(MaxHops + 1) /\ hop + 1 \in Nat /\ (hop + 1) - 1 = hop
    BY DEF MaxHops
  <2>2. Len(p) = hop + 1
    BY <2>1, WalkLength
  <2>3. QED
    BY <1>3, <2>1, <2>2 DEF Walks
<1>5. ASSUME NEW n \in 2..(MaxHops + 1), NEW p \in [1..n -> Asset], p \in Match(ask)
      PROVE  \E hop \in 1..MaxHops : p \in Walks(origin, hop + 1)
  <2>1. n - 1 \in 1..MaxHops /\ (n - 1) + 1 = n /\ n \in Nat
    BY DEF MaxHops
  <2>2. Len(p) = n
    BY <2>1
  <2>3. /\ p[1] = origin
        /\ \A i \in 1..(Len(p) - 1) : <<p[i], p[i + 1]>> \in DependsOn
    BY <1>3, <1>5
  <2>4. p \in Walks(origin, n)
    BY <2>2, <2>3 DEF Walks
  <2>5. QED
    BY <2>1, <2>4
<1>6. ASSUME NEW p \in Match(ask)
      PROVE  \E hop \in 1..MaxHops : p \in Walks(origin, hop + 1)
  BY <1>3, <1>5
<1>7. QED
  BY <1>2, <1>4, <1>6

\* The rows of a trace that returns one: as many nodes as the steps that light them.
LEMMA RowsHaveSteps ==
  ASSUME NEW ask \in Asks, NEW p \in Rows(ask)
  PROVE  /\ Len(p) \in 2..(MaxHops + 1) /\ DOMAIN p = 1..Len(p)
         /\ p[1] \in Seed(ask)
         /\ \A i \in 1..(Len(p) - 1) : i \in Steps(ask)
<1>1. CASE ask \in BlastAsks
  <2>1. ask.tab = "asset" /\ ask.asset_id \in Asset
    BY <1>1 DEF BlastAsks
  <2> DEFINE origin == ask.asset_id
  <2>2. Rows(ask) = UNION {Walks(origin, hop + 1) : hop \in 1..MaxHops}
    BY <2>1, BlastRadiusWalks DEF Rows
  <2>3. ASSUME NEW hop \in 1..MaxHops, NEW q \in Walks(origin, hop + 1)
        PROVE  hop \in Steps(ask)
    <3>1. q \in Rows(ask) /\ Len(q) = hop + 1
      BY <2>2, WalkLength DEF MaxHops
    <3>2. QED
      BY <2>1, <3>1 DEF Steps
  <2>4. PICK hop \in 1..MaxHops : p \in Walks(origin, hop + 1)
    BY <2>2
  <2>5. hop \in 1..3 /\ MaxHops = 3
    BY DEF MaxHops
  <2>6. Len(p) = hop + 1 /\ DOMAIN p = 1..(hop + 1)
    BY <2>4, <2>5, WalkLength
  <2>7. p[1] \in Seed(ask)
    BY <2>1, <2>4 DEF Walks, Seed
  <2>8. \A h \in 1..2 : Walks(origin, h + 2) # {} => Walks(origin, h + 1) # {}
    <3>1. ASSUME NEW h \in 1..2 PROVE h + 1 \in Nat \ {0} /\ (h + 1) + 1 = h + 2
      OBVIOUS
    <3>2. QED
      BY <2>1, <3>1, HopExtends
  <2>9. \A i \in 1..hop : Walks(origin, i + 1) # {}
    <3>1. CASE hop = 1
      BY <2>4, <3>1
    <3>2. CASE hop = 2
      BY <2>4, <2>8, <3>2
    <3>3. CASE hop = 3
      <4>1. Walks(origin, 4) # {} /\ 1 + 2 = 3 /\ 1 + 1 = 2 /\ 2 + 2 = 4 /\ 2 + 1 = 3 /\ 3 + 1 = 4
        BY <2>4, <3>3
      <4>2. Walks(origin, 3) # {}
        BY <2>8, <4>1
      <4>3. Walks(origin, 2) # {}
        BY <2>8, <4>1, <4>2
      <4>4. QED
        BY <3>3, <4>1, <4>2, <4>3
    <3>4. QED
      BY <2>5, <3>1, <3>2, <3>3
  <2>10. \A i \in 1..hop : i \in Steps(ask)
    BY <2>3, <2>5, <2>9
  <2>11. QED
    BY <2>5, <2>6, <2>7, <2>10
<1>2. CASE ask \in StockAsks
  <2>1. ask.tab = "supply_chain" /\ p \in Match(ask)
    BY <1>2, StockAndFatigueMatch DEF StockAsks
  <2>2. p \in Part \X WorkOrder \X Asset
    BY <2>1 DEF Match
  <2>3. Len(p) = 3 /\ DOMAIN p = 1..3
    BY <2>2
  <2>4. p[1] \in Seed(ask)
    BY <2>1 DEF Seed
  <2>5. Steps(ask) = 1..2
    BY <2>1 DEF Steps
  <2>6. QED
    BY <2>3, <2>4, <2>5 DEF MaxHops
<1>3. CASE ask \in FatigueAsks
  <2>1. ask.tab = "safety" /\ p \in Match(ask)
    BY <1>3, StockAndFatigueMatch DEF FatigueAsks
  <2>2. p \in Operator \X FatigueLog \X Vehicle \X Incident /\ p[1] = ask.operator_id
    BY <2>1 DEF Match
  <2>3. Len(p) = 4 /\ DOMAIN p = 1..4
    BY <2>2
  <2>4. p[1] \in Seed(ask)
    BY <2>1, <2>2 DEF Seed
  <2>5. Steps(ask) = 1..3
    BY <2>1 DEF Steps
  <2>6. QED
    BY <2>3, <2>4, <2>5 DEF MaxHops
<1>4. QED
  BY <1>1, <1>2, <1>3 DEF Asks

\* The steps of a walk have no gap.
LEMMA StepsAreWhole ==
  ASSUME NEW ask \in Asks, NEW hop \in Steps(ask)
  PROVE  \A i \in 1..hop : i \in Steps(ask)
<1>1. CASE ask \in BlastAsks
  <2>1. PICK p \in Rows(ask) : Len(p) = hop + 1 /\ hop \in 1..MaxHops
    BY <1>1 DEF BlastAsks, Steps
  <2>2. \A i \in 1..(Len(p) - 1) : i \in Steps(ask)
    BY RowsHaveSteps
  <2>3. QED
    BY <2>1, <2>2 DEF MaxHops
<1>2. CASE ask \in StockAsks
  BY <1>2 DEF StockAsks, Steps
<1>3. CASE ask \in FatigueAsks
  BY <1>3 DEF FatigueAsks, Steps
<1>4. QED
  BY <1>1, <1>2, <1>3 DEF Asks

\* What is lit when a walk has no step left to play is what its rows go through.
LEMMA WholeWalkIsLit ==
  ASSUME NEW ask \in Asks, NEW played \in 0..MaxHops, played + 1 \notin Steps(ask)
  PROVE  Seed(ask) \cup UNION {StepNodes(ask, i) : i \in 1..played}
           = NodesOn(Rows(ask)) \cup Seed(ask)
<1>0. \A p \in Rows(ask) :
        /\ Len(p) \in 2..(MaxHops + 1) /\ DOMAIN p = 1..Len(p)
        /\ p[1] \in Seed(ask)
        /\ \A i \in 1..(Len(p) - 1) : i \in Steps(ask)
  BY RowsHaveSteps
<1>1. ASSUME NEW i \in 1..played, NEW x \in StepNodes(ask, i) PROVE x \in NodesOn(Rows(ask))
  <2>1. PICK p \in Rows(ask) : Len(p) > i /\ x = p[i + 1]
    BY DEF StepNodes
  <2>2. i + 1 \in DOMAIN p
    BY <1>0, <2>1 DEF MaxHops
  <2>3. QED
    BY <2>1, <2>2 DEF NodesOn
<1>2. ASSUME NEW p \in Rows(ask), NEW j \in DOMAIN p
      PROVE  p[j] \in Seed(ask) \cup UNION {StepNodes(ask, i) : i \in 1..played}
  <2>1. j \in 1..Len(p) /\ Len(p) \in 2..(MaxHops + 1)
    BY <1>0
  <2>2. CASE j = 1
    BY <1>0, <2>2
  <2>3. CASE j # 1
    <3>1. j - 1 \in 1..(Len(p) - 1) /\ (j - 1) + 1 = j /\ Len(p) > j - 1
      BY <2>1, <2>3 DEF MaxHops
    <3>2. j - 1 \in Steps(ask)
      BY <1>0, <3>1
    <3>3. j - 1 \in 1..played
      <4>1. ASSUME j - 1 > played PROVE FALSE
        <5>1. played + 1 \in 1..(j - 1)
          BY <2>1, <3>1, <4>1 DEF MaxHops
        <5>2. QED
          BY <3>2, <5>1, StepsAreWhole
      <4>2. QED
        BY <2>1, <3>1, <4>1 DEF MaxHops
    <3>4. p[j] \in StepNodes(ask, j - 1)
      BY <3>1 DEF StepNodes
    <3>5. QED
      BY <3>3, <3>4
  <2>4. QED
    BY <2>2, <2>3
<1>3. QED
  BY <1>1, <1>2 DEF NodesOn

\* A run seeds the drawing, its steps light it, and the last hands back the rows.
LEMMA NextAnswerInv == AnswerInv /\ [GraphNext]_graphVars => AnswerInv'
<1> SUFFICES ASSUME AnswerInv, [GraphNext]_graphVars PROVE AnswerInv'
  OBVIOUS
<1>1. GraphInv /\ GraphInv' /\ LitSoFar /\ AnswerIsTheMatch
  BY NextGraphInv DEF AnswerInv
<1>2. \A ask \in Asks : Rows(ask) = Match(ask)
  BY BlastRadiusMatches, StockAndFatigueMatch DEF Asks
<1>3. CASE (\E t \in Tabs : Mount(t)) \/ Reset
  <2>1. walk' = NoWalk /\ asked' = NoAsk
    BY <1>3 DEF Mount, Reset, Cleared
  <2>2. QED
    BY <1>1, <2>1 DEF AnswerInv, LitSoFar, AnswerIsTheMatch
<1>4. CASE (\E ask \in Asks : Change(ask)) \/ UNCHANGED graphVars
  <2>1. UNCHANGED <<walk, asked, lit, rows>>
    BY <1>4 DEF Change, graphVars
  <2>2. LitSoFar' /\ AnswerIsTheMatch'
    BY <1>1, <2>1 DEF LitSoFar, AnswerIsTheMatch
  <2>3. QED
    BY <1>1, <2>2 DEF AnswerInv
<1>5. CASE Refuse
  <2>1. UNCHANGED <<walk, lit>> /\ Refused(asked')
    BY <1>5 DEF Refuse
  <2>2. LitSoFar' /\ AnswerIsTheMatch'
    BY <1>1, <2>1 DEF LitSoFar, AnswerIsTheMatch, Refused
  <2>3. QED
    BY <1>1, <2>2 DEF AnswerInv
<1>6. CASE Run
  <2>1. walk' = [of |-> setting, played |-> 0] /\ lit' = Seed(setting)
    BY <1>6 DEF Run
  <2>2. setting.tab # "none"
    BY <1>1 DEF GraphInv, GraphTypeOK, Tabs, ControlsAreOfTab
  <2>3. walk' # NoWalk
    BY <2>1, <2>2 DEF NoWalk, NoAsk
  <2>4. UNION {StepNodes(setting, i) : i \in 1..0} = {}
    OBVIOUS
  <2>5. LitSoFar' /\ AnswerIsTheMatch'
    BY <2>1, <2>3, <2>4 DEF LitSoFar, AnswerIsTheMatch
  <2>6. QED
    BY <1>1, <2>5 DEF AnswerInv
<1>7. ASSUME walk # NoWalk
      PROVE  walk.of \in Asks /\ walk.played \in 0..MaxHops /\ walk = [of |-> walk.of, played |-> walk.played]
  BY <1>1, <1>7 DEF GraphInv, WalkFits
<1>8. CASE PlayStep
  <2> DEFINE k == walk.played
  <2>1. /\ walk # NoWalk /\ k + 1 \in Steps(walk.of)
        /\ lit' = lit \cup StepNodes(walk.of, k + 1)
        /\ walk' = [walk EXCEPT !.played = k + 1]
    BY <1>8 DEF PlayStep
  <2>2. k \in 0..MaxHops /\ walk.of \in Asks /\ walk'.of = walk.of /\ walk'.played = k + 1
    BY <1>7, <2>1
  <2>3. walk' # NoWalk
    BY <2>2 DEF NoWalk, NoAsk, Asks, BlastAsks, StockAsks, FatigueAsks
  <2>4. 1..(k + 1) = 1..k \cup {k + 1}
    BY <2>2 DEF MaxHops
  <2>5. lit' = Seed(walk.of) \cup UNION {StepNodes(walk.of, i) : i \in 1..(k + 1)}
    BY <1>1, <2>1, <2>4 DEF LitSoFar
  <2>6. LitSoFar' /\ AnswerIsTheMatch'
    BY <2>2, <2>3, <2>5 DEF LitSoFar, AnswerIsTheMatch
  <2>7. QED
    BY <1>1, <2>6 DEF AnswerInv
<1>9. CASE HandBack
  <2>1. /\ walk # NoWalk /\ walk.played + 1 \notin Steps(walk.of)
        /\ rows' = [of |-> walk.of, paths |-> Rows(walk.of)]
        /\ walk' = NoWalk /\ UNCHANGED <<asked, lit>>
    BY <1>9 DEF HandBack
  <2>2. lit' = NodesOn(Rows(walk.of)) \cup Seed(walk.of)
    BY <1>1, <1>7, <2>1, WholeWalkIsLit DEF LitSoFar
  <2>3. ASSUME ~Refused(asked') PROVE asked' = walk.of
    BY <1>1, <2>1, <2>3 DEF GraphInv, OneWalkOnScreen
  <2>4. AnswerIsTheMatch'
    BY <1>2, <1>7, <2>1, <2>2, <2>3 DEF AnswerIsTheMatch, Refused
  <2>5. LitSoFar'
    BY <2>1 DEF LitSoFar
  <2>6. QED
    BY <1>1, <2>4, <2>5 DEF AnswerInv
<1>10. QED
  BY <1>3, <1>4, <1>5, <1>6, <1>8, <1>9 DEF GraphNext

\* Nothing has been run yet.
LEMMA InitAnswerInv == GraphInit => AnswerInv
  BY InitGraphInv DEF GraphInit, AnswerInv, LitSoFar, AnswerIsTheMatch

\* Put together.
LEMMA AnswerHolds == GraphSpec => []AnswerInv
  BY InitAnswerInv, NextAnswerInv, PTL DEF GraphSpec

\* For any data, a run that has come to its end shows the rows of the pattern for
\* the parameters printed above it, and lights what they go through and no more,
\* whatever was switched, changed, run again, refused or reset before.
THEOREM AnswersMatch == GraphSpec => []AnswerIsTheMatch
  BY AnswerHolds, PTL DEF AnswerInv

-----------------------------------------------------------------------------
(* The landing page.                                                       *)

\* While the window is being played, there is a frame to come and no choice yet.
MotionInv == /\ MotionTypeOK /\ ReaderOwnsSlider
             /\ sweep => frame < STEPS /\ chosen = NoChoice

\* Everything is still to be shown.
LEMMA InitMotionInv == MotionInit => MotionInv
<1> SUFFICES ASSUME MotionInit PROVE MotionInv
  OBVIOUS
<1>1. MotionTypeOK
  <2>1. poll \in Off..Interval /\ stagger \in 0..Wrap - 1
    BY DEF MotionInit, Off, Wrap, Interval
  <2>2. slider \in 0..STEPS - 1 /\ at \in 0..STEPS - 1 /\ frame \in 0..STEPS
    BY MotionBounds DEF MotionInit
  <2>3. count \in [Figure -> 0..Frames] /\ timeouts \in [Element -> SUBSET (0..Wrap - 1)]
    BY MotionBounds DEF MotionInit
  <2>4. sweep \in BOOLEAN /\ reduced \in BOOLEAN /\ entered \subseteq Element
    BY DEF MotionInit
  <2>5. QED
    BY <2>1, <2>2, <2>3, <2>4 DEF MotionInit, MotionTypeOK
<1>2. ReaderOwnsSlider /\ (sweep => frame < STEPS /\ chosen = NoChoice)
  BY MotionBounds DEF MotionInit, ReaderOwnsSlider
<1>3. QED
  BY <1>1, <1>2 DEF MotionInv

\* Delays stay below the wrap, however many elements a tick notices.
LEMMA ScheduleTypes ==
  ASSUME MotionTypeOK, Schedule
  PROVE  timeouts' \in [Element -> SUBSET (0..Wrap - 1)] /\ stagger' \in 0..Wrap - 1
<1>1. Elements \in Nat /\ seen \in 0..Elements /\ stagger \in 0..Wrap - 1
  BY MotionBounds DEF MotionTypeOK
<1>2. IsFiniteSet(Noticed)
  <2>1. IsFiniteSet(1..seen)
    BY <1>1, FS_Interval
  <2>2. QED
    BY <2>1, FS_Subset DEF Noticed
<1>3. Cardinality(Noticed) \in Nat
  BY <1>2, FS_CardinalityType
<1>4. \A e \in Element : Cardinality({d \in Noticed : d < e}) \in Nat
  BY <1>2, FS_Subset, FS_CardinalityType
<1>5. \A n \in Nat : (stagger + n) % Wrap \in 0..Wrap - 1
  BY <1>1 DEF Wrap
<1>6. QED
  BY <1>3, <1>4, <1>5 DEF Schedule, MotionTypeOK

\* Scrolling, timers, the sweep and the reader's input.
LEMMA NextMotionInv == MotionInv /\ [MotionNext]_motionVars => MotionInv'
<1> SUFFICES ASSUME MotionInv, [MotionNext]_motionVars PROVE MotionInv'
  OBVIOUS
<1>1. CASE UNCHANGED motionVars
  BY <1>1 DEF motionVars, revealVars, sliderVars, MotionInv, MotionTypeOK, ReaderOwnsSlider
<1>2. ASSUME Scroll \/ Timers \/ \E f \in Figure : Count(f) PROVE MotionInv'
  <2>1. UNCHANGED sliderVars /\ UNCHANGED reduced
    BY <1>2 DEF Scroll, Timers, Poll, Elapse, Enter, Schedule, Count
  <2>2. MotionTypeOK'
    <3>1. CASE Scroll \/ \E f \in Figure : Count(f)
      BY <2>1, <3>1, MotionBounds
      DEF Scroll, Count, MotionInv, MotionTypeOK, revealVars, sliderVars
    <3>2. CASE Poll
      <4>1. UNCHANGED <<seen, entered, count>> /\ poll' \in {Off, Interval}
        BY <3>2 DEF Poll, Schedule
      <4>2. QED
        BY <2>1, <3>2, <4>1, ScheduleTypes
        DEF Poll, MotionInv, MotionTypeOK, sliderVars, Off, Interval
    <3>3. CASE Elapse
      <4>1. \A e \in Element : {d - 1 : d \in timeouts[e]} \in SUBSET (0..Wrap - 1)
        BY <3>3 DEF Elapse, MotionInv, MotionTypeOK, Wrap
      <4>2. poll' \in Off..Interval
        BY <3>3 DEF Elapse, MotionInv, MotionTypeOK, Off, Interval
      <4>3. timeouts' \in [Element -> SUBSET (0..Wrap - 1)]
        BY <3>3, <4>1 DEF Elapse
      <4>4. QED
        BY <2>1, <3>3, <4>2, <4>3 DEF Elapse, MotionInv, MotionTypeOK, sliderVars
    <3>4. CASE \E e \in Element : Enter(e)
      BY <2>1, <3>4 DEF Enter, MotionInv, MotionTypeOK, sliderVars
    <3>5. QED
      BY <1>2, <3>1, <3>2, <3>3, <3>4 DEF Timers
  <2>3. QED
    BY <2>1, <2>2 DEF MotionInv, ReaderOwnsSlider, sliderVars
<1>3. CASE Sweep
  <2>1. /\ sweep /\ frame \in 0..STEPS /\ frame < STEPS /\ chosen = NoChoice
        /\ slider \in 0..STEPS - 1 /\ at = slider
    BY <1>3 DEF Sweep, MotionInv, MotionTypeOK, ReaderOwnsSlider
  <2>2. /\ frame' = frame + 1 /\ frame' \in 0..STEPS
        /\ sweep' <=> frame' < STEPS
    <3>1. frame' = frame + 1 /\ (sweep' <=> ~(frame' >= STEPS))
      BY <1>3, Zenon DEF Sweep
    <3>2. QED
      BY <2>1, <3>1, MotionBounds
  <2>3. slider' \in 0..STEPS - 1 /\ at' = slider'
    BY <1>3, <2>1, <2>2, MotionBounds DEF Sweep, Show
  <2>4. sweep' \in BOOLEAN /\ UNCHANGED <<reduced, revealVars, chosen, count>>
    BY <1>3 DEF Sweep
  <2>5. QED
    BY <2>1, <2>2, <2>3, <2>4 DEF MotionInv, MotionTypeOK, ReaderOwnsSlider, revealVars
<1>4. ASSUME NEW i \in 0..STEPS - 1, Input(i) PROVE MotionInv'
  BY <1>4 DEF Input, Show, MotionInv, MotionTypeOK, ReaderOwnsSlider, revealVars
<1>5. QED
  BY <1>1, <1>2, <1>3, <1>4 DEF MotionNext

\* Put together.
LEMMA MotionHolds == MotionSpec => []MotionInv
  BY InitMotionInv, NextMotionInv, PTL DEF MotionSpec

\* The timers, the slider and the figures have their shape.
THEOREM MotionTypes == MotionSpec => []MotionTypeOK
  BY MotionHolds, PTL DEF MotionInv

\* For any length of the window, the figures are those of the slider's day, and the
\* playback never moves a slider that the reader has set.
THEOREM SliderIsReaders == MotionSpec => []ReaderOwnsSlider
  BY MotionHolds, PTL DEF MotionInv

-----------------------------------------------------------------------------
(* The pages together.  A step of one page is a step or a stutter of each  *)
(* page's own module, so that what holds of a module alone holds of every  *)
(* page that may be open.                                                  *)

PagesInv == /\ ApprovalInv /\ AnswerInv /\ ScreensInv /\ DataGraphInv
            /\ PlainAnswerTypeOK /\ NoWordsAreDiscarded /\ RouterInv /\ MotionInv

\* Whatever page is open, the scripts of each take a step of their own or none.
LEMMA PagesAreApart ==
  [PagesNext]_pagesVars
    => /\ [ApprovalNext]_approvalVars /\ [GraphNext]_graphVars /\ [ScreensNext]_screensVars
       /\ [DataGraphNext]_dataGraphVars /\ [PlainAnswerNext]_plainAnswerVars
       /\ [RouterNext]_routerVars /\ [MotionNext]_motionVars
  BY DEF PagesNext, pagesVars

\* Each page begins as its module says.
LEMMA InitPagesInv == PagesInit => PagesInv
<1> SUFFICES ASSUME PagesInit PROVE PagesInv
  OBVIOUS
<1>1. /\ ApprovalInit /\ GraphInit /\ ScreensInit /\ DataGraphInit
      /\ PlainAnswerInit /\ RouterInit /\ MotionInit
  BY DEF PagesInit
<1>2. /\ ApprovalInv /\ AnswerInv /\ ScreensInv /\ DataGraphInv
      /\ PlainAnswerTypeOK /\ NoWordsAreDiscarded /\ RouterInv /\ MotionInv
  BY <1>1, InitApprovalInv, InitAnswerInv, InitScreensInv, InitDataGraphInv,
     InitPlainAnswer, InitRouterInv, InitMotionInv
<1>3. QED
  BY <1>2 DEF PagesInv

\* The open page steps and the others stay.
LEMMA NextPagesInv == PagesInv /\ [PagesNext]_pagesVars => PagesInv'
<1> SUFFICES ASSUME PagesInv, [PagesNext]_pagesVars PROVE PagesInv'
  OBVIOUS
<1>1. /\ ApprovalInv /\ AnswerInv /\ ScreensInv /\ DataGraphInv
      /\ PlainAnswerTypeOK /\ NoWordsAreDiscarded /\ RouterInv /\ MotionInv
  BY DEF PagesInv
<1>2. ApprovalInv' /\ AnswerInv' /\ ScreensInv' /\ DataGraphInv'
  BY <1>1, PagesAreApart, NextApprovalInv, NextAnswerInv, NextScreensInv, NextDataGraphInv
<1>3. PlainAnswerTypeOK' /\ NoWordsAreDiscarded' /\ RouterInv' /\ MotionInv'
  BY <1>1, PagesAreApart, NextPlainAnswer, NextRouterInv, NextMotionInv
<1>4. QED
  BY <1>2, <1>3 DEF PagesInv

\* Every invariant of every page holds whichever page is open, for any screens, tables,
\* machines, agents, questions and lines.
THEOREM PagesAreSound == PagesSpec => []PagesInv
  BY InitPagesInv, NextPagesInv, PTL DEF PagesSpec

\* The state of every page keeps its shape, the page that is open and the ones that are
\* not.
THEOREM PagesTypes == PagesSpec => []PagesTypeOK
<1>1. PagesInv => PagesTypeOK
  BY DEF PagesInv, PagesTypeOK, ApprovalInv, AnswerInv, GraphInv, ScreensInv, DataGraphInv,
     RouterInv, MotionInv
<1>2. QED
  BY <1>1, PagesAreSound, PTL
=============================================================================
