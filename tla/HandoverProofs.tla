--------------------------- MODULE HandoverProofs ---------------------------
(***************************************************************************)
(* What the shift handover sheet guarantees for any number of runs,        *)
(* delegates, tools and chunks.                                            *)
(***************************************************************************)
EXTENDS Handover, AgentStreamProofs

\* stop() names at most the live run.
LEMMA CurrentIsStream ==
    TypeOK => Current \in SUBSET Stream /\ \A t \in Stream : t \in Current <=> t = live
  BY NoRunAssumption DEF TypeOK, Current

\* stop() keeps the shape of what it writes.
LEMMA StopKeepsType ==
  ASSUME TypeOK, Stop
  PROVE  abandoned' \in [Stream -> BOOLEAN] /\ verdict' \in [Stream -> {"none", "empty"}]
  BY DEF TypeOK, Stop, Verdict

\* What onStep makes of a frame of prose.
LEMMA TextIsText ==
  \A f \in AgentFrames : StepKind(f) = "text" => f.about \in {"blank", "words"}
  BY DEF AgentFrames, Texts, Tools, StepKind

\* Every step keeps the shape of the state.
LEMMA StepKeepsType == TypeOK /\ [Next]_vars => TypeOK'
<1> SUFFICES ASSUME TypeOK, [Next]_vars PROVE TypeOK'
  OBVIOUS
<1>1. ASSUME NEW s \in Stream, Click(s) PROVE TypeOK'
  <2>1. StreamTypeOK'
    BY <1>1, CurrentIsStream, BrowserKeepsType DEF Click, TypeOK
  <2>2. QED
    BY <1>1, <2>1, StopKeepsType DEF Click, TypeOK
<1>2. CASE PageHide
  <2>1. PICK s \in Stream : live = s
    BY <1>2 DEF PageHide, TypeOK
  <2>2. StreamTypeOK'
    BY <1>2, CurrentIsStream, BrowserKeepsType DEF PageHide, TypeOK
  <2>3. QED
    BY <1>2, <2>2, StopKeepsType DEF PageHide, TypeOK
<1>3. ASSUME NEW s \in Stream, Step(s) PROVE TypeOK'
  <2>1. PICK f \in AgentFrames : Step(s)!(f)
    BY <1>3 DEF Step
  <2>2. StreamTypeOK'
    BY <2>1, BrowserKeepsType, FramesAreFrames DEF TypeOK
  <2>3. CASE abandoned[s] \/ StepKind(f) # "text"
    BY <2>1, <2>2, <2>3 DEF TypeOK
  <2>4. CASE ~(abandoned[s] \/ StepKind(f) # "text")
    BY <2>1, <2>2, <2>4, TextIsText DEF TypeOK
  <2>5. QED
    BY <2>3, <2>4
<1>4. ASSUME NEW s \in Stream, Skip(s) PROVE TypeOK'
  BY <1>4, BrowserKeepsType DEF Skip, TypeOK, pageVars
<1>5. ASSUME NEW s \in Stream, Error(s) PROVE TypeOK'
  BY <1>5, BrowserKeepsType DEF Error, Fail, TypeOK
<1>6. ASSUME NEW s \in Stream, End(s) PROVE TypeOK'
  BY <1>6, BrowserKeepsType DEF End, Done, Verdict, TypeOK
<1>7. ASSUME NEW s \in Stream, Dropped(s) PROVE TypeOK'
  <2>1. StreamTypeOK'
    BY <1>7, BrowserKeepsType DEF Dropped, TypeOK
  <2>2. QED
    BY <1>7, <2>1 DEF Dropped, Fail, Done, Verdict, TypeOK
<1>8. ASSUME NEW s \in Stream, Network(s) PROVE TypeOK'
  BY <1>8, ServerKeepsType, DropKeepsType DEF Network, TypeOK, pageVars
<1>9. CASE UNCHANGED vars
  BY <1>9 DEF vars, streamVars, pageVars, TypeOK, StreamTypeOK
<1>10. QED
  BY <1>1, <1>2, <1>3, <1>4, <1>5, <1>6, <1>7, <1>8, <1>9 DEF Next, Browser

\* The sheet starts with nothing asked and nothing shown.
LEMMA InitIInv == Init => IInv
<1> SUFFICES ASSUME Init PROVE IInv
  OBVIOUS
<1>1. TypeOK
  BY FramesAssumption DEF Init, StreamInit, TypeOK, StreamTypeOK, Cuts
<1>2. QED
  BY <1>1, NoRunAssumption
  DEF Init, StreamInit, IInv, OneOpenStream, BandFollowsAnswer, ClosedByFinish,
      AbandonedIsClosed, UnstartedIsBlank, LiveIsShown

-----------------------------------------------------------------------------
\* A run that has not been started is not the one on the page.
LEMMA ClickStep ==
  ASSUME IInv, NEW s \in Stream, Click(s), TypeOK'
  PROVE  IInv'
<1> USE DEF IInv, TypeOK, StreamTypeOK
<1>1. source[s] = "none" /\ live # s /\ ~wrote[s] /\ ~abandoned[s] /\ s # NoRun
  BY NoRunAssumption DEF Click, Open, OneOpenStream, UnstartedIsBlank, AbandonedIsClosed,
      LiveIsShown
<1>2. /\ \A t \in Stream : source'[t] = IF t = s THEN "open"
                                        ELSE IF t = live THEN "closed" ELSE source[t]
      /\ \A t \in Stream : finished'[t] <=> (finished[t] \/ t = live)
      /\ \A t \in Stream : abandoned'[t] <=> (abandoned[t] \/ t = live)
      /\ live' = s /\ shown' = s /\ band' = "writing"
      /\ wrote' = wrote /\ failed' = failed
  <2>1. Open(s, Current) /\ Stop /\ \A t \in Stream : t \in Current <=> t = live
    BY CurrentIsStream DEF Click
  <2>2. /\ \A t \in Stream : source'[t] = IF t = s THEN "open"
                                          ELSE IF t = live THEN "closed" ELSE source[t]
        /\ \A t \in Stream : finished'[t] <=> (finished[t] \/ t = live)
    BY <2>1 DEF Open
  <2>3. \A t \in Stream : abandoned'[t] <=> (abandoned[t] \/ t = live)
    BY <2>1 DEF Stop
  <2>4. QED
    BY <2>2, <2>3 DEF Click
<1>3. \A t \in Stream : source[t] = "open" => t = live
  BY DEF OneOpenStream
<1>4. OneOpenStream'
  BY <1>2, <1>3 DEF OneOpenStream
<1>5. ClosedByFinish'
  BY <1>1, <1>2 DEF ClosedByFinish
<1>6. AbandonedIsClosed'
  BY <1>1, <1>2 DEF AbandonedIsClosed
<1>7. UnstartedIsBlank'
  BY <1>2 DEF UnstartedIsBlank
<1>8. BandFollowsAnswer' /\ LiveIsShown'
  BY <1>1, <1>2 DEF BandFollowsAnswer, LiveIsShown
<1>9. QED
  BY <1>4, <1>5, <1>6, <1>7, <1>8

\* Leaving the page closes the live run, whose panes stay.
LEMMA PageHideStep ==
  ASSUME IInv, PageHide, TypeOK'
  PROVE  IInv'
<1> USE DEF IInv, TypeOK, StreamTypeOK
<1>1. live \in Stream /\ source[live] = "open" /\ live # NoRun
  BY NoRunAssumption DEF PageHide, OneOpenStream, LiveIsShown
<1>2. /\ \A t \in Stream : source'[t] = IF t = live THEN "closed" ELSE source[t]
      /\ \A t \in Stream : finished'[t] <=> (finished[t] \/ t = live)
      /\ \A t \in Stream : abandoned'[t] <=> (abandoned[t] \/ t = live)
      /\ live' = NoRun /\ UNCHANGED <<shown, wrote, failed, band>>
  BY CurrentIsStream DEF PageHide, Close, Finish, Stop
<1>3. OneOpenStream'
  BY <1>2, NoRunAssumption DEF OneOpenStream
<1>4. ClosedByFinish' /\ AbandonedIsClosed'
  BY <1>2 DEF ClosedByFinish, AbandonedIsClosed
<1>5. UnstartedIsBlank' /\ LiveIsShown'
  BY <1>2 DEF UnstartedIsBlank, LiveIsShown
<1>6. BandFollowsAnswer'
  BY <1>2 DEF BandFollowsAnswer
<1>7. QED
  BY <1>3, <1>4, <1>5, <1>6

\* An event of an open stream is one of the run on the page, which nobody stopped.
LEMMA OpenIsLive ==
  ASSUME IInv, NEW s \in Stream, source[s] = "open"
  PROVE  live = s /\ shown = s /\ ~abandoned[s] /\ ~finished[s] /\ s # NoRun
  BY NoRunAssumption DEF IInv, OneOpenStream, AbandonedIsClosed, ClosedByFinish

\* Events that neither open nor close a stream.
LEMMA EventStep ==
  ASSUME IInv, NEW s \in Stream, Step(s) \/ Error(s), TypeOK'
  PROVE  IInv'
<1> USE DEF IInv, TypeOK, StreamTypeOK
<1>1. source[s] = "open"
  BY DEF Step, Error, Message, ProxyErrorEvent, Dispatch
<1>2. live = s /\ shown = s /\ ~abandoned[s] /\ s # NoRun
  BY <1>1, OpenIsLive
<1>3. UNCHANGED <<source, finished, live, shown, abandoned>>
  BY DEF Step, Error, Message, ProxyErrorEvent, Consume
<1>4. \A t \in Stream : t # s => wrote'[t] = wrote[t]
  BY DEF Step, Error
<1>5. OneOpenStream' /\ ClosedByFinish' /\ AbandonedIsClosed' /\ LiveIsShown'
  BY <1>3 DEF OneOpenStream, ClosedByFinish, AbandonedIsClosed, LiveIsShown
<1>6. UnstartedIsBlank'
  BY <1>1, <1>3, <1>4 DEF UnstartedIsBlank
<1>7. BandFollowsAnswer'
  <2>1. CASE Step(s)
    <3>1. PICK f \in AgentFrames : Step(s)!(f)
      BY <2>1 DEF Step
    <3>2. CASE StepKind(f) # "text"
      BY <1>3, <3>1, <3>2 DEF BandFollowsAnswer
    <3>3. CASE StepKind(f) = "text"
      <4>1. /\ wrote' = [wrote EXCEPT ![s] = TRUE] /\ failed' = failed
            /\ band' = IF wrote[s] THEN band ELSE "written"
        BY <1>2, <3>1, <3>3
      <4>2. QED
        BY <1>2, <1>3, <4>1 DEF BandFollowsAnswer
    <3>4. QED
      BY <3>2, <3>3
  <2>2. CASE Error(s)
    <3>1. /\ failed' = [failed EXCEPT ![s] = TRUE] /\ wrote' = wrote
          /\ band' = IF wrote[s] THEN band ELSE "unchecked"
      BY <1>2, <2>2 DEF Error, Fail
    <3>2. QED
      BY <1>2, <1>3, <3>1 DEF BandFollowsAnswer
  <2>3. QED
    BY <2>1, <2>2
<1>8. QED
  BY <1>5, <1>6, <1>7

\* Events that close a stream: the run is over, and its panes stay.
LEMMA EndStep ==
  ASSUME IInv, NEW s \in Stream, End(s) \/ Dropped(s), TypeOK'
  PROVE  IInv'
<1> USE DEF IInv, TypeOK, StreamTypeOK
<1>1. source[s] = "open"
  BY DEF End, Dropped, ProxyDoneEvent, ConnectionEnds, Dispatch
<1>2. live = s /\ shown = s /\ ~abandoned[s] /\ ~finished[s] /\ s # NoRun
  BY <1>1, OpenIsLive
<1>3. Finish({s})
  BY <1>2 DEF End, Dropped, ProxyDoneEvent, ConnectionEnds
<1>4. /\ \A t \in Stream : source'[t] = IF t = s THEN "closed" ELSE source[t]
      /\ \A t \in Stream : finished'[t] <=> (finished[t] \/ t = s)
  BY <1>3 DEF Finish
<1>5. live' = NoRun /\ UNCHANGED <<shown, abandoned, wrote>>
  BY <1>2 DEF End, Dropped, Done
<1>6. \/ UNCHANGED <<failed, band>>
      \/ /\ failed' = [failed EXCEPT ![s] = TRUE]
         /\ band' = IF wrote[s] THEN band ELSE "unchecked"
  BY <1>2 DEF End, Dropped, Fail
<1>7. OneOpenStream'
  BY <1>2, <1>4, <1>5, NoRunAssumption DEF OneOpenStream
<1>8. ClosedByFinish' /\ AbandonedIsClosed' /\ UnstartedIsBlank' /\ LiveIsShown'
  BY <1>2, <1>4, <1>5 DEF ClosedByFinish, AbandonedIsClosed, UnstartedIsBlank, LiveIsShown
<1>9. BandFollowsAnswer'
  BY <1>2, <1>5, <1>6 DEF BandFollowsAnswer
<1>10. QED
  BY <1>7, <1>8, <1>9

\* The server and the network touch nothing that the page has decided.
LEMMA NetworkStep ==
  ASSUME IInv, NEW s \in Stream, Network(s) \/ Skip(s), TypeOK'
  PROVE  IInv'
<1>1. UNCHANGED <<source, finished>> /\ UNCHANGED pageVars
  BY DEF Network, Skip, Server, Drop, Refuse, Accept, CreateSession, StartRun, RunRefused,
         RelayFrame, RelayPart, UpstreamEnds, UpstreamFails, WriteDone, RelayCancelled,
         Unreadable, Consume, browserVars
<1>2. QED
  BY <1>1 DEF pageVars, IInv, OneOpenStream, BandFollowsAnswer, ClosedByFinish,
              AbandonedIsClosed, UnstartedIsBlank, LiveIsShown

\* A click, a page that is left, and the callbacks of the run on the page.
LEMMA NextIInv == IInv /\ [Next]_vars => IInv'
<1> SUFFICES ASSUME IInv, [Next]_vars PROVE IInv'
  OBVIOUS
<1>1. TypeOK'
  BY StepKeepsType DEF IInv
<1>2. CASE UNCHANGED vars
  BY <1>1, <1>2 DEF vars, streamVars, pageVars, IInv, OneOpenStream, BandFollowsAnswer,
                    ClosedByFinish, AbandonedIsClosed, UnstartedIsBlank, LiveIsShown
<1>3. CASE PageHide
  BY <1>1, <1>3, PageHideStep
<1>4. ASSUME NEW s \in Stream, Click(s) \/ Browser(s) \/ Network(s) PROVE IInv'
  BY <1>1, <1>4, ClickStep, EventStep, EndStep, NetworkStep DEF Browser
<1>5. QED
  BY <1>2, <1>3, <1>4 DEF Next

-----------------------------------------------------------------------------
\* The inductive invariant holds throughout.
THEOREM Invariance == Spec => []IInv
  BY InitIInv, NextIInv, PTL DEF Spec

\* Every reachable state of the sheet and its streams has its shape.
THEOREM TypeCorrect == Spec => []TypeOK
  BY Invariance, PTL DEF IInv

\* Only the run whose panes are on the page streams, whatever the reader, the server
\* and the network do.
THEOREM OneStream == Spec => []OneOpenStream
  BY Invariance, PTL DEF IInv

\* The band claims a written brief exactly when the pane above it has one.
THEOREM BandIsOfTheAnswer == Spec => []BandFollowsAnswer
  BY Invariance, PTL DEF IInv

-----------------------------------------------------------------------------
(* What becomes of each run: it is sent once and ends once.                *)

\* A click and a page that is left stop the live run, and no other.
LEMMA StopEffect ==
  ASSUME IInv, NEW s \in Stream \cup {NoRun},
         \/ s \in Stream /\ Click(s)
         \/ s = NoRun /\ PageHide
  PROVE  /\ \A t \in Stream : source'[t] = IF t = s THEN "open"
                                          ELSE IF t = live THEN "closed" ELSE source[t]
         /\ \A t \in Stream : asks'[t] = IF t = s THEN asks[t] + 1 ELSE asks[t]
         /\ \A t \in Stream : abandoned'[t] <=> (abandoned[t] \/ t = live)
         /\ \A t \in Stream : t # live => verdict'[t] = verdict[t]
         /\ live' = s /\ wrote' = wrote /\ rawText' = rawText /\ failed' = failed
<1> USE NoRunAssumption DEF IInv, TypeOK, StreamTypeOK
<1>1. \A t \in Stream : t \in Current <=> t = live
  BY CurrentIsStream
<1>2. CASE s \in Stream /\ Click(s)
  BY <1>1, <1>2 DEF Click, Open, Stop
<1>3. CASE s = NoRun /\ PageHide
  BY <1>1, <1>3 DEF PageHide, Close, Finish, Stop
<1>4. QED
  BY <1>2, <1>3

\* onStep, a frame that cannot be read and onError touch their own run, and decide
\* nothing of it.
LEMMA TalkEffect ==
  ASSUME TypeOK, NEW s \in Stream, Step(s) \/ Skip(s) \/ Error(s)
  PROVE  /\ source[s] = "open"
         /\ UNCHANGED <<source, asks, live, abandoned, verdict>>
         /\ \A t \in Stream \ {s} : /\ failed'[t] = failed[t] /\ wrote'[t] = wrote[t]
                                   /\ rawText'[t] = rawText[t]
<1> USE DEF TypeOK
<1>1. CASE Step(s)
  <2>1. PICK f \in AgentFrames : Step(s)!(f)
    BY <1>1 DEF Step
  <2>2. /\ source[s] = "open"
        /\ UNCHANGED <<source, asks, live, abandoned, failed, verdict>>
    BY <2>1 DEF Message, Dispatch, Consume
  <2>3. \/ wrote' = wrote /\ rawText' = rawText
        \/ \E w, r : wrote' = [wrote EXCEPT ![s] = w] /\ rawText' = [rawText EXCEPT ![s] = r]
    BY <2>1
  <2>4. QED
    BY <2>2, <2>3
<1>2. CASE Skip(s)
  BY <1>2 DEF Skip, Unreadable, Dispatch, Consume, pageVars
<1>3. CASE Error(s)
  BY <1>3 DEF Error, Fail, ProxyErrorEvent, Dispatch, Consume
<1>4. QED
  BY <1>1, <1>2, <1>3

\* Both ways a stream ends by itself close it, and leave its run decided.
LEMMA EndEffect ==
  ASSUME IInv, NEW s \in Stream, End(s) \/ Dropped(s)
  PROVE  /\ source[s] = "open" /\ live = s /\ live' = NoRun /\ asks' = asks
         /\ source' = [t \in Stream |-> IF t = s THEN "closed" ELSE source[t]]
         /\ UNCHANGED <<abandoned, wrote, rawText>>
         /\ \A t \in Stream \ {s} : failed'[t] = failed[t] /\ verdict'[t] = verdict[t]
         /\ verdict'[s] = "empty" \/ wrote[s] \/ rawText[s] = "words"
<1> USE DEF IInv, TypeOK, StreamTypeOK
<1>1. source[s] = "open"
  BY DEF End, Dropped, ProxyDoneEvent, ConnectionEnds, Dispatch
<1>2. live = s /\ ~abandoned[s] /\ ~finished[s]
  BY <1>1, OpenIsLive
<1>3. /\ source' = [t \in Stream |-> IF t = s THEN "closed" ELSE source[t]]
      /\ asks' = asks
  <2>1. CASE End(s)
    BY <2>1 DEF End, ProxyDoneEvent, Dispatch, Finish
  <2>2. CASE Dropped(s)
    BY <1>2, <2>2 DEF Dropped, ConnectionEnds, Finish
  <2>3. QED
    BY <2>1, <2>2
<1>4. Done(s) /\ UNCHANGED <<abandoned, wrote, rawText>>
  BY <1>2 DEF End, Dropped
<1>5. \A t \in Stream \ {s} : failed'[t] = failed[t]
  BY DEF End, Dropped, Fail
<1>6. live' = NoRun /\ \A t \in Stream \ {s} : verdict'[t] = verdict[t]
  BY <1>2, <1>4 DEF Done
<1>7. verdict'[s] = "empty" \/ wrote[s] \/ rawText[s] = "words"
  BY <1>4 DEF Done, Verdict
<1>8. QED
  BY <1>1, <1>2, <1>3, <1>4, <1>5, <1>6, <1>7

\* The server and the network do not ask, and the page does not see them.
LEMMA NetworkEffect ==
  ASSUME NEW s \in Stream, Network(s)
  PROVE  UNCHANGED <<source, asks>> /\ UNCHANGED pageVars
  BY DEF Network, Server, Drop, Refuse, Accept, CreateSession, StartRun, RunRefused,
         RelayFrame, RelayPart, UpstreamEnds, UpstreamFails, WriteDone, RelayCancelled,
         browserVars

\* A click sends the run it starts and stops the one in progress, if any.
LEMMA StopKeepsEnding ==
  ASSUME IInv, AskedOnce, DecidedWhenClosed, NEW s \in Stream \cup {NoRun},
         \/ s \in Stream /\ Click(s)
         \/ s = NoRun /\ PageHide
  PROVE  AskedOnce' /\ DecidedWhenClosed'
<1>1. /\ \A t \in Stream : source'[t] = IF t = s THEN "open"
                                        ELSE IF t = live THEN "closed" ELSE source[t]
      /\ \A t \in Stream : asks'[t] = IF t = s THEN asks[t] + 1 ELSE asks[t]
      /\ \A t \in Stream : abandoned'[t] <=> (abandoned[t] \/ t = live)
      /\ \A t \in Stream : t # live => verdict'[t] = verdict[t]
      /\ wrote' = wrote /\ rawText' = rawText /\ failed' = failed
  BY StopEffect
<1>2. s \in Stream => source[s] = "none"
  BY NoRunAssumption DEF Click, Open
<1>3. \A t \in Stream : t = live => source[t] = "open"
  BY NoRunAssumption DEF IInv, OneOpenStream, LiveIsShown
<1>4. ASSUME NEW t \in Stream
      PROVE  asks'[t] = IF source'[t] = "none" THEN 0 ELSE 1
  <2>1. asks[t] = IF source[t] = "none" THEN 0 ELSE 1
    BY DEF AskedOnce
  <2>2. CASE t = s
    BY <1>1, <1>2, <2>1, <2>2
  <2>3. CASE t # s
    BY <1>1, <1>3, <2>1, <2>3
  <2>4. QED
    BY <2>2, <2>3
<1>5. ASSUME NEW t \in Stream, source'[t] = "closed", ~abandoned'[t]
      PROVE  failed'[t] \/ verdict'[t] = "empty" \/ wrote'[t] \/ rawText'[t] = "words"
  <2>1. t # live /\ source[t] = "closed" /\ ~abandoned[t]
    BY <1>1, <1>5
  <2>2. failed[t] \/ verdict[t] = "empty" \/ wrote[t] \/ rawText[t] = "words"
    BY <2>1 DEF DecidedWhenClosed
  <2>3. QED
    BY <1>1, <2>1, <2>2
<1>6. QED
  BY <1>4, <1>5 DEF AskedOnce, DecidedWhenClosed

\* A run is sent with its source, and whatever closes that source stops or decides it.
LEMMA NextEndingInv == EndingInv /\ [Next]_vars => EndingInv'
<1> SUFFICES ASSUME IInv, AskedOnce, DecidedWhenClosed, [Next]_vars
             PROVE  AskedOnce' /\ DecidedWhenClosed'
  BY NextIInv DEF EndingInv
<1>1. ASSUME NEW s \in Stream, Click(s) PROVE AskedOnce' /\ DecidedWhenClosed'
  BY <1>1, StopKeepsEnding
<1>2. CASE PageHide
  BY <1>2, StopKeepsEnding
<1>3. ASSUME NEW s \in Stream, Step(s) \/ Skip(s) \/ Error(s)
      PROVE  AskedOnce' /\ DecidedWhenClosed'
  <2>1. /\ source[s] = "open"
        /\ UNCHANGED <<source, asks, live, abandoned, verdict>>
        /\ \A t \in Stream \ {s} : /\ failed'[t] = failed[t] /\ wrote'[t] = wrote[t]
                                  /\ rawText'[t] = rawText[t]
    BY <1>3, TalkEffect DEF IInv
  <2>2. QED
    BY <2>1 DEF AskedOnce, DecidedWhenClosed
<1>4. ASSUME NEW s \in Stream, End(s) \/ Dropped(s)
      PROVE  AskedOnce' /\ DecidedWhenClosed'
  <2>1. /\ source[s] = "open" /\ asks' = asks
        /\ source' = [t \in Stream |-> IF t = s THEN "closed" ELSE source[t]]
        /\ UNCHANGED <<abandoned, wrote, rawText>>
        /\ \A t \in Stream \ {s} : failed'[t] = failed[t] /\ verdict'[t] = verdict[t]
        /\ verdict'[s] = "empty" \/ wrote[s] \/ rawText[s] = "words"
    BY <1>4, EndEffect
  <2>2. QED
    BY <2>1 DEF AskedOnce, DecidedWhenClosed
<1>5. ASSUME NEW s \in Stream, Network(s)
      PROVE  AskedOnce' /\ DecidedWhenClosed'
  BY <1>5, NetworkEffect DEF AskedOnce, DecidedWhenClosed, pageVars
<1>6. CASE UNCHANGED vars
  BY <1>6 DEF vars, streamVars, pageVars, AskedOnce, DecidedWhenClosed
<1>7. QED
  BY <1>1, <1>2, <1>3, <1>4, <1>5, <1>6 DEF Next, Browser

\* Throughout, each run has been sent at most once, and one that is closed was stopped
\* or has something to show for itself.
THEOREM Ending == Spec => []EndingInv
<1>1. Init => EndingInv
  BY InitIInv DEF EndingInv, AskedOnce, DecidedWhenClosed, Init, StreamInit
<1>2. QED
  BY <1>1, NextEndingInv, PTL DEF Spec

\* No ending of a stream sends a run of the brief to the agent again.
THEOREM SentOnce == Spec => []NeverReAsked
<1>1. EndingInv => NeverReAsked
  <2>1. ASSUME AskedOnce, NEW s \in Stream PROVE asks[s] <= 1
    <3>1. asks[s] = 0 \/ asks[s] = 1
      BY <2>1 DEF AskedOnce
    <3>2. QED
      BY <3>1
  <2>2. QED
    BY <2>1 DEF EndingInv, NeverReAsked
<1>2. QED
  BY <1>1, Ending, PTL

-----------------------------------------------------------------------------
(* The sheet implements the conversation.                                  *)

\* The outcome of a run changes only when the run itself is started, stopped or ended.
LEMMA OutcomeDependsOn ==
  ASSUME NEW q \in Stream,
         source'[q] = source[q], abandoned'[q] <=> abandoned[q],
         live' = q <=> live = q, failed'[q] <=> failed[q], verdict'[q] = verdict[q],
         wrote'[q] <=> wrote[q], rawText'[q] = rawText[q]
  PROVE  Outcome(q)' = Outcome(q)
  BY DEF Outcome

\* What a click or a page that is left makes of every other run.
LEMMA StopIsStopped ==
  ASSUME IInv, NEW s \in Stream \cup {NoRun},
         \/ s \in Stream /\ Click(s)
         \/ s = NoRun /\ PageHide,
         NEW t \in Stream, t # s
  PROVE  Outcome(t)' = IF Outcome(t) = "asking" THEN "stopped" ELSE Outcome(t)
<1> USE DEF IInv, TypeOK, StreamTypeOK
<1>1. CASE t = live
  <2>1. source[t] = "open" /\ ~abandoned[t]
    BY <1>1, NoRunAssumption DEF OneOpenStream, LiveIsShown, AbandonedIsClosed
  <2>2. Outcome(t) = "asking"
    BY <1>1, <2>1 DEF Outcome
  <2>3. source'[t] = "closed" /\ abandoned'[t]
    BY <1>1, StopEffect
  <2>4. Outcome(t)' = "stopped"
    BY <2>3 DEF Outcome
  <2>5. QED
    BY <2>2, <2>4
<1>2. CASE t # live
  <2>1. Outcome(t) # "asking"
    BY <1>2 DEF Outcome
  <2>2. Outcome(t)' = Outcome(t)
    <3>1. /\ source'[t] = source[t] /\ failed'[t] = failed[t] /\ verdict'[t] = verdict[t]
          /\ wrote'[t] = wrote[t] /\ rawText'[t] = rawText[t] /\ live # t /\ live' # t
      BY <1>2, StopEffect
    <3>2. abandoned'[t] <=> abandoned[t]
      BY <1>2, StopEffect
    <3>3. QED
      BY <3>1, <3>2, OutcomeDependsOn
  <2>3. QED
    BY <2>1, <2>2
<1>3. QED
  BY <1>1, <1>2

\* A click is Ask of the abstract conversation: the run in progress is stopped.
LEMMA ClickIsAsk ==
  ASSUME IInv, NEW s \in Stream, Click(s)
  PROVE  Conv!Ask(s)
<1> USE DEF IInv, TypeOK, StreamTypeOK
<1>1. Outcome(s) = "unasked"
  BY DEF Click, Open, Outcome
<1>2. Outcome(s)' = "asking"
  <2>1. source[s] = "none" /\ live # s /\ ~abandoned[s]
    BY NoRunAssumption DEF Click, Open, OneOpenStream, LiveIsShown, AbandonedIsClosed
  <2>2. source'[s] = "open" /\ live' = s /\ ~abandoned'[s]
    BY <2>1, StopEffect
  <2>3. QED
    BY <2>2 DEF Outcome
<1>3. \A t \in Stream \ {s} :
        Outcome(t)' = IF Outcome(t) = "asking" THEN "stopped" ELSE Outcome(t)
  BY StopIsStopped
<1>4. QED
  BY <1>1, <1>2, <1>3 DEF Conv!Ask

\* Leaving the page settles the live run as stopped.
LEMMA LeavingIsSettle ==
  ASSUME IInv, PageHide
  PROVE  live \in Stream /\ Conv!Settle(live)
<1> USE DEF IInv, TypeOK, StreamTypeOK
<1>1. live \in Stream /\ source[live] = "open" /\ ~abandoned[live]
  BY NoRunAssumption DEF PageHide, OneOpenStream, LiveIsShown, AbandonedIsClosed
<1>2. Outcome(live) = "asking"
  BY <1>1 DEF Outcome
<1>3. \A t \in Stream : Outcome(t)' = IF Outcome(t) = "asking" THEN "stopped" ELSE Outcome(t)
  BY NoRunAssumption, StopIsStopped
<1>4. \A t \in Stream : Outcome(t) = "asking" => t = live
  BY DEF Outcome
<1>5. [t \in Stream |-> Outcome(t)]' = [[t \in Stream |-> Outcome(t)] EXCEPT ![live] = "stopped"]
  BY <1>1, <1>2, <1>3, <1>4
<1>6. QED
  BY <1>1, <1>2, <1>5 DEF Conv!Settle

\* A run that ends by itself has been answered, is empty or has failed.
LEMMA EndIsSettle ==
  ASSUME IInv, NEW s \in Stream, End(s) \/ Dropped(s)
  PROVE  Conv!Settle(s)
<1> USE DEF IInv, TypeOK, StreamTypeOK
<1>1. Outcome(s) = "asking"
  BY EndEffect, OpenIsLive DEF Outcome
<1>2. Outcome(s)' \in {"answered", "empty", "failed", "stopped"}
  <2>1. source'[s] = "closed" /\ live' # s
    BY EndEffect, NoRunAssumption
  <2>2. verdict'[s] = "empty" \/ wrote'[s] \/ rawText'[s] = "words"
    BY EndEffect
  <2>3. QED
    BY <2>1, <2>2 DEF Outcome
<1>3. ASSUME NEW t \in Stream \ {s} PROVE Outcome(t)' = Outcome(t)
  <2>1. /\ source'[t] = source[t] /\ failed'[t] = failed[t] /\ verdict'[t] = verdict[t]
        /\ UNCHANGED <<abandoned, wrote, rawText>> /\ live # t /\ live' # t
    BY EndEffect, NoRunAssumption
  <2>2. QED
    BY <2>1, OutcomeDependsOn
<1>4. [t \in Stream |-> Outcome(t)]' = [[t \in Stream |-> Outcome(t)] EXCEPT ![s] = Outcome(s)']
  BY <1>3
<1>5. QED
  BY <1>1, <1>2, <1>4 DEF Conv!Settle

\* Frames and errors of an open stream leave its run in progress.
LEMMA TalkIsStutter ==
  ASSUME IInv, NEW s \in Stream, Step(s) \/ Skip(s) \/ Error(s), NEW t \in Stream
  PROVE  Outcome(t)' = Outcome(t)
<1> USE DEF IInv, TypeOK, StreamTypeOK
<1>1. /\ source[s] = "open" /\ UNCHANGED <<source, live, abandoned, verdict>>
      /\ \A u \in Stream \ {s} : /\ failed'[u] = failed[u] /\ wrote'[u] = wrote[u]
                                /\ rawText'[u] = rawText[u]
  BY TalkEffect
<1>2. CASE t = s
  BY <1>1, <1>2, OpenIsLive DEF Outcome
<1>3. CASE t # s
  BY <1>1, <1>3, OutcomeDependsOn
<1>4. QED
  BY <1>2, <1>3

\* Every step of the sheet is one of the conversation's, or is not seen in it.
LEMMA StepImplements ==
  ASSUME IInv, [Next]_vars
  PROVE  Conv!Next \/ UNCHANGED [s \in Stream |-> Outcome(s)]
<1>1. ASSUME NEW s \in Stream, Click(s) PROVE Conv!Next
  BY <1>1, ClickIsAsk DEF Conv!Next
<1>2. CASE PageHide
  BY <1>2, LeavingIsSettle DEF Conv!Next
<1>3. ASSUME NEW s \in Stream, Step(s) \/ Skip(s) \/ Error(s)
      PROVE  UNCHANGED [t \in Stream |-> Outcome(t)]
  BY <1>3, TalkIsStutter
<1>4. ASSUME NEW s \in Stream, End(s) \/ Dropped(s) PROVE Conv!Next
  BY <1>4, EndIsSettle DEF Conv!Next
<1>5. ASSUME NEW s \in Stream, Network(s) PROVE UNCHANGED [t \in Stream |-> Outcome(t)]
  BY <1>5, NetworkEffect DEF pageVars, Outcome
<1>6. CASE UNCHANGED vars
  BY <1>6 DEF vars, streamVars, pageVars, Outcome
<1>7. QED
  BY <1>1, <1>2, <1>3, <1>4, <1>5, <1>6 DEF Next, Browser

\* The sheet keeps the promise that the role page keeps: one run at a time, each ended
\* in one way and for good.
THEOREM ImplementsConversation == Spec => HandoverIsConversation
<1>1. Init => Conv!Init
  BY DEF Init, StreamInit, Conv!Init, Outcome
<1>2. IInv /\ [Next]_vars => [Conv!Next]_([s \in Stream |-> Outcome(s)])
  BY StepImplements
<1>3. QED
  BY <1>1, <1>2, Invariance, PTL DEF Spec, HandoverIsConversation, Conv!Spec
\* What the conversation promises the sheet keeps: an ending, once reached, is never taken
\* back or changed, and at most one run is in progress.
THEOREM EndingsAreFinal == Spec => Conv!OutcomeIsFinal /\ []Conv!OneAtATime
<1> DEFINE outcomes == [s \in Stream |-> Outcome(s)]
<1>1. ASSUME [Conv!Next]_outcomes, NEW q \in Stream,
             Outcome(q) \notin {"unasked", "asking"}
      PROVE  Outcome(q)' = Outcome(q)
  <2>1. ASSUME NEW p \in Stream, Conv!Ask(p) PROVE Outcome(q)' = Outcome(q)
    BY <1>1, <2>1 DEF Conv!Ask
  <2>2. ASSUME NEW p \in Stream, Conv!Settle(p) PROVE Outcome(q)' = Outcome(q)
    BY <1>1, <2>2 DEF Conv!Settle
  <2>3. CASE UNCHANGED outcomes
    BY <2>3
  <2>4. QED
    BY <1>1, <2>1, <2>2, <2>3 DEF Conv!Next
<1>2. [Conv!Next]_outcomes =>
        [\A q \in Stream : outcomes[q] \notin {"unasked", "asking"}
                             => outcomes'[q] = outcomes[q]]_outcomes
  BY <1>1
<1>3. Conv!Init => Conv!OneAtATime
  BY DEF Conv!Init, Conv!OneAtATime
<1>4. ASSUME Conv!OneAtATime, [Conv!Next]_outcomes PROVE Conv!OneAtATime'
  <2>1. ASSUME NEW p \in Stream, Conv!Ask(p) PROVE Conv!OneAtATime'
    BY <1>4, <2>1 DEF Conv!Ask, Conv!OneAtATime
  <2>2. ASSUME NEW p \in Stream, Conv!Settle(p) PROVE Conv!OneAtATime'
    BY <1>4, <2>2 DEF Conv!Settle, Conv!OneAtATime
  <2>3. CASE UNCHANGED outcomes
    BY <1>4, <2>3 DEF Conv!OneAtATime
  <2>4. QED
    BY <1>4, <2>1, <2>2, <2>3 DEF Conv!Next
<1>5. Conv!Spec => []Conv!OneAtATime
  BY <1>3, <1>4, PTL DEF Conv!Spec
<1>6. Conv!Spec => Conv!OutcomeIsFinal
  BY <1>2, PTL DEF Conv!Spec, Conv!OutcomeIsFinal
<1>7. QED
  BY <1>5, <1>6, ImplementsConversation DEF HandoverIsConversation

=============================================================================
