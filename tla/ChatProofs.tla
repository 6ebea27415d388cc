----------------------------- MODULE ChatProofs -----------------------------
(***************************************************************************)
(* What the role page's conversation guarantees for any number of          *)
(* questions, delegates, tools and chunks.                                 *)
(***************************************************************************)
EXTENDS Chat, AgentStreamProofs, FiniteSetTheorems

\* stop() names at most the live question, and marks nothing else.
LEMMA CurrentIsStream == TypeOK => Current \in SUBSET Stream
  BY DEF TypeOK, Current

\* The panes keep their shape: line() returns a log, File a list of delegates.
LEMMA PanesKeepShape ==
  /\ \A l \in Seq(Lines) :
       \A x \in {<<"failed", c>> : c \in Call} \cup {<<"doing", c>> : c \in Call}
                 \cup {<<"note", "stopped">>} :
         Line(l, x) \in Seq(Lines)
  /\ \A a \in Seq(Delegate), d \in Delegate : File(a, d) \in Seq(Delegate)
<1>1. ASSUME NEW l \in Seq(Lines),
             NEW x \in {<<"failed", c>> : c \in Call} \cup {<<"doing", c>> : c \in Call}
                         \cup {<<"note", "stopped">>}
      PROVE  Line(l, x) \in Seq(Lines)
  <2>1. [text |-> x, absorbed |-> FALSE] \in Lines
    BY <1>1 DEF Lines
  <2>2. Append(l, [text |-> x, absorbed |-> FALSE]) \in Seq(Lines)
    BY <2>1
  <2>3. ASSUME l # <<>>
        PROVE  [l EXCEPT ![Len(l)].absorbed = TRUE] \in Seq(Lines)
    <3>1. Len(l) \in 1..Len(l) /\ l[Len(l)] \in Lines
      BY <2>3
    <3>2. [l[Len(l)] EXCEPT !.absorbed = TRUE] \in Lines
      BY <3>1 DEF Lines
    <3>3. QED
      BY <3>1, <3>2, ExceptSeq
  <2>4. QED
    BY <2>2, <2>3 DEF Line
<1>2. ASSUME NEW a \in Seq(Delegate), NEW d \in Delegate
      PROVE  File(a, d) \in Seq(Delegate)
  BY DEF File
<1>3. QED
  BY <1>1, <1>2

\* What was heard of a tool keeps its shape too.
LEMMA HearKeepsShape == \A t \in Tallies : \A p : Hear(t, p) \in Tallies
  BY DEF Hear, Tallies

\* stop() keeps the shape of what it writes.
LEMMA StopKeepsType ==
  ASSUME TypeOK, Stop
  PROVE  /\ abandoned' \in [Stream -> BOOLEAN]
         /\ log' \in [Stream -> Seq(Lines)]
         /\ verdict' \in [Stream -> {"none", "empty"}]
<1>1. \A s \in Stream : Line(log[s], <<"note", "stopped">>) \in Seq(Lines)
  BY PanesKeepShape DEF TypeOK
<1>2. QED
  BY <1>1 DEF TypeOK, Stop, Verdict

\* Every step keeps the shape of the state.
LEMMA StepKeepsType == TypeOK /\ [Next]_vars => TypeOK'
<1> SUFFICES ASSUME TypeOK, [Next]_vars PROVE TypeOK'
  OBVIOUS
<1>1. ASSUME NEW s \in Stream, Ask(s) PROVE TypeOK'
  <2>1. StreamTypeOK'
    BY <1>1, CurrentIsStream, BrowserKeepsType DEF Ask, TypeOK
  <2>2. QED
    BY <1>1, <2>1, StopKeepsType DEF Ask, TypeOK
<1>2. CASE ClosePage
  <2>1. PICK s \in Stream : live = s
    BY <1>2 DEF ClosePage, TypeOK
  <2>2. StreamTypeOK'
    BY <1>2, CurrentIsStream, BrowserKeepsType DEF ClosePage, TypeOK
  <2>3. QED
    BY <1>2, <2>2, StopKeepsType DEF ClosePage, TypeOK
<1>3. ASSUME NEW s \in Stream, Step(s) PROVE TypeOK'
  <2>1. PICK f \in AgentFrames : Step(s)!(f)
    BY <1>3 DEF Step
  <2>2. StreamTypeOK'
    BY <2>1, BrowserKeepsType, FramesAreFrames DEF TypeOK
  <2>3. CASE abandoned[s]
    BY <2>1, <2>2, <2>3 DEF TypeOK
  <2>4. CASE ~abandoned[s] /\ StepKind(f) = "text"
    <3>1. f.about \in {"blank", "words"}
      BY <2>4 DEF AgentFrames, Texts, Tools, StepKind
    <3>2. QED
      BY <2>1, <2>2, <2>4, <3>1 DEF TypeOK
  <2>5. CASE ~abandoned[s] /\ StepKind(f) = "aside"
    <3>1. f.author \in Delegate
      BY <2>5 DEF StepKind
    <3>2. File(asides[s], f.author) \in Seq(Delegate)
      BY <3>1, PanesKeepShape DEF TypeOK
    <3>3. QED
      BY <2>1, <2>2, <2>5, <3>2 DEF TypeOK
  <2>6. CASE ~abandoned[s] /\ StepKind(f) \notin {"text", "aside"}
    <3>1. f \in Tools
      BY <2>6 DEF AgentFrames, Texts, Tools, StepKind
    <3>2. StepText(f) \in {<<"failed", c>> : c \in Call} \cup {<<"doing", c>> : c \in Call}
                            \cup {<<"note", "stopped">>}
      BY <3>1 DEF Tools, StepText
    <3>3. Line(log[s], StepText(f)) \in Seq(Lines)
      BY <3>2, PanesKeepShape DEF TypeOK
    <3>4. /\ log' = [log EXCEPT ![s] = Line(@, StepText(f))]
          /\ heard' = [heard EXCEPT ![s][f.about] = Hear(@, f.part)]
          /\ UNCHANGED <<wrote, asides, live, abandoned, failed, verdict>>
      BY <2>1, <2>6
    <3>5. heard' \in [Stream -> [Call -> Tallies]]
      <4>1. f.about \in Call
        BY <3>1 DEF Tools
      <4>2. heard[s] \in [Call -> Tallies] /\ heard[s][f.about] \in Tallies
        BY <4>1 DEF TypeOK
      <4>3. Hear(heard[s][f.about], f.part) \in Tallies
        BY <4>2, HearKeepsShape
      <4>4. [heard[s] EXCEPT ![f.about] = Hear(@, f.part)] \in [Call -> Tallies]
        BY <4>1, <4>2, <4>3
      <4>5. heard' = [heard EXCEPT ![s] = [heard[s] EXCEPT ![f.about] = Hear(@, f.part)]]
        BY <3>4, <4>1 DEF TypeOK
      <4>6. QED
        BY <4>4, <4>5 DEF TypeOK
    <3>6. QED
      BY <2>2, <3>3, <3>4, <3>5 DEF TypeOK
  <2>7. QED
    BY <2>3, <2>4, <2>5, <2>6
<1>4. ASSUME NEW s \in Stream, Skip(s) PROVE TypeOK'
  BY <1>4, BrowserKeepsType DEF Skip, TypeOK, chatVars
<1>5. ASSUME NEW s \in Stream, Error(s) PROVE TypeOK'
  BY <1>5, BrowserKeepsType DEF Error, Fail, TypeOK
<1>6. ASSUME NEW s \in Stream, End(s) PROVE TypeOK'
  BY <1>6, BrowserKeepsType DEF End, Done, Verdict, TypeOK
<1>7. ASSUME NEW s \in Stream, Dropped(s) PROVE TypeOK'
  <2>1. StreamTypeOK'
    BY <1>7, BrowserKeepsType DEF Dropped, TypeOK
  <2>2. QED
    BY <1>7, <2>1 DEF Dropped, Fail, Verdict, TypeOK
<1>8. ASSUME NEW s \in Stream, Network(s) PROVE TypeOK'
  BY <1>8, ServerKeepsType, DropKeepsType DEF Network, TypeOK, chatVars
<1>9. CASE UNCHANGED vars
  BY <1>9 DEF vars, streamVars, chatVars, TypeOK, StreamTypeOK
<1>10. QED
  BY <1>1, <1>2, <1>3, <1>4, <1>5, <1>6, <1>7, <1>8, <1>9 DEF Next, Browser

\* Every reachable state of the page and its streams has the shape above.
THEOREM TypeCorrect == Spec => []TypeOK
<1>1. Init => TypeOK
  BY FramesAssumption DEF Init, StreamInit, TypeOK, StreamTypeOK, Cuts, Tallies, Unheard
<1>2. QED
  BY <1>1, StepKeepsType, PTL DEF Spec

-----------------------------------------------------------------------------
(* The invariant. A closed stream is closed by finish(), which calls onDone, *)
(* which decides the question unless stop() has already marked it.           *)

\* stop() leaves every answer pane as it was: its onDone returns early.
LEMMA StopKeepsVerdicts == TypeOK /\ Stop => verdict' = verdict
  BY DEF TypeOK, Stop, Verdict

\* Asking a question: the stream that was open is closed and marked.
LEMMA AskKeepsIInv ==
  ASSUME IInv, NEW s \in Stream, Ask(s), TypeOK'
  PROVE  IInv'
<1> USE DEF IInv, TypeOK, StreamTypeOK
<1>1. /\ source[s] = "none" /\ live # s
      /\ \A t \in Stream : t \in Current <=> t = live
  BY NoRunAssumption DEF Ask, Open, OneOpenStream, Current
<1>2. /\ \A t \in Stream : source'[t] = IF t = s THEN "open"
                                        ELSE IF t = live THEN "closed" ELSE source[t]
      /\ \A t \in Stream : finished'[t] <=> (finished[t] \/ t = live)
      /\ \A t \in Stream : abandoned'[t] <=> (abandoned[t] \/ t = live)
      /\ \A t \in Stream : asks'[t] = IF t = s THEN asks[t] + 1 ELSE asks[t]
      /\ live' = s /\ failed' = failed /\ wrote' = wrote /\ verdict' = verdict
  <2>1. verdict' = verdict
    BY StopKeepsVerdicts DEF Ask
  <2>2. /\ \A t \in Stream : source'[t] = IF t = s THEN "open"
                                          ELSE IF t = live THEN "closed" ELSE source[t]
        /\ \A t \in Stream : finished'[t] <=> (finished[t] \/ t = live)
        /\ asks' = [asks EXCEPT ![s] = @ + 1]
    BY <1>1 DEF Ask, Open
  <2>3. /\ \A t \in Stream : abandoned'[t] <=> (abandoned[t] \/ t = live)
        /\ live' = s /\ failed' = failed /\ wrote' = wrote
    BY <1>1 DEF Ask, Stop
  <2>4. QED
    BY <2>1, <2>2, <2>3
<1>3. OneOpenStream'
  <2>1. ASSUME NEW t \in Stream PROVE source'[t] = "open" <=> live' = t
    <3>1. CASE t = s
      BY <1>2, <3>1
    <3>2. CASE t # s /\ t = live
      BY <1>2, <3>2
    <3>3. CASE t # s /\ t # live
      BY <1>2, <3>3 DEF OneOpenStream
    <3>4. QED
      BY <3>1, <3>2, <3>3
  <2>2. QED
    BY <2>1 DEF OneOpenStream
<1>4. ClosedByFinish'
  BY <1>1, <1>2 DEF ClosedByFinish
<1>5. AbandonedIsClosed'
  BY <1>1, <1>2 DEF AbandonedIsClosed
<1>6. AskedOnce'
  <2>1. ASSUME NEW t \in Stream PROVE asks'[t] = IF source'[t] = "none" THEN 0 ELSE 1
    <3>1. CASE t = s
      BY <1>1, <1>2, <3>1 DEF AskedOnce
    <3>2. CASE t # s /\ t = live
      <4>1. source[t] = "open"
        BY <3>2 DEF OneOpenStream
      <4>2. QED
        BY <1>2, <3>2, <4>1 DEF AskedOnce
    <3>3. CASE t # s /\ t # live
      BY <1>2, <3>3 DEF AskedOnce
    <3>4. QED
      BY <3>1, <3>2, <3>3
  <2>2. QED
    BY <2>1 DEF AskedOnce
<1>7. VerdictIsLast' /\ DecidedWhenClosed' /\ NoContradiction'
  BY <1>1, <1>2 DEF VerdictIsLast, DecidedWhenClosed, NoContradiction
<1>8. QED
  BY <1>3, <1>4, <1>5, <1>6, <1>7

\* Closing the page does the same to the live question and opens nothing.
LEMMA ClosePageKeepsIInv ==
  ASSUME IInv, ClosePage, TypeOK'
  PROVE  IInv'
<1> USE DEF IInv, TypeOK, StreamTypeOK
<1>1. /\ live \in Stream /\ source[live] = "open"
      /\ \A t \in Stream : t \in Current <=> t = live
  BY NoRunAssumption DEF ClosePage, OneOpenStream, Current
<1>2. /\ \A t \in Stream : source'[t] = IF t = live THEN "closed" ELSE source[t]
      /\ \A t \in Stream : finished'[t] <=> (finished[t] \/ t = live)
      /\ \A t \in Stream : abandoned'[t] <=> (abandoned[t] \/ t = live)
      /\ live' = NoRun /\ asks' = asks
      /\ failed' = failed /\ wrote' = wrote /\ verdict' = verdict
  BY <1>1, StopKeepsVerdicts DEF ClosePage, Close, Finish, Stop
<1>3. OneOpenStream'
  <2>1. ASSUME NEW t \in Stream PROVE source'[t] # "open" /\ live' # t
    <3>1. live' # t
      BY <1>2, NoRunAssumption
    <3>2. source'[t] # "open"
      BY <1>2 DEF OneOpenStream
    <3>3. QED
      BY <3>1, <3>2
  <2>2. QED
    BY <2>1 DEF OneOpenStream
<1>4. ClosedByFinish' /\ AbandonedIsClosed' /\ AskedOnce'
  BY <1>1, <1>2 DEF ClosedByFinish, AbandonedIsClosed, AskedOnce
<1>5. VerdictIsLast' /\ DecidedWhenClosed' /\ NoContradiction'
  BY <1>1, <1>2 DEF VerdictIsLast, DecidedWhenClosed, NoContradiction
<1>6. QED
  BY <1>3, <1>4, <1>5

\* onStep and onError run on an open stream and leave it so.
LEMMA TalkEffect ==
  ASSUME TypeOK, NEW s \in Stream, Step(s) \/ Skip(s) \/ Error(s)
  PROVE  /\ source[s] = "open"
         /\ UNCHANGED <<source, finished, asks, live, abandoned, verdict>>
         /\ \A t \in Stream \ {s} : failed'[t] = failed[t] /\ wrote'[t] = wrote[t]
<1> USE DEF TypeOK
<1>1. CASE Step(s)
  <2>1. PICK f \in AgentFrames : Step(s)!(f)
    BY <1>1 DEF Step
  <2>2. /\ source[s] = "open"
        /\ UNCHANGED <<source, finished, asks, live, abandoned, failed, verdict>>
    BY <2>1 DEF Message, Dispatch, Consume
  <2>3. wrote' = wrote \/ \E w : wrote' = [wrote EXCEPT ![s] = w]
    BY <2>1
  <2>4. QED
    BY <2>2, <2>3
<1>2. CASE Skip(s)
  BY <1>2 DEF Skip, Unreadable, Dispatch, Consume, chatVars
<1>3. CASE Error(s)
  BY <1>3 DEF Error, Fail, ProxyErrorEvent, Dispatch, Consume
<1>4. QED
  BY <1>1, <1>2, <1>3

\* While the stream stays open only what it shows changes, and nothing is
\* decided: onStep and onError.
LEMMA TalkKeepsIInv ==
  ASSUME IInv, NEW s \in Stream, Step(s) \/ Skip(s) \/ Error(s), TypeOK'
  PROVE  IInv'
<1> USE DEF IInv, TypeOK, StreamTypeOK
<1>1. /\ source[s] = "open"
      /\ UNCHANGED <<source, finished, asks, live, abandoned, verdict>>
      /\ \A t \in Stream \ {s} : failed'[t] = failed[t] /\ wrote'[t] = wrote[t]
  BY TalkEffect
<1>2. OneOpenStream' /\ ClosedByFinish' /\ AbandonedIsClosed' /\ AskedOnce' /\ VerdictIsLast'
  BY <1>1 DEF OneOpenStream, ClosedByFinish, AbandonedIsClosed, AskedOnce, VerdictIsLast
<1>3. DecidedWhenClosed' /\ NoContradiction'
  BY <1>1 DEF DecidedWhenClosed, NoContradiction, VerdictIsLast
<1>4. QED
  BY <1>2, <1>3

\* The two ways a stream ends by itself, proxy-done and a connection that is
\* gone: onDone closes the live question and decides it, after onError if any.
LEMMA EndEffect ==
  ASSUME IInv, NEW s \in Stream, End(s) \/ Dropped(s)
  PROVE  /\ source[s] = "open" /\ live = s /\ ~abandoned[s] /\ ~finished[s]
         /\ source' = [t \in Stream |-> IF t = s THEN "closed" ELSE source[t]]
         /\ finished' = [t \in Stream |-> finished[t] \/ t = s]
         /\ asks' = asks /\ live' = NoRun /\ abandoned' = abandoned /\ wrote' = wrote
         /\ \A t \in Stream \ {s} : failed'[t] = failed[t] /\ verdict'[t] = verdict[t]
         /\ verdict'[s] = "empty" <=> ~failed'[s] /\ wrote[s] # "words"
<1> USE DEF IInv, TypeOK, StreamTypeOK
<1>1. source[s] = "open" /\ live = s /\ ~abandoned[s] /\ ~finished[s]
  <2>1. source[s] = "open"
    BY DEF End, Dropped, ProxyDoneEvent, Dispatch, ConnectionEnds
  <2>2. QED
    BY <2>1 DEF OneOpenStream, AbandonedIsClosed, ClosedByFinish
<1>2. /\ source' = [t \in Stream |-> IF t = s THEN "closed" ELSE source[t]]
      /\ finished' = [t \in Stream |-> finished[t] \/ t = s]
      /\ asks' = asks
  <2>1. CASE End(s)
    BY <2>1 DEF End, ProxyDoneEvent, Dispatch, Finish
  <2>2. CASE Dropped(s)
    BY <1>1, <2>2 DEF Dropped, ConnectionEnds, Finish
  <2>3. QED
    BY <2>1, <2>2
<1>3. /\ live' = NoRun /\ abandoned' = abandoned /\ wrote' = wrote
      /\ \A t \in Stream \ {s} : failed'[t] = failed[t] /\ verdict'[t] = verdict[t]
      /\ verdict'[s] = "empty" <=> ~failed'[s] /\ wrote[s] # "words"
  <2>0. verdict[s] = "none"
    BY <1>1 DEF VerdictIsLast
  <2>1. CASE End(s)
    BY <1>1, <2>0, <2>1 DEF End, Done, Verdict
  <2>2. CASE Dropped(s)
    BY <1>1, <2>0, <2>2 DEF Dropped, Fail
  <2>3. QED
    BY <2>1, <2>2
<1>4. QED
  BY <1>1, <1>2, <1>3

\* Both leave nothing open and everything decided.
LEMMA EndKeepsIInv ==
  ASSUME IInv, NEW s \in Stream, End(s) \/ Dropped(s), TypeOK'
  PROVE  IInv'
<1> USE DEF IInv, TypeOK, StreamTypeOK
<1>1. source[s] = "open" /\ live = s /\ ~abandoned[s] /\ ~finished[s]
  BY EndEffect
<1>2. /\ source' = [t \in Stream |-> IF t = s THEN "closed" ELSE source[t]]
      /\ finished' = [t \in Stream |-> finished[t] \/ t = s]
      /\ asks' = asks
  BY EndEffect
<1>3. /\ live' = NoRun /\ abandoned' = abandoned /\ wrote' = wrote
      /\ \A t \in Stream \ {s} : failed'[t] = failed[t] /\ verdict'[t] = verdict[t]
      /\ verdict'[s] = "empty" <=> ~failed'[s] /\ wrote[s] # "words"
  BY EndEffect
<1>4. OneOpenStream'
  BY <1>1, <1>2, <1>3, NoRunAssumption DEF OneOpenStream
<1>5. ClosedByFinish' /\ AbandonedIsClosed' /\ AskedOnce' /\ VerdictIsLast'
  BY <1>1, <1>2, <1>3 DEF ClosedByFinish, AbandonedIsClosed, AskedOnce, VerdictIsLast
<1>6. DecidedWhenClosed' /\ NoContradiction'
  <2>1. ASSUME NEW t \in Stream
        PROVE  /\ source'[t] = "closed" /\ ~abandoned'[t]
                  => failed'[t] \/ verdict'[t] = "empty" \/ wrote'[t] = "words"
               /\ verdict'[t] = "empty" => ~failed'[t] /\ wrote'[t] # "words"
    <3>1. CASE t = s
      BY <1>3, <3>1
    <3>2. CASE t # s
      BY <1>2, <1>3, <3>2 DEF DecidedWhenClosed, NoContradiction
    <3>3. QED
      BY <3>1, <3>2
  <2>2. QED
    BY <2>1 DEF DecidedWhenClosed, NoContradiction
<1>7. QED
  BY <1>4, <1>5, <1>6

\* Before the first question every stream is untouched.
LEMMA InitIInv == Init => IInv
<1>1. Init => TypeOK
  BY FramesAssumption DEF Init, StreamInit, TypeOK, StreamTypeOK, Cuts, Tallies, Unheard
<1>2. QED
  BY <1>1, NoRunAssumption
     DEF Init, StreamInit, IInv, OneOpenStream, ClosedByFinish, AbandonedIsClosed,
         AskedOnce, VerdictIsLast, DecidedWhenClosed, NoContradiction

\* One lemma for each handler that writes; the network is unseen.
LEMMA StepKeepsIInv == IInv /\ [Next]_vars => IInv'
<1> SUFFICES ASSUME IInv, [Next]_vars PROVE IInv'
  OBVIOUS
<1>t. TypeOK'
  BY StepKeepsType DEF IInv
<1>1. ASSUME NEW s \in Stream, Network(s) PROVE IInv'
  <2>1. UNCHANGED <<source, finished, asks, live, abandoned, failed, wrote, verdict>>
    BY <1>1 DEF Network, chatVars, browserVars, Server, Refuse, Accept, CreateSession,
         StartRun, RunRefused, RelayFrame, RelayPart, UpstreamEnds, UpstreamFails,
         WriteDone, RelayCancelled, Drop
  <2>2. QED
    BY <1>t, <2>1 DEF IInv, OneOpenStream, ClosedByFinish, AbandonedIsClosed,
         AskedOnce, VerdictIsLast, DecidedWhenClosed, NoContradiction
<1>2. CASE UNCHANGED vars
  BY <1>t, <1>2 DEF vars, streamVars, chatVars, IInv, OneOpenStream, ClosedByFinish,
       AbandonedIsClosed, AskedOnce, VerdictIsLast, DecidedWhenClosed, NoContradiction
<1>3. QED
  BY <1>t, <1>1, <1>2, AskKeepsIInv, ClosePageKeepsIInv, TalkKeepsIInv, EndKeepsIInv
     DEF Next, Browser

\* The page and its streams keep the invariant whatever the reader, the network
\* and the agents do.
THEOREM Invariance == Spec => []IInv
  BY InitIInv, StepKeepsIInv, PTL DEF Spec

\* Two agents' text never shares an answer: the one open EventSource is the live
\* question's, and there is none when no question is live.
THEOREM OneStream == Spec => []OneOpenStream
<1>1. IInv => OneOpenStream
  BY DEF IInv
<1>2. QED
  BY <1>1, Invariance, PTL

\* No question is sent to an agent twice.
THEOREM AskedAtMostOnce == Spec => []NeverReAsked
<1>1. IInv => NeverReAsked
  <2>1. ASSUME IInv, NEW s \in Stream PROVE asks[s] <= 1
    <3>1. asks[s] = 0 \/ asks[s] = 1
      BY <2>1 DEF IInv, AskedOnce
    <3>2. QED
      BY <3>1
  <2>2. QED
    BY <2>1 DEF NeverReAsked
<1>2. QED
  BY <1>1, Invariance, PTL

\* The page does not say that an agent finished without writing next to an
\* error, or over an answer.
THEOREM PageIsConsistent == Spec => []NoContradiction
<1>1. IInv => NoContradiction
  BY DEF IInv
<1>2. QED
  BY <1>1, Invariance, PTL

-----------------------------------------------------------------------------
(* The page implements Conversation.                                       *)

\* What the network and the agents do is not seen until the browser dispatches it.
LEMMA NetworkIsUnseen ==
  ASSUME NEW s \in Stream, Network(s)
  PROVE  UNCHANGED <<source, abandoned, live, failed, verdict, wrote, asides, log>>
  BY DEF Network, chatVars, browserVars, Server, Refuse, Accept, CreateSession,
         StartRun, RunRefused, RelayFrame, RelayPart, UpstreamEnds, UpstreamFails,
         WriteDone, RelayCancelled, Drop

\* A stopped question's panes are out of reach: its stream is closed, so no
\* callback of its own runs, and it is not the live one that stop() writes to.
LEMMA StepIsSilent ==
  ASSUME IInv, [Next]_vars, NEW q \in Stream, abandoned[q]
  PROVE  /\ failed'[q] = failed[q] /\ wrote'[q] = wrote[q] /\ asides'[q] = asides[q]
         /\ log'[q] = log[q] /\ verdict'[q] = verdict[q]
<1> USE DEF IInv, TypeOK
<1>q. source[q] = "closed" /\ live # q /\ q \notin Current
  BY NoRunAssumption DEF AbandonedIsClosed, OneOpenStream, Current
<1> DEFINE Silent == /\ failed'[q] = failed[q] /\ wrote'[q] = wrote[q]
                     /\ asides'[q] = asides[q]
                     /\ log'[q] = log[q] /\ verdict'[q] = verdict[q]
<1>1. ASSUME Stop PROVE log'[q] = log[q] /\ verdict'[q] = verdict[q]
  BY <1>q, <1>1 DEF Stop
<1>2. ASSUME NEW s \in Stream, Ask(s) PROVE Silent
  BY <1>1, <1>2 DEF Ask
<1>3. CASE ClosePage
  BY <1>1, <1>3 DEF ClosePage
<1>4. ASSUME NEW s \in Stream, Browser(s) PROVE Silent
  <2>1. s # q
    BY <1>q, <1>4 DEF Browser, Step, Skip, Error, End, Dropped, Message, Unreadable,
         ProxyErrorEvent, ProxyDoneEvent, Dispatch, ConnectionEnds
  <2>2. CASE Step(s)
    <3>1. PICK f \in AgentFrames : Step(s)!(f)
      BY <2>2 DEF Step
    <3>2. failed' = failed /\ verdict' = verdict
      BY <3>1
    <3>3. CASE abandoned[s]
      BY <3>1, <3>2, <3>3
    <3>4. CASE ~abandoned[s] /\ StepKind(f) = "text"
      BY <2>1, <3>1, <3>2, <3>4
    <3>5. CASE ~abandoned[s] /\ StepKind(f) = "aside"
      BY <2>1, <3>1, <3>2, <3>5
    <3>6. CASE ~abandoned[s] /\ StepKind(f) \notin {"text", "aside"}
      <4>1. /\ log' = [log EXCEPT ![s] = Line(@, StepText(f))]
            /\ UNCHANGED <<wrote, asides>>
        BY <3>1, <3>6
      <4>2. QED
        BY <2>1, <3>2, <4>1
    <3>7. QED
      BY <3>3, <3>4, <3>5, <3>6
  <2>3. CASE Skip(s)
    BY <2>3 DEF Skip, chatVars
  <2>4. CASE Error(s)
    BY <2>1, <2>4 DEF Error, Fail
  <2>5. CASE End(s)
    BY <2>1, <2>5 DEF End, Done
  <2>6. CASE Dropped(s)
    BY <2>1, <2>6 DEF Dropped, Fail
  <2>7. QED
    BY <1>4, <2>2, <2>3, <2>4, <2>5, <2>6 DEF Browser
<1>5. ASSUME NEW s \in Stream, Network(s) PROVE Silent
  BY <1>5, NetworkIsUnseen
<1>6. CASE UNCHANGED vars
  BY <1>6 DEF vars, chatVars
<1>7. QED
  BY <1>2, <1>3, <1>4, <1>5, <1>6 DEF Next

\* The step that stops a question is stop() itself, which decides nothing.
LEMMA StoppingDecidesNothing ==
  ASSUME IInv, [Next]_vars, NEW q \in Stream, ~abandoned[q], abandoned'[q]
  PROVE  /\ failed'[q] = failed[q] /\ wrote'[q] = wrote[q] /\ asides'[q] = asides[q]
         /\ verdict'[q] = verdict[q]
<1>1. TypeOK
  BY DEF IInv
<1>2. ASSUME NEW s \in Stream, Ask(s)
      PROVE  failed' = failed /\ wrote' = wrote /\ asides' = asides /\ verdict' = verdict
  BY <1>1, <1>2, StopKeepsVerdicts DEF Ask
<1>3. ASSUME ClosePage
      PROVE  failed' = failed /\ wrote' = wrote /\ asides' = asides /\ verdict' = verdict
  BY <1>1, <1>3, StopKeepsVerdicts DEF ClosePage
<1>4. ASSUME NEW s \in Stream, Browser(s) \/ Network(s) PROVE abandoned' = abandoned
  BY <1>4 DEF Browser, Step, Skip, Error, End, Dropped, Network, chatVars
<1>5. ASSUME UNCHANGED vars PROVE abandoned' = abandoned
  BY <1>5 DEF vars, chatVars
<1>6. QED
  BY <1>2, <1>3, <1>4, <1>5 DEF Next

\* Stopping decides nothing about a question, and nothing is written into its panes
\* once it has been stopped.
THEOREM StoppedStaysSilent == Spec => StoppedIsSilent
<1>1. ASSUME IInv, [Next]_vars, NEW s \in Stream
      PROVE  /\ abandoned'[s] => /\ failed'[s] = failed[s] /\ wrote'[s] = wrote[s]
                                 /\ asides'[s] = asides[s] /\ verdict'[s] = verdict[s]
             /\ abandoned[s] => log'[s] = log[s]
  <2>1. CASE abandoned[s]
    BY <1>1, <2>1, StepIsSilent
  <2>2. CASE ~abandoned[s]
    BY <1>1, <2>2, StoppingDecidesNothing
  <2>3. QED
    BY <2>1, <2>2
<1>2. IInv /\ [Next]_vars =>
        [\A s \in Stream :
           /\ abandoned'[s] => /\ failed'[s] = failed[s] /\ wrote'[s] = wrote[s]
                              /\ asides'[s] = asides[s] /\ verdict'[s] = verdict[s]
           /\ abandoned[s] => log'[s] = log[s]]_vars
  BY <1>1
<1>3. QED
  BY <1>2, Invariance, PTL DEF Spec, StoppedIsSilent

\* The outcome of a question changes only when the question itself is asked,
\* stopped or ended.
LEMMA OutcomeDependsOn ==
  ASSUME NEW q \in Stream,
         source'[q] = source[q], abandoned'[q] <=> abandoned[q],
         live' = q <=> live = q, failed'[q] <=> failed[q],
         verdict'[q] = verdict[q], wrote'[q] = wrote[q]
  PROVE  Outcome(q)' = Outcome(q)
  BY DEF Outcome

\* Asking is Ask of the abstract conversation: what was in progress is stopped.
LEMMA AskIsAsk ==
  ASSUME IInv, NEW s \in Stream, Ask(s), IInv'
  PROVE  Conv!Ask(s)
<1> USE DEF IInv, TypeOK, StreamTypeOK
<1>1. /\ source[s] = "none" /\ live # s /\ ~abandoned[s]
      /\ \A t \in Stream : t \in Current <=> t = live
  BY NoRunAssumption DEF Ask, Open, OneOpenStream, Current, AbandonedIsClosed
<1>2. /\ \A t \in Stream : source'[t] = IF t = s THEN "open"
                                        ELSE IF t = live THEN "closed" ELSE source[t]
      /\ \A t \in Stream : abandoned'[t] <=> (abandoned[t] \/ t = live)
      /\ live' = s /\ failed' = failed /\ wrote' = wrote /\ verdict' = verdict
  BY <1>1, StopKeepsVerdicts DEF Ask, Open, Stop
<1>3. Outcome(s) = "unasked"
  BY <1>1 DEF Outcome
<1>4. ASSUME NEW t \in Stream
      PROVE  Outcome(t)' = IF t = s THEN "asking"
                           ELSE IF Outcome(t) = "asking" THEN "stopped" ELSE Outcome(t)
  <2>1. CASE t = s
    BY <1>1, <1>2, <2>1 DEF Outcome
  <2>2. CASE t # s /\ t = live
    <3>1. source[t] = "open" /\ ~abandoned[t]
      BY <2>2 DEF OneOpenStream, AbandonedIsClosed
    <3>2. Outcome(t) = "asking"
      BY <2>2, <3>1 DEF Outcome
    <3>3. Outcome(t)' = "stopped"
      BY <1>2, <2>2 DEF Outcome
    <3>4. QED
      BY <2>2, <3>2, <3>3
  <2>3. CASE t # s /\ t # live
    <3>1. Outcome(t) # "asking"
      BY <2>3 DEF Outcome
    <3>2. /\ source'[t] = source[t] /\ failed'[t] = failed[t]
          /\ wrote'[t] = wrote[t] /\ verdict'[t] = verdict[t]
          /\ live # t /\ live' # t
      BY <1>2, <2>3
    <3>3. abandoned'[t] <=> abandoned[t]
      BY <1>2, <2>3
    <3>4. Outcome(t)' = Outcome(t)
      BY <3>2, <3>3, OutcomeDependsOn
    <3>5. QED
      BY <2>3, <3>1, <3>4
  <2>4. QED
    BY <2>1, <2>2, <2>3
<1>5. QED
  BY <1>3, <1>4 DEF Conv!Ask

\* Ending, dropping or closing the live question settles it.
LEMMA EndIsSettle ==
  ASSUME IInv, NEW s \in Stream, IInv', live = s, live' # s, source'[s] = "closed",
         \A t \in Stream \ {s} :
             /\ source'[t] = source[t] /\ abandoned'[t] = abandoned[t]
             /\ failed'[t] = failed[t] /\ verdict'[t] = verdict[t]
             /\ wrote'[t] = wrote[t] /\ live' # t
  PROVE  Conv!Settle(s)
<1> USE DEF IInv, TypeOK, StreamTypeOK
<1>1. Outcome(s) = "asking"
  BY DEF Outcome, OneOpenStream, AbandonedIsClosed
<1>2. Outcome(s)' \in {"answered", "empty", "failed", "stopped"}
  BY DEF Outcome, DecidedWhenClosed
<1>3. ASSUME NEW t \in Stream, t # s PROVE Outcome(t)' = Outcome(t)
  BY <1>3, OutcomeDependsOn
<1>4. [t \in Stream |-> Outcome(t)]' = [[t \in Stream |-> Outcome(t)] EXCEPT ![s] = Outcome(s)']
  BY <1>3
<1>5. QED
  BY <1>1, <1>2, <1>4 DEF Conv!Settle

\* Frames and errors of an open stream leave its question in progress.
LEMMA TalkIsStutter ==
  ASSUME IInv, NEW s \in Stream, Step(s) \/ Skip(s) \/ Error(s)
  PROVE  \A t \in Stream : Outcome(t)' = Outcome(t)
<1> USE DEF IInv, TypeOK, StreamTypeOK
<1>1. /\ source[s] = "open"
      /\ UNCHANGED <<source, live, abandoned, verdict>>
      /\ \A t \in Stream \ {s} : failed'[t] = failed[t] /\ wrote'[t] = wrote[t]
  BY TalkEffect
<1>2. ASSUME NEW t \in Stream PROVE Outcome(t)' = Outcome(t)
  <2>1. CASE t = s
    <3>1. live = s /\ ~abandoned[s]
      BY <1>1 DEF OneOpenStream, AbandonedIsClosed
    <3>2. QED
      BY <1>1, <2>1, <3>1 DEF Outcome
  <2>2. CASE t # s
    BY <1>1, <2>2, OutcomeDependsOn
  <2>3. QED
    BY <2>1, <2>2
<1>3. QED
  BY <1>2

\* Every step of the page is one of the conversation's, or is not seen in it.
LEMMA StepImplements ==
  ASSUME IInv, [Next]_vars, IInv'
  PROVE  Conv!Next \/ UNCHANGED [s \in Stream |-> Outcome(s)]
<1> USE DEF IInv, TypeOK, StreamTypeOK
<1>1. ASSUME NEW s \in Stream, Ask(s) PROVE Conv!Next
  BY <1>1, AskIsAsk DEF Conv!Next
<1>2. CASE ClosePage
  <2>1. /\ live \in Stream /\ \A t \in Stream : t \in Current <=> t = live
    BY <1>2, NoRunAssumption DEF ClosePage, Current
  <2>2. /\ \A t \in Stream : source'[t] = IF t = live THEN "closed" ELSE source[t]
        /\ \A t \in Stream \ {live} : abandoned'[t] = abandoned[t]
        /\ live' = NoRun /\ failed' = failed /\ wrote' = wrote /\ verdict' = verdict
    BY <1>2, <2>1, StopKeepsVerdicts DEF ClosePage, Close, Finish, Stop
  <2>3. /\ live' # live /\ source'[live] = "closed"
        /\ \A t \in Stream \ {live} :
             /\ source'[t] = source[t] /\ abandoned'[t] = abandoned[t]
             /\ failed'[t] = failed[t] /\ verdict'[t] = verdict[t]
             /\ wrote'[t] = wrote[t] /\ live' # t
    BY <2>1, <2>2, NoRunAssumption
  <2>4. Conv!Settle(live)
    BY <2>1, <2>3, EndIsSettle
  <2>5. QED
    BY <2>1, <2>4 DEF Conv!Next
<1>3. ASSUME NEW s \in Stream, Step(s) \/ Skip(s) \/ Error(s)
      PROVE  UNCHANGED [t \in Stream |-> Outcome(t)]
  BY <1>3, TalkIsStutter
<1>4. ASSUME NEW s \in Stream, End(s) \/ Dropped(s) PROVE Conv!Next
  <2>1. /\ live = s /\ live' # s /\ source'[s] = "closed"
        /\ \A t \in Stream \ {s} :
             /\ source'[t] = source[t] /\ abandoned'[t] = abandoned[t]
             /\ failed'[t] = failed[t] /\ verdict'[t] = verdict[t]
             /\ wrote'[t] = wrote[t] /\ live' # t
    BY <1>4, EndEffect, NoRunAssumption
  <2>2. Conv!Settle(s)
    BY <2>1, EndIsSettle
  <2>3. QED
    BY <2>2 DEF Conv!Next
<1>5. ASSUME NEW s \in Stream, Network(s) PROVE UNCHANGED [t \in Stream |-> Outcome(t)]
  <2>0. UNCHANGED <<source, abandoned, live, failed, verdict, wrote>>
    BY <1>5, NetworkIsUnseen
  <2>1. \A t \in Stream : Outcome(t)' = Outcome(t)
    BY <2>0 DEF Outcome
  <2>2. QED
    BY <2>1
<1>6. CASE UNCHANGED vars
  BY <1>6 DEF vars, streamVars, chatVars, Outcome
<1>7. QED
  BY <1>1, <1>2, <1>3, <1>4, <1>5, <1>6 DEF Next, Browser

\* The role page implements the conversation it promises its reader: one question
\* at a time, each ended in one way and for good.
THEOREM ImplementsConversation == Spec => ChatIsConversation
<1>1. Init => Conv!Init
  BY DEF Init, StreamInit, Conv!Init, Outcome
<1>2. IInv /\ IInv' /\ [Next]_vars => [Conv!Next]_([s \in Stream |-> Outcome(s)])
  BY StepImplements
<1>3. QED
  BY <1>1, <1>2, Invariance, PTL DEF Spec, ChatIsConversation, Conv!Spec

\* What the conversation promises the role page keeps: an ending, once reached, is never taken
\* back or changed, and at most one question is in progress.
THEOREM EndingsAreFinal == Spec => Conv!OutcomeIsFinal /\ []Conv!OneAtATime
<1> DEFINE outcomes == [s \in Stream |-> Outcome(s)]
<1>1. ASSUME [Conv!Next]_outcomes, NEW q \in Stream,
             Outcome(q) \notin {"unasked", "asking"}
      PROVE  Outcome(q)' = Outcome(q)
  <2>1. ASSUME NEW p \in Stream, Conv!Ask(p) PROVE Outcome(q)' = Outcome(q)
    BY <1>1, <2>1 DEF Conv!Ask
  <2>2. ASSUME NEW p \in Stream, Conv!Settle(p) PROVE Outcome(q)' = Outcome(q)
    BY <1>1, <2>2 DEF Conv!Settle
  <2>3. CASE UNCHANGED outcomes
    BY <2>3
  <2>4. QED
    BY <1>1, <2>1, <2>2, <2>3 DEF Conv!Next
<1>2. [Conv!Next]_outcomes =>
        [\A q \in Stream : outcomes[q] \notin {"unasked", "asking"}
                             => outcomes'[q] = outcomes[q]]_outcomes
  BY <1>1
<1>3. Conv!Init => Conv!OneAtATime
  BY DEF Conv!Init, Conv!OneAtATime
<1>4. ASSUME Conv!OneAtATime, [Conv!Next]_outcomes PROVE Conv!OneAtATime'
  <2>1. ASSUME NEW p \in Stream, Conv!Ask(p) PROVE Conv!OneAtATime'
    BY <1>4, <2>1 DEF Conv!Ask, Conv!OneAtATime
  <2>2. ASSUME NEW p \in Stream, Conv!Settle(p) PROVE Conv!OneAtATime'
    BY <1>4, <2>2 DEF Conv!Settle, Conv!OneAtATime
  <2>3. CASE UNCHANGED outcomes
    BY <1>4, <2>3 DEF Conv!OneAtATime
  <2>4. QED
    BY <1>4, <2>1, <2>2, <2>3 DEF Conv!Next
<1>5. Conv!Spec => []Conv!OneAtATime
  BY <1>3, <1>4, PTL DEF Conv!Spec
<1>6. Conv!Spec => Conv!OutcomeIsFinal
  BY <1>2, PTL DEF Conv!Spec, Conv!OutcomeIsFinal
<1>7. QED
  BY <1>5, <1>6, ImplementsConversation DEF ChatIsConversation

-----------------------------------------------------------------------------
(* A break is reported. The relay's own error event is on its way until the *)
(* page shows it, and when the connection is lost before it arrives there   *)
(* is no proxy-done either, so the browser finds the connection gone.       *)

\* What is known of one question's break.
BreakOK(s) ==
    /\ source[s] = "open" /\ fate[s] = "failed" =>
         \/ failed[s] \/ ProxyError \in InFlight(s)
         \/ conn[s] # "open" /\ ProxyDone \notin InFlight(s)
    /\ finished[s] /\ ~abandoned[s] /\ fate[s] \in {"none", "failed"} => failed[s]

\* What is known of a failure on its way, stream by stream.
LEMMA BreakByStream ==
  /\ BreakInv <=> IInv /\ StreamInv /\ \A s \in Stream : BreakOK(s)
  /\ BreakInv' <=> IInv' /\ StreamInv' /\ \A s \in Stream : BreakOK(s)'
<1>1. BreakInv <=> IInv /\ StreamInv /\ \A s \in Stream : BreakOK(s)
  BY DEF BreakInv, BreakOK, FailureIsOnItsWay, BreakIsReported
<1>2. BreakInv' <=> IInv' /\ StreamInv' /\ \A s \in Stream : BreakOK(s)'
  BY DEF BreakInv, BreakOK, FailureIsOnItsWay, BreakIsReported
<1>3. QED
  BY <1>1, <1>2

\* A question whose stream nobody touches keeps it.
LEMMA UntouchedBreak ==
  ASSUME NEW t \in Stream, BreakOK(t), source'[t] = source[t], fate'[t] = fate[t],
         conn'[t] = conn[t], InFlight(t)' = InFlight(t), finished'[t] = finished[t],
         abandoned'[t] <=> abandoned[t], failed'[t] = failed[t]
  PROVE  BreakOK(t)'
  BY DEF BreakOK

\* The server: an error event is written of every failure that is not swallowed,
\* and whatever is lost with a connection, proxy-done is lost first.
LEMMA NetworkKeepsBreak ==
  ASSUME IInv, StreamInv, NEW s \in Stream, BreakOK(s), Network(s)
  PROVE  BreakOK(s)'
<1> USE DEF IInv, TypeOK, StreamTypeOK, Network, chatVars, browserVars
<1>1. StreamOK(s)
  BY StreamByStream
<1>2. finished[s] <=> source[s] = "closed"
  BY DEF ClosedByFinish
<1>3. /\ source' = source /\ finished' = finished /\ abandoned' = abandoned
      /\ failed' = failed
  BY DEF Server, Refuse, Accept, CreateSession, StartRun, RunRefused, RelayFrame,
         RelayPart, UpstreamEnds, UpstreamFails, WriteDone, RelayCancelled, Drop
<1>4. ASSUME conn[s] \in {"open", "eof"} PROVE source[s] = "open" /\ ~finished'[s]
  BY <1>1, <1>2, <1>3, <1>4 DEF StreamOK
<1>5. CASE Refuse(s) \/ Accept(s) \/ CreateSession(s) \/ StartRun(s) \/ RelayPart(s)
           \/ RelayCancelled(s) \/ UpstreamEnds(s)
  <2>1. /\ wire' = wire
        /\ fate'[s] = fate[s] \/ fate'[s] = "clean"
        /\ conn[s] = "open" \/ conn' = conn
    BY <1>5 DEF Refuse, Accept, CreateSession, StartRun, RelayPart, RelayCancelled,
                UpstreamEnds, Serving
  <2>2. InFlight(s)' = InFlight(s)
    BY <2>1 DEF InFlight
  <2>3. QED
    BY <1>3, <1>4, <2>1, <2>2 DEF BreakOK
<1>6. CASE RunRefused(s) \/ RelayFrame(s) \/ UpstreamFails(s) \/ WriteDone(s)
  <2>1. PICK e \in Frames :
            /\ wire' = [wire EXCEPT ![s] = Append(@, e)] /\ conn[s] = "open"
            /\ fate'[s] = "failed" /\ fate[s] # "failed" => e = ProxyError
    <3>1. CASE RunRefused(s)
      BY <1>1, <3>1, FramesDiffer, FramesAreFrames
         DEF RunRefused, Write, StreamOK, Serving
    <3>2. CASE RelayFrame(s)
      <4>1. PICK f \in AgentFrames : wire' = [wire EXCEPT ![s] = Append(@, f)]
        BY <3>2 DEF RelayFrame
      <4>2. QED
        BY <3>2, <4>1, FramesAreFrames DEF RelayFrame, Serving
    <3>3. CASE UpstreamFails(s)
      BY <3>3, FramesDiffer, FramesAreFrames DEF UpstreamFails, Write, Serving
    <3>4. CASE WriteDone(s)
      BY <3>4, FramesAreFrames DEF WriteDone, Write, Serving
    <3>5. QED
      BY <1>6, <3>1, <3>2, <3>3, <3>4
  <2>2. InFlight(s)' = InFlight(s) \cup {e}
    BY <2>1, WriteEffect
  <2>3. QED
    BY <1>3, <1>4, <2>1, <2>2 DEF BreakOK
<1>7. CASE Drop(s)
  <2>1. PICK n \in 0..Len(wire[s]) : wire' = [wire EXCEPT ![s] = SubSeq(@, 1, n)]
    BY <1>7 DEF Drop
  <2>2. /\ conn[s] \in {"open", "eof"} /\ conn'[s] = "lost" /\ fate' = fate
        /\ wire[s] \in Seq(Frames) /\ wire'[s] = SubSeq(wire[s], 1, n)
    BY <1>7, <2>1 DEF Drop
  <2>3. /\ DOMAIN wire'[s] = 1..n /\ DOMAIN wire[s] = 1..Len(wire[s])
        /\ Len(wire[s]) \in Nat
        /\ \A i \in 1..n : i \in DOMAIN wire[s] /\ wire'[s][i] = wire[s][i]
    BY <2>2, Prefixed
  <2>4. InFlight(s)' \subseteq InFlight(s)
    BY <2>3 DEF InFlight
  <2>5. ASSUME ProxyDone \in InFlight(s)' PROVE InFlight(s)' = InFlight(s)
    <3>1. PICK i \in 1..n : wire[s][i] = ProxyDone
      BY <2>3, <2>5 DEF InFlight
    <3>2. i = Len(wire[s])
      BY <1>1, <2>3, <3>1 DEF StreamOK
    <3>3. n = Len(wire[s])
      <4>1. i \in Nat /\ i <= n /\ n <= Len(wire[s]) /\ n \in Nat
        BY <2>1, <2>3, <3>1
      <4>2. QED
        BY ONLY <2>3, <3>2, <4>1
    <3>4. DOMAIN wire'[s] = DOMAIN wire[s] /\ \A j \in DOMAIN wire[s] : wire'[s][j] = wire[s][j]
      BY <2>3, <3>3
    <3>5. QED
      BY <3>4 DEF InFlight
  <2>6. source'[s] = "open" /\ ~finished'[s]
    BY <1>3, <1>4, <2>2
  <2>7. QED
    BY <1>3, <2>2, <2>4, <2>5, <2>6 DEF BreakOK
<1>8. QED
  BY <1>5, <1>6, <1>7 DEF Server

\* The browser, while the stream stays open: the one event that says the reply
\* failed is dispatched to onError, which shows it.
LEMMA TalkKeepsBreak ==
  ASSUME BreakInv, NEW s \in Stream, Step(s) \/ Skip(s) \/ Error(s), TypeOK', IInv'
  PROVE  BreakInv'
<1> USE DEF IInv, TypeOK
<1>0. IInv /\ StreamInv /\ \A t \in Stream : BreakOK(t)
  BY BreakByStream
<1>1. /\ source[s] = "open"
      /\ UNCHANGED <<source, finished, asks, live, abandoned, verdict>>
      /\ \A t \in Stream \ {s} : failed'[t] = failed[t]
  BY <1>0, TalkEffect
<1>2. ~finished[s] /\ ~abandoned[s]
  BY <1>0, <1>1 DEF ClosedByFinish, AbandonedIsClosed
<1>3. PICK f : /\ Dispatch(s, f) /\ Consume(s)
               /\ (failed'[s] = failed[s] /\ f # ProxyError) \/ failed'[s]
  <2>1. CASE Step(s)
    BY <2>1, FramesDiffer DEF Step, Message
  <2>2. CASE Skip(s)
    BY <2>2, FramesDiffer DEF Skip, Unreadable, chatVars
  <2>3. CASE Error(s)
    BY <1>0, <1>2, <2>3 DEF Error, ProxyErrorEvent, Fail
  <2>4. QED
    BY <2>1, <2>2, <2>3
<1>4. /\ StreamInv' /\ InFlight(s) = {f} \cup InFlight(s)'
      /\ \A t \in Stream \ {s} : InFlight(t)' = InFlight(t)
  BY <1>0, <1>3, ConsumeKeepsInv
<1>5. fate' = fate /\ conn' = conn
  BY <1>3 DEF Dispatch, Consume, serverVars
<1>6. BreakOK(s)'
  BY <1>0, <1>1, <1>2, <1>3, <1>4, <1>5 DEF BreakOK
<1>7. ASSUME NEW t \in Stream, t # s PROVE BreakOK(t)'
  BY <1>0, <1>1, <1>4, <1>5, <1>7, UntouchedBreak
<1>8. QED
  BY <1>4, <1>6, <1>7, BreakByStream

\* The two ends: proxy-done is the last event, so nothing is on its way behind it;
\* a connection that is gone is itself reported.
LEMMA EndKeepsBreak ==
  ASSUME BreakInv, NEW s \in Stream, End(s) \/ Dropped(s), TypeOK', IInv'
  PROVE  BreakInv'
<1> USE DEF IInv, TypeOK
<1>0. IInv /\ StreamInv /\ StreamOK(s) /\ \A t \in Stream : BreakOK(t)
  BY BreakByStream, StreamByStream
<1>1. /\ source[s] = "open" /\ ~abandoned[s] /\ ~finished[s]
      /\ \A t \in Stream \ {s} : source'[t] = source[t] /\ finished'[t] = finished[t]
      /\ source'[s] = "closed"
      /\ abandoned' = abandoned
      /\ \A t \in Stream \ {s} : failed'[t] = failed[t]
  <2>1. /\ source[s] = "open" /\ ~abandoned[s] /\ ~finished[s]
        /\ source' = [t \in Stream |-> IF t = s THEN "closed" ELSE source[t]]
        /\ finished' = [t \in Stream |-> finished[t] \/ t = s]
        /\ abandoned' = abandoned
        /\ \A t \in Stream \ {s} : failed'[t] = failed[t]
    BY <1>0, EndEffect
  <2>2. source'[s] = "closed"
    BY <2>1
  <2>3. ASSUME NEW t \in Stream \ {s}
        PROVE  source'[t] = source[t] /\ finished'[t] = finished[t]
    BY <1>0, <2>1 DEF StreamTypeOK
  <2>4. QED
    BY <2>1, <2>2, <2>3
<1>2. /\ StreamInv' /\ fate' = fate
      /\ fate[s] \in {"none", "failed"} => failed'[s]
      /\ \A t \in Stream \ {s} : InFlight(t)' = InFlight(t) /\ conn'[t] = conn[t]
  <2>1. CASE End(s)
    <3>1. /\ Finish({s}) /\ Abort({s}) /\ UNCHANGED <<relay, cut, fate>> /\ failed' = failed
          /\ wire[s] # <<>> /\ Head(wire[s]) = ProxyDone /\ wire[s] \in Seq(Frames)
      BY <1>0, <2>1 DEF End, ProxyDoneEvent, Dispatch, serverVars, StreamTypeOK
    <3>2. Len(wire[s]) \in Nat \ {0} /\ DOMAIN wire[s] = 1..Len(wire[s]) /\ wire[s][1] = ProxyDone
      BY <3>1, HeadTailProperties, EmptySeq
    <3>3. Len(wire[s]) = 1
      <4>1. 1 \in DOMAIN wire[s]
        BY <3>2
      <4>2. QED
        BY <1>0, <3>2, <4>1 DEF StreamOK
    <3>4. InFlight(s) = {ProxyDone}
      BY <3>2, <3>3 DEF InFlight
    <3>5. fate[s] \in {"none", "failed"} => failed'[s]
      BY <1>0, <1>1, <3>1, <3>4, FramesDiffer DEF StreamOK, BreakOK
    <3>6. QED
      BY <1>0, <3>1, <3>5, CloseKeepsInv
  <2>2. CASE Dropped(s)
    <3>1. failed'[s]
      BY <1>0, <1>1, <2>2 DEF Dropped, Fail
    <3>2. QED
      BY <1>0, <1>1, <2>2, <3>1, ConnectionEndKeepsInv DEF Dropped
  <2>3. QED
    BY <2>1, <2>2
<1>3. BreakOK(s)'
  BY <1>1, <1>2 DEF BreakOK
<1>4. ASSUME NEW t \in Stream, t # s PROVE BreakOK(t)'
  BY <1>0, <1>1, <1>2, <1>4, UntouchedBreak
<1>5. QED
  BY <1>2, <1>3, <1>4, BreakByStream

\* Asking and closing: what is closed on the way is marked as stopped first, and
\* of the new question nothing has failed.
LEMMA StopKeepsBreak ==
  ASSUME BreakInv, TypeOK', IInv',
         ClosePage \/ \E s \in Stream : Ask(s)
  PROVE  BreakInv'
<1> USE DEF IInv, TypeOK
<1>0. IInv /\ StreamInv /\ \A t \in Stream : BreakOK(t)
  BY BreakByStream
<1>1. Current \in SUBSET Stream
  BY <1>0, CurrentIsStream
<1>2. ASSUME Stop
      PROVE  \A t \in Stream : IF t \in Current THEN abandoned'[t]
                               ELSE abandoned'[t] <=> abandoned[t]
  BY <1>2 DEF Stop
<1>3. ASSUME NEW s \in Stream, Ask(s) PROVE BreakInv'
  <2>1. /\ Open(s, Current) /\ Stop /\ failed' = failed /\ source[s] = "none"
    BY <1>3 DEF Ask, Open
  <2>2. s \notin Current /\ ~finished[s]
    BY <1>0, <2>1, NoRunAssumption DEF Current, OneOpenStream, ClosedByFinish
  <2>3. /\ StreamInv' /\ source'[s] = "open" /\ fate' = fate /\ fate[s] = "none"
        /\ \A t \in Current : source'[t] = "closed" /\ finished'[t]
        /\ \A t \in Stream \ (Current \cup {s}) :
              /\ InFlight(t)' = InFlight(t) /\ conn'[t] = conn[t]
              /\ source'[t] = source[t] /\ finished'[t] = finished[t]
    BY <1>0, <1>1, <2>1, <2>2, OpenKeepsInv
  <2>4. ~finished'[s]
    BY <2>3 DEF ClosedByFinish
  <2>5. ASSUME NEW t \in Stream PROVE BreakOK(t)'
    <3>1. CASE t = s
      BY <2>3, <2>4, <3>1 DEF BreakOK
    <3>2. CASE t \in Current
      BY <1>2, <2>1, <2>3, <3>2 DEF BreakOK
    <3>3. CASE t # s /\ t \notin Current
      BY <1>0, <1>2, <2>1, <2>3, <3>3, UntouchedBreak
    <3>4. QED
      BY <3>1, <3>2, <3>3
  <2>6. QED
    BY <2>3, <2>5, BreakByStream
<1>4. CASE ClosePage
  <2>1. /\ Finish(Current) /\ Abort(Current) /\ UNCHANGED <<relay, cut, fate>>
        /\ Stop /\ failed' = failed
    BY <1>4 DEF ClosePage, Close, serverVars
  <2>2. /\ StreamInv'
        /\ \A t \in Stream \ Current : InFlight(t)' = InFlight(t) /\ conn'[t] = conn[t]
    BY <1>0, <1>1, <2>1, CloseKeepsInv
  <2>3. ASSUME NEW t \in Stream PROVE BreakOK(t)'
    <3>1. CASE t \in Current
      <4>1. source'[t] = "closed" /\ abandoned'[t]
        BY <1>2, <2>1, <3>1 DEF Finish
      <4>2. QED
        BY <4>1 DEF BreakOK
    <3>2. CASE t \notin Current
      <4>1. source'[t] = source[t] /\ finished'[t] = finished[t]
        BY <1>0, <2>1, <3>2 DEF Finish, StreamTypeOK
      <4>2. QED
        BY <1>0, <1>2, <2>1, <2>2, <3>2, <4>1, UntouchedBreak
    <3>3. QED
      BY <3>1, <3>2
  <2>4. QED
    BY <2>2, <2>3, BreakByStream
<1>5. QED
  BY <1>3, <1>4

\* One lemma for each kind of step: the network, the page's callbacks, endings, stops.
LEMMA StepKeepsBreak == BreakInv /\ [Next]_vars => BreakInv'
<1> SUFFICES ASSUME BreakInv, [Next]_vars PROVE BreakInv'
  OBVIOUS
<1>0. IInv /\ StreamInv /\ \A t \in Stream : BreakOK(t)
  BY BreakByStream
<1>1. IInv' /\ TypeOK'
  BY <1>0, StepKeepsIInv DEF IInv
<1>2. ASSUME NEW s \in Stream, Network(s) PROVE BreakInv'
  <2>1. StreamInv' /\ BreakOK(s)'
    BY <1>0, <1>2, ServerKeepsInv, NetworkKeepsBreak DEF Network
  <2>2. /\ source' = source /\ finished' = finished /\ abandoned' = abandoned
        /\ failed' = failed
    BY <1>2 DEF Network, chatVars, browserVars, Server, Refuse, Accept, CreateSession,
         StartRun, RunRefused, RelayFrame, RelayPart, UpstreamEnds, UpstreamFails,
         WriteDone, RelayCancelled, Drop
  <2>3. ASSUME NEW t \in Stream, t # s PROVE BreakOK(t)'
    <3>1. fate'[t] = fate[t] /\ conn'[t] = conn[t] /\ wire'[t] = wire[t]
      BY <1>0, <1>2, <2>3, ServerEffect DEF Network
    <3>2. InFlight(t)' = InFlight(t)
      BY <3>1 DEF InFlight
    <3>3. QED
      BY <1>0, <2>2, <3>1, <3>2, UntouchedBreak
  <2>4. QED
    BY <1>1, <2>1, <2>3, BreakByStream
<1>3. CASE UNCHANGED vars
  <2>1. StreamInv'
    BY <1>0, <1>3 DEF vars, streamVars, StreamInv, StreamTypeOK, BoundaryFirst,
         ConnFollowsSource, DoneIsLast, DoneHasFate, InFlight
  <2>2. \A t \in Stream : BreakOK(t)'
    BY <1>0, <1>3 DEF vars, streamVars, chatVars, BreakOK, InFlight
  <2>3. QED
    BY <1>1, <2>1, <2>2, BreakByStream
<1>4. QED
  BY <1>1, <1>2, <1>3, TalkKeepsBreak, EndKeepsBreak, StopKeepsBreak DEF Next, Browser

\* Nothing has failed yet.
LEMMA InitBreak == Init => BreakInv
<1> SUFFICES ASSUME Init PROVE BreakInv
  OBVIOUS
<1>1. \A s \in Stream : InFlight(s) = {} /\ DOMAIN wire[s] = {}
  <2>1. ASSUME NEW s \in Stream PROVE wire[s] = <<>>
    BY DEF Init, StreamInit
  <2>2. DOMAIN <<>> = {}
    OBVIOUS
  <2>3. QED
    BY <2>1, <2>2 DEF InFlight
<1>2. IInv /\ StreamTypeOK
  BY InitIInv DEF IInv, TypeOK
<1>3. \A s \in Stream : StreamOK(s) /\ BreakOK(s)
  BY <1>1 DEF Init, StreamInit, StreamOK, BreakOK
<1>4. QED
  BY <1>2, <1>3, StreamByStream, BreakByStream

\* A reply that breaks is reported: every question that ran to its end unstopped,
\* while its agent's reply did not, has an error block, wherever between the
\* agent's service and the browser it broke, but for the one event that a
\* half-written line swallows.
THEOREM BreaksAreReported == Spec => []BreakIsReported
<1>1. BreakInv => BreakIsReported
  BY DEF BreakInv
<1>2. QED
  BY <1>1, InitBreak, StepKeepsBreak, PTL DEF Spec

-----------------------------------------------------------------------------
(* The activity log has a line for every call of a tool that is called     *)
(* again and again. It is a matter of counting lines: a frame adds a line  *)
(* of its own text, or is absorbed by the last one, which then has its own *)
(* text and is spare. The log is taken by itself first.                    *)

\* The lines of a log that say a sentence, and their number.
Places(lines, text) == {i \in DOMAIN lines : lines[i].text = text}
Times(lines, text) == Cardinality(Places(lines, text))

\* A log has finitely many lines.
LEMMA PlacesAreFinite ==
  ASSUME NEW l \in Seq(Lines), NEW x
  PROVE  IsFiniteSet(Places(l, x)) /\ Times(l, x) \in Nat
<1>1. DOMAIN l = 1..Len(l) /\ Len(l) \in Nat
  OBVIOUS
<1>2. IsFiniteSet(DOMAIN l)
  BY <1>1, FS_Interval
<1>3. QED
  BY <1>2, FS_Subset, FS_CardinalityType DEF Places, Times

\* A new line counts once for its own text and not at all for any other.
LEMMA AppendCounts ==
  ASSUME NEW l \in Seq(Lines), NEW x, NEW e \in Lines
  PROVE  Times(Append(l, e), x) = IF e.text = x THEN Times(l, x) + 1 ELSE Times(l, x)
<1> DEFINE n == Len(l) + 1
           a == Append(l, e)
<1>1. /\ DOMAIN l = 1..Len(l) /\ Len(l) \in Nat /\ n \notin DOMAIN l
      /\ DOMAIN a = 1..n /\ a[n] = e /\ \A i \in 1..Len(l) : a[i] = l[i]
  OBVIOUS
<1>2. Places(a, x) = IF e.text = x THEN Places(l, x) \cup {n} ELSE Places(l, x)
  <2>1. \A i : i \in Places(a, x) <=> \/ i \in Places(l, x)
                                      \/ i = n /\ e.text = x
    <3>1. 1..n = (1..Len(l)) \cup {n}
      BY <1>1
    <3> HIDE DEF n, a
    <3>2. QED
      BY <1>1, <3>1 DEF Places
  <2>2. QED
    BY <2>1
<1>3. n \notin Places(l, x)
  BY <1>1 DEF Places
<1>4. IsFiniteSet(Places(l, x))
  BY PlacesAreFinite
<1> HIDE DEF n, a
<1>5. Cardinality(Places(l, x) \cup {n}) = Cardinality(Places(l, x)) + 1
  BY <1>3, <1>4, FS_AddElement
<1>6. Times(a, x) = IF e.text = x THEN Times(l, x) + 1 ELSE Times(l, x)
  BY <1>2, <1>5 DEF Times
<1>7. QED
  BY <1>6 DEF a

\* Absorbing a repeat changes what no line says.
LEMMA AbsorbKeepsCounts ==
  ASSUME NEW l \in Seq(Lines), l # <<>>, NEW x
  PROVE  LET r == [l EXCEPT ![Len(l)].absorbed = TRUE]
         IN /\ r \in Seq(Lines) /\ Len(r) = Len(l)
            /\ r[Len(l)].text = l[Len(l)].text /\ r[Len(l)].absorbed
            /\ Times(r, x) = Times(l, x)
<1> DEFINE z == [l[Len(l)] EXCEPT !.absorbed = TRUE]
           r == [l EXCEPT ![Len(l)] = z]
<1>1. Len(l) \in 1..Len(l) /\ l[Len(l)] \in Lines /\ DOMAIN l = 1..Len(l)
  OBVIOUS
<1>2. z \in Lines /\ z.text = l[Len(l)].text /\ z.absorbed
  BY <1>1 DEF Lines
<1> HIDE DEF z
<1>3. /\ r \in Seq(Lines) /\ Len(r) = Len(l) /\ DOMAIN r = DOMAIN l
      /\ \A i \in DOMAIN l : r[i] = IF i = Len(l) THEN z ELSE l[i]
  BY <1>1, <1>2, ExceptSeq
<1> HIDE DEF r
<1>4. \A i \in DOMAIN l : r[i].text = l[i].text
  BY <1>2, <1>3
<1>5. Places(r, x) = Places(l, x)
  BY <1>3, <1>4 DEF Places
<1>6. [l EXCEPT ![Len(l)].absorbed = TRUE] = r
  BY DEF r, z
<1>7. QED
  BY <1>1, <1>2, <1>3, <1>5, <1>6 DEF Times

\* What line() does to the count of a sentence and to the end of the log.
LEMMA LineCounts ==
  ASSUME NEW l \in Seq(Lines), NEW x, [text |-> x, absorbed |-> FALSE] \in Lines, NEW y
  PROVE  LET r == Line(l, x)
             spare == l # <<>> /\ l[Len(l)].text = x /\ ~l[Len(l)].absorbed
         IN /\ r # <<>> /\ r[Len(r)].text = x /\ r[Len(r)].absorbed = spare
            /\ Times(r, y) = IF x = y /\ ~spare THEN Times(l, y) + 1 ELSE Times(l, y)
<1> DEFINE r == Line(l, x)
           spare == l # <<>> /\ l[Len(l)].text = x /\ ~l[Len(l)].absorbed
           e == [text |-> x, absorbed |-> FALSE]
<1>1. CASE spare
  <2>1. r = [l EXCEPT ![Len(l)].absorbed = TRUE]
    BY <1>1 DEF Line
  <2> HIDE DEF r
  <2>2. /\ r \in Seq(Lines) /\ Len(r) = Len(l)
        /\ r[Len(l)].text = x /\ r[Len(l)].absorbed
        /\ Times(r, y) = Times(l, y)
    BY <1>1, <2>1, AbsorbKeepsCounts
  <2>3. l[Len(l)] \in Lines /\ r[Len(l)] \in Lines /\ r # <<>>
    BY <1>1, <2>2
  <2>4. r[Len(l)].absorbed \in BOOLEAN
    BY <2>3 DEF Lines
  <2>5. QED
    BY <1>1, <2>2, <2>3, <2>4 DEF r
<1>2. CASE ~spare
  <2>1. r = Append(l, e)
    BY <1>2 DEF Line
  <2>2. e \in Lines /\ e.text = x /\ e.absorbed = FALSE
    OBVIOUS
  <2> HIDE DEF r, e
  <2>3. Times(r, y) = IF x = y THEN Times(l, y) + 1 ELSE Times(l, y)
    BY <2>1, <2>2, AppendCounts
  <2>4. r # <<>> /\ r[Len(r)] = e
    BY <2>1, <2>2
  <2>5. QED
    BY <1>2, <2>2, <2>3, <2>4 DEF r
<1>3. QED
  BY <1>1, <1>2

\* One log and what was heard of one tool.
LogOK(lines, t, c) ==
    t.inTurn =>
        /\ Times(lines, <<"doing", c>>) >= t.calls
        /\ Times(lines, <<"failed", c>>) = t.failures
        /\ lines # <<>> =>
               IF t.waiting THEN lines[Len(lines)].text # <<"failed", c>>
               ELSE lines[Len(lines)].text = <<"doing", c>> /\ ~lines[Len(lines)].absorbed
                       => Times(lines, <<"doing", c>>) > t.calls

\* A line about something else leaves a tool's calls accounted for.
LEMMA OtherLineKeepsLog ==
  ASSUME NEW l \in Seq(Lines), NEW t \in Tallies, NEW c, LogOK(l, t, c),
         NEW x, x # <<"doing", c>>, x # <<"failed", c>>,
         [text |-> x, absorbed |-> FALSE] \in Lines
  PROVE  LogOK(Line(l, x), t, c)
<1> DEFINE r == Line(l, x)
<1>1. Times(r, <<"doing", c>>) = Times(l, <<"doing", c>>)
  BY LineCounts
<1>2. Times(r, <<"failed", c>>) = Times(l, <<"failed", c>>)
  BY LineCounts
<1>3. r[Len(r)].text = x
  BY LineCounts
<1> HIDE DEF r
<1>4. LogOK(r, t, c)
  BY <1>1, <1>2, <1>3 DEF LogOK
<1>5. QED
  BY <1>4 DEF r

\* So does the line of a call, of a response, and of a failure.
LEMMA OwnLineKeepsLog ==
  ASSUME NEW l \in Seq(Lines), NEW t \in Tallies, NEW f \in Tools, LogOK(l, t, f.about)
  PROVE  LogOK(Line(l, StepText(f)), Hear(t, f.part), f.about)
<1> DEFINE c == f.about
           x == StepText(f)
           r == Line(l, x)
           d == <<"doing", c>>
           w == <<"failed", c>>
           u == Hear(t, f.part)
           spare == l # <<>> /\ l[Len(l)].text = x /\ ~l[Len(l)].absorbed
<1>0. /\ f.part \in {"call", "ok", "failed"} /\ c \in Call
      /\ t.calls \in Nat /\ t.failures \in Nat /\ t.waiting \in BOOLEAN /\ t.inTurn \in BOOLEAN
      /\ d # w
  BY DEF Tools, Tallies
<1>1. x = IF f.part = "failed" THEN w ELSE d
  BY DEF StepText
<1>2. [text |-> x, absorbed |-> FALSE] \in Lines
  BY <1>0, <1>1 DEF Lines
<1>3. /\ Times(r, d) = IF x = d /\ ~spare THEN Times(l, d) + 1 ELSE Times(l, d)
      /\ Times(r, w) = IF x = w /\ ~spare THEN Times(l, w) + 1 ELSE Times(l, w)
      /\ r # <<>> /\ r[Len(r)].text = x /\ r[Len(r)].absorbed = spare
  <2>1. Times(r, d) = IF x = d /\ ~spare THEN Times(l, d) + 1 ELSE Times(l, d)
    BY <1>2, LineCounts
  <2>2. Times(r, w) = IF x = w /\ ~spare THEN Times(l, w) + 1 ELSE Times(l, w)
    BY <1>2, LineCounts
  <2>3. r # <<>> /\ r[Len(r)].text = x /\ r[Len(r)].absorbed = spare
    BY <1>2, LineCounts
  <2>4. QED
    BY <2>1, <2>2, <2>3
<1>4. Times(l, d) \in Nat /\ Times(l, w) \in Nat
  BY PlacesAreFinite
<1>5. t.inTurn => /\ Times(l, d) >= t.calls /\ Times(l, w) = t.failures
                  /\ l # <<>> => IF t.waiting THEN l[Len(l)].text # w
                                 ELSE l[Len(l)].text = d /\ ~l[Len(l)].absorbed
                                          => Times(l, d) > t.calls
  BY DEF LogOK
<1>6. /\ u.calls = IF f.part = "call" THEN t.calls + 1 ELSE t.calls
      /\ u.failures = IF f.part = "failed" THEN t.failures + 1 ELSE t.failures
      /\ u.waiting = (f.part = "call")
      /\ u.inTurn = (t.inTurn /\ (f.part = "call" <=> ~t.waiting))
  BY DEF Hear
<1> HIDE DEF r, d, w, u, x, c
<1>7. u.inTurn => /\ Times(r, d) >= u.calls /\ Times(r, w) = u.failures
                  /\ IF u.waiting THEN r[Len(r)].text # w
                     ELSE r[Len(r)].text = d /\ ~r[Len(r)].absorbed => Times(r, d) > u.calls
  <2>1. CASE f.part = "call"
    <3>1. x = d /\ x # w /\ u.waiting = TRUE
      BY <1>0, <1>1, <1>6, <2>1
    <3>2. SUFFICES ASSUME u.inTurn
                   PROVE  Times(r, d) >= u.calls /\ Times(r, w) = u.failures
      BY <1>3, <3>1
    <3>3. t.inTurn /\ ~t.waiting /\ u.calls = t.calls + 1 /\ u.failures = t.failures
      BY <1>0, <1>6, <2>1, <3>2
    <3>4. Times(l, d) >= t.calls /\ (spare => Times(l, d) > t.calls)
      BY <1>5, <3>1, <3>3
    <3>5. Times(r, d) = (IF spare THEN Times(l, d) ELSE Times(l, d) + 1)
      BY <1>3, <3>1
    <3>6. Times(r, d) >= t.calls + 1
      BY <1>0, <1>4, <3>4, <3>5
    <3>7. QED
      BY <1>3, <1>5, <3>1, <3>3, <3>6
  <2>2. CASE f.part = "ok"
    BY <1>0, <1>1, <1>3, <1>4, <1>5, <1>6, <2>2
  <2>3. CASE f.part = "failed"
    BY <1>0, <1>1, <1>3, <1>4, <1>5, <1>6, <2>3
  <2>4. QED
    BY <1>0, <2>1, <2>2, <2>3
<1>8. LogOK(r, u, c)
  BY <1>7 DEF LogOK, d, w
<1>9. QED
  BY <1>8 DEF r, u, x, c

\* What the log keeps, stream by stream and tool by tool.
LEMMA LogByStream ==
  /\ LogInv <=> TypeOK /\ \A s \in Stream, c \in Call : LogOK(log[s], heard[s][c], c)
  /\ LogInv' <=> TypeOK' /\ \A s \in Stream, c \in Call : LogOK(log[s], heard[s][c], c)'
<1>1. LogInv <=> TypeOK /\ \A s \in Stream, c \in Call : LogOK(log[s], heard[s][c], c)
  BY DEF LogInv, LogOK, CallsAreLogged, RoomIsSpare, LastLine, Said, Times, Places
<1>2. LogInv' <=> TypeOK' /\ \A s \in Stream, c \in Call : LogOK(log[s], heard[s][c], c)'
  BY DEF LogInv, LogOK, CallsAreLogged, RoomIsSpare, LastLine, Said, Times, Places
<1>3. QED
  BY <1>1, <1>2

\* A step event writes a line or has one absorb it; the rest leave the log alone.
LEMMA StepKeepsLog == LogInv /\ [Next]_vars => LogInv'
<1> SUFFICES ASSUME LogInv, [Next]_vars PROVE LogInv'
  OBVIOUS
<1>0. TypeOK /\ TypeOK' /\ \A s \in Stream, c \in Call : LogOK(log[s], heard[s][c], c)
  BY LogByStream, StepKeepsType DEF LogInv
<1>t. ASSUME NEW s \in Stream, NEW c \in Call
      PROVE  log[s] \in Seq(Lines) /\ heard[s][c] \in Tallies
  BY <1>0 DEF TypeOK
<1>1. ASSUME Stop, heard' = heard PROVE LogInv'
  <2>1. [text |-> <<"note", "stopped">>, absorbed |-> FALSE] \in Lines
    BY DEF Lines
  <2>2. ASSUME NEW s \in Stream, NEW c \in Call PROVE LogOK(log'[s], heard'[s][c], c)
    <3>1. <<"note", "stopped">> # <<"doing", c>> /\ <<"note", "stopped">> # <<"failed", c>>
      OBVIOUS
    <3>2. LogOK(Line(log[s], <<"note", "stopped">>), heard[s][c], c)
      BY <1>0, <1>t, <2>1, <3>1, OtherLineKeepsLog
    <3>3. log'[s] = IF s \in Current THEN Line(log[s], <<"note", "stopped">>) ELSE log[s]
      BY <1>1 DEF Stop
    <3>4. QED
      BY <1>0, <1>1, <3>2, <3>3
  <2>3. QED
    BY <1>0, <2>2, LogByStream
<1>2. ASSUME NEW s \in Stream, Step(s) PROVE LogInv'
  <2>1. PICK f \in AgentFrames : Step(s)!(f)
    BY <1>2 DEF Step
  <2>2. CASE UNCHANGED <<log, heard>>
    BY <1>0, <2>2, LogByStream
  <2>3. CASE /\ log' = [log EXCEPT ![s] = Line(@, StepText(f))]
             /\ heard' = [heard EXCEPT ![s][f.about] = Hear(@, f.part)]
             /\ StepKind(f) \notin {"text", "aside"}
    <3>1. f \in Tools /\ f.about \in Call
      BY <2>3 DEF StepKind, AgentFrames, Texts, Tools
    <3>2. [text |-> StepText(f), absorbed |-> FALSE] \in Lines
      BY <3>1 DEF StepText, Lines
    <3>3. LogOK(Line(log[s], StepText(f)), Hear(heard[s][f.about], f.part), f.about)
      BY <1>0, <1>t, <3>1, OwnLineKeepsLog
    <3>4. ASSUME NEW c \in Call, c # f.about
          PROVE  LogOK(Line(log[s], StepText(f)), heard[s][c], c)
      <4>1. StepText(f) # <<"doing", c>> /\ StepText(f) # <<"failed", c>>
        BY <3>4 DEF StepText
      <4>2. QED
        BY <1>0, <1>t, <3>2, <4>1, OtherLineKeepsLog
    <3>5. ASSUME NEW q \in Stream, NEW c \in Call
          PROVE  /\ log'[q] = IF q = s THEN Line(log[s], StepText(f)) ELSE log[q]
                 /\ heard'[q][c] = IF q = s /\ c = f.about
                                   THEN Hear(heard[s][f.about], f.part) ELSE heard[q][c]
      BY <1>0, <2>3, <3>1 DEF TypeOK
    <3>6. ASSUME NEW q \in Stream, NEW c \in Call PROVE LogOK(log'[q], heard'[q][c], c)
      <4>1. CASE q # s
        BY <1>0, <3>5, <4>1
      <4>2. CASE q = s /\ c = f.about
        BY <3>3, <3>5, <4>2
      <4>3. CASE q = s /\ c # f.about
        BY <3>4, <3>5, <4>3
      <4>4. QED
        BY <4>1, <4>2, <4>3
    <3>7. QED
      BY <1>0, <3>6, LogByStream
  <2>4. QED
    BY <2>1, <2>2, <2>3
<1>3. CASE UNCHANGED <<log, heard>>
  BY <1>0, <1>3, LogByStream
<1>4. QED
  BY <1>1, <1>2, <1>3
     DEF Next, Ask, ClosePage, Browser, Skip, Error, End, Dropped, Network, vars, chatVars

\* However the frames of an answer, its repeats and the reader's stopping are
\* interleaved, the activity log has a line for every call, and one for every failure,
\* of each tool whose calls have their responses in turn.
THEOREM CallsHaveLines == Spec => []CallsAreLogged
<1>1. Init => LogInv
  <2>1. Init => TypeOK
    BY InitIInv DEF IInv
  <2>2. ASSUME Init, NEW s \in Stream, NEW c \in Call PROVE LogOK(log[s], heard[s][c], c)
    <3>1. log[s] = <<>> /\ heard[s][c] = Unheard
      BY <2>2 DEF Init
    <3>2. ASSUME NEW x PROVE Times(<<>>, x) = 0
      <4>1. Places(<<>>, x) = {}
        BY DEF Places
      <4>2. QED
        BY <4>1, FS_EmptySet DEF Times
    <3>3. LogOK(<<>>, Unheard, c)
      BY <3>2 DEF LogOK, Unheard
    <3>4. QED
      BY <3>1, <3>3
  <2>3. QED
    BY <2>1, <2>2, LogByStream
<1>2. LogInv => CallsAreLogged
  BY DEF LogInv
<1>3. QED
  BY <1>1, <1>2, StepKeepsLog, PTL DEF Spec
=============================================================================
