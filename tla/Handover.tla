------------------------------ MODULE Handover ------------------------------
(***************************************************************************)
(* The shift handover sheet: mountRun in apps/workspace/handover.js over   *)
(* the streams of AgentStream. A run of the brief is identified with its   *)
(* stream. Unlike Chat the sheet has one log and one answer pane, rebuilt  *)
(* by every click, and a band above them that says what is covered.        *)
(***************************************************************************)
EXTENDS AgentStream

CONSTANT NoRun
ASSUME NoRunAssumption == NoRun \notin Stream

VARIABLES live,       \* the one run whose stream may be open, or NoRun
          shown,      \* the run whose panes are in the document, or NoRun
          abandoned,  \* mine.abandoned
          wrote,      \* mine.wrote: text has arrived
          rawText,    \* what that text is: nothing, blank or words
          failed,     \* an error has been said in the run's log
          verdict,    \* "empty": the pane says that it finished without writing
          band        \* the omission band: unchecked, writing or written

pageVars == <<live, shown, abandoned, wrote, rawText, failed, verdict, band>>
vars == <<streamVars, pageVars>>

\* The state of the sheet and its streams has the shape the code gives it.
TypeOK ==
    /\ StreamTypeOK
    /\ {live, shown} \subseteq Stream \cup {NoRun}
    /\ abandoned \in [Stream -> BOOLEAN]
    /\ wrote \in [Stream -> BOOLEAN]
    /\ rawText \in [Stream -> {"nothing", "blank", "words"}]
    /\ failed \in [Stream -> BOOLEAN]
    /\ verdict \in [Stream -> {"none", "empty"}]
    /\ band \in {"unchecked", "writing", "written"}

Init ==
    /\ StreamInit
    /\ live = NoRun /\ shown = NoRun
    /\ abandoned = [s \in Stream |-> FALSE]
    /\ wrote = [s \in Stream |-> FALSE]
    /\ rawText = [s \in Stream |-> "nothing"]
    /\ failed = [s \in Stream |-> FALSE]
    /\ verdict = [s \in Stream |-> "none"]
    /\ band = "unchecked"

-----------------------------------------------------------------------------
\* What onDone leaves in the answer pane. It asks only for the text.
Verdict(s) == IF ~wrote[s] /\ rawText[s] # "words" THEN "empty" ELSE verdict[s]

Current == IF live = NoRun THEN {} ELSE {live}

StopNotMarking ==      \* a bug: the stream is closed, the run is not marked
    /\ abandoned' = abandoned
    /\ verdict' = [s \in Stream |-> IF s \in Current THEN Verdict(s) ELSE verdict[s]]

\* stop(): the live run is marked, then closed, and its onDone runs inside.
Stop ==
    /\ abandoned' = [s \in Stream |-> abandoned[s] \/ s \in Current]
    /\ verdict' = [s \in Stream |-> IF s \in Current THEN Verdict(s) ELSE verdict[s]]

ClickKeepingBand(s) ==  \* a bug: the band is not rewritten for a new run
    /\ Open(s, Current)
    /\ Stop
    /\ live' = s /\ shown' = s
    /\ UNCHANGED <<wrote, rawText, failed, band>>

\* The run button: new panes, the band rewritten, a new stream.
Click(s) ==
    /\ Open(s, Current)
    /\ Stop
    /\ live' = s /\ shown' = s /\ band' = "writing"
    /\ UNCHANGED <<wrote, rawText, failed>>

\* The reader leaves the page, which the browser may keep and show again.
PageHide ==
    /\ live # NoRun
    /\ Close(Current)
    /\ Stop
    /\ live' = NoRun
    /\ UNCHANGED <<shown, wrote, rawText, failed, band>>

\* onStep: prose of the asked agent is the answer, everything else a log line.
Step(s) ==
    \E f \in AgentFrames :
        /\ Message(s, f)
        /\ IF abandoned[s] \/ StepKind(f) # "text" THEN UNCHANGED <<wrote, rawText, band>>
           ELSE /\ rawText' = [rawText EXCEPT ![s] = IF @ = "words" THEN @ ELSE f.about]
                /\ wrote' = [wrote EXCEPT ![s] = TRUE]
                /\ band' = IF wrote[s] THEN band ELSE "written"
        /\ UNCHANGED <<live, shown, abandoned, failed, verdict>>

Skip(s) == Unreadable(s) /\ UNCHANGED pageVars

\* onError.
Fail(s) ==
    IF abandoned[s] THEN UNCHANGED <<failed, band>>
    ELSE /\ failed' = [failed EXCEPT ![s] = TRUE]
         /\ band' = IF wrote[s] THEN band ELSE "unchecked"

Error(s) ==
    /\ ProxyErrorEvent(s)
    /\ Fail(s)
    /\ UNCHANGED <<live, shown, abandoned, wrote, rawText, verdict>>

DoneStillLive(s) ==    \* a bug: the finished run stays the live one
    /\ live' = live
    /\ verdict' = [verdict EXCEPT ![s] = Verdict(s)]

\* onDone, which does not ask whether the run was abandoned.
Done(s) ==
    /\ live' = IF live = s THEN NoRun ELSE live
    /\ verdict' = [verdict EXCEPT ![s] = Verdict(s)]

End(s) ==
    /\ ProxyDoneEvent(s)
    /\ Done(s)
    /\ UNCHANGED <<shown, abandoned, wrote, rawText, failed, band>>

Dropped(s) ==
    /\ ConnectionEnds(s)
    /\ IF finished[s] THEN UNCHANGED <<failed, band, live, verdict>> ELSE Fail(s) /\ Done(s)
    /\ UNCHANGED <<shown, abandoned, wrote, rawText>>

-----------------------------------------------------------------------------
Browser(s) == Step(s) \/ Skip(s) \/ Error(s) \/ End(s) \/ Dropped(s)

Network(s) == (Server(s) \/ Drop(s)) /\ UNCHANGED pageVars

Next == \/ \E s \in Stream : Click(s) \/ Browser(s) \/ Network(s)
        \/ PageHide

\* As in Chat: the server's tasks run, the agent's reply ends, and the browser
\* dispatches what has arrived.
Fairness == \A s \in Stream : /\ WF_vars(Browser(s))
                              /\ WF_vars(Server(s) /\ UNCHANGED pageVars)

Spec == Init /\ [][Next]_vars
FairSpec == Spec /\ Fairness

-----------------------------------------------------------------------------
\* "Every path that could leave one open closes it: a second click, a stream
\* that breaks, and a reader who walks away": only the live run's is open, and it
\* is the one whose panes the reader is looking at.
OneOpenStream ==
    \A s \in Stream : source[s] = "open" <=> live = s /\ shown = s

\* The band says that the brief above has been written exactly when the run whose
\* answer pane is above has written; it never describes a run before it.
BandFollowsAnswer ==
    /\ band = "written" <=> shown # NoRun /\ wrote[shown]
    /\ band = "unchecked" /\ shown # NoRun => failed[shown]

\* Every run of the brief comes to an end, and the button's next click finds none.
RunSettles == \A s \in Stream : (live = s) ~> (live # s /\ source[s] = "closed")

\* EventSource reconnects by itself, and this page shares the stream with Chat: no
\* ending of a run sends it to the agent again.
NeverReAsked == \A s \in Stream : asks[s] <= 1

\* How a run ended. A failed one stays failed, though its pane also says that it has
\* finished without writing.
Outcome(s) ==
    IF source[s] = "none" THEN "unasked"
    ELSE IF abandoned[s] THEN "stopped"
    ELSE IF live = s THEN "asking"
    ELSE IF failed[s] THEN "failed"
    ELSE IF verdict[s] = "empty" THEN "empty"
    ELSE IF wrote[s] \/ rawText[s] = "words" THEN "answered" ELSE "undecided"

Conv == INSTANCE Conversation
            WITH Question <- Stream, outcome <- [s \in Stream |-> Outcome(s)]

\* The sheet is a conversation like the role page: one run of the brief at a time, each
\* ended in one way and for good, by itself or by the click or the page that stops it.
HandoverIsConversation == Conv!Spec

\* "Only when the stream ran to its end with nothing to show": not after an error.
FinishedMeansFinished ==
    \A s \in Stream : verdict[s] = "empty" => ~failed[s]

-----------------------------------------------------------------------------
(* The inductive invariant.                                                *)

\* A stream is closed by finish() and by nothing else.
ClosedByFinish == \A s \in Stream : finished[s] <=> source[s] = "closed"

\* stop() closes what it marks.
AbandonedIsClosed == \A s \in Stream : abandoned[s] => source[s] = "closed"

\* Nothing is known of a run that has not been started, and the panes of the live
\* one are in the document.
UnstartedIsBlank == \A s \in Stream : source[s] = "none" => ~wrote[s] /\ shown # s
LiveIsShown == live # NoRun => shown = live

IInv == /\ TypeOK /\ OneOpenStream /\ BandFollowsAnswer
        /\ ClosedByFinish /\ AbandonedIsClosed /\ UnstartedIsBlank /\ LiveIsShown

\* A run is sent when its source is made, and decided when its source is closed.
AskedOnce == \A s \in Stream : asks[s] = IF source[s] = "none" THEN 0 ELSE 1
DecidedWhenClosed ==
    \A s \in Stream : source[s] = "closed" /\ ~abandoned[s]
        => failed[s] \/ verdict[s] = "empty" \/ wrote[s] \/ rawText[s] = "words"

EndingInv == IInv /\ AskedOnce /\ DecidedWhenClosed
=============================================================================
