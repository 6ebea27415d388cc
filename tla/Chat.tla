-------------------------------- MODULE Chat --------------------------------
(***************************************************************************)
(* The role page's conversation: mountChat in apps/workspace/chat.js over  *)
(* the streams of AgentStream. A question is identified with its stream.   *)
(* The page is single-threaded, so every handler is one step.              *)
(***************************************************************************)
EXTENDS AgentStream, FiniteSets

CONSTANT NoRun                 \* live = null
ASSUME NoRunAssumption == NoRun \notin Stream

VARIABLES live,       \* the one question whose stream may be open, or NoRun
          abandoned,  \* mine.abandoned
          failed,     \* mine.failed: an error block stands in the transcript
          wrote,      \* what the asked agent wrote: nothing, blank or words
          asides,     \* the delegates whose prose was filed, in order
          log,        \* the activity log, one record per line
          verdict,    \* "empty": the pane says that it finished without writing
          heard       \* what onStep heard of each tool (history)

paneVars == <<failed, wrote, asides, log, verdict>>
chatVars == <<live, abandoned, failed, wrote, asides, log, verdict, heard>>
vars == <<streamVars, chatVars>>

-----------------------------------------------------------------------------
Lines == [text: {<<"failed", c>> : c \in Call} \cup {<<"doing", c>> : c \in Call}
                \cup {<<"note", "stopped">>},
          absorbed: BOOLEAN]

\* Of one tool: its calls and its failures, whether a call still has no response, and
\* whether each one has had its response before the next.
Tallies == [calls: Nat, failures: Nat, waiting: BOOLEAN, inTurn: BOOLEAN]
Unheard == [calls |-> 0, failures |-> 0, waiting |-> FALSE, inTurn |-> TRUE]
Hear(t, part) ==
    [calls    |-> IF part = "call" THEN t.calls + 1 ELSE t.calls,
     failures |-> IF part = "failed" THEN t.failures + 1 ELSE t.failures,
     waiting  |-> part = "call",
     inTurn   |-> t.inTurn /\ (part = "call" <=> ~t.waiting)]

\* The state of the page and its streams has the shape the code gives it.
TypeOK ==
    /\ StreamTypeOK
    /\ live \in Stream \cup {NoRun}
    /\ abandoned \in [Stream -> BOOLEAN]
    /\ failed \in [Stream -> BOOLEAN]
    /\ wrote \in [Stream -> {"nothing", "blank", "words"}]
    /\ asides \in [Stream -> Seq(Delegate)]
    /\ log \in [Stream -> Seq(Lines)]
    /\ verdict \in [Stream -> {"none", "empty"}]
    /\ heard \in [Stream -> [Call -> Tallies]]

Init ==
    /\ StreamInit
    /\ live = NoRun
    /\ abandoned = [s \in Stream |-> FALSE]
    /\ failed = [s \in Stream |-> FALSE]
    /\ wrote = [s \in Stream |-> "nothing"]
    /\ asides = [s \in Stream |-> <<>>]
    /\ log = [s \in Stream |-> <<>>]
    /\ verdict = [s \in Stream |-> "none"]
    /\ heard = [s \in Stream |-> [c \in Call |-> Unheard]]

-----------------------------------------------------------------------------
(* The panes.                                                              *)

LineSuppressingRepeats(lines, text) ==   \* a bug: every repeat is absorbed
    IF lines # <<>> /\ lines[Len(lines)].text = text
    THEN [lines EXCEPT ![Len(lines)].absorbed = TRUE]
    ELSE Append(lines, [text |-> text, absorbed |-> FALSE])

\* line(): a line absorbs one repeat of itself and no more.
Line(lines, text) ==
    IF lines # <<>> /\ lines[Len(lines)].text = text /\ ~lines[Len(lines)].absorbed
    THEN [lines EXCEPT ![Len(lines)].absorbed = TRUE]
    ELSE Append(lines, [text |-> text, absorbed |-> FALSE])

\* One aside per author, not per frame.
File(labels, author) ==
    IF labels # <<>> /\ labels[Len(labels)] = author THEN labels
    ELSE Append(labels, author)

VerdictEvenIfFailed(s, gone) ==    \* a bug: a stream that broke "finished"
    IF ~gone /\ wrote[s] # "words" THEN "empty" ELSE verdict[s]

VerdictEvenIfGone(s, gone) ==      \* a bug: onDone without its early return
    IF ~failed[s] /\ wrote[s] # "words" THEN "empty" ELSE verdict[s]

\* What onDone leaves in the answer pane: gone is mine.abandoned as it reads it.
Verdict(s, gone) ==
    IF ~gone /\ ~failed[s] /\ wrote[s] # "words" THEN "empty" ELSE verdict[s]

-----------------------------------------------------------------------------
(* stop(), on the way to another question or on close().                   *)

Current == IF live = NoRun THEN {} ELSE {live}

StopNotMarking ==     \* a bug: the stream is closed, the question not marked
    /\ abandoned' = abandoned
    /\ log' = [s \in Stream |->
                  IF s \in Current THEN Line(log[s], <<"note", "stopped">>) ELSE log[s]]
    /\ verdict' = [s \in Stream |->
                  IF s \in Current THEN Verdict(s, FALSE) ELSE verdict[s]]

\* The live question is marked before its stream is closed, so the onDone that
\* close() makes inside this call finds it abandoned.
Stop ==
    /\ abandoned' = [s \in Stream |-> abandoned[s] \/ s \in Current]
    /\ log' = [s \in Stream |->
                  IF s \in Current THEN Line(log[s], <<"note", "stopped">>) ELSE log[s]]
    /\ verdict' = [s \in Stream |->
                  IF s \in Current THEN Verdict(s, TRUE) ELSE verdict[s]]

AskWithoutStop(s) ==  \* a bug: one of the paths that start a stream skips stop()
    /\ Open(s, {})
    /\ live' = s
    /\ UNCHANGED <<abandoned, failed, wrote, asides, log, verdict, heard>>

\* run(): a starter, the composer, an alternative or pick() asks a question.
Ask(s) ==
    /\ Open(s, Current)
    /\ Stop
    /\ live' = s
    /\ UNCHANGED <<failed, wrote, asides, heard>>

\* The handle's close(), for whoever tears the page down.
ClosePage ==
    /\ live # NoRun
    /\ Close(Current)
    /\ Stop
    /\ live' = NoRun
    /\ UNCHANGED <<failed, wrote, asides, heard>>

-----------------------------------------------------------------------------
(* The three callbacks.                                                    *)

\* onStep.
Step(s) ==
    \E f \in AgentFrames :
        /\ Message(s, f)
        /\ IF abandoned[s] THEN UNCHANGED <<wrote, asides, log, heard>>
           ELSE CASE StepKind(f) = "text" ->
                       /\ wrote' = [wrote EXCEPT ![s] = IF @ = "words" THEN @ ELSE f.about]
                       /\ UNCHANGED <<asides, log, heard>>
                  [] StepKind(f) = "aside" ->
                       /\ asides' = [asides EXCEPT ![s] = File(@, f.author)]
                       /\ UNCHANGED <<wrote, log, heard>>
                  [] OTHER ->
                       /\ log' = [log EXCEPT ![s] = Line(@, StepText(f))]
                       /\ heard' = [heard EXCEPT ![s][f.about] = Hear(@, f.part)]
                       /\ UNCHANGED <<wrote, asides>>
        /\ UNCHANGED <<live, abandoned, failed, verdict>>

\* A frame the stream module gives up on reaches no callback.
Skip(s) == Unreadable(s) /\ UNCHANGED chatVars

\* onError.
Fail(s) == failed' = [failed EXCEPT ![s] = @ \/ ~abandoned[s]]

Error(s) ==
    /\ ProxyErrorEvent(s)
    /\ Fail(s)
    /\ UNCHANGED <<live, abandoned, wrote, asides, log, verdict, heard>>

DoneStillLive(s) ==   \* a bug: the finished question stays the live one
    /\ live' = live
    /\ verdict' = [verdict EXCEPT ![s] = Verdict(s, abandoned[s])]

\* onDone.
Done(s) ==
    /\ live' = IF ~abandoned[s] /\ live = s THEN NoRun ELSE live
    /\ verdict' = [verdict EXCEPT ![s] = Verdict(s, abandoned[s])]

End(s) ==
    /\ ProxyDoneEvent(s)
    /\ Done(s)
    /\ UNCHANGED <<abandoned, failed, wrote, asides, log, heard>>

\* source.onerror: onError and then finish, so onDone reads the flag onError set.
Dropped(s) ==
    /\ ConnectionEnds(s)
    /\ IF finished[s] THEN UNCHANGED <<live, failed, verdict>>
       ELSE /\ Fail(s)
            /\ live' = IF ~abandoned[s] /\ live = s THEN NoRun ELSE live
            /\ verdict' = [verdict EXCEPT ![s] = IF failed'[s] THEN @
                                                 ELSE Verdict(s, abandoned[s])]
    /\ UNCHANGED <<abandoned, wrote, asides, log, heard>>

-----------------------------------------------------------------------------
Browser(s) == Step(s) \/ Skip(s) \/ Error(s) \/ End(s) \/ Dropped(s)

Network(s) == (Server(s) \/ Drop(s)) /\ UNCHANGED chatVars

Next == \/ \E s \in Stream : Ask(s) \/ Browser(s) \/ Network(s)
        \/ ClosePage

(* The server's tasks run, the agent ends its reply within the service's   *)
(* timeout, and the browser dispatches what has arrived. Nobody has to     *)
(* ask, and no connection has to drop.                                     *)
Fairness == \A s \in Stream : /\ WF_vars(Browser(s))
                              /\ WF_vars(Server(s) /\ UNCHANGED chatVars)

Spec == Init /\ [][Next]_vars
FairSpec == Spec /\ Fairness

-----------------------------------------------------------------------------
(* Properties.                                                             *)

\* The live question is exactly the one whose EventSource is open, so two
\* agents' text can never be interleaved (chat.js, "the one stream that may be
\* open, or null").
OneOpenStream ==
    \A s \in Stream : source[s] = "open" <=> live = s

\* EventSource reconnects by itself; no ending of the relay, of the connection
\* or of the reader's patience sends a question a second time.
NeverReAsked == \A s \in Stream : asks[s] <= 1

\* "The page contradicting itself": an error and the sentence that the agent
\* finished without writing, or that sentence over an answer.
NoContradiction ==
    \A s \in Stream : verdict[s] = "empty" => ~failed[s] /\ wrote[s] # "words"

\* A question that ran to its end unstopped while its agent's reply did not has
\* an error block, whatever point it broke at, unless the relay's own error
\* event was written into the middle of a line.
BreakIsReported ==
    \A s \in Stream :
        finished[s] /\ ~abandoned[s] /\ fate[s] \in {"none", "failed"} => failed[s]

\* The same of every break: the proxy's event is one that the browser can tell
\* from a message the agent sent (server.py, _sse).
EveryBreakIsReported ==
    \A s \in Stream : finished[s] /\ ~abandoned[s] /\ fate[s] # "clean" => failed[s]

\* How often the log says a sentence.
Said(s, text) == Cardinality({i \in DOMAIN log[s] : log[s][i].text = text})

\* "An agent that works out the numbers four times in a row is doing four things, not
\* one": a tool that is called again and again, each call after the response to the
\* one before, has a line for every call and one for every failure, whatever other
\* tools say in between and however the absorbed repeats fall.
CallsAreLogged ==
    \A s \in Stream, c \in Call : heard[s][c].inTurn =>
        /\ Said(s, <<"doing", c>>) >= heard[s][c].calls
        /\ Said(s, <<"failed", c>>) = heard[s][c].failures

\* The same of calls that are made together: suppressing all repeats would be
\* "under-reporting the only evidence the reader has that the wait is work".
EveryCallIsLogged ==
    \A s \in Stream, c \in Call : Said(s, <<"doing", c>>) >= heard[s][c].calls

\* Nothing is decided about a question by stopping it, although its onDone runs
\* inside stop(), and nothing is written into any pane of it afterwards.
StoppedIsSilent ==
    [][\A s \in Stream :
           /\ abandoned'[s] => /\ failed'[s] = failed[s] /\ wrote'[s] = wrote[s]
                              /\ asides'[s] = asides[s] /\ verdict'[s] = verdict[s]
           /\ abandoned[s] => log'[s] = log[s]]_vars

Outcome(s) ==
    IF source[s] = "none" THEN "unasked"
    ELSE IF abandoned[s] THEN "stopped"
    ELSE IF live = s THEN "asking"
    ELSE IF failed[s] THEN "failed"
    ELSE IF verdict[s] = "empty" THEN "empty"
    ELSE IF wrote[s] = "words" THEN "answered" ELSE "undecided"

\* Every question asked comes to an end the reader can see.
AnswerSettles == \A s \in Stream : (Outcome(s) = "asking") ~> (Outcome(s) # "asking")

Conv == INSTANCE Conversation
            WITH Question <- Stream, outcome <- [s \in Stream |-> Outcome(s)]

\* The page is a conversation: each question asked ends in one way, for good,
\* and asking another is what stops the one in progress.
ChatIsConversation == Conv!Spec

-----------------------------------------------------------------------------
(* What makes the properties inductive: a stream is closed once and by      *)
(* finish alone, and what is decided about a question is decided then.     *)

ClosedByFinish == \A s \in Stream : finished[s] <=> source[s] = "closed"

AbandonedIsClosed == \A s \in Stream : abandoned[s] => source[s] = "closed"

AskedOnce == \A s \in Stream : asks[s] = IF source[s] = "none" THEN 0 ELSE 1

VerdictIsLast == \A s \in Stream : verdict[s] = "empty" => source[s] = "closed"

DecidedWhenClosed ==
    \A s \in Stream : source[s] = "closed" /\ ~abandoned[s]
                       => failed[s] \/ verdict[s] = "empty" \/ wrote[s] = "words"

IInv ==
    /\ TypeOK /\ OneOpenStream /\ ClosedByFinish /\ AbandonedIsClosed
    /\ AskedOnce /\ VerdictIsLast /\ DecidedWhenClosed /\ NoContradiction

\* That a reply has failed is on its way to a reader who waits for it: the error
\* stands on the page or is to come before proxy-done; or the connection has ended
\* without one, which the browser will find.
FailureIsOnItsWay ==
    \A s \in Stream : source[s] = "open" /\ fate[s] = "failed" =>
        \/ failed[s] \/ ProxyError \in InFlight(s)
        \/ conn[s] # "open" /\ ProxyDone \notin InFlight(s)

BreakInv == IInv /\ StreamInv /\ FailureIsOnItsWay /\ BreakIsReported

\* What the next frame of a tool finds at the end of the log. While it is not waiting, a
\* last line of its own that can still absorb is one more than its calls, a response's;
\* while it is, its own failure is not the last line.
LastLine(s) == log[s][Len(log[s])]
RoomIsSpare ==
    \A s \in Stream, c \in Call :
        heard[s][c].inTurn /\ log[s] # <<>> =>
            IF heard[s][c].waiting THEN LastLine(s).text # <<"failed", c>>
            ELSE LastLine(s).text = <<"doing", c>> /\ ~LastLine(s).absorbed
                    => Said(s, <<"doing", c>>) > heard[s][c].calls

LogInv == TypeOK /\ CallsAreLogged /\ RoomIsSpare
=============================================================================
