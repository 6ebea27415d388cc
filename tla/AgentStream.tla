---------------------------- MODULE AgentStream ----------------------------
(***************************************************************************)
(* One agent's answer on its way to the reader: the relay in               *)
(* apps/workspace/server.py, the connection, and the browser's EventSource *)
(* under _streamAgentWithSource in apps/workspace/agent-stream.js.         *)
(*                                                                         *)
(* A page that shows the answer (Chat, Handover) EXTENDS this module and   *)
(* conjoins its own callback (onStep, onError, onDone) to the browser      *)
(* event that makes it, so a handler and its callback are one step, as     *)
(* they are in the page's single thread.                                   *)
(*                                                                         *)
(* The reply is relayed chunk by chunk and a chunk need not end where a    *)
(* server-sent event ends: cut says how far into an event the bytes        *)
(* written so far reach.                                                   *)
(***************************************************************************)
EXTENDS Naturals, Sequences

CONSTANTS Stream,    \* the questions a page may ask, one EventSource each
          Delegate,  \* agents the asked one delegates to
          Asked,     \* the author name of the agent that was asked
          Call,      \* tool calls, by the line they are described with
          MaxFrames  \* bound: chunks the agents send, over all streams

ASSUME FramesAssumption == MaxFrames \in Nat
ASSUME AuthorAssumption == Asked \notin Delegate

VARIABLES relay,     \* relay[s]: where relay() is in serving s
          cut,       \* cut[s]: what the bytes relayed so far end in
          fate,      \* fate[s]: how the agent's own reply ended (history)
          wire,      \* wire[s]: events written and not yet dispatched
          conn,      \* conn[s]: the connection that carries them
          asks,      \* asks[s]: how often the browser has sent the question
          source,    \* source[s]: the EventSource's readyState
          finished,  \* finished[s]: the flag of _streamAgentWithSource
          sent       \* chunks relayed so far, for the bound

serverVars  == <<relay, cut, fate, sent>>
browserVars == <<source, finished, asks>>
streamVars  == <<relay, cut, fate, wire, conn, asks, source, finished, sent>>

-----------------------------------------------------------------------------
(* What travels.                                                           *)

\* The asked agent's text may be blank; of a delegate's only the author matters.
Texts == [part: {"text"}, author: {Asked}, about: {"blank", "words"}]
         \cup [part: {"text"}, author: Delegate, about: {"words"}]
Tools == [part: {"call", "ok", "failed"}, author: {Asked}, about: Call]
AgentFrames == Texts \cup Tools

\* A message none of whose content the page can show: its data does not parse.
Garbled    == [part |-> "garbled",     author |-> Asked, about |-> "proxy"]
ProxyError == [part |-> "proxy-error", author |-> Asked, about |-> "proxy"]
ProxyDone  == [part |-> "proxy-done",  author |-> Asked, about |-> "proxy"]
Frames     == AgentFrames \cup {Garbled, ProxyError, ProxyDone}

Cuts == {"boundary", "frame", "line"}

(* The event a browser reads when _sse writes one after such bytes. Inside *)
(* a data line, "event: ..." continues that line, and what is dispatched   *)
(* is a plain message that does not parse. After a complete line the event *)
(* keeps its name and only its data is prefixed.                           *)
ReadAs(at, event) == IF at = "line" THEN Garbled ELSE event

\* eventToSteps: prose is attributed, steps are not, and a call and its
\* successful response are the same line.
StepKind(f) ==
    IF f.part = "text" THEN IF f.author \in Delegate THEN "aside" ELSE "text"
    ELSE IF f.part = "failed" THEN "step-failed" ELSE "step"

StepText(f) == IF f.part = "failed" THEN <<"failed", f.about>> ELSE <<"doing", f.about>>

-----------------------------------------------------------------------------
StreamTypeOK ==
    /\ relay \in [Stream -> {"idle", "guards", "session", "run", "relaying",
                             "ending", "ended"}]
    /\ cut \in [Stream -> Cuts]
    /\ fate \in [Stream -> {"none", "clean", "failed", "swallowed"}]
    /\ wire \in [Stream -> Seq(Frames)]
    /\ conn \in [Stream -> {"none", "open", "eof", "lost", "refused", "gone"}]
    /\ asks \in [Stream -> Nat]
    /\ source \in [Stream -> {"none", "open", "closed"}]
    /\ finished \in [Stream -> BOOLEAN]
    /\ sent \in 0..MaxFrames

StreamInit ==
    /\ relay = [s \in Stream |-> "idle"]
    /\ cut = [s \in Stream |-> "boundary"]
    /\ fate = [s \in Stream |-> "none"]
    /\ wire = [s \in Stream |-> <<>>]
    /\ conn = [s \in Stream |-> "none"]
    /\ asks = [s \in Stream |-> 0]
    /\ source = [s \in Stream |-> "none"]
    /\ finished = [s \in Stream |-> FALSE]
    /\ sent = 0

-----------------------------------------------------------------------------
(* The server: stream() and its relay().                                   *)

\* What relay() does once the reader has gone reaches nobody; see RelayCancelled.
Serving(s, at) == relay[s] \in at /\ conn[s] = "open"

Write(s, event) ==
    /\ wire' = [wire EXCEPT ![s] = Append(@, ReadAs(cut[s], event))]
    /\ cut' = [cut EXCEPT ![s] = "boundary"]

\* 404, 400 or 503: refused with a status, before a byte of the stream.
Refuse(s) ==
    /\ Serving(s, {"guards"})
    /\ relay' = [relay EXCEPT ![s] = "ended"]
    /\ conn' = [conn EXCEPT ![s] = "refused"]
    /\ UNCHANGED <<cut, fate, wire, sent, browserVars>>

Accept(s) ==
    /\ Serving(s, {"guards"})
    /\ relay' = [relay EXCEPT ![s] = "session"]
    /\ UNCHANGED <<cut, fate, wire, conn, sent, browserVars>>

\* Any status will do: a 400 means that the session already exists.
CreateSession(s) ==
    /\ Serving(s, {"session"})
    /\ relay' = [relay EXCEPT ![s] = "run"]
    /\ UNCHANGED <<cut, fate, wire, conn, sent, browserVars>>

StartRun(s) ==
    /\ Serving(s, {"run"})
    /\ relay' = [relay EXCEPT ![s] = "relaying"]
    /\ UNCHANGED <<cut, fate, wire, conn, sent, browserVars>>

\* /run_sse answered with another status than 200.
RunRefused(s) ==
    /\ Serving(s, {"run"})
    /\ Write(s, ProxyError)
    /\ fate' = [fate EXCEPT ![s] = "failed"]
    /\ relay' = [relay EXCEPT ![s] = "ending"]
    /\ UNCHANGED <<conn, sent, browserVars>>

\* A chunk that completes an event of the agent's.
RelayFrame(s) ==
    /\ Serving(s, {"relaying"}) /\ sent < MaxFrames
    /\ \E f \in AgentFrames : wire' = [wire EXCEPT ![s] = Append(@, f)]
    /\ cut' = [cut EXCEPT ![s] = "boundary"]
    /\ sent' = sent + 1
    /\ UNCHANGED <<relay, fate, conn, browserVars>>

\* A chunk that stops inside an event, in a line of it or after one.
RelayPart(s) ==
    /\ Serving(s, {"relaying"}) /\ sent < MaxFrames
    /\ \E c \in Cuts \ {"boundary"} : cut' = [cut EXCEPT ![s] = c]
    /\ sent' = sent + 1
    /\ UNCHANGED <<relay, fate, wire, conn, browserVars>>

\* The agent's service ends its reply, and so its last event.
UpstreamEnds(s) ==
    /\ Serving(s, {"relaying"}) /\ cut[s] = "boundary"
    /\ fate' = [fate EXCEPT ![s] = "clean"]
    /\ relay' = [relay EXCEPT ![s] = "ending"]
    /\ UNCHANGED <<cut, wire, conn, sent, browserVars>>

UpstreamFailsSilently(s) ==  \* a bug: no except clause, the finally clause alone
    /\ Serving(s, {"session", "run", "relaying"})
    /\ fate' = [fate EXCEPT ![s] = "failed"]
    /\ relay' = [relay EXCEPT ![s] = "ending"]
    /\ UNCHANGED <<cut, wire, conn, sent, browserVars>>

\* Any exception below the try: the except clause writes it to the browser.
UpstreamFails(s) ==
    /\ Serving(s, {"session", "run", "relaying"})
    /\ Write(s, ProxyError)
    /\ fate' = [fate EXCEPT ![s] = IF cut[s] = "line" THEN "swallowed" ELSE "failed"]
    /\ relay' = [relay EXCEPT ![s] = "ending"]
    /\ UNCHANGED <<conn, sent, browserVars>>

\* The finally clause: the explicit end, after which the response closes.
WriteDone(s) ==
    /\ Serving(s, {"ending"})
    /\ Write(s, ProxyDone)
    /\ relay' = [relay EXCEPT ![s] = "ended"]
    /\ conn' = [conn EXCEPT ![s] = "eof"]
    /\ UNCHANGED <<fate, sent, browserVars>>

\* The reader has gone: the server cancels relay(), which drops the upstream
\* connection on its way out.
RelayCancelled(s) ==
    /\ conn[s] = "gone" /\ relay[s] # "ended"
    /\ relay' = [relay EXCEPT ![s] = "ended"]
    /\ UNCHANGED <<cut, fate, wire, conn, sent, browserVars>>

\* The connection or the server dies; what had not arrived never does.
Drop(s) ==
    /\ conn[s] \in {"open", "eof"}
    /\ conn' = [conn EXCEPT ![s] = "lost"]
    /\ relay' = [relay EXCEPT ![s] = "ended"]
    /\ \E n \in 0..Len(wire[s]) : wire' = [wire EXCEPT ![s] = SubSeq(@, 1, n)]
    /\ UNCHANGED <<cut, fate, sent, browserVars>>

Server(s) == \/ Refuse(s) \/ Accept(s) \/ CreateSession(s) \/ StartRun(s)
             \/ RunRefused(s) \/ RelayFrame(s) \/ RelayPart(s)
             \/ UpstreamEnds(s) \/ UpstreamFails(s) \/ WriteDone(s)
             \/ RelayCancelled(s)

-----------------------------------------------------------------------------
(* The browser.                                                            *)

\* source.close() on a set of streams: what has not been dispatched never will
\* be, and the server sees the connection go.
Abort(streams) ==
    /\ wire' = [s \in Stream |-> IF s \in streams THEN <<>> ELSE wire[s]]
    /\ conn' = [s \in Stream |-> IF s \in streams THEN "gone" ELSE conn[s]]

\* finish() on each stream of a set: the flag and source.close(), once. The
\* onDone it calls is for the page to conjoin.
Finish(streams) ==
    /\ source' = [s \in Stream |-> IF s \in streams THEN "closed" ELSE source[s]]
    /\ finished' = [s \in Stream |-> finished[s] \/ s \in streams]

\* handle.close() on the page's open streams, if it has one, then streamAgent:
\* a new EventSource and the GET it makes.
Open(s, streams) ==
    /\ source[s] = "none"
    /\ source' = [t \in Stream |-> IF t = s THEN "open"
                                   ELSE IF t \in streams THEN "closed" ELSE source[t]]
    /\ finished' = [t \in Stream |-> finished[t] \/ t \in streams]
    /\ asks' = [asks EXCEPT ![s] = @ + 1]
    /\ relay' = [relay EXCEPT ![s] = "guards"]
    /\ wire' = [t \in Stream |-> IF t \in streams THEN <<>> ELSE wire[t]]
    /\ conn' = [t \in Stream |-> IF t = s THEN "open"
                                 ELSE IF t \in streams THEN "gone" ELSE conn[t]]
    /\ UNCHANGED <<cut, fate, sent>>

\* handle.close() alone: the reader stops, or leaves.
Close(streams) == Finish(streams) /\ Abort(streams) /\ UNCHANGED <<serverVars, asks>>

Dispatch(s, f) ==
    /\ source[s] = "open" /\ wire[s] # <<>>
    /\ f = Head(wire[s])
    /\ UNCHANGED <<serverVars, asks>>

Consume(s) == wire' = [wire EXCEPT ![s] = Tail(@)] /\ UNCHANGED <<conn, source, finished>>

\* onmessage with a step for onStep.
Message(s, f) == f \in AgentFrames /\ Dispatch(s, f) /\ Consume(s)

\* onmessage with a frame it cannot read: the early return.
Unreadable(s) == Dispatch(s, Garbled) /\ Consume(s)

\* "proxy-error" reaches onError and closes nothing.
ProxyErrorEvent(s) == Dispatch(s, ProxyError) /\ Consume(s)

\* "proxy-done" is finish itself.
ProxyDoneEvent(s) == Dispatch(s, ProxyDone) /\ Finish({s}) /\ Abort({s})

ConnectionEndsUnclosed(s) ==   \* a bug: onerror reports, and leaves the rest to the browser
    /\ source[s] = "open" /\ wire[s] = <<>>
    /\ conn[s] \in {"eof", "lost", "refused"}
    /\ asks' = [asks EXCEPT ![s] = @ + 1]
    /\ conn' = [conn EXCEPT ![s] = "open"]
    /\ relay' = [relay EXCEPT ![s] = "guards"]
    /\ UNCHANGED <<cut, fate, wire, sent, source, finished>>

(* The connection is gone and everything that arrived is dispatched: the   *)
(* browser fires source.onerror, which finishes the stream; were the       *)
(* source still open after it, and not refused, the browser would send the *)
(* question again.                                                         *)
ConnectionEnds(s) ==
    /\ source[s] = "open" /\ wire[s] = <<>>
    /\ conn[s] \in {"eof", "lost", "refused"}
    /\ IF finished[s] THEN UNCHANGED <<source, finished>> ELSE Finish({s})
    /\ IF source'[s] = "open" /\ conn[s] # "refused"
       THEN /\ asks' = [asks EXCEPT ![s] = @ + 1]
            /\ conn' = [conn EXCEPT ![s] = "open"]
            /\ relay' = [relay EXCEPT ![s] = "guards"]
       ELSE /\ conn' = [conn EXCEPT ![s] = "gone"]
            /\ UNCHANGED <<asks, relay>>
    /\ UNCHANGED <<cut, fate, wire, sent>>

-----------------------------------------------------------------------------
(* What is known of the events on their way, whoever listens.              *)

InFlight(s) == {wire[s][i] : i \in DOMAIN wire[s]}

\* Before its agent has been asked to run, nothing of a reply has been relayed.
BoundaryFirst ==
    \A s \in Stream : relay[s] \in {"idle", "guards", "session", "run"}
                         => cut[s] = "boundary"

\* A connection is made with its source, and a closed source has none.
ConnFollowsSource ==
    \A s \in Stream : /\ source[s] = "none" => /\ conn[s] = "none" /\ relay[s] = "idle"
                                              /\ wire[s] = <<>> /\ fate[s] = "none"
                      /\ source[s] = "closed" => conn[s] = "gone"

\* proxy-done is the last event that is ever written, and closes the response.
DoneIsLast ==
    \A s \in Stream : \A i \in DOMAIN wire[s] :
        wire[s][i] = ProxyDone => i = Len(wire[s]) /\ conn[s] # "open"

\* It is written of a reply that has ended, in one way or another.
DoneHasFate ==
    \A s \in Stream : ProxyDone \in InFlight(s) \/ relay[s] = "ending" => fate[s] # "none"

StreamInv ==
    StreamTypeOK /\ BoundaryFirst /\ ConnFollowsSource /\ DoneIsLast /\ DoneHasFate
=============================================================================
