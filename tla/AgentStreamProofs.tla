------------------------- MODULE AgentStreamProofs -------------------------
(***************************************************************************)
(* Facts about one stream that hold whatever page is listening: the shape  *)
(* of the state, and how an EventSource leaves the open state.             *)
(***************************************************************************)
EXTENDS AgentStream, SequenceTheorems, TLAPS

\* The events the relay writes, as the browser reads them, are frames.
LEMMA FramesAreFrames ==
    /\ AgentFrames \subseteq Frames
    /\ Garbled \in Frames /\ ProxyError \in Frames /\ ProxyDone \in Frames
    /\ \A at \in Cuts, e \in Frames : ReadAs(at, e) \in Frames
  BY DEF Frames, ReadAs

\* Every step of the server keeps the state in shape.
LEMMA ServerKeepsType ==
  ASSUME StreamTypeOK, NEW s \in Stream, Server(s)
  PROVE  StreamTypeOK'
<1> USE FramesAssumption DEF StreamTypeOK, serverVars, browserVars
<1>w. ASSUME NEW e \in Frames, Write(s, e)
      PROVE  /\ wire' \in [Stream -> Seq(Frames)]
             /\ cut' \in [Stream -> Cuts]
  <2>1. ReadAs(cut[s], e) \in Frames
    BY FramesAreFrames
  <2>2. Append(wire[s], ReadAs(cut[s], e)) \in Seq(Frames)
    BY <2>1
  <2>3. QED
    BY <1>w, <2>2 DEF Write, Cuts
<1>1. CASE Refuse(s)
  BY <1>1 DEF Refuse
<1>2. CASE Accept(s)
  BY <1>2 DEF Accept
<1>3. CASE CreateSession(s)
  BY <1>3 DEF CreateSession
<1>4. CASE StartRun(s)
  BY <1>4 DEF StartRun
<1>5. CASE RunRefused(s)
  BY <1>5, <1>w, FramesAreFrames DEF RunRefused
<1>6. CASE RelayFrame(s)
  <2>1. PICK f \in AgentFrames : wire' = [wire EXCEPT ![s] = Append(@, f)]
    BY <1>6 DEF RelayFrame
  <2>2. Append(wire[s], f) \in Seq(Frames)
    BY FramesAreFrames
  <2>3. wire' \in [Stream -> Seq(Frames)]
    BY <2>1, <2>2
  <2>4. QED
    BY <1>6, <2>3 DEF RelayFrame, Cuts
<1>7. CASE RelayPart(s)
  BY <1>7 DEF RelayPart
<1>8. CASE UpstreamEnds(s)
  BY <1>8 DEF UpstreamEnds
<1>9. CASE UpstreamFails(s)
  BY <1>9, <1>w, FramesAreFrames DEF UpstreamFails
<1>10. CASE WriteDone(s)
  BY <1>10, <1>w, FramesAreFrames DEF WriteDone
<1>11. CASE RelayCancelled(s)
  BY <1>11 DEF RelayCancelled
<1>12. QED
  BY <1>1, <1>2, <1>3, <1>4, <1>5, <1>6, <1>7, <1>8, <1>9, <1>10, <1>11 DEF Server

\* So does the loss of a connection.
LEMMA DropKeepsType ==
  ASSUME StreamTypeOK, NEW s \in Stream, Drop(s)
  PROVE  StreamTypeOK'
<1>1. PICK n \in 0..Len(wire[s]) : wire' = [wire EXCEPT ![s] = SubSeq(@, 1, n)]
  BY DEF Drop
<1>2. SubSeq(wire[s], 1, n) \in Seq(Frames)
  BY SubSeqProperties DEF StreamTypeOK
<1>3. wire' \in [Stream -> Seq(Frames)]
  BY <1>1, <1>2 DEF StreamTypeOK
<1>4. QED
  BY <1>3 DEF Drop, StreamTypeOK, browserVars

\* And every step of the browser.
LEMMA BrowserKeepsType ==
  ASSUME StreamTypeOK, NEW s \in Stream,
         \/ \E f \in Frames : Message(s, f)
         \/ Unreadable(s) \/ ProxyErrorEvent(s) \/ ProxyDoneEvent(s)
         \/ ConnectionEnds(s)
         \/ \E S \in SUBSET Stream : Open(s, S) \/ Close(S)
  PROVE  StreamTypeOK'
<1> USE DEF StreamTypeOK, serverVars, browserVars
<1>c. ASSUME wire[s] # <<>>, Consume(s)
      PROVE  wire' \in [Stream -> Seq(Frames)]
  <2>1. Tail(wire[s]) \in Seq(Frames)
    BY <1>c
  <2>2. QED
    BY <1>c, <2>1 DEF Consume
<1>1. CASE \E f \in Frames : Message(s, f)
  BY <1>1, <1>c DEF Message, Dispatch, Consume
<1>2. CASE Unreadable(s)
  BY <1>2, <1>c DEF Unreadable, Dispatch, Consume
<1>3. CASE ProxyErrorEvent(s)
  BY <1>3, <1>c DEF ProxyErrorEvent, Dispatch, Consume
<1>a. ASSUME NEW S \in SUBSET Stream, Abort(S)
      PROVE  /\ wire' \in [Stream -> Seq(Frames)]
             /\ conn' \in [Stream -> {"none", "open", "eof", "lost", "refused", "gone"}]
  BY <1>a DEF Abort
<1>f. ASSUME NEW S \in SUBSET Stream, Finish(S)
      PROVE  /\ source' \in [Stream -> {"none", "open", "closed"}]
             /\ finished' \in [Stream -> BOOLEAN]
  BY <1>f DEF Finish
<1>4. CASE ProxyDoneEvent(s)
  BY <1>4, <1>a, <1>f DEF ProxyDoneEvent, Dispatch
<1>5. CASE ConnectionEnds(s)
  <2>1. /\ source' \in [Stream -> {"none", "open", "closed"}]
        /\ finished' \in [Stream -> BOOLEAN]
    <3>1. CASE finished[s]
      BY <1>5, <3>1 DEF ConnectionEnds
    <3>2. CASE ~finished[s]
      BY <1>5, <3>2, <1>f DEF ConnectionEnds
    <3>3. QED
      BY <3>1, <3>2
  <2>2. /\ asks' \in [Stream -> Nat]
        /\ conn' \in [Stream -> {"none", "open", "eof", "lost", "refused", "gone"}]
        /\ relay' \in [Stream -> {"idle", "guards", "session", "run", "relaying",
                                  "ending", "ended"}]
    <3>1. CASE source'[s] = "open" /\ conn[s] # "refused"
      <4>1. /\ asks' = [asks EXCEPT ![s] = @ + 1]
            /\ conn' = [conn EXCEPT ![s] = "open"]
            /\ relay' = [relay EXCEPT ![s] = "guards"]
        BY <1>5, <3>1 DEF ConnectionEnds
      <4>2. QED
        BY <4>1
    <3>2. CASE ~(source'[s] = "open" /\ conn[s] # "refused")
      BY <1>5, <3>2 DEF ConnectionEnds
    <3>3. QED
      BY <3>1, <3>2
  <2>3. cut' = cut /\ fate' = fate /\ wire' = wire /\ sent' = sent
    BY <1>5 DEF ConnectionEnds
  <2>4. QED
    BY <2>1, <2>2, <2>3
<1>6. ASSUME NEW S \in SUBSET Stream, Open(s, S)
      PROVE  StreamTypeOK'
  BY <1>6 DEF Open
<1>7. ASSUME NEW S \in SUBSET Stream, Close(S)
      PROVE  StreamTypeOK'
  BY <1>7, <1>a, <1>f DEF Close
<1>8. QED
  BY <1>1, <1>2, <1>3, <1>4, <1>5, <1>6, <1>7

-----------------------------------------------------------------------------
(* The events on their way.                                                *)

\* The events of the agent and of the proxy can be told apart.
LEMMA FramesDiffer ==
    /\ Garbled # ProxyError /\ Garbled # ProxyDone /\ ProxyError # ProxyDone
    /\ \A f \in AgentFrames : f # Garbled /\ f # ProxyError /\ f # ProxyDone
    /\ \A at \in Cuts : /\ ReadAs(at, ProxyError) # ProxyDone
                        /\ at # "line" => ReadAs(at, ProxyError) = ProxyError
<1>1. /\ Garbled.part = "garbled" /\ ProxyError.part = "proxy-error"
      /\ ProxyDone.part = "proxy-done"
      /\ \A f \in AgentFrames : f.part \in {"text", "call", "ok", "failed"}
  BY DEF Garbled, ProxyError, ProxyDone, AgentFrames, Texts, Tools
<1>2. /\ Garbled # ProxyError /\ Garbled # ProxyDone /\ ProxyError # ProxyDone
      /\ \A f \in AgentFrames : f # Garbled /\ f # ProxyError /\ f # ProxyDone
  BY <1>1
<1>3. QED
  BY <1>2 DEF ReadAs, Cuts

\* What is appended to a sequence is in it, behind what was.
LEMMA Appended ==
  ASSUME NEW w \in Seq(Frames), NEW e \in Frames
  PROVE  /\ Len(Append(w, e)) = Len(w) + 1 /\ Len(w) \in Nat
         /\ DOMAIN w = 1..Len(w) /\ DOMAIN Append(w, e) = 1..(Len(w) + 1)
         /\ \A i \in DOMAIN w : Append(w, e)[i] = w[i]
         /\ Append(w, e)[Len(w) + 1] = e
         /\ {Append(w, e)[i] : i \in DOMAIN Append(w, e)} = {w[i] : i \in DOMAIN w} \cup {e}
<1>1. /\ Append(w, e) \in Seq(Frames) /\ Len(Append(w, e)) = Len(w) + 1
      /\ Len(w) \in Nat /\ DOMAIN w = 1..Len(w)
      /\ \A i \in 1..Len(w) : Append(w, e)[i] = w[i]
      /\ Append(w, e)[Len(w) + 1] = e
  BY AppendProperties
<1>2. DOMAIN Append(w, e) = 1..(Len(w) + 1)
  BY <1>1
<1> DEFINE a == Append(w, e)
<1> HIDE DEF a
<1>3. 1..(Len(w) + 1) = 1..Len(w) \cup {Len(w) + 1}
  BY <1>1
<1>4. {a[i] : i \in 1..(Len(w) + 1)} = {w[i] : i \in 1..Len(w)} \cup {e}
  BY <1>1, <1>3 DEF a
<1>5. QED
  BY <1>1, <1>2, <1>4 DEF a

\* What is dispatched was first in the sequence; the rest moves up.
LEMMA Dispatched ==
  ASSUME NEW w \in Seq(Frames), w # <<>>
  PROVE  /\ Len(Tail(w)) = Len(w) - 1 /\ Len(w) \in Nat \ {0}
         /\ DOMAIN w = 1..Len(w) /\ DOMAIN Tail(w) = 1..(Len(w) - 1)
         /\ \A i \in DOMAIN Tail(w) : i + 1 \in DOMAIN w /\ Tail(w)[i] = w[i + 1]
         /\ {w[i] : i \in DOMAIN w} = {Head(w)} \cup {Tail(w)[i] : i \in DOMAIN Tail(w)}
<1>1. /\ Tail(w) \in Seq(Frames) /\ Len(Tail(w)) = Len(w) - 1 /\ Len(w) \in Nat \ {0}
      /\ DOMAIN w = 1..Len(w) /\ Head(w) = w[1]
      /\ \A i \in 1..(Len(w) - 1) : Tail(w)[i] = w[i + 1]
  BY HeadTailProperties, EmptySeq
<1>2. DOMAIN Tail(w) = 1..(Len(w) - 1)
  BY <1>1
<1>3. \A i \in 1..(Len(w) - 1) : i + 1 \in 1..Len(w)
  BY <1>1
<1>4. \A i \in 1..Len(w) : i = 1 \/ \E j \in 1..(Len(w) - 1) : i = j + 1
  <2>1. ASSUME NEW i \in 1..Len(w), i # 1 PROVE i - 1 \in 1..(Len(w) - 1) /\ i = (i - 1) + 1
    BY <1>1, <2>1
  <2>2. QED
    BY <2>1
<1> DEFINE r == Tail(w)
<1>5. \A i \in 1..(Len(w) - 1) : r[i] = w[i + 1]
  BY <1>1
<1> HIDE DEF r
<1>6. {w[i] : i \in 1..Len(w)} = {w[1]} \cup {r[i] : i \in 1..(Len(w) - 1)}
  <2>1. 1 \in 1..Len(w)
    BY <1>1
  <2>2. \A i \in 1..Len(w) : w[i] \in {w[1]} \cup {r[j] : j \in 1..(Len(w) - 1)}
    BY <1>4, <1>5
  <2>3. \A j \in 1..(Len(w) - 1) : r[j] \in {w[i] : i \in 1..Len(w)}
    BY <1>3, <1>5
  <2>4. QED
    BY <2>1, <2>2, <2>3
<1>7. QED
  BY <1>1, <1>2, <1>3, <1>6 DEF r

\* What has arrived of a sequence when the connection is lost.
LEMMA Prefixed ==
  ASSUME NEW w \in Seq(Frames), NEW n \in 0..Len(w)
  PROVE  /\ Len(SubSeq(w, 1, n)) = n /\ DOMAIN SubSeq(w, 1, n) = 1..n
         /\ DOMAIN w = 1..Len(w) /\ Len(w) \in Nat
         /\ \A i \in 1..n : i \in DOMAIN w /\ SubSeq(w, 1, n)[i] = w[i]
<1>1. \A i \in 1..n : i \in 1..Len(w) /\ w[i] \in Frames
  BY ElementOfSeq
<1>2. /\ SubSeq(w, 1, n) \in Seq(Frames)
      /\ Len(SubSeq(w, 1, n)) = IF 1 <= n THEN n - 1 + 1 ELSE 0
      /\ \A i \in 1..(n - 1 + 1) : SubSeq(w, 1, n)[i] = w[1 + i - 1]
  BY <1>1, SubSeqProperties
<1>3. Len(SubSeq(w, 1, n)) = n /\ n \in Nat
  BY <1>2
<1>4. \A i \in 1..n : SubSeq(w, 1, n)[i] = w[i]
  <2>1. \A i \in 1..n : i \in 1..(n - 1 + 1) /\ 1 + i - 1 = i
    BY <1>3
  <2>2. QED
    BY <1>2, <2>1
<1>5. QED
  BY <1>1, <1>2, <1>3, <1>4

\* What the server does to a stream it does to that stream alone, and of a reply
\* that is still relayed nothing says yet that it has ended.
LEMMA ServerEffect ==
  ASSUME StreamInv, NEW s \in Stream, Server(s) \/ Drop(s)
  PROVE  /\ source' = source
         /\ \A t \in Stream \ {s} :
              /\ relay'[t] = relay[t] /\ cut'[t] = cut[t] /\ fate'[t] = fate[t]
              /\ wire'[t] = wire[t] /\ conn'[t] = conn[t]
<1> USE DEF StreamInv, StreamTypeOK, serverVars, browserVars
<1>1. CASE Drop(s)
  <2>1. PICK n \in 0..Len(wire[s]) : wire' = [wire EXCEPT ![s] = SubSeq(@, 1, n)]
    BY <1>1 DEF Drop
  <2>2. QED
    BY <1>1, <2>1 DEF Drop
<1>2. CASE RelayFrame(s)
  <2>1. PICK f \in AgentFrames : wire' = [wire EXCEPT ![s] = Append(@, f)]
    BY <1>2 DEF RelayFrame
  <2>2. QED
    BY <1>2, <2>1 DEF RelayFrame
<1>3. CASE RelayPart(s)
  <2>1. PICK c \in Cuts \ {"boundary"} : cut' = [cut EXCEPT ![s] = c]
    BY <1>3 DEF RelayPart
  <2>2. QED
    BY <1>3, <2>1 DEF RelayPart
<1>4. CASE Refuse(s) \/ Accept(s) \/ CreateSession(s) \/ StartRun(s) \/ RelayCancelled(s)
  BY <1>4 DEF Refuse, Accept, CreateSession, StartRun, RelayCancelled
<1>5. CASE RunRefused(s) \/ UpstreamEnds(s) \/ UpstreamFails(s) \/ WriteDone(s)
  BY <1>5 DEF RunRefused, UpstreamEnds, UpstreamFails, WriteDone, Write
<1>6. QED
  BY <1>1, <1>2, <1>3, <1>4, <1>5 DEF Server

\* Before proxy-done is written there is none among the events on their way.
LEMMA OpenHasNoDone ==
  ASSUME StreamInv, NEW s \in Stream, conn[s] = "open"
  PROVE  ProxyDone \notin InFlight(s)
  BY DEF StreamInv, DoneIsLast, InFlight

\* An event written after such bytes is the last of those on their way.
LEMMA WriteEffect ==
  ASSUME StreamInv, NEW s \in Stream, NEW e \in Frames,
         wire' = [wire EXCEPT ![s] = Append(@, e)]
  PROVE  /\ InFlight(s)' = InFlight(s) \cup {e}
         /\ conn[s] = "open" =>
              \A i \in DOMAIN wire'[s] : wire'[s][i] = ProxyDone
                                           => e = ProxyDone /\ i = Len(wire'[s])
<1>1. wire[s] \in Seq(Frames) /\ wire'[s] = Append(wire[s], e)
  BY DEF StreamInv, StreamTypeOK
<1>2. InFlight(s)' = InFlight(s) \cup {e}
  BY <1>1, Appended DEF InFlight
<1>3. ASSUME conn[s] = "open", NEW i \in DOMAIN wire'[s], wire'[s][i] = ProxyDone
      PROVE  e = ProxyDone /\ i = Len(wire'[s])
  <2>1. \A j \in DOMAIN wire[s] : wire[s][j] # ProxyDone
    BY <1>3 DEF StreamInv, DoneIsLast
  <2>2. i \notin DOMAIN wire[s]
    BY <1>1, <1>3, <2>1, Appended
  <2>3. i = Len(wire[s]) + 1
    BY <1>1, <1>3, <2>2, Appended
  <2>4. QED
    BY <1>1, <1>3, <2>3, Appended
<1>4. QED
  BY <1>2, <1>3

\* The invariant, one stream at a time.
StreamOK(s) ==
    /\ relay[s] \in {"idle", "guards", "session", "run"} => cut[s] = "boundary"
    /\ source[s] = "none" => /\ conn[s] = "none" /\ relay[s] = "idle"
                             /\ wire[s] = <<>> /\ fate[s] = "none"
    /\ source[s] = "closed" => conn[s] = "gone"
    /\ \A i \in DOMAIN wire[s] : wire[s][i] = ProxyDone => i = Len(wire[s]) /\ conn[s] # "open"
    /\ ProxyDone \in InFlight(s) \/ relay[s] = "ending" => fate[s] # "none"

\* The invariant, stream by stream.
LEMMA StreamByStream ==
  /\ StreamInv <=> StreamTypeOK /\ \A s \in Stream : StreamOK(s)
  /\ StreamInv' <=> StreamTypeOK' /\ \A s \in Stream : StreamOK(s)'
<1>1. StreamInv <=> StreamTypeOK /\ \A s \in Stream : StreamOK(s)
  BY DEF StreamInv, StreamOK, BoundaryFirst, ConnFollowsSource, DoneIsLast, DoneHasFate
<1>2. StreamInv' <=> StreamTypeOK' /\ \A s \in Stream : StreamOK(s)'
  BY DEF StreamInv, StreamOK, BoundaryFirst, ConnFollowsSource, DoneIsLast, DoneHasFate
<1>3. QED
  BY <1>1, <1>2

\* A stream nobody touches keeps it.
LEMMA UntouchedStream ==
  ASSUME NEW t \in Stream, StreamOK(t), source'[t] = source[t],
         relay'[t] = relay[t], cut'[t] = cut[t], fate'[t] = fate[t],
         wire'[t] = wire[t], conn'[t] = conn[t]
  PROVE  StreamOK(t)'
  BY DEF StreamOK, InFlight

\* The server keeps the invariant, and so does the loss of a connection.
LEMMA ServerKeepsInv ==
  ASSUME StreamInv, NEW s \in Stream, Server(s) \/ Drop(s)
  PROVE  StreamInv'
<1>1. StreamTypeOK /\ StreamOK(s) /\ \A t \in Stream : StreamOK(t)
  BY StreamByStream
<1>2. StreamTypeOK' /\ source' = source
  BY <1>1, ServerKeepsType, DropKeepsType, ServerEffect
<1>3. ASSUME conn[s] \in {"open", "eof"} PROVE source[s] = "open"
  BY <1>1, <1>3 DEF StreamOK, StreamTypeOK
<1>4. ASSUME conn[s] = "open" PROVE ProxyDone \notin InFlight(s)
  BY <1>4, OpenHasNoDone
<1>z. ASSUME StreamOK(s)' PROVE StreamInv'
  <2>1. ASSUME NEW t \in Stream, t # s PROVE StreamOK(t)'
    <3>1. /\ relay'[t] = relay[t] /\ cut'[t] = cut[t] /\ fate'[t] = fate[t]
          /\ wire'[t] = wire[t] /\ conn'[t] = conn[t] /\ source'[t] = source[t]
      BY <2>1, ServerEffect
    <3>2. QED
      BY <1>1, <3>1, UntouchedStream
  <2>2. QED
    BY <1>2, <1>z, <2>1, StreamByStream
<1> USE DEF StreamTypeOK, Serving
<1>5. CASE Refuse(s) \/ Accept(s) \/ CreateSession(s) \/ StartRun(s)
  <2>1. /\ conn[s] = "open" /\ wire' = wire /\ cut' = cut /\ fate' = fate
        /\ relay[s] \in {"guards", "session", "run"} /\ relay'[s] # "ending"
        /\ relay'[s] \in {"session", "run"} => relay[s] \in {"guards", "session", "run"}
    BY <1>1, <1>5 DEF Refuse, Accept, CreateSession, StartRun
  <2>2. InFlight(s)' = InFlight(s) /\ \A i \in DOMAIN wire[s] : wire[s][i] # ProxyDone
    BY <1>4, <2>1 DEF InFlight
  <2>3. cut[s] = "boundary" /\ ProxyDone \notin InFlight(s)
    BY <1>1, <1>4, <2>1 DEF StreamOK
  <2>4. source'[s] = "open"
    BY <1>2, <1>3, <2>1
  <2>5. StreamOK(s)'
    BY <2>1, <2>2, <2>3, <2>4 DEF StreamOK
  <2>6. QED
    BY <1>z, <2>5
<1>6. CASE RunRefused(s) \/ RelayFrame(s) \/ UpstreamFails(s) \/ WriteDone(s)
  <2>1. PICK e \in Frames :
            /\ wire' = [wire EXCEPT ![s] = Append(@, e)] /\ cut'[s] = "boundary"
            /\ conn[s] = "open" /\ relay'[s] \in {"relaying", "ending", "ended"}
            /\ e = ProxyDone => conn'[s] # "open" /\ fate'[s] # "none"
            /\ relay'[s] = "ending" => fate'[s] # "none"
    <3>1. CASE RunRefused(s)
      BY <1>1, <3>1, FramesDiffer, FramesAreFrames DEF RunRefused, Write, StreamOK
    <3>2. CASE RelayFrame(s)
      <4>1. PICK f \in AgentFrames : wire' = [wire EXCEPT ![s] = Append(@, f)]
        BY <3>2 DEF RelayFrame
      <4>2. QED
        BY <1>1, <3>2, <4>1, FramesDiffer, FramesAreFrames DEF RelayFrame
    <3>3. CASE UpstreamFails(s)
      BY <1>1, <3>3, FramesDiffer, FramesAreFrames DEF UpstreamFails, Write
    <3>4. CASE WriteDone(s)
      BY <1>1, <3>4, FramesDiffer, FramesAreFrames DEF WriteDone, Write, StreamOK
    <3>5. QED
      BY <1>6, <3>1, <3>2, <3>3, <3>4
  <2>2. /\ InFlight(s)' = InFlight(s) \cup {e}
        /\ \A i \in DOMAIN wire'[s] : wire'[s][i] = ProxyDone => e = ProxyDone /\ i = Len(wire'[s])
    BY <2>1, WriteEffect
  <2>3. source'[s] = "open"
    BY <1>2, <1>3, <2>1
  <2>4. StreamOK(s)'
    BY <1>4, <2>1, <2>2, <2>3 DEF StreamOK
  <2>5. QED
    BY <1>z, <2>4
<1>7. CASE RelayPart(s) \/ UpstreamEnds(s)
  <2>1. /\ conn[s] = "open" /\ wire' = wire /\ conn' = conn
        /\ relay'[s] \in {"relaying", "ending"}
        /\ relay'[s] = "ending" => fate'[s] # "none"
    BY <1>1, <1>7 DEF RelayPart, UpstreamEnds
  <2>2. InFlight(s)' = InFlight(s) /\ \A i \in DOMAIN wire[s] : wire[s][i] # ProxyDone
    BY <1>4, <2>1 DEF InFlight
  <2>3. source'[s] = "open"
    BY <1>2, <1>3, <2>1
  <2>4. StreamOK(s)'
    BY <1>4, <2>1, <2>2, <2>3 DEF StreamOK
  <2>5. QED
    BY <1>z, <2>4
<1>8. CASE RelayCancelled(s)
  <2>1. /\ conn[s] = "gone" /\ relay'[s] = "ended"
        /\ UNCHANGED <<cut, fate, wire, conn>>
    BY <1>1, <1>8 DEF RelayCancelled
  <2>2. InFlight(s)' = InFlight(s)
    BY <2>1 DEF InFlight
  <2>3. StreamOK(s)'
    BY <1>1, <1>2, <2>1, <2>2 DEF StreamOK
  <2>4. QED
    BY <1>z, <2>3
<1>9. CASE Drop(s)
  <2>1. PICK n \in 0..Len(wire[s]) : wire' = [wire EXCEPT ![s] = SubSeq(@, 1, n)]
    BY <1>9 DEF Drop
  <2>2. /\ conn[s] \in {"open", "eof"} /\ conn'[s] = "lost" /\ relay'[s] = "ended"
        /\ fate' = fate /\ wire'[s] = SubSeq(wire[s], 1, n)
    BY <1>1, <1>9, <2>1 DEF Drop
  <2>3. wire[s] \in Seq(Frames)
    BY <1>1
  <2>4. /\ Len(wire'[s]) = n /\ DOMAIN wire'[s] = 1..n /\ DOMAIN wire[s] = 1..Len(wire[s])
        /\ Len(wire[s]) \in Nat
        /\ \A i \in 1..n : i \in DOMAIN wire[s] /\ wire'[s][i] = wire[s][i]
    BY <2>2, <2>3, Prefixed
  <2>5. \A i \in DOMAIN wire'[s] : wire'[s][i] = ProxyDone => i = Len(wire'[s])
    <3>1. ASSUME NEW i \in 1..n, wire'[s][i] = ProxyDone PROVE i = n
      <4>1. i = Len(wire[s])
        BY <1>1, <2>4, <3>1 DEF StreamOK
      <4>2. QED
        BY <2>4, <4>1
    <3>2. QED
      BY <2>4, <3>1
  <2>6. InFlight(s)' \subseteq InFlight(s)
    BY <2>4 DEF InFlight
  <2>7. source'[s] = "open"
    BY <1>2, <1>3, <2>2
  <2>8. StreamOK(s)'
    BY <1>1, <2>2, <2>5, <2>6, <2>7 DEF StreamOK
  <2>9. QED
    BY <1>z, <2>8
<1>10. QED
  BY <1>5, <1>6, <1>7, <1>8, <1>9 DEF Server

\* An event that is dispatched leaves the others on their way, in their order.
LEMMA ConsumeKeepsInv ==
  ASSUME StreamInv, NEW s \in Stream, NEW f, Dispatch(s, f), Consume(s), StreamTypeOK'
  PROVE  /\ StreamInv'
         /\ f \in InFlight(s) /\ InFlight(s) = {f} \cup InFlight(s)'
         /\ \A t \in Stream \ {s} : InFlight(t)' = InFlight(t)
<1>1. StreamTypeOK /\ StreamOK(s) /\ \A t \in Stream : StreamOK(t)
  BY StreamByStream
<1>2. /\ UNCHANGED <<relay, cut, fate, conn, source>> /\ source[s] = "open"
      /\ wire[s] # <<>> /\ f = Head(wire[s]) /\ wire[s] \in Seq(Frames)
      /\ wire'[s] = Tail(wire[s]) /\ \A t \in Stream \ {s} : wire'[t] = wire[t]
  BY <1>1 DEF Dispatch, Consume, serverVars, StreamTypeOK
<1>3. /\ Len(wire'[s]) = Len(wire[s]) - 1 /\ Len(wire[s]) \in Nat \ {0}
      /\ DOMAIN wire[s] = 1..Len(wire[s]) /\ DOMAIN wire'[s] = 1..(Len(wire[s]) - 1)
      /\ \A i \in DOMAIN wire'[s] : i + 1 \in DOMAIN wire[s] /\ wire'[s][i] = wire[s][i + 1]
  BY <1>2, Dispatched
<1>4. InFlight(s) = {f} \cup InFlight(s)'
  <2>1. InFlight(s) = {f} \cup {Tail(wire[s])[i] : i \in DOMAIN Tail(wire[s])}
    BY <1>2, Dispatched DEF InFlight
  <2>2. QED
    BY <1>2, <2>1 DEF InFlight
<1>5. ASSUME NEW i \in DOMAIN wire'[s], wire'[s][i] = ProxyDone
      PROVE  i = Len(wire'[s]) /\ conn'[s] # "open"
  <2>1. i + 1 \in DOMAIN wire[s] /\ wire[s][i + 1] = ProxyDone
    BY <1>3, <1>5
  <2>2. i + 1 = Len(wire[s]) /\ conn[s] # "open"
    BY <1>1, <2>1 DEF StreamOK
  <2>3. QED
    BY <1>2, <1>3, <1>5, <2>2
<1>6. StreamOK(s)'
  BY <1>1, <1>2, <1>4, <1>5 DEF StreamOK
<1>7. \A t \in Stream \ {s} : InFlight(t)' = InFlight(t)
  BY <1>2 DEF InFlight
<1>8. ASSUME NEW t \in Stream, t # s PROVE StreamOK(t)'
  BY <1>1, <1>2, <1>8, UntouchedStream
<1>9. QED
  BY <1>4, <1>6, <1>7, <1>8, StreamByStream

\* Streams that are closed are left with nothing on its way and no connection.
LEMMA ClosedStream ==
  ASSUME NEW t \in Stream, StreamOK(t), source'[t] = "closed", wire'[t] = <<>>,
         conn'[t] = "gone", relay'[t] = relay[t], cut'[t] = cut[t], fate'[t] = fate[t]
  PROVE  StreamOK(t)'
<1>1. DOMAIN wire'[t] = {}
  OBVIOUS
<1>2. InFlight(t)' = {}
  BY <1>1 DEF InFlight
<1>3. QED
  BY <1>1, <1>2 DEF StreamOK

\* Closing a set of streams keeps the invariant, and leaves the others alone.
LEMMA CloseKeepsInv ==
  ASSUME StreamInv, NEW S \in SUBSET Stream, Finish(S), Abort(S),
         UNCHANGED <<relay, cut, fate>>, StreamTypeOK'
  PROVE  /\ StreamInv'
         /\ \A t \in Stream \ S : InFlight(t)' = InFlight(t) /\ conn'[t] = conn[t]
<1>1. \A t \in Stream : StreamOK(t)
  BY StreamByStream
<1>2. ASSUME NEW t \in S PROVE StreamOK(t)'
  <2>1. source'[t] = "closed" /\ wire'[t] = <<>> /\ conn'[t] = "gone"
    BY DEF Finish, Abort
  <2>2. QED
    BY <1>1, <2>1, ClosedStream
<1>3. ASSUME NEW t \in Stream \ S
      PROVE  source'[t] = source[t] /\ wire'[t] = wire[t] /\ conn'[t] = conn[t]
  BY DEF Finish, Abort
<1>4. ASSUME NEW t \in Stream \ S PROVE StreamOK(t)'
  BY <1>1, <1>3, UntouchedStream
<1>5. \A t \in Stream \ S : InFlight(t)' = InFlight(t)
  BY <1>3 DEF InFlight
<1>6. QED
  BY <1>2, <1>3, <1>4, <1>5, StreamByStream

\* So does the loss of its connection, which an open source reports and then closes.
LEMMA ConnectionEndKeepsInv ==
  ASSUME StreamInv, NEW s \in Stream, ConnectionEnds(s), ~finished[s], StreamTypeOK'
  PROVE  /\ StreamInv' /\ source'[s] = "closed" /\ conn'[s] = "gone" /\ finished'[s]
         /\ UNCHANGED <<relay, cut, fate, wire>>
         /\ \A t \in Stream \ {s} :
               /\ InFlight(t)' = InFlight(t) /\ conn'[t] = conn[t]
               /\ source'[t] = source[t] /\ finished'[t] = finished[t]
<1>0. StreamTypeOK /\ \A t \in Stream : StreamOK(t)
  BY StreamByStream
<1>1. /\ source'[s] = "closed" /\ finished'[s] /\ wire' = wire /\ wire[s] = <<>>
      /\ cut' = cut /\ fate' = fate
      /\ \A t \in Stream \ {s} : source'[t] = source[t] /\ finished'[t] = finished[t]
  <2>1. Finish({s}) /\ wire' = wire /\ wire[s] = <<>> /\ cut' = cut /\ fate' = fate
    BY DEF ConnectionEnds
  <2>2. source'[s] = "closed" /\ finished'[s]
    BY <2>1 DEF Finish
  <2>3. ASSUME NEW t \in Stream \ {s}
        PROVE  source'[t] = source[t] /\ finished'[t] = finished[t]
    BY <1>0, <2>1 DEF Finish, StreamTypeOK
  <2>4. QED
    BY <2>1, <2>2, <2>3
<1>2. conn' = [conn EXCEPT ![s] = "gone"] /\ relay' = relay
  BY <1>1 DEF ConnectionEnds
<1>3. StreamOK(s)'
  BY <1>0, <1>1, <1>2, ClosedStream DEF StreamTypeOK
<1>4. ASSUME NEW t \in Stream \ {s}
      PROVE  StreamOK(t)' /\ InFlight(t)' = InFlight(t) /\ conn'[t] = conn[t]
  BY <1>0, <1>1, <1>2, UntouchedStream DEF StreamTypeOK, InFlight
<1>5. QED
  BY <1>1, <1>2, <1>3, <1>4, StreamByStream DEF StreamTypeOK

\* And a question that is asked while the page's open streams are closed.
LEMMA OpenKeepsInv ==
  ASSUME StreamInv, NEW s \in Stream, NEW S \in SUBSET Stream, s \notin S,
         Open(s, S), StreamTypeOK'
  PROVE  /\ StreamInv' /\ source'[s] = "open" /\ fate' = fate /\ fate[s] = "none"
         /\ \A t \in S : source'[t] = "closed" /\ finished'[t]
         /\ \A t \in Stream \ (S \cup {s}) :
               /\ InFlight(t)' = InFlight(t) /\ conn'[t] = conn[t]
               /\ source'[t] = source[t] /\ finished'[t] = finished[t]
<1>0. StreamTypeOK /\ \A t \in Stream : StreamOK(t)
  BY StreamByStream
<1>1. /\ source[s] = "none" /\ source'[s] = "open" /\ relay'[s] = "guards"
      /\ wire'[s] = <<>> /\ fate' = fate /\ cut' = cut /\ fate[s] = "none"
      /\ cut[s] = "boundary"
  BY <1>0 DEF Open, StreamOK, StreamTypeOK
<1>2. StreamOK(s)'
  <2>1. DOMAIN wire'[s] = {}
    BY <1>1
  <2>2. InFlight(s)' = {}
    BY <2>1 DEF InFlight
  <2>3. QED
    BY <1>1, <2>1, <2>2 DEF StreamOK
<1>3. ASSUME NEW t \in S PROVE StreamOK(t)' /\ source'[t] = "closed" /\ finished'[t]
  <2>1. /\ source'[t] = "closed" /\ wire'[t] = <<>> /\ conn'[t] = "gone" /\ finished'[t]
        /\ relay'[t] = relay[t]
    BY <1>0 DEF Open, StreamTypeOK
  <2>2. QED
    BY <1>0, <1>1, <2>1, ClosedStream
<1>4. ASSUME NEW t \in Stream \ (S \cup {s})
      PROVE  /\ source'[t] = source[t] /\ finished'[t] = finished[t]
             /\ wire'[t] = wire[t] /\ conn'[t] = conn[t] /\ relay'[t] = relay[t]
  BY <1>0 DEF Open, StreamTypeOK
<1>5. ASSUME NEW t \in Stream \ (S \cup {s})
      PROVE  StreamOK(t)' /\ InFlight(t)' = InFlight(t)
  BY <1>0, <1>1, <1>4, UntouchedStream DEF InFlight
<1>6. ASSUME NEW t \in Stream PROVE StreamOK(t)'
  BY <1>2, <1>3, <1>5
<1>7. QED
  BY <1>1, <1>3, <1>4, <1>5, <1>6, StreamByStream
=============================================================================
