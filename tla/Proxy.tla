------------------------------- MODULE Proxy -------------------------------
(***************************************************************************)
(* The local authenticated proxy, scripts/proxy_workspace.py: one cached   *)
(* identity token that the threads of the server share without a lock, and *)
(* the relay of a reply.  A token is named by the time it was issued at;   *)
(* the token endpoint, the upstream service and the reader are external.   *)
(***************************************************************************)
EXTENDS Integers

CONSTANTS Handler,     \* threads of ThreadingHTTPServer
          Main,        \* the thread of serve()
          Lifetime,    \* expires_in
          Margin,      \* REFRESH_MARGIN_SECONDS
          MaxPause,    \* bound: how long a thread may be inside get()
          MaxNow,      \* bound: the clock
          MaxChunks    \* bound: chunks of a stream

ASSUME TimesAssumption ==
    /\ {Lifetime, Margin, MaxPause, MaxNow, MaxChunks} \subseteq Nat
    /\ 3 * MaxPause < Margin /\ Margin < Lifetime
ASSUME ThreadsAssumption == Main \notin Handler

VARIABLES now,
          token, expiresAt,  \* the two fields of _TokenCache
          at,        \* thread -> where it is
          since,     \* thread -> when it entered get()
          minted,    \* thread -> the token it was given
          left,      \* thread -> what its request's token has left to live
          chunks, relayed, ended,  \* thread -> its stream, upstream and downstream
          open       \* thread -> the reader is still there

tokenVars == <<token, expiresAt, since, minted, left>>
streamVars == <<chunks, relayed, ended, open>>
proxyVars == <<now, tokenVars, at, streamVars>>

NoToken == -1
Threads == Handler \cup {Main}
InGet == {"get", "mint", "assign", "stamp", "return"}

ProxyInit ==
    /\ now = 0 /\ token = NoToken /\ expiresAt = 0
    /\ at = [t \in Threads |-> IF t = Main THEN "get" ELSE "idle"]
    /\ since = [t \in Threads |-> 0] /\ minted = [t \in Threads |-> NoToken]
    /\ left = [t \in Threads |-> 0]
    /\ chunks = [t \in Threads |-> 0] /\ relayed = [t \in Threads |-> 0]
    /\ ended = [t \in Threads |-> FALSE] /\ open = [t \in Threads |-> FALSE]

Goes(t, from, to) == at[t] = from /\ at' = [at EXCEPT ![t] = to]

-----------------------------------------------------------------------------
(* The token.                                                              *)

\* do_GET or do_POST, once serve() has its first token.
Request(t) ==
    /\ at[Main] = "serving" /\ t # Main
    /\ Goes(t, "idle", "get")
    /\ since' = [since EXCEPT ![t] = now]
    /\ UNCHANGED <<now, token, expiresAt, minted, left, streamVars>>

LookWithoutMargin(t) ==    \* a bug: a token is used until it expires
    /\ Goes(t, "get", IF token # NoToken /\ now < expiresAt THEN "return" ELSE "mint")
    /\ UNCHANGED <<now, tokenVars, streamVars>>

\* get: is the cached token good enough?
Look(t) ==
    /\ Goes(t, "get", IF token # NoToken /\ now < expiresAt - Margin
                      THEN "return" ELSE "mint")
    /\ UNCHANGED <<now, tokenVars, streamVars>>

\* _mint_identity_token succeeds.
Mint(t) ==
    /\ Goes(t, "mint", "assign")
    /\ minted' = [minted EXCEPT ![t] = now]
    /\ UNCHANGED <<now, token, expiresAt, since, left, streamVars>>

\* It raises SystemExit.  That ends the process, message and all, from the main
\* thread; from a handler's it ends the thread, of which threading says nothing.
MintRefused(t) ==
    /\ Goes(t, "mint", "refused")
    /\ UNCHANGED <<now, tokenVars, streamVars>>

\* self._token, then self._expires_at, by the clock at that time.
Assign(t) ==
    /\ Goes(t, "assign", "stamp")
    /\ token' = minted[t] /\ minted' = [minted EXCEPT ![t] = NoToken]
    /\ UNCHANGED <<now, expiresAt, since, left, streamVars>>

Stamp(t) ==
    /\ Goes(t, "stamp", "return")
    /\ expiresAt' = now + Lifetime
    /\ UNCHANGED <<now, token, since, minted, left, streamVars>>

\* get returns whatever the cache holds by now, and the request is sent with it.
Return(t) ==
    /\ Goes(t, "return", IF t = Main THEN "serving" ELSE "sent")
    /\ left' = [left EXCEPT ![t] = token + Lifetime - now]
    /\ since' = [since EXCEPT ![t] = 0]
    /\ UNCHANGED <<now, token, expiresAt, minted, streamVars>>

Tick ==
    /\ now < MaxNow /\ \A t \in Threads : at[t] \in InGet => now - since[t] < MaxPause
    /\ now' = now + 1
    /\ UNCHANGED <<tokenVars, at, streamVars>>

-----------------------------------------------------------------------------
(* The reply.                                                              *)

\* The connection is closed, and with it its thread is done.
Close(t) ==
    /\ at' = [at EXCEPT ![t] = "idle"]
    /\ left' = [left EXCEPT ![t] = 0] /\ since' = [since EXCEPT ![t] = 0]
    /\ chunks' = [chunks EXCEPT ![t] = 0] /\ relayed' = [relayed EXCEPT ![t] = 0]
    /\ ended' = [ended EXCEPT ![t] = FALSE] /\ open' = [open EXCEPT ![t] = FALSE]
    /\ UNCHANGED <<now, token, expiresAt, minted>>

\* A document, a refusal or an upstream that cannot be reached: one reply, whole.
Relay(t) == at[t] = "sent" /\ Close(t)

\* The thread that was refused a token has ended, with no reply.
Reap(t) == at[t] = "refused" /\ t # Main /\ Close(t)

\* _relay_stream: the headers go out.
StreamOpens(t) ==
    /\ Goes(t, "sent", "stream")
    /\ open' = [open EXCEPT ![t] = TRUE]
    /\ UNCHANGED <<now, tokenVars, chunks, relayed, ended>>

\* The agent, which may think for as long as it likes.
Produce(t) ==
    /\ at[t] = "stream" /\ ~ended[t] /\ chunks[t] < MaxChunks
    /\ chunks' = [chunks EXCEPT ![t] = @ + 1]
    /\ UNCHANGED <<now, tokenVars, at, relayed, ended, open>>

UpstreamEnds(t) ==
    /\ at[t] = "stream" /\ ~ended[t]
    /\ ended' = [ended EXCEPT ![t] = TRUE]
    /\ UNCHANGED <<now, tokenVars, at, chunks, relayed, open>>

ReaderLeaves(t) ==
    /\ at[t] = "stream" /\ open[t]
    /\ open' = [open EXCEPT ![t] = FALSE]
    /\ UNCHANGED <<now, tokenVars, at, chunks, relayed, ended>>

Write(t) ==
    /\ relayed' = [relayed EXCEPT ![t] = @ + 1]
    /\ UNCHANGED <<now, tokenVars, at, chunks, ended, open>>

RelayChunkWhole(t) ==    \* a bug: read, which waits for a full buffer
    at[t] = "stream" /\ relayed[t] < chunks[t] /\ ended[t] /\ Write(t)

\* read1, write and flush.
RelayChunk(t) == at[t] = "stream" /\ relayed[t] < chunks[t] /\ Write(t)

\* The upstream is done, or a write meets a reader who has left.
RelayEnds(t) ==
    /\ at[t] = "stream"
    /\ \/ ended[t] /\ relayed[t] = chunks[t]
       \/ ~open[t] /\ relayed[t] < chunks[t]
    /\ Close(t)

Proxied(t) == RelayChunk(t) \/ RelayEnds(t)

ProxyNext ==
    \/ Tick
    \/ \E t \in Threads :
         \/ Request(t) \/ Look(t) \/ Mint(t) \/ MintRefused(t) \/ Assign(t) \/ Stamp(t)
         \/ Return(t) \/ Relay(t) \/ StreamOpens(t) \/ Produce(t) \/ UpstreamEnds(t)
         \/ ReaderLeaves(t) \/ Proxied(t) \/ Reap(t)

\* A thread that can read or write goes on; upstream and reader owe nothing.
ProxyFairness == \A t \in Handler : WF_proxyVars(Proxied(t))

ProxySpec == ProxyInit /\ [][ProxyNext]_proxyVars /\ ProxyFairness

-----------------------------------------------------------------------------
ProxyTypeOK ==
    /\ now \in 0..MaxNow /\ token \in 0..MaxNow \cup {NoToken}
    /\ expiresAt \in 0..MaxNow + Lifetime
    /\ at \in [Threads -> InGet \cup {"idle", "serving", "refused", "sent", "stream"}]
    /\ since \in [Threads -> 0..MaxNow] /\ minted \in [Threads -> 0..MaxNow \cup {NoToken}]
    /\ left \in [Threads -> 0..Lifetime]
    /\ chunks \in [Threads -> 0..MaxChunks] /\ relayed \in [Threads -> 0..MaxChunks]
    /\ ended \in [Threads -> BOOLEAN] /\ open \in [Threads -> BOOLEAN]

\* "A session does not fail halfway through with a 401": however the threads that
\* refresh the cache at once interleave (one may overwrite a newer token with an older
\* one, or date the older one by the newer), no request is sent with a token that has
\* less to live than the margin, give or take the time threads spend inside get().
TokenOutlivesRequest ==
    \A t \in Handler :
      at[t] \in {"sent", "stream"} => left[t] > Margin - 3 * MaxPause

\* What the cache and the threads inside get() know of each other, of whichever thread's
\* making token and expiry are.
CacheFits ==
    /\ expiresAt <= now + Lifetime
    /\ token # NoToken => token <= now /\ expiresAt <= token + Lifetime + 2 * MaxPause
    /\ \A t \in Threads :
         /\ at[t] \in InGet => since[t] <= now /\ now <= since[t] + MaxPause
         /\ at[t] = "assign" => minted[t] \in since[t]..now
         /\ at[t] = "stamp" => token # NoToken /\ token >= since[t] - MaxPause
         /\ at[t] = "return" => /\ token # NoToken
                                /\ token + Lifetime > since[t] + Margin - 2 * MaxPause

ProxyInv == /\ ProxyTypeOK /\ CacheFits /\ TokenOutlivesRequest
            /\ \A t \in Threads : relayed[t] <= chunks[t]

\* "Pass an event stream through as it arrives, not once it ends": what the agent has
\* produced reaches a reader who stays, even if the agent never says another word.
StepsArrive ==
    \A t \in Handler : \A n \in 1..MaxChunks :
      (at[t] = "stream" /\ chunks[t] >= n) ~> (relayed[t] >= n \/ ~open[t])
=============================================================================
