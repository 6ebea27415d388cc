----------------------------- MODULE Connection -----------------------------
(***************************************************************************)
(* Whether the deployed agents can be reached: apps/shared/runtime.js asks *)
(* /api/runtime once for the whole page, and every block that has to say   *)
(* so waits on that one promise (apps/workspace/workspace.js).             *)
(*                                                                         *)
(* A block is drawn as CHECKING and paints itself when the promise         *)
(* settles, if it is still in the document then.  Callbacks on a settled   *)
(* promise run before the next event, so they belong to the action that    *)
(* settles it or draws the block.                                          *)
(***************************************************************************)
EXTENDS Naturals

CONSTANTS PageBlock,   \* the blocks that are drawn with the page
          Sheet        \* the sheets that may be opened over it, one after another

SheetBlock == Sheet \X {"case", "result"}
Block == ({"page"} \X PageBlock) \cup SheetBlock

ASSUME SheetAssumption == "page" \notin Sheet

VARIABLES server,   \* where the page was loaded from
          runtime,  \* _runtimePromise: not asked, pending, or what it settled to
          block     \* what each block of the page says

connVars == <<server, runtime, block>>

Servers  == {"workspace", "static", "disk"}
Outcomes == {"ready", "refused", "unknown", "offline"}

\* What may come back. Any server can stop answering before it has answered.
Replies(s) ==
    CASE s = "workspace" -> {"connected", "not connected", "unusable", "none"}
      [] s = "static"    -> {"unusable", "none"}   \* its own 404 page
      [] s = "disk"      -> {"none"}

\* runtimeState(): the fetch that fails is offline, the reply that cannot be used
\* is unknown; connectionCopy() has words for each.
Outcome(reply) ==
    CASE reply = "connected"     -> "ready"
      [] reply = "not connected" -> "refused"
      [] reply = "unusable"      -> "unknown"
      [] reply = "none"          -> "offline"

\* A block as it is drawn, at the end of the handler that draws it.
Drawn == IF runtime = "pending" THEN "checking" ELSE runtime

ConnInit == /\ server = "workspace" /\ runtime = "not asked"
            /\ block = [b \in Block |-> "absent"]

\* The page's scripts draw its blocks, and the first of them sends the question.
LoadPage ==
    /\ runtime = "not asked"
    /\ server' \in Servers
    /\ runtime' = "pending"
    /\ block' = [b \in Block |-> IF b[1] = "page" THEN "checking" ELSE "absent"]

AnswerThoseOfTheLoad(reply) ==    \* a bug: a block drawn later waits for nothing
    /\ runtime = "pending" /\ reply \in Replies(server)
    /\ runtime' = Outcome(reply)
    /\ block' = [b \in Block |-> IF b[1] = "page" THEN Outcome(reply) ELSE block[b]]
    /\ UNCHANGED server

\* The promise settles and every block still in the document paints itself.
Answer(reply) ==
    /\ runtime = "pending" /\ reply \in Replies(server)
    /\ runtime' = Outcome(reply)
    /\ block' = [b \in Block |-> IF block[b] = "checking" THEN Outcome(reply)
                                 ELSE block[b]]
    /\ UNCHANGED server

AnyAnswer == \E reply \in Replies(server) : Answer(reply)

-----------------------------------------------------------------------------
ConnTypeOK ==
    /\ server \in Servers
    /\ runtime \in {"not asked", "pending"} \cup Outcomes
    /\ block \in [Block -> {"absent", "checking"} \cup Outcomes]

\* "Two answers to one question is how two screens in one application come to
\* disagree": every block says what the one call answered, including the blocks of
\* a sheet that was opened before, while or after it answered, and none of them
\* says READY or NOT CONNECTED before "either sentence is available".
BlocksSayTheAnswer ==
    \A b \in Block : block[b] \in {"absent", Drawn}
=============================================================================
