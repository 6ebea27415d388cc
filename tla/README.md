# Verification of mining-agents

TLA+ models of the mining-agents repository, the TLC configurations that check
them on small instances, and TLAPS proofs of what matters most for every
instance. Paths below are relative to the repository.

## 1. The system

mining-agents is a catalogue of agents on Google's ADK, deployed as Cloud Run
services and as Vertex Agent Engines, a BigQuery data set they read, a browser
workspace that asks them questions, and the scripts that build, load, deploy and
probe all of it.

| Part | State it keeps | Operations | Talks to |
|---|---|---|---|
| Agent stream (`apps/workspace/agent-stream.js`) | EventSource, `finished`, calls by id | open, message, proxy-error, proxy-done, onerror, close | the server, a page's three callbacks |
| Workspace server (`apps/workspace/server.py`) | none between requests | `/api/stream`, `/api/invoke`, `/api/runtime` | Cloud Run services, the browser |
| Role page (`chat.js`) | the live question, its panes and log | ask, stop, close, onStep, onError, onDone | agent stream, router |
| Handover sheet (`handover.js`) | the live run, one pane, the omission band | click, pagehide, the three callbacks, print hooks | agent stream |
| Runtime status (`apps/shared/runtime.js`, painted by `workspace.js`) | one cached promise, the blocks that wait on it | ask once, paint | the server, every page |
| Approval sheet (`hitl.js`) | the open sheet, the hold and its timer | open, hold, release, complete, close | the reader, runtime status |
| Router (`router.js`) | none | route, starter questions | role page |
| Answer rendering (`apps/shared/plain.js`) | none | cut failed calls out, render | role page |
| Trace screen (`apps/case/graph.js`) | tab, controls, pending timers, what is lit, words, log, rows | tab, run, refuse, play, reset | the reader |
| Front end (`apps/frontend/app.js`) | the screen shown, its timers and animation, the address; selection, hover, filters and gesture of the data graph | go, enter, hashchange; press, drag, release, filter | the reader, the browser's history |
| Swarm workflow (`mining_agents/patterns/swarm.py`) | graph position, critic's tool budget in the session's state | fan-out, barrier, critic, coordinator | tools, ADK, approvals |
| Tool boundary (`mining_agents/tools/*`, `safety/*`, `envelope.py`) | cached clients, project aliases | lint, dry run, query, mask, wrap; diagnostics | BigQuery |
| Run log, approvals (`runlog.py`, `tools/request_approval.py`) | rows in BigQuery | one row per run; a PENDING request, its status | BigQuery |
| Estate scripts (`scripts/rebuild_engines.py`, `register_agents.py`, `prune_redundant_engines.py`) | remote engines and Gemini Enterprise entries | delete, create, repoint, register, prune | Vertex AI, Discovery Engine |
| Data pipeline (`data/generator/backup.py`, `load.py`, `run_all.py`) | live, staging and backup tables | back up, dry run, apply, roll back | BigQuery |
| Probes and acceptance (`scripts/probe_group.py`, `uat_run.py`, `uat_rescore.py`, ...) | JSONL ledgers | ask, retry, record, rescore | engines, a browser |
| Local proxy (`scripts/proxy_workspace.py`) | a cached identity token, shared by the server's threads | mint, relay whole, relay as it arrives | the deployed workspace, the token endpoint |
| Landing page (`apps/landing.js`, `apps/shared/motion.js`) | elements shown and timeouts to show them, a playback, counts | reveal, count, play, input | the reader |

What is hard in it, and what makes each part correct:

* **Asking an agent.** One answer takes a minute or two and is relayed chunk by
  chunk over a connection that may be refused, break, or be closed by the reader
  at any byte, to a browser API that reconnects by itself. Correct means: one
  stream at a time, no question sent twice, every question ends once, and what
  the page says of the ending is true.
* **Changing the estate.** Each agent needs up to four remote calls that change
  something, with a quota whose slots come free late. Correct means: never two
  engines for an agent, never more engines than before, no entry pointing at a
  deleted engine, and an interrupted run that can be finished.
* **Running a swarm.** Three specialists in parallel, a barrier, a critic with
  a bounded budget, a coordinator. Correct means that the critic audits all
  three, that nobody concludes before it or asks a human to approve what it has
  not seen, and that a budget is never overspent nor shared with another question.
* **The pages.** Single-threaded, but every page holds things that outlive the
  handler that made them: a promise many blocks wait on, an interval, timers of a
  walk or of a tab, a click that follows a release, a hashchange that comes late.
  Correct means that what is on the screen is about the present selection and not
  about the one before it, and that a hold was held.
* **Reading data.** A query is linted, dry-run, compared with a list, then run; two
  tools pass lists of different kinds, and a project has two spellings. Correct means that what
  runs reads only tables its agent declares, that nothing else is refused, and that rows are
  masked and wrapped on every path.
* **Proxying.** Threads share one token and no lock. Correct means that no request is sent with a
  token about to expire, that what an agent says is passed on at once, and that a refused
  credential is told to the reader.
* **Rewriting data.** Ten tables are replaced one by one. Correct means that the
  originals survive every order of backups, loads, failures and rollbacks.

`PROJECT.json` lists every part, modelled or not, and the hazards with their lines.

## 2. Modules

| Module | Models |
|---|---|
| `AgentStream` | server `stream()`/`relay()`, the connection, EventSource and `_streamAgentWithSource`, for a set of streams |
| `Conversation` | the abstract promise: one question in progress, each ends once and for good |
| `Chat` | `mountChat`, EXTENDS `AgentStream` |
| `Handover` | `mountRun`, EXTENDS `AgentStream` |
| `Connection` | `runtimeState`, `connectionCopy` and the blocks of `workspace.js` that wait on the one call |
| `Approval` | `openApproval`, EXTENDS `Connection`: the sheet draws blocks of its own |
| `GraphScreen` | the trace screen with its three walks and their playback |
| `Screens` | the front end's `App` router, the browser's history, entering the two drawing screens |
| `DataGraph` | gestures, filters and emphasis of the front end's data graph |
| `PlainAnswer` | `plainAnswer` on an answer that grows line by line |
| `Router` | `route`, `scoreAgent` and the starter questions |
| `Swarm` | `build_swarm`'s graph, `critic_tool_budget_callback`, `request_approval` |
| `ToolBoundary` | `run_query` with its checks and cached aliases, as `bq_query` and `run_diagnostic` call it |
| `Proxy` | `_TokenCache` under the proxy's threads, and the relay of a reply |
| `Motion` | `reveal` and `countUp`, and the landing page's slider |
| `EngineEstate` | the three estate scripts over engines, entries and the quota |
| `DataLoad` | backup, apply, dry run and rollback over live, backup and staging tables |
| `Pages` | the pages of the two applications: `Approval`, `GraphScreen`, `Screens`, `DataGraph`, `PlainAnswer`, `Router`, `Motion` |
| `Service` | what runs behind them: `Swarm`, `ToolBoundary`, `Proxy` |
| `Scripts` | what an operator runs: `EngineEstate`, `DataLoad` |
| `AgentStreamProofs`, `ChatProofs`, `HandoverProofs`, `AnswersProofs`, `PagesProofs`, `ServiceProofs`, `EngineEstateProofs`, `DataLoadProofs` | the proofs |
| `MCChat`, `MCHandover`, `MCPages`, `MCService`, `MCScripts`, `MCEngineEstate`, `MCDataLoad` | instances for TLC |

Operators commented "a bug" are never part of a specification. Each is a
plausible fault of the definition below it, and is there to show that the
property it is paired with in `PROJECT.json` can fail.

### AgentStream, Chat, Handover

A question is identified with its stream. The server's `relay[s]` walks through
`guards`, `session`, `run`, `relaying`, `ending`, `ended`, one value per place
where the coroutine waits; each action runs from one such place to the next. The
guards refuse with a status before the stream starts (404, 400 and 503 are one
action). A chunk either completes an event or stops inside one: `cut[s]` says
whether the bytes so far end at an event's boundary, after a complete line, or
within a line, and `ReadAs` is what the browser reads when `_sse` writes behind
such bytes. `wire[s]` holds events in flight. `Drop` cuts the connection anywhere.

On the page's side every handler is one step, because the page is
single-threaded. The actions of `AgentStream` are the browser's events and a page
conjoins its callback; `handle.close()` calls `onDone` synchronously, so it is
part of the `Stop` that `Ask`, `ClosePage`, `Click` and `PageHide` make. `Open`
closes the old stream and starts the new one in one step, as `run()` does.

`ConnectionEnds` contains EventSource's own reconnection: were the source still
open after `onerror`, the browser would send the question again. That the code
always closes it is what `NeverReAsked` establishes, not an assumption.

Data is abstracted to what the properties tell apart. A text is blank or words; a
delegate's text is an author; a tool frame is a call, its response or its failure,
with the line it is described by; a response that reports a gap
(`gapLine`) has a sentence of its own, as a failure has, and is one to the log. Each part of an ADK event is a frame of its own.
`fate`, `heard` and `asks` are history variables. `heard` counts what `onStep` was told of each tool, its calls and its
failures, and whether each call had its response before the next one (`inTurn`).

### Connection, Approval

`runtime` is the cached promise and `block` what each block says. A block that is
drawn when the promise has settled paints itself before the next event, so `Drawn`
is what it says at the end of the handler that draws it; `Answer` paints all
that are in the document. `Open` draws a sheet's case block and `Complete` its
result block. A sheet is a value of `Sheet`, raised once: a sheet that is opened
again is another element.

Time passes in `Pass`, by units of which a hold takes `HoldUnits`, and counts stop there,
because the code only compares with `HOLD_MS`. `tick` runs every 60 ms and does
nothing that the model tells apart before the end. `Held` is
the length `tick` computes: with `start` at zero, the time since the page was loaded. `close()`
leaves the interval of a hold that is on; `Complete` fires it on a sheet that is
gone. A pointer and the Space key may be down together, and a release of Space
while the window is without focus reaches nobody (`unseen`). Contact is one pointer.

### GraphScreen, Screens, DataGraph

In `GraphScreen` a row is the path it was found on. `walk` is the run whose timers are
pending and how many have fired: one array holds them all, they are set together,
and they fire in order. `Refuse` leaves them, as `run()` does. `Match` is written from
the MATCH clauses of `graph_traverse.py`, with sets of paths and no walk.

In `Screens`, `timers` counts pending `setTimeout(enter, 50)`, and a pane that is not shown
measures zero wide, on which `startCanvas` returns. `entries` and `current` are the
tab's history: `pushState` drops what is ahead and announces nothing, Back, Forward and
the address bar announce a `hashchange`, which is handled later on whatever the
address is by then.

`DataGraph` has one pointer, which is down on a table, on the ground or outside the surface.
A click reaches the surface if the pointer went down and up on it; a pointer that is captured
ends on it wherever it is let go. `emphasis` is what the class
lists say; positions, and the dimming of joins, which follows that of their tables, are left out.

### PlainAnswer, Router

`Arrive` calls `plainAnswer` on the whole text, as a page does at each frame: `_unglue`, which makes the lines,
then `_cutFailures` on the lines as they are written, then `_dejargon` on each line of what that leaves, then `_markdown`.
The model starts from the lines that `_unglue` makes, and a line is its kind. A line about a failed call, and a blank
one, is what `_cutFailures` takes it for. Any other is what `_markdown` takes it for once `_dejargon` has been over it; `code`
is one that `_dejargon` empties (`Dejargon`). Such a line is not blank to `_cutFailures`, so it ends a passage, and is blank to
`_markdown`, so it ends a paragraph. Bodies and drawer keep the numbers of the lines they show. The loops of `_cutFailures` are
recursive functions of the line they stand at, `Passage` for the inner one, and that of `_markdown` one of the lines rendered.

In `Router` a word is a value and stop words are none. The model opens a role page on a
catalogue (`OpenRole`) and takes one question (`AskRole`); both operators are pure. A question made of a capability is
its words (`QuestionOf`), which need not be the words that the capability scores with (`WordsOf`).
`Worth` says what a question is worth without the order of terms that `scoreAgent` works through.

### Swarm

`node[i][n]` is what node `n` does for question `i`, and `heard` the agents its input derives
from. Of the workflow engine only this is assumed: an agent starts on what a
predecessor has reported, a `JoinNode` when all have, and a node that raises aborts the
run. The callback awaits nothing between reading and writing the counter, so it is one
action; the tools it lets through run side by side. `Key` is the key of
the session's state, which all questions share. Inserts of a request may be repeated, under a
fresh id each time, because the agent that got no answer may try again.

### ToolBoundary

A name is a pair of a project's spelling and a table, which is what `_strip_home_project` tells apart.
Spelled `none`, it is a declaration as the catalogue writes it. `setting` is what
`GOOGLE_CLOUD_PROJECT` holds: the id, or on Agent Engine the number, while BigQuery reports the id
always. `Resolved` is the external dry run: a view is reported as its base tables, and
`Redefine` may replace a view at any time, between the dry run and the run too. Calls are separate
and share the cached aliases, `homes`, only; `Compare` reads and fills them in one step, and two probes at once would
write the same. A call keeps the list it was checked against (`listed`), which for `run_diagnostic` is
what the diagnostic's own text names. `Refuse` is any refusal before the comparison.

### Proxy

A token is the time it was issued at. `get()` is one action per place where another thread
may run between two effects of it: the look, the mint, the assignment of the token, that of its expiry, and the
reading of what is returned. `Tick` is guarded by `MaxPause`, which bounds a stay in `get()`, the
call to the token endpoint included (in the code a 30 s timeout per socket operation, against a margin of 300 s):
without a bound a thread could sleep over its token. `serve()` mints first, on the main thread. A
refusal is a `SystemExit`: from a handler it ends the thread, for which `threading` prints
nothing (`MintRefused`). A stream is three counts, what the upstream produced, what was relayed and whether it
ended. A reader who has left is noticed at the next write.

### Motion

Elements are numbered in reading order, and `seen` is how many of them are above the mark, for the reader scrolls a
page of one column. An element's timeouts are a set of times, in the 60 ms of the stagger; a tick sets another as long as the class is not
there. Timers with different deadlines run in that order; the intervals of the slider and the figures may be late by any
time.

### The pages together

Each page is a document of its own with its own scripts, so `Pages` opens one of seven
and stays on it: the interleavings are within a page, and one run checks them all. In the same way `Service` looks
at the swarm, the tools or the proxy, and `Scripts` at the estate's scripts or the data's. Fairness is that of the part a run is about (`TeamFairness`, `LandingFairness`).

### EngineEstate

Engines are `[of, build]` records, so names are never reused. A run of a script is
`script`, the call it is about to make (`at`), the agents left (`todo`) and the two
listings it took at its start. Every remote call is an action, with an action or
a disjunct for being refused, and `Interrupt` covers Ctrl-C and the exceptions
that `api()` does not catch. `busy` counts the slots that anything else holds,
which includes an engine that was deleted a moment ago; `Release` and `Take` move
it. The polls of the listing are one step: whether one of them is passed depends
on a count that may or may not show what was deleted. Grounding probes read only,
and decide which agents `--all` asks for, so a run may be asked for any list,
one that names an agent twice included: nothing in the scripts removes the repetition, and
`twice` remembers which agents a register run was asked for twice. One script runs at a time: they are an operator's commands.

### DataLoad

`data` says what the live table, the backup and the staging copy of each table hold:
original, regenerated or botched rows, none, or no table at all; row counts come from
two constants, because the code compares counts. A command is `command`, the BigQuery
job it is about to run (`job`) and the tables its loop has left (`tables`). Each job is an
action; the restore script is two, since BigQuery runs its statements one after
the other, outside a transaction. Reads that decide nothing a job has not decided
are left out: the comparison of fingerprints around a dry run, of digests around an apply,
and of row counts after a restore can only fail when something else writes to the data set.

`Raise` is any job that fails and Ctrl-C, which only `dry_run` turns into a sweep of the
staging tables; `Kill` is the end of the process, and an exception in that sweep. A job
that was submitted is taken to be over, done or not, before the next command is given.
`blind` records the live tables that a rollback truncated although there was no original
to restore. The generators write files, from calibration files, and only decide whether a command
starts (`Refuse`).

## 3. Runs

| Run | Shows | Bounds | Size |
|---|---|---|---|
| `chat` | eight properties below | 2 questions, 1 delegate, 1 tool, 3 chunks | 888 k states |
| `chat_break`, `chat_parallel` | counterexamples | 1 question, 2 chunks | |
| `handover` | three properties below | 2 runs, 1 delegate, 1 tool, 3 chunks | 250 k states |
| `handover_finished` | counterexample | 1 run, 1 chunk | |
| `pages` | twelve properties below | 2 sheets, hold of 2 units; 3 machines, 3 orders, 2 operators; 3 screens, 4 history entries, 2 timers, 2 late hashchanges; 3 tables; 5 lines; 5 agents, 4 words; 5 elements, 3 frames, 1 figure | 245 k states |
| `graph_refused` | counterexample | the same | |
| `service` | six properties below | 3 specialists, 2 questions, ceiling 3, 2 calls at once, 2 requests each; 2 agents, 2 tables, 1 view, 1 foreign table, 6 queries; 2 handlers and the main thread, lifetime 5, margin 4, stay 1, clock to 8, 1 chunk | 568 k states |
| `scripts` | ten properties below | 2 agents, 1 older duplicate, 3 slots, 2 new engines, 3 script runs; 3 tables, 2 of them regenerated with their old row count, 4 commands | 1.8 M states |
| `engine_dangling`, `engine_rerun`, `data_blind` | counterexamples | the same | |

Two questions are the smallest number with one that stops another; the properties
relate at most two. Three chunks (`MaxFrames`, shared by all streams) are enough for a call, its
response and the call after it, which is where suppressing repeats goes
wrong, and for a half event behind a complete one. Three script runs cover damage, a
second run that finds it, and a third that finds the repair; two new engines let one be
built, lost and built again. Three slots for two agents and a
duplicate put the estate at its cap. Three tables have a first, a middle and a last one, and
the two orders differ; four commands cover a backup, an apply that is cut short, a
rollback or dry run over what it left, and one more. Two sheets are one that is left with its
hold on and one that is opened over it. The machines depend on each other in cycles and are
reached in two ways at one distance, three hops being the code's own bound. Two timers of 50 ms and
two late events are the fewest that can overtake each other. Five lines hold two
passages with a blank line, a list or text between any of their parts. Five agents are
one more than a pick and its three runners-up. Two questions and a ceiling of three with
two calls at once let a critic reach the ceiling in the middle of a turn while another spends. Two agents differ in their grant and in how they spell it; one view may stand for granted tables, others, or none. Three threads and a clock that outlives a token by a margin let every one of them refresh, twice one of them, across each other; the margin is the least that the assumption allows. Elements noticed at several ticks take the stagger past its wrap. The specifications may stop: nobody has to
ask a question, and the bounds end the runs, so deadlock is not checked.

Properties of `chat`:

* `OneOpenStream`: the live question is exactly the one whose EventSource is open.
* `NeverReAsked`: no ending sends a question a second time.
* `NoContradiction`: "finished without writing" never stands by an error or an answer.
* `BreakIsReported`: a reply that broke has an error block, except for the case below.
* `CallsAreLogged`: a tool that is called again and again, each call after the response to the one before, has a line of
  the log for every call and one for every failure. Calls that are made together do not: `chat_parallel`.
* `StoppedIsSilent`: stopping decides nothing, and nothing is written afterwards.
* `ChatIsConversation`: the page implements `Conversation`.
* `AnswerSettles`: every question comes to an end (liveness).

`pages`:

* `BlocksSayTheAnswer`: all blocks say the same, and none says anything before the answer.
* `CompletesOnlyHeld`: a sheet on the screen is completed only by what began the hold, held for
  the whole time. A hold whose release another window swallowed is excepted: the page cannot know
  of it, and its timer does complete a hold nobody keeps.
* `TimerStops`: the interval of a hold stops in the end, closed sheet or not (liveness).
* `AnswerIsTheMatch`: the rows of a finished run are the pattern's for the printed parameters, and the
  drawing lights them and nothing else.
* `OneWalkOnScreen`: words, log and pending steps are the printed call's, unless it was refused.
* `ShownIsDrawn`, `AddressNamesScreen`: the animation, the graph and the address belong to
  the screen that is shown.
* `ClickOrDrag`: drags do not select, presses do, and the click that follows undoes neither.
* `PageSettles`: every element of the landing page enters and every timer ends, whatever the reader did before, if the
  reader comes to its end (liveness).
* `NoWordsAreDiscarded`: every line that has words for the reader is shown once, in order, in the body or the drawer,
  whatever machine text stands between, and every failed call has a sentence of its own.
* `PickIsBest`, `StartersRouteBack`: the agent that is asked is worth most, with the documented
  tie-breaks; each derived starter routes to the agent it came from.

`service`:

* `AuditIsWhole`: the critic hears all specialists, the coordinator all and the critic, and
  an approval request comes of an audited conclusion.
* `BudgetIsItsOwn`: a critic is served at most the ceiling, and refused only at it.
* `GrantHolds`: a query that runs was found to read only what its agent declares, also when the list it
  was checked against was its own.
* `NoFalseRefusal`: and one that reads only that is not refused for it.
* `TokenOutlivesRequest`: no request is sent with a token that has no more to live than the margin less three stays
  in `get()`, a bound that TLC finds to be sharp.
* `StepsArrive`: what was produced is relayed to a reader who stays, though the agent never speaks again (liveness).

`handover`: `BandFollowsAnswer` (the band says "written" exactly when the pane above it has text);
`HandoverIsConversation` (the sheet implements `Conversation` too, under its own mapping `Outcome`); `RunSettles`.

`scripts`, of the estate `OneEngineEach`, `EstateNeverGrows`, `OnlyMissedDangle`, `CleanRunCompletes` and `TwinIsKept`; of the
tables:

* `BackupIsOriginal`: nothing but original rows is ever in a backup, though a backup is
  trusted by its row count, except for a table in `blind`.
* `OriginalSurvives`: the original rows are live or backed up, with the same exception.
* `CleanEndHolds`: a command that ends without an error has done its work on every table.
* `StagingIsSwept`: a dry run that is not killed leaves no staging table.
* `LiveIsGuarded`: live tables change by a rollback, or by an apply while every original is backed up.

The type invariants of all modules (`PagesTypeOK` is that of all pages together), `OneOpenStream` and `NeverReAsked` of
`Handover`, `TimerIsOfTheHold`, `EmphasisIsCurrent` and `ReaderOwnsSlider` hold for every instance (section 4), so no run
checks them.

Fairness is weak, per stream, on the server and on the browser. uvicorn runs its
tasks, the agent's service ends every reply within its request timeout, the
connection ends when the response does, and the browser dispatches what has
arrived. Nobody is assumed to ask, to stop or to lose a connection. In `pages` it is weak on the
passing of time, on an interval that is due and on the answer to the fetch, which comes or
fails; the reader owes nothing. `Swarm` has no liveness property: a model may never report, which is why
the critic has a budget, and the workflow sets no timeout. In `Proxy` it is on a thread that has something to read or to
write to; the upstream owes no further chunk and no end, which is the point of `StepsArrive`. In `Motion` it is on
timers. `EngineEstate`
and `DataLoad` have no liveness property: an operator need not run anything.

### Disagreements found

1. `chat_break`: a reply that breaks inside a data line swallows the relay's own
   error event, and the page says that the agent finished (`server.py:349`).
2. `chat_parallel`: two calls of a tool with a constant sentence, both heard before either response, as when two
   specialists work in parallel, are one line of the activity log; if both fail it stays the only one (`chat.js:182`, against
   `chat.js:177`: "is doing four things, not one").
3. `handover_finished`: a failed run is also told to have finished (`handover.js:308`).
4. `engine_dangling`: an entry whose deletion was refused is left pointing at a
   deleted engine (`rebuild_engines.py:191`, `prune_redundant_engines.py:121`).
5. `engine_rerun`: "re-run to finish it" does not finish a rebuild
   (`rebuild_engines.py:184`).
6. `data_blind`: a rollback of a table without a backup removes the only copy of its
   original rows (`load.py:438`).
7. `graph_refused`: a refused trace leaves the timers of the walk before it, which write
   under the refused call and hand back the other's rows (`graph.js:819`).

Others that came up while modelling and have no run of their own:

* A credential that is revoked while the proxy runs is reported by no message: `_mint_identity_token` raises
  `SystemExit` in a handler's thread, which `threading` ignores in silence, and the browser's connection is closed without a
  reply (`proxy_workspace.py:140`; line 104 promises the reader "a legible message"; `MintRefused`).
* "Nothing is discarded" (`plain.js:835`), but the machine text that `_dejargon` deletes after the passages are cut is
  neither shown nor in the drawer: a line of nothing else splits its paragraph in silence (`code`, which is why
  `NoWordsAreDiscarded` speaks of words), and of a list item of it a paragraph "-" is left.
* Of seven elements that one tick notices the seventh enters with the first, before the second to the sixth, because the
  stagger wraps (`motion.js:50`; line 4: "in reading order").
* After a clean end without text the handover's band still says that the brief is being
  written (`handover.js:305`; `BandFollowsAnswer` only speaks of "written").
* An agent that `--agents` names twice is given two engines (`register_agents.py:378`; the
  exception `twice` in `OneEngineEach`).
* Behind a static file server `/api/runtime` answers with its own 404 page, so the blocks say
  "unknown", where `runtime.js:59` expects the offline words.
* `go()` pushes a history entry for a `hashchange` too, so Back to another screen
  drops everything ahead of it (`Screens`, `HashChange`).
* A reader who leaves the architecture screen within 50 ms has its graph laid out in a hidden pane, in
  the default width (`EnterGraph`).
* `pointercancel` runs `release`, so a cancelled press selects, and it leaves `swallowNextClick` set
  for the next click (`Cancel`; `ClickOrDrag` allows for both).
* The rows table shows the previous run until the last timer of the next one.

## 4. Proofs

`ChatProofs` proves, for any sets of questions, delegates and tools and any
number of chunks, from `FramesAssumption`, `AuthorAssumption` and `NoRunAssumption`:

* `TypeCorrect`: `Spec => []TypeOK`, from the lemmas of `AgentStreamProofs` on
  what the server, the network and the browser do to the stream variables.
* `Invariance`: `Spec => []IInv`. `OneOpenStream` is not inductive by itself. That
  a question never reopens needs `ClosedByFinish` (a source is closed exactly when
  its `finished` flag is set) and `AskedOnce`; that a stopped question is out of
  reach needs `AbandonedIsClosed`; that an ending is final needs `VerdictIsLast`
  and `DecidedWhenClosed`. `IInv` is their conjunction.
* `OneStream`, `AskedAtMostOnce` and `PageIsConsistent` follow from it.
* `BreaksAreReported`: `Spec => []BreakIsReported`. The reply fails on the server and the block is written on the page, so
  the invariant `BreakInv` follows the failure between the two: `FailureIsOnItsWay` says that a reader who still waits has
  its error block, or `proxy-error` is in flight, or the connection ended without `proxy-done`, which `onerror` will report.
  It rests on what `StreamInv` says of any page's events in flight, proved in `AgentStreamProofs`: `proxy-done` is the last
  (`DoneIsLast`) and is written of a reply that has ended (`DoneHasFate`), an event never stands before the agent was asked
  (`BoundaryFirst`), and a closed source has no connection (`ConnFollowsSource`).
* `CallsHaveLines`: `Spec => []CallsAreLogged`. A call's line may absorb one repeat, so the count alone is not inductive:
  `RoomIsSpare` says that a last line that has absorbed nothing, of a tool that waits for no response, is one more than that
  tool's calls, so the next call may be absorbed by it; and that while a tool waits, its failure is not the last line, so none
  is absorbed by another. What a frame does to the number of lines is `LineCounts`, from the library's facts on finite sets.
* `StoppedStaysSilent`: an action property, by one case per handler.
* `ImplementsConversation`: every step of the page is an `Ask`, a `Settle` or a
  stutter of `Conversation` under the mapping `Outcome`. `EndingsAreFinal` carries over what that specification
  promises: `OutcomeIsFinal` and `OneAtATime` follow from `Conversation` alone, so they hold of the page.

`EngineEstateProofs` proves the type invariant and every property of the estate in the run `scripts`, for any finite
catalogue, any duplicates, quota, lists of agents and number of runs, from
`HolderAssumption`, `TwinAssumption`, `NoneAssumption`, `CapAssumption` and
`OrdersAssumption`. None of the properties is inductive: a run acts on listings
that grow old while it works. The invariant `EstateInv` says what stays true of them:

* `RegisterSees`: what a register run saw is still there, and an agent that it saw
  without an engine has none until the run builds it (`OneEngineEach`).
* `RebuildReplaces`: at the calls that build, the current agent has no engine.
* `EntryIsKnown`: of an agent whose listed engine exists, the listed entry is the only
  one, and it is gone when the engine is about to be deleted (`OnlyMissedDangle`).
* `NamesAreNew`: a name built later is in no listing.
* `InPlace`: while rebuild builds there are fewer engines than at its start (`EstateNeverGrows`).
* `ServedSoFar`: what a run without trouble has finished with is served (`CleanRunCompletes`).
* `WorkFits`: each script makes its own calls, for agents of its own kind; an agent
  that prune's plan relies on is there (`TwinIsKept`).

There is one lemma per action. A listing is chosen from `Listings`, so no proof
depends on which of several resources a dict keeps.

`DataLoadProofs` proves the type invariant and every property of the tables in the run `scripts`, for any tables in any two
orders, any row counts (of the profile, at least one row) and any number of commands, from
`OrderAssumption`, `RowsAssumption` and `CommandsAssumption`. `LoadInv` adds to `BackupIsOriginal`:

* `ReplacedIsBackedUp`: a live table is regenerated only where its original is backed up, and
  emptied only there or blindly. This is why a missing backup can still be taken from it.
* `JobFits`: apply loads only with all originals backed up, which `_require_backups`
  concludes from row counts, rightly because of `BackupIsOriginal`.
* `DoneSoFar`: what holds of the tables that a loop is done with; at its end that is
  `CleanEndHolds` and `StagingIsSwept`.

`ScriptsAreBoth` carries all of it to `ScriptsSpec`, the specification that the run checks: it implies `EstateSpec` and `LoadSpec`.

`HandoverProofs` proves the type invariant, `OneOpenStream` and `BandFollowsAnswer` for any runs, from the
assumptions of `AgentStream` and its lemmas. The invariant: a source is closed exactly when its
`finished` flag is set, an abandoned run's is closed, a run not yet started has written nothing, and
the run whose stream is open is the one the page shows. The last is what
ties the shared band to the pane: only the shown run can write to either.

That the sheet implements `Conversation` (`ImplementsConversation`, and with it `EndingsAreFinal`) needs no more
than this invariant: a run that ends by itself has an ending because `onDone` judges it in the same step. That no run is
sent twice (`SentOnce`) needs more, and `EndingInv` adds it: a run is sent when its source is made (`AskedOnce`). It also
records that the judgement is kept: whatever is closed was stopped, or has a text, an error or the sentence
that it finished without one (`DecidedWhenClosed`), which is why `Outcome` never has to answer "undecided".

`PagesProofs` proves what the run `pages` checks of each page, for every value of its constants.

* The sign-off sheet, but for `TimerStops`, for any blocks, sheets and length of hold, from `SheetAssumption`,
  `HoldAssumption` and `NoSheetAssumption`. `CompletesOnlyHeld` speaks of the moment of completion; `HeldSinceBegun`
  carries it there: whatever began the hold on the screen is down, and its own clock is not behind the hold's. `Raising`
  keeps a sheet from being opened with a hold that is left of an earlier one.
* `ShownIsDrawn` and `AddressNamesScreen` for any screens and bounds, `EmphasisIsCurrent` and `ClickOrDrag` for any tables,
  joins and filters: each of them inductive with the type invariant.
* `OneWalkOnScreen` for any graph, which needs that the controls are those of the tab.
* `AnswerIsTheMatch` for any graph. `StockAndFatigueMatch` shows that the part and the fatigue walks give exactly the
  matches of the tool's pattern, and `BlastRadiusMatches` that the machine's walk does, which the code builds hop by hop
  and the pattern states of whole paths. What is lit is not an invariant of the finished run alone: `AnswerInv` adds
  `LitSoFar`, that a walk being played has lit its seed and its steps so far, and at the last step those are all.
* `ReaderOwnsSlider` for any length of the window and any numbers of elements and figures, from `MotionBounds`:
  while the window plays, the reader has chosen nothing.
* `PagesAreSound` and `PagesTypes` put them together with `AnswersProofs`: a step of the page that is open is a step or a
  stutter of every page's own module (`PagesAreApart`), so all these invariants, and `PagesTypeOK`, hold in `PagesSpec`,
  the specification that the run checks. `ServicesAreSound` does the same for `ServiceSpec`.

`AnswersProofs` is about the two places where the page computes something of data of any length: the router and the
answer. Their inductive invariants are short, for each action computes its result anew (`RouterInv` adds that nothing was
routed before the page opened); the work is in what the loops compute. The library states induction with an operator for the
claim, which no prover here can instantiate. So the claim is a set instead: `Least` proves, from the library's
`NatLessThanWellFounded`, that a set of numbers has a least one, and from it follow `Induct`, that a set with zero and the
successors of its members is `Nat`, and its forms for a loop over the items of a sequence (`UpTo`) and for one that jumps
ahead, as `_cutFailures` does over a passage (`Backwards`). `LoopExists` and `WalkExists` show that such a recursive
function exists at all, which its definition by `CHOOSE` leaves open.

* `PicksAreBest`: `RouterSpec => []PickIsBest`, from `AgentsAssumption`, `TermsAssumption` and `WordsAssumption`. The loop
  of `scoreAgent` scores a word with the first term that has it; since terms are pushed in the order of their weights, that
  is the heaviest, and the total is `Worth`, which has no order. `_better` is a total order, so the loop of `route` ends on its
  greatest; `Ahead` is one too, so the runners-up are the first three of it.
* `AllStartersRouteBack`: `RouterSpec => []StartersRouteBack`, from `QuestionsAssumption` too. What the candidates so far
  satisfy is carried through three nested loops, agents within depths within the two passes.
* `AnswersAreWhole`: `PlainAnswerSpec => []NoWordsAreDiscarded`, in four parts. `CutIsWhole` goes backwards over the lines:
  from any line that is not inside a passage, the lines and passages that are cut from there on are all of those below it.
  `DejargonKeeps` shows that emptying the lines of machine text leaves the others, and the blank lines about each sentence, where
  they are. `MarkdownIsFine` goes forwards over what is left: what the blocks show, with the paragraph or list that is open, is what
  was read so far. `AnswerIsWhole` composes them. That a failure begins exactly at the lines `Begins` names needs that the inner
  loop ends where it must (`ClearAfterPassage`), which is the code's reason for stopping at the next announcement.

`ServiceProofs` proves `AuditIsWhole` and `BudgetIsItsOwn`, for any number of specialists and questions, any ceiling and
bounds, from `SpecialistAssumption` and `SwarmBounds`. The invariant adds `HeardSoFar` (what passed
the barrier is the reports of all specialists) and `CountIsServed` (the counter of a question
counts what its critic was served), which holds because no two questions share a key.

It proves `GrantHolds` and `NoFalseRefusal` for any tables, views, grants and queries, from `SourcesAssumption` and `GrantAssumption`:
what is cached is both spellings or nothing, so both sides of the comparison lose the project, and a list (`ListFits`) is
the agent's own or lies within it. And it proves `TokenOutlivesRequest`, for any number of threads and any times with three
stays less than the margin (`TimesAssumption`). The invariant `CacheFits` bounds what a race can do: a
token is at most one stay old when it is put in the cache, so two when any thread dates it, and an expiry is at
most two stays too late; a thread that looked and found it good may stay for another.

Only model-checked: all liveness (`AnswerSettles`, `RunSettles`, `TimerStops`, `StepsArrive`, `PageSettles`), which is
out of the prover's reach. Every other property of a passing run is a theorem.

## 5. Not modelled

* **Data files.** `data.js` and `data-graph.js`, and their copies beside `app.js` under
  `apps/frontend/server/static/`, are generated constants: some 26,000 of the 39,500 lines of the
  applications. What is left is mostly markup built from them (`S1`, `S3` and `S4` of the front end, the
  cockpit, persona, team and value pages). That is why the share of lines that the map covers stays low.
* **Inside a line.** The vocabulary of `plain.js` and what `_dejargon` rewrites or deletes in a line that keeps words, how `_unglue`
  makes lines, wording of reasons, and the placing of nodes.
* **Inside the tool boundary.** The regular expressions of the lint and of the output filter, the wrapping of
  untrusted columns and the conversion of cells are functions of one text or one row. A view that changes between the dry run and the
  run is read as it then is; `GrantHolds` speaks of what the dry run found, since both ends of that window are inside BigQuery.
* **Unused code.** `runlog.py`, `approval_status`, `SpecialistResult` and `barrier()` are called by
  nothing outside the tests.
* **Scripts around the system.** `uat_rescore.py` rewrites the ledger that `uat_run.py` appends to;
  they are run by hand, one after the other. Deployment, packaging and IAM scripts drive external tools.
* **Sequential and deterministic code.** Data generators, the catalogue, method packs, `build.py`.
* **Two handlers over one list.** The handover's print hooks: `beforeprint` fired twice before
  `afterprint` forgets which disclosures it opened.
* What ADK, EventSource, Starlette, the browser and the Google services do is modelled from how the code uses
  them, and marked external in the map.

What would come next: `/api/invoke`; the two-table state of the print hooks.
