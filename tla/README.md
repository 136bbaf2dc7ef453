# Verification of HufiAgents

HufiAgents runs AI agents on behalf of one owner: the owner submits a mission,
a planner cuts it into tasks, each task is executed by an agent with tools, and
risky tool calls wait for the owner's approval. This directory holds TLA+
models of the parts of it in which state, concurrency and failure meet, the
TLC configurations that check them, and theorems checked by TLAPS. Two halves
are modelled: the server (the engine with its tool gateway, routines, rooms) and
the page the owner works with (`api/static/*.js`), which talks to it over HTTP.

File names below are relative to `src/hufiagents/`.

## 1. The system

One process (guarded by a file lock) runs one asyncio event loop over one
SQLite database. API handlers, the polling loop of the engine, the routine
scheduler and one *runner* per active task are coroutines of that loop, so
everything between two suspensions is one **turn**, and nothing interleaves
inside it. What can go wrong is therefore

* between turns: a handler runs while a runner is suspended in a provider or
  tool call;
* inside a turn: the process dies between two commits, or an exception ends
  the turn half way;
* over time: timeouts, retries, restarts, limits.

The page is single-threaded JavaScript. A handler runs up to its next `await`;
between the request and its answer the owner clicks on, views are switched,
timers fire and other answers arrive, in any order. A request may be refused, it
may fail, and it may be carried out by the server while its answer is lost. What
can go wrong there is

* a handler that comes back from an `await` to a page that has moved on;
* answers that overtake each other, or ticks of a timer that overlap;
* state of the page (a closure, a DOM node, a cached list) that no longer agrees
  with the server or with what is shown.

### Inventory

| Component | State | Operations | Hard behaviour | Correct when |
|---|---|---|---|---|
| Task state machine (`orchestrator/state.py`) | status of a task | `validate_transition` | long sequences of transitions | only documented edges, terminal is final |
| Engine (`orchestrator/engine.py`) | tasks, approvals, reviews, `active` runners | `submit`, `resolve`, `cancel`, `start`, `stop`, `recover`, `tick`, `run`, `_fail` | cancel racing a runner; crash at any commit; an exception that kills the loop; the retry budget spent from four places | every task ends; a completed task is really done; slots, queue and dependencies are respected |
| Tool gateway (`tools/gateway.py`) | `tool_calls` rows | `invoke` | crash between an effect and its record; approvals of other calls | an effect happens at most once and after its own approval |
| Store (`persistence/repository.py`) | all rows; missions rolled up from tasks | `transaction`, `transition`, `refresh_mission`, `list` with a limit | roll-up order; truncated lists | mission status agrees with tasks and contract |
| Workspace (`tools/workspace.py`) | files | `create`, `snapshot`, `restore` | torn writes | a file is never taken for whole when it is not |
| Routines (`workforce/routines.py`, `routine_runtime.py`) | schedule, `next_run`, `retry_count` | `create`, `update`, `pause`, `resume`, `archive`, `tick` | crash between claim and submission; downtime; the cap of `retry_count` | no occurrence twice, retries end, every due routine is served |
| Rooms (`room_runtime.py`, fan-in in `engine.py`) | participants, messages, `_room_notified` | `post_message`, `dispatch_mission`, `post_result`, `join_room`, `leave_room`, `set_participation_state` | fan-out failing half way; memory lost at restart; bounded scan | results arrive, once |
| Mission outcome (`refresh_mission`, `corporate_router.py`) | owner's contract | roll-up, summary | blocked for ever; an exception inside the commit | a completed mission meets its contract |
| Workforce (`orchestrator/workforce.py`, `workforce/builder.py`, `workforce/team.py`) | agents, channels, delegations, profile history | `create_agent`, `delegate_task`, `receive_agent_result`, `fan_out`, `fan_in`, `provision`, `archive_agent`, team missions | two transactions per delegation; tasks added outside `submit` | privileges only shrink downwards, every delegation is answered once |
| Sessions (`workforce/sessions.py`, `browser.py`) | session rows, handoff tokens | prepare, activate, snapshot, reset, recover, handoff, close | operations on closed sessions | the lifecycle of a session |
| Browser worker (`browser_worker.py`) | contexts, tabs | `_ensure_session`, `new_tab`, `close_tab`, `stop` | checks before an await | tabs bounded, sessions not shared |
| Organisation graph (`org_graph.py`) | units, relations, credentials, cost | create, relate, archive, `reserve` | cycles, budgets | a forest; spending within the limit |
| Chat surface (`chat.js`, warning in `credentials.js`) | input, thread of turns, one poll timer per mission | `handleSend`, `startRoutineTurn`, `startTurn`, `trackMission`, `ensureApprovalCard`, `renderApprovalCard` | overlapping ticks; lost answers; a warning about a text that has been edited since | one result per turn, cards of the own mission, secrets only by consent |
| Company graph (`org-data.js`, `org-canvas.js`, `rooms.js`) | cached rows, the sidebar's agents, listeners, what is drawn, dialogs | `load`, `loadSidebar`, `addRelationship`, `removeRelationship`, create, drops, lenses, rooms | answers while hidden; several requests under way; Escape in a dialog | the canvas is current, nothing is invented, no access without a choice |
| Views (`nav.js`, `work.js`, `cards.js`) | active view, evidence with its token, subscriptions, list of routines | `show`, `fetchEvidence`, `openForAgent`, `load`, pause, archive | late answers; subscriptions of rebuilt views | lists belong to their filter and end loading |
| Agent pane (`app.js`, `agents.js`, `credentials.js`) | one container shared by all content, dialogs, `connectionState` | `selectAgent`, `openUnitWorkspace`, `loadAgentActivity`, `loadRoutines`, dialogs, credential form | answers to a container that shows something else | activity of the own agent, connections that exist |
| Evidence, knowledge, memory, connectors, MCP | rows | add, select, grant, revoke | scoping | only what was granted is seen |

The parts call each other as follows. The API and the routine scheduler call
`Orchestrator.submit`, as does a room's `dispatch_mission`. `tick` starts
runners; a runner calls a provider, then the gateway for every planned call and
for the artifact, then the reviewer. The gateway creates approvals; the owner
resolves them through the API, `recover` expires them. At the end of every
`tick` terminal missions are posted back to their rooms. The page reads missions,
approvals, routines, evidence and the graph over HTTP and writes through the same
API; inside the page `nav.js` calls the hooks of the views, and the adapter
`org-data.js` notifies the canvas and the projects view of every change.

`PROJECT.json` lists all components with their status and the hazards of the
code with the properties that watch them.

### Plan

1. `TaskStates`, `TaskLifecycle`, `TaskEngine`: the core. *Done.*
2. Inductive invariant of the engine; types, approvals, the loop, the budget,
   at-most-once effects. *Proved.*
3. `Routines` and `Rooms`: the two other callers of `submit`, with their own
   crash windows. *Done.*
4. The page: `MissionChat`, `CompanyGraph`, `Views`, `AgentPane`. *Done.*
5. The lists of the views for any number of requests. *Proved.*
6. The refinement `FollowsLifecycle`, dependencies and completion in the engine,
   and the safety properties of `Routines`, `Rooms`, `MissionChat`, `CompanyGraph`
   and `AgentPane`. *Proved:* every safety property that a passing run checks is a
   theorem now.
7. Left to model: the roll-up of a mission with the owner's contract (in place of
   `ConditionsMet`), team missions, delegations, sessions, the browser worker, and
   the pure functions (policy, provider selection, corporate routing).

## 2. Modules

| Module | Models |
|---|---|
| `TaskStates` | states, transition table, mission roll-up |
| `TaskLifecycle` | abstract specification: what a reader of the store sees of a task |
| `TaskEngine` | engine, gateway, transactions, create-only files |
| `TaskEngineProperties` | what the engine guarantees, its fairness |
| `TaskEngineProofs` | theorems about the engine, with the refinement of `TaskLifecycle` |
| `TaskCallProofs` | theorems about its tool calls and about completion |
| `Routines` | recurring missions |
| `Rooms` | chat rooms, fan-out and fan-in |
| `MissionChat` | the chat surface with its polls, cards and secret warning |
| `CompanyGraph` | graph adapter, canvas and room panel over the server's rows |
| `Views` | switching views; evidence, projects and routines lists |
| `AgentPane` | right pane, dialogs of `agents.js`, credential dialog |
| `RoutinesProofs`, `RoomsProofs`, `ChatProofs`, `GraphProofs`, `ViewsProofs`, `PaneProofs` | theorems about `Routines`, `Rooms`, `MissionChat`, `CompanyGraph`, `Views`, `AgentPane` |
| `MC...` | instances for TLC |

A definition `X_Fault` next to `X` is `X` with a plausible mistake, which its name
describes. It is used only to see that a property notices it (`mutants` in
`PROJECT.json`).

`TaskEngine` instantiates `TaskLifecycle` with its own `status` and `retry_count`
(`INSTANCE ... WITH`); `FollowsLifecycle` says that every behaviour of the engine
is one of the lifecycle. `planning` and `retrying` are passed within one commit,
so the lifecycle allows exactly the compositions of two edges that occur.

### TaskEngine

*State.* Rows of the store (`status`, `retry_count`, the number of `revise`
reviews, the last verdict, stored completions, tool call and approval rows,
mission status), the world (`effects` counts how often a call took effect,
`torn` holds half-written files) and the memory of the process (`active`, where
each runner is, cancellations not yet delivered, whether the loop is alive).
A crash keeps the first two and loses the third.

*Steps.* A runner suspends before its first step, in the provider call, in the
execution of a tool other than `files`, and while it unwinds. Everything else
it does is part of a turn: `Free` says that no turn is in progress, and every
step that begins a turn requires it. The commits inside a turn are separate
steps so that `Crash` can come between them. `tick` walks over the tasks with
`cursor`, one step per task, but in one transaction: `Crash` waits until the
scan ends (or undoes nothing, before its first task).

*Calls.* A call is identified by its idempotency key. Planned calls are
numbered; the artifact of revision *r* has a key of its own, because its path
and content contain the revision. The row goes absent → created → started →
ok or error. The answer of classification and policy is any member of
`Decide[k]`, because the agent's profile can change between two attempts.

*Time.* `aged` holds the running tasks without a runner whose heartbeat may be
older than the timeout. A runner renews the heartbeat, so a task becomes stale
only without one; whether it does before the next poll is left open. An
approval may be overdue at any poll.

*Abstractions.* Prompts, knowledge and results are not modelled; the provider
answers, fails recoverably or fails for good. The reviewer's acceptance
criteria are a free choice. The owner's contract is the constant
`ConditionsMet`. Audit rows are left out.

### Routines

A schedule is its period, and its occurrences are the multiples of it; the
retry policy is what `int()` reads from it, or nothing when it raises. One
`tick` is a turn with three commits per routine: claim, submission, outcome.
`Submit` succeeds or raises freely. `RecordFailure` contains the two ways the
handler itself can raise, which end the tick for the routines after it.

### Rooms

One room. A message is the sequence of its resolved mentions; a request may
name agents itself, repeatedly if it likes. A dispatch commits one mission
after the other and links the message last; the fan-in scan posts a message
and then annotates it. `ended` and `unpostable` stand for the three terminal
statuses, told apart by whether `post_message` accepts the result. A mission
that has ended stays ended.

### MissionChat

A message is the set of signals its patterns find in it (a weekday, a time, a
secret), since only those decide what happens to it. A turn records where its
handler is, its approval cards with the state of their buttons, and the result
cards; `poll` holds the ticks that wait for an answer, with what they have read so
far. The timer starts a tick whether or not the last one is done (`TickStart`), and
the code asks `stopped` again after its awaits (`TickRest`). The server's side is as
much as the chat sees of it: the status of the mission as the roll-up gives it (a
failed task counts before a cancelled one, both before live ones, so a mission
shown as cancelled can still fail), and the approval rows, oldest first.

### CompanyGraph

`rows`, `entries` and `rooms` are the server's; `org` is the adapter's cached state
and `canvas` what is drawn. A request goes *asked* → *answered* or *failed*, where
*failed* covers both a refusal and a lost answer, and only then the page pushes the
row, notifies, and does what the caller does next (`CallAnswered`). A load is two
requests, `GET /agents` (`LoadAgents`) and then `GET /org` (`LoadRead`), which gives the
oldest `OrgLimit` rows of every table; the code's limit is 500. A hidden canvas only
marks itself dirty.

The agents drawn are not the load's: `getAllAgents` takes the sidebar's list (`cache`)
once there is one. `loadSidebar` replaces it without telling the canvas. Any number of
these requests are under way (after a hire, a search, an activity), so an answer is any
list `GET /agents` has given so far (`lists`). `Agents` are the agents followed, among
the first 100 that `GET /agents` lists; the agents seeded by the registry
are in every answer and take no part. `NoList` is the cache before its first answer. What a canvas shows is therefore a lens of the state *with the
agents it was drawn with* (`Portrayed`), and that is what `CanvasCurrent` claims. That
they are the newest is false of the code (section 3).

The access dialog stays open, with its buttons enabled, until its request is answered;
a request whose dialog was closed goes on without one (`Orphaned`), and does not close a
dialog opened later for the same pair. Whether the answer to such a dialog ends in a
re-render depends on what has opened it; the model allows both (`Settled`).
`Refused` is the cycle check of `add_relationship`: it walks along the oldest manager of
every agent, as the code does. Layout, detail cards, the search filter of the list and
the preview data for a missing backend are left out.

### Views

`show` is the whole of `views.show`: `onHide` of the old view, the switch, `onShow`
of the new one. `fetch` maps the token of every evidence request under way to the
filter it asks for; `work.items` is the filter the list shown was asked for with.
A view that is rebuilt leaves the old root's requests writing to detached nodes,
which the model drops. "+ Routine" is modelled by its end, the reload of the list
(`routineCreated`); the new routine would be a second row. `openForAgent` is a contract `work.js` publishes; nothing in
the page calls it yet, and it is modelled like the other entries.

### AgentPane

The right pane is one container. A request remembers whether the element its
handler looked up before the `await` is still in the page (`attached`); what is
looked up after the `await` (the status pill, the list of routines, the container
itself) is whatever is there. `Detach` is the effect of new content on requests
under way. Requests sit in slots, oldest first: `Start` takes the first free one and
`Done` closes the gap an answered one leaves. The credential dialog shares the page.
Credentials are numbered as they are sent; `stored` holds the ones the server has
accepted, `known` is the one `connectionState` knows and `shown` the one the card calls
connected, so that a refused credential is told from one accepted before it. `secret`
holds the requests with the card and the form they belong to.

## 3. Runs

| Run | Instance | Shows |
|---|---|---|
| `engine_work` | a chain of 2 tasks, calls `1, 2, 1`, 1 retry, 1 crash or stop | a call takes effect at most once, only after its own approval; completion means the work is there; revisions are paid; exceptions can be recorded; a cancelled runner starts nothing; the loop survives and every submitted task ends |
| `engine_plan` | 3 tasks in 2 missions, a dependency, 1 slot, a queue of 2, a call above the ceiling, 1 crash or stop | dependencies, ceiling, approvals in step with waiting tasks, terminal is final, and the refinement of `TaskLifecycle` |
| `routines_dispatch` | 2 routines, periods 2 and 3, policies of one retry, of as many as the cap of 2, or unreadable, 1 crash | no occurrence twice, retries end at the cap too, the schedule is found again, no routine stays due |
| `rooms_fanin` | 2 agents, at most 2 targets, 2 missions, a scan of 1, 1 crash | capped fan-out, links, results once in each life of the process; a result arrives unless older missions fill the scan |
| `chat_turns` | 1 turn, 3 kinds of message, 2 overlapping ticks, 2 approvals, 1 warning | one result and it comes last; secrets need consent; recurring messages are never run once; cards belong to the mission and say what was decided; results are shown |
| `graph_canvas` | an agent hired meanwhile, 1 team or resource, 1 row, 1 room, 2 loads and 1 other request under way, a graph lens and the list | a visible canvas shows its lens with the agents it was drawn with; nothing is invented; access only by choice |
| `views_lists` | 5 views, 1 agent, 3 evidence requests, 2 loads, 1 change of the organisation | evidence of the filter; one listener while shown; the checkbox is respected; loading ends |
| `pane_answers` | 1 agent and a new one, 1 area, 1 page, 3 requests of the pane, 2 credentials sent one after the other | activity of the own agent; no connection unless the server accepted that very credential |

Runs that end in a counterexample, each of which disagrees with a sentence of
the repository (quoted in `findings`):

| Run | Counterexample |
|---|---|
| `routines_archived` | the owner of a routine is archived; the routine goes on |
| `rooms_restart` | a restart posts old results again |
| `chat_approvals` | the first approval of a mission is decided, the second never gets a card |
| `graph_forest` | an agent has two managers; a cycle over the newer one is stored |

More disagreements are visible in the models and are listed as hazards, with the
property that keeps to what the code does:

* The reaper sweeps an approved task that merely waits for a slot
  (`docs/ARCHITECTURE.md` promises that it tells slow tasks from orphans).
* "A terminal dispatch failure [...] records a failed notification state"
  (`workforce/routines.py:95-97`). With `max_attempts` at 20, the cap of `retry_count`,
  the failure after the last retry raises in its own handler and is never recorded.
  `RetriesEnd` says that the routine waits for its schedule even so.
* "missions that just reached a terminal state [...] get their result posted"
  (`orchestrator/engine.py:231-234`). The scan lists the oldest 200 ended missions, so
  once there are 200 of them a newer result is never posted. `ResultsArrive` has the
  full scan as its condition, and `rooms_fanin` makes it happen with a scan of one.
* "Tile appears on canvas", "New tiles appear on the canvas when created"
  (`docs/product/ORG-CANVAS.md:226`, `:314`). A hidden canvas is not told of a new list
  of agents, and when it is shown again it lacks an agent hired meanwhile, until
  something else refreshes it. `CanvasCurrent` claims the entries and edges, with the
  agents the canvas was drawn with.
* "the modal still completes, but says so honestly" (`api/static/credentials.js:18-21`, of
  a failed request). The code at 196-204 brings the form back with an error, and a
  comment there forbids a fake connected state. `ConnectedIsReal` follows the code.

The header of `room_runtime.py` and the code also disagree in three smaller
points that the model of `Rooms` follows the code in: a dispatch that names its
agents reaches one that has left ("NOT dispatched under any circumstance"); a
mention does not reach a sleeping agent ("must be @mentioned"); a dispatch
refused half way leaves missions running and the message without a link.

What the model of the pane shows and no property forbids, because the code has no
guard there: a workspace answered late replaces the content opened since; the
status pill and a reloaded list of routines may belong to the agent shown before;
a dialog submitted twice creates twice; a DELETE answered late forgets a
connection made since.

*Bounds.* `MaxRestarts`, `MaxCrashes`, `MaxTime`, `MaxMessages` and
`MaxMissions` bound the behaviours and are guards of the actions they count.
The engine runs take one restart, which may come after any commit; a crash during
the recovery from a crash is beyond them and is covered by the theorems, which hold
for every `MaxRestarts`. Two tasks
compete for one slot; three show a dependency beside an independent task; one
retry gives a second attempt and an exhausted budget. In the page, `MaxPolls`,
`MaxCalls`, `MaxLoads`, `MaxFetches`, `MaxRequests` and `MaxSecrets` bound what is
under way at a time (`MaxPosts` the credentials sent): two requests are enough for one to overtake or supersede
another, three for one that was superseded twice. `MaxRows`, `MaxEntries`,
`MaxRooms`, `MaxTurns`, `MaxWarnings`, `MaxApprovals` and `MaxOrg` bound what is
created; one row can be added, removed and reloaded, and the two approvals are
what a second card needs. One turn suffices because turns share only the input
field and the approval rows, and approvals of untracked missions (turn 0) stand
for the other turns. The rows, entries and rooms of `graph_canvas` stay within `OrgLimit`;
truncated answers of `GET /org`, two requests of the graph and two requests of the
credential dialog under way at once are covered by the theorems of `GraphProofs` and
`PaneProofs`, which hold for all of these bounds. No symmetry is used: tasks, routines and requests are
ordered by their creation.

*Deadlock* is not checked in the page's runs: the owner may stop, and a full
thread with nothing under way is a legal end.

*Fairness.* The polling loops run for ever and every provider or tool call has
a timeout, so a suspended runner is resumed; the service manager restarts the
process; heartbeats and approvals get old. A runner and a poll are not enabled
during the turns of others, but the loop's ready queue is first in, first out,
so their fairness is strong. Nothing is assumed of the owner, and no call is
assumed to succeed. In the page the browser settles every request, with an answer
or an error, and the interval timer fires: weak fairness. `ResultShown` further
assumes that the request for the mission does not fail for ever (strong fairness of
`TickMission`), and `chat_approvals` that none of a tick's requests does, so that
its counterexample is not the network's.

## 4. Proofs

Every theorem holds for every value of the constants that satisfies the named
assumptions of the module, so for any number of tasks, calls, routines, agents,
requests under way, rows, crashes and restarts. The bounds of section 3 are
constants like the others. Each proof has the same shape: an inductive invariant
`IInv` (`Inv` in `ViewsProofs`), a lemma per group of its conjuncts with one step per
action, and theorems that follow from it. TLC finds each invariant true on the instance
of the run too.

| Module | Theorems (property) |
|---|---|
| `TaskEngineProofs` | `Invariance`, `TypeCorrect`, `ApprovalsInStep` (`PendingIffWaiting`), `LoopNeverDies` (`LoopSurvives`), `EveryRevisionPaid` (`RevisionsPaid`), `FailuresRecorded` (`FailureCanBeRecorded`), `LifecycleFollowed` (`FollowsLifecycle`), `TerminalStays` (`TerminalIsFinal`), `DependenciesRespected` (`DependenciesFirst`) |
| `TaskCallProofs` | `EffectsAtMostOnce` (`AtMostOnce`), `OwnerApprovesEffects` (`ApprovedBeforeEffect`), `CompletionIsEarned` (`CompletedMeansDone`), `CeilingKept` (`WithinCeiling`), `NothingStartsLate` (`StartsOnlyWhileRunning`) |
| `RoutinesProofs` | `TypeCorrect`, `ScheduleKept` (`WaitsForOccurrence`), `DispatchedOnce` (`NoDoubleDispatch`), `RetriesBounded` (`RetriesEnd`) |
| `RoomsProofs` | `TypeCorrect`, `PostedOncePerLife` (`OncePerLife`) |
| `ChatProofs` | `TypeCorrect`, `OneResult` (`ResultIsLast`), `SecretsAreAgreed` (`SecretsNeedConsent`), `RecurringIsNotPosted` (`NeverOneOff`), `CardsSayTheTruth` (`CardsTrue`) |
| `GraphProofs` | `TypeCorrect`, `CanvasFollows` (`CanvasCurrent`), `OnlyWhatExists` (`NothingInvented`), `AccessIsChosen` (`AccessConfirmed`) |
| `ViewsProofs` | `PageInvariant`, `PageTypes`, `EvidenceIsOfFilter` (`EvidenceOfFilter`), `ListensWhileShown` (`ProjekteListens`), `CheckboxRespected` (`RoutinesOfCheckbox`) |
| `PaneProofs` | `TypeCorrect`, `ActivityBelongs` (`ActivityIsOwn`), `ConnectionsAreReal` (`ConnectedIsReal`) |

### The engine

*Assumptions.* Dependencies point to earlier tasks, artifacts are written by the
files tool, the counts are natural numbers, and there is at least one task and slot.

*The invariant.* That the loop survives needs that every open approval belongs to a
task that waits for it alone (`PendingIffWaiting`) and that no row is ever left in
`retrying` (`Durable`). That needs to know the row of a task from the place of its
runner (`RowFollowsRunner`): nobody but its runner moves the row of an active task,
except `cancel`, which interrupts the runner in the same turn, and then only
while the runner is suspended (`RunnersActive`). `RevisionsPaid` keeps
`revision` in its type, and `FailureCanBeRecorded` makes `_fail` a transition
of the table.

*Refinement.* From the invariant, `RowsStep` shows what one step does to every row:
nothing, an edge that two successive commits may show (`CommittedEdges`), or a retry
that is counted. The polling step moves many rows at once; `RecoverRows` shows that
each moves in one of these ways. Each is a step of `TaskLifecycle` or a stutter
(`LifecycleFollowed`), and none leaves a terminal state (`TerminalStays`).

*Dependencies.* The scan checks them and a runner starts the task in a later turn.
`DependenciesBehind` therefore also speaks of a queued task whose runner is about to
begin; what was complete then is complete still, because completed is terminal.

*Effects.* A call outside the files tool whose row says that it never ran
took no effect (`NeverRan`), and is executed only from such a row
(`FirstExecution`), so its counter goes from 0 to 1 and the row never says
"never ran" again. A files call counts an effect only when it creates the file.
The approval is carried from the gateway's decision to the effect by
`ApprovedOnTheWay`: approvals are never taken back once given.

*Completion* (`ProgressInv`, per task). A recorded success took effect, and on a whole
file (`OkIsDone`); the call in execution has none yet (`InExecution`); a runner at
position *i* has the successes of all earlier operations (`EarlierOk`), so it comes to
the handoff with all of them and the artifact of the current revision
(`ReviewedIsOk`); and completion copies that together with the verdict and the
reviewer's look at every row of a call (`CompletedIsApproved`). A crash at any commit
leaves the rows and sends the runner back to the first operation.

### Routines

*Assumptions.* Periods and the retry delay are positive; a policy is one number
or unreadable.

A routine is dispatched once for what fell due because the claim comes first:
`DispatchedBefore` says that the last mission was submitted before `next_run`, and that
a claimed routine in hand has been put past the present while its last mission is
older than it. The claim also puts it back on its schedule (`ClaimedOnSchedule`),
for which `OccurrenceFacts` is the arithmetic of `next_occurrence`.

`RetriesBounded` holds for every policy. Below the cap every outstanding failure is
counted in `retry_count`, and a policy asked for as many (`FailuresCounted`). At the cap
the failure handler raises, so the count stands still while failures go on; the claim
has put the routine on its schedule by then, and its failures come one per occurrence.
That such a routine is also *recorded* as failed is false of the code (section 3).

### Rooms

*Assumptions.* Agents are finite in number; mentions and requests name agents.

The memory of posted results is lost with the process. `inherited` keeps, for the proof
and the property, the posts that earlier lives have made; a result has been posted no
more often than that, or once more if it is remembered or about to be (`PostsCounted`). The scan takes only missions that have
ended and are not remembered (`ScanIsFresh`), and while a link waits to be written the
newest mission is one of the message's own (`LinkReady`).

### Chat

The result card is written by a tick that read the status before its other awaits.
`SeenTrue` therefore says of every tick under way that a final status it has read is
that of the mission, up to cancelled having become failed. `Quiet` says that only a
tracked turn has ticks, so a turn starts without old ones; `stopped` is asked
again after the awaits, which keeps `ResultTrue` when several ticks have seen the end.
Cards and ticks name approvals that exist (`CardTrue`, `Known`), which approvals,
being only appended and decided once, keep true.

### Company graph

What the page will show is on its way in three places, and the invariant has a part
for each: a snapshot that was read but not applied (`StateTrue` of every load), an
answer not yet delivered (`AnswerTrue`: the row, entry or room it names is stored) and
a request not yet carried out (`WhatTrue`: an access was chosen for its pair). The
server only appends rows and never takes a removal back, so old snapshots
stay true. The canvas is current because a hidden one that is not dirty is as current
as a visible one (`CanvasFits`): both draw the state with some set of agents (`Draws`).
Which set that may be is a second invariant (`People`): the sidebar's list, the
adapter's, that of every load under way and the agents drawn are each a list that
`GET /agents` has given, or nobody.

### Views and pane

That a work view shows the evidence of its filter is not inductive: the answer that
will be shown is on its way. `NewestAsksForFilter` says that no request is younger
than the token and that the newest one, while it is under way, asks for the filter
as it is now; every change of the filter starts a request, for which
`openForAgent` needs that a shown work view has been built (`ShownIsMounted`). The
types need `ProjekteListens`, or leaving the view might take off a listener that is
not there. `ListFollowsCheckbox` adds that a routines view that says it loads has a
request under way.

In the pane, a request for activity that still holds its list is about the agent whose
profile is shown (`Owned`, `Fitting`): new content takes the list from all older
requests in the same step (`DetachFits`), so an answer writes where it belongs or
nowhere. A credential is called connected only by the answer that carries its number, and
the server accepts before it answers (`Numbered`, `CredPart`). The proof assumes that agents, areas and pages are different things, and that
no agent is called like the placeholder of an empty or loading pane.

### Only model-checked

* Liveness (`EveryTaskEnds`, `DueIsServed`, `ResultsArrive`, `ResultShown`,
  `LoadingEnds`): it rests on fairness and ENABLED, which are out of the prover's reach.
* The properties of the runs that end in a counterexample are false of the
  code; their counterexamples are TLC's.

## 5. Not modelled

In the page: layout, markdown and other rendering, the details panel of a turn, the
detail cards of the graph, the sidebar's search and drawer, the preview data for a
missing backend, the vendored drawing library. On the server: read-only endpoints,
prompts and texts, the HTTP clients of the providers, command lines of the process
tools, migrations and settings: I/O and text without state that changes.

The components marked *not_modelled* in `PROJECT.json` with "Not reached" keep
state and could be modelled; they are step 7 of the plan. Hazards seen in them so
far: `new_tab` compares the number of pages before it awaits the new one, and
`stop` may run while a session is being created (`browser_worker.py`); a closed
session can be activated again (`workforce/sessions.py`); `delegate_task` stores
the delegation and sends its message in two transactions
(`orchestrator/workforce.py`); a team mission adds its review task without the
capacity check of `submit` (`workforce/team.py`); an outcome of blanks raises in
`corporate_router.py` inside the transaction that completes the last task.
