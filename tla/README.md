# Verification of agent-dbus

`agent-dbus` publishes the sessions of coding agents (Claude Code, Codex, Gemini,
OpenCode) as D-Bus objects. Short-lived `agent-hook` processes send one event each
over a Unix socket; a daemon turns every connection into a concurrent task that
creates, updates or removes the object of the session, and that may block until
somebody answers an approval over D-Bus. This directory holds TLA+ models of the
daemon, the configurations that check them with TLC, and proofs checked by TLAPS.

## Inventory

Paths are relative to `src/agent-dbus-service/src/`, save the last three rows, which
are relative to `src/`.

| Component | State | Operations | Source |
|---|---|---|---|
| Hook dispatch | none of its own | one task per connection; the branches of `handle_hook_connection` | `service.rs`, `socket.rs` |
| Session store | the published objects, `session_create_lock` | `update_session`, `update_existing_session`, `remove_session` | `session_store.rs`, `dbus.rs` |
| Pending requests | queue and attention reasons of each object; broker map from request id to one-shot sender | `push/remove/cancel_pending_request(s)`, `register`, `respond`, `remove`; D-Bus `RespondToElicitation[ById]` | `dbus.rs`, `request_broker.rs`, `service.rs` |
| Ended sessions | bounded, expiring set of removed sessions | `insert`, `contains`, `remove`, `prune` | `main.rs` |
| Parent watcher | map from session to agent process | `maybe_watch_parent`; poll, recheck, remove | `session_parents.rs` |
| Locus relations | window and app instance to session, in another service | `SetOne`, `Unset` | `locus.rs` |
| Properties and signals | what clients have been told | `snapshot`, `emit_changed_properties`, `emit_pending_changed` | `dbus.rs` |
| Codex telemetry | per session a file position, a fragment and counters | `read_path`, `observe`, `update_hook`, `drain` | `providers/codex/telemetry.rs` |
| Codex compact log, titles | file offset, file stamp | poll, read and update | `providers/codex/compact.rs`, `title.rs` |
| Codex rollouts and lineage | bounded cache of paths | `get`, `insert`, `remove`; search and first records | `providers/codex/artifacts.rs`, `subagent.rs` |
| Permission prompts | none | options, descriptions, replies | `service/permission.rs`, `providers/*` |
| OpenCode telemetry | totals, epoch, revision, window of event ids | `apply_telemetry` | `providers/opencode.rs` |
| `agent-hook`, `agent-respond` | none | send one message, print the reply; answer over D-Bus | `agent_hook.rs`, `agent_respond.rs` |
| OpenCode plugin | per session metadata, delivery chains | event handlers, permission bridge | `opencode-plugin/agent-dbus.js` |
| Core library | none | names and paths | `agent-dbus-core` |
| Context hook | none | prints the context of a project | `hooks/` |

Components interact through shared state behind locks, each held for one step only:
the create lock, one read/write lock per session object, one mutex for the ended set,
one for the parent map, one for the broker, one for the Codex readers. Nothing holds
across a whole handler, so whatever a handler reads may be stale when it is used.

What makes it hard, and what has to hold in spite of it:

* **Blocking requests.** An answer, a cancellation by another hook, a timeout and a
  removal race for one request. Each must be decided once, the hook must return what
  was decided, and neither queue nor broker may keep anything of a finished hook.
* **Creation and removal.** Several hooks create a session at once; a removal does
  not take the create lock; late and duplicate events arrive after the end. One
  object at a time, and no object for a session that is over.
* **Dead agents.** The watcher alone removes sessions whose agent was killed, working
  on a snapshot that may be out of date.
* **Subagents.** Lineage and window metadata ride on different hooks of a burst.
* **Telemetry.** Logs grow, are truncated and replaced; messages are lost, overtake
  one another and come twice; reports must add up over resets, duplicates and restarts.
* **Clients of the bus.** Properties are written under a lock and emitted after it. What
  a client believes must be what the object says, or be about to become so.
* **Files that change while they are looked at.** Lengths, stamps, paths and titles are
  read at one time and used at another.

`PROJECT.json` lists each hazard with its line and the property that covers it, or why none does.

## Modules

| Module | Models |
|---|---|
| `Approval` | what a blocking request is promised: open, decided once, returned once |
| `Elicitation` | blocking requests in full: tasks, objects, queue, broker, channels, timers, users; implements `Approval` |
| `SessionLifecycle` | session objects, create lock, ended set, removal, parent watcher, lineage, window relation |
| `SessionEvents` | what each event makes of the fields of a session (no state of its own) |
| `PropertySignals` | writing of fields, comparison, emission, requests, replies and removal, as a client of the bus sees them; uses `SessionEvents` |
| `CodexTelemetry` | Codex token usage: the rollout file, the reader, its parser, the reports, hooks and file watcher |
| `ExpiringSet` | the set of ended sessions, with its queue, its bound and its clock |
| `OpenCodeTelemetry` | OpenCode token usage: plugin, delivery chains, daemon, reports; uses `ExpiringSet` |
| `CompactLog` | the tailing of Codex's log |
| `TitleWatch` | the title of a Codex session: database, index, watcher and hooks |
| `CodexRollouts` | the cache of rollout paths, the search without its lock, lineage from the records |
| `PermissionPrompt` | one request from `agent-hook` to its output: options, descriptions, answer, reply |
| `...Proofs` | theorems about the module of that name; `OpenCodeTelemetryProofs` has those about `ExpiringSet`, and `ProvidersProofs` those about `TitleWatch`, `PermissionPrompt` and the four parts of `MCProviders` together |
| `MC...` | the instances TLC checks; `MCProviders` has `CompactLog`, `TitleWatch`, `CodexRollouts` and `PermissionPrompt` side by side |

Definitions whose comment begins with "Faulty" are part of no specification. Each
precedes the definition it is a mistaken version of; putting it in that definition's
place breaks the property it was written for, which shows the property is not vacuous.

### Elicitation

One action is what a task does between two points where another task can run: an
`await`, or taking an object's write lock. `pc[h]` is that point.

| Code | Model |
|---|---|
| `update_session`, create branch / find / second lookup / closure | `CreateSession` / `FindSession` / `LookupSession` / `ApplyUpdate` |
| `handle_elicitation_event` up to `register` / `push` under the lock / channel / timer / cleanup | `OpenRequest` / `PushRequest` / `ReceiveAnswer` / `TimeOut` / `CleanUp` |
| `remove_session`: cancel / remove / verify, three attempts | `ApplyUpdate` with kind `Removal` / `RemoveObject` / `VerifyRemoval` |
| `respond_to_elicitation`, `..._by_id` | `RespondToElicitation`, `RespondToElicitationById` |
| `cancel_pending_requests[_for_tool]` | `CancelPendingRequests[ForTool]` (`Emptied`, `Thinned`) |
| `push_pending_request`, `remove_pending_request`, `set_attention_reason`, `clear_attention_reason[s]` | `Pushed`, `Without`, `Raised`, `Lowered`, `Quiet` |
| the call of `refresh_requires_attention` in each of these | `Refreshed` in each of these; `SetObject` only stores |
| `RequestBroker::respond`, `cancel` | `Respond`, `Cancel` |

An object is a number given at creation, so a task can hold a reference to one that
is off the bus. A request is named by its hook, since ids come from an atomic counter.
The `VecDeque` is a set, with `ahead[h]` the requests in front of `h` when it was
pushed; the oldest request is one that has nothing listed in front of it. Model,
title and other metadata of a session are left out.

Two simplifications: the existence test and the publication under the create lock are
one action here (`SessionLifecycle` has them apart), and a D-Bus call that was
dispatched to an object is taken to run while the object is still published.

A hook connection is never seen to be closed: the daemon does not read its socket
while it waits, so a client that gives up leaves its request until the timer fires.

### SessionLifecycle

Kinds of events are what the dispatch tells apart: `Telemetry`, `UpdateState`,
`SessionStart`, `Stop`, `SessionEnd`, `Notify` (an event that updates nothing) and
`Update` (all others; a permission request is one for this purpose). An event has
lineage or not, a title or not, perhaps a window and an identified agent process.

A hook runs `CheckTelemetry`, `FindLineage`, up to three passes through
`update_session` (`stage`: lineage, title, the event's own), `WatchParent`, then
`SkipEnded` or `Dispatch`, and `LinkSession`. A pass is `EnsureSession` and either
`PublishSession`, still holding `lock`, or `LookupSession` and `ApplyUpdate`.
Removal is seven actions, one per await of `remove_session`, run by hooks and by the
watcher. The watcher's `Snapshot` fills `todo`; `Spare` and `Reap` take from it.
`Exit` is the environment. `late`, `maker`, `consumed` and `owner` are history
variables: no action's guard reads them.

The ended set forgets nothing here except what `UpdateState` takes out; its expiry and
its bound are in `ExpiringSet`. `Window` stands for window and app
instance ids, which are handled alike. Codex serialises its updates with one more
lock, which only removes behaviours. A pid is not reused, and Locus calls succeed.

### CodexTelemetry

| Code | Model |
|---|---|
| the agent's rollout file (outside the program) | `rollout`, `half`, `source`; `AppendLine`, `FinishLine`, `Truncate`, `Replace` |
| `Reader`, `Parser`, the map under its mutex | `reader`, `tracked`, `lock` |
| `Reader::read_path`, `read` | `ReadInto`: one snapshot of the file fills `chunk`, `IsBaseline` decides whether it is history |
| `Parser::observe` | `ParseLine`, with `Accepts`, `Resets`, `Delta` |
| `update_hook` | `ReadForHook`, then `UpdateSession` (publish or look up), `ApplyUsage`, `Emit` |
| `drain`, for a removal and for the watcher | `ReadForDrain`, `RefreshSession`, `Emit`; a removal goes on to `Vanish` |
| `notify` events and the watcher's loop | `notified`, `Notice` |

Offsets count half lines, so a read can end in the middle of a line and the fragment it
leaves has to fit the rest. A line is identified by the order in which it was appended;
what it carries is a map of counters, and `Mandatory` stands for input, output and total
tokens with their sum check. A report (`TelemetryReported`) carries the increment and
the totals; `line`, `since`, `file`, `reader` and `fresh` in it are history, as are `sent`,
`counted`, `since`, `past`, `reader.number` and `reader.file`: no guard reads them. What
is history to a reader is recorded apart from what the reader does: `since` is the last
line that was there in full when the reader was made or the file last rewritten, `past`
the value of `since` when the chunk was read, which its reports carry. Model, effort, turn
and last usage are left out, and so are failing reads and D-Bus calls. One session is
followed: others share only the lock. Losing lines that no reader has read yet is left
out of `Truncate`, since to a reader it is as if they had never been written. The
constant `Unnoticed` says whether a truncated file may outgrow the old offset before it
is next read, which the code cannot notice.

### SessionEvents and PropertySignals

`SessionEvents` has the closures that the arms of `handle_hook_connection` and the
watchers hand to `update_session`, as one operator, `Effect`, from a session's fields
and an event to its fields. Fields that are always written together are one: `window`
stands for the app instance too, `parent` for the lineage, `model` for directory and
cost, `usage` for context and limits. `Updates` lists the updates one hook makes.

| Code | Model |
|---|---|
| `update_session`: creation / first lookup / second lookup | `CreateSession` / `FindSession` / `LookupSession` |
| snapshot, closure and comparison under the write lock / emission under a read lock | `ApplyUpdate` / `EmitChanged` |
| `handle_elicitation_event`: lookup, push, `emit_pending_changed`, the request signals, the end | `LookupForRequest`, `PushRequest`, `EmitPending`, `Announce`, `SettleRequest` |
| `RespondToElicitation[ById]` | `LookupForReply`, `TakeRequest` |
| `remove_session`, as far as the object is concerned | `LookupToRetire`, `CancelRequests`, `RemoveObject`, `VerifyRemoved` |

`view` is what a client believes that took the properties from InterfacesAdded and then
every `PropertiesChanged` of the path. An emission carries the values of the moment it
is made, of the object its task holds. That object may have been removed and the path
published again: then the client is told of an old object, and `stale` says so. The
invariant holds with that proviso only.

### ExpiringSet and OpenCodeTelemetry

`entries` is the map of `ExpiringSet` in `main.rs` with `Never` for absent keys, `order`
the `VecDeque`; `prune` and the loop of `insert` drop the shortest or longest prefix that
satisfies their condition. Nothing bounds the queue except time: a session that is
inserted and removed repeatedly leaves a record each time.

| Code | Model |
|---|---|
| OpenCode: a step is finished, a session is deleted | `FinishStep`, `DeleteSession` |
| plugin: `seed` / totals of `finishStep` / `handleEvent` / `fire`, `runHook` / the three-second limit | `Known` / `Snapshot` / `Ready` / `Advance`, `Send` / `GiveUp` |
| `Telemetry` arm: ended check, `update_session` with `apply_telemetry`, report | `CheckEnded`, `ApplyTelemetry` (`WithBaseline`, `Counts`, `Counted`), `EmitReport` |
| `SessionEnd`; `UpdateState`, which takes no baseline | `ApplyEnd`; `UpdateState` |
| other sessions and the clock | `EndOther`, `UpdateOther`, `Clock` |
| the daemon stops and starts | `Restart` |

One counter stands for six that move together. The plugin's numbers are at most 2^53
and the daemon's counters have 64 bits: the overflow guard is modelled and
`CountersHaveRoom` says that it is not reached. A message that is lost is one whose task
never runs. The end is one step here; `SessionLifecycle` has its parts. `hasty` holds
the instances that have given up waiting or lost a message to a restart.

### CompactLog

The log is a sequence of half lines, so that a read can end inside a line. The offset is
set to the length seen before the read. Lines written in between are therefore read
twice; a line that the offset cuts is lost, which is what `lost` records; a read that
fails is tried again because the offset has not moved. A log that is truncated and has
grown back before the next look is taken for the old one (`basis`). What a line does to
its session is in `SessionEvents`: a line that is read again may set the state again.

### TitleWatch

The watcher stamps the index before it reads it, so that a change in between is seen by
the next look. A read that fails is not repeated until the index changes (`skipped`). A
hook asks the database, the index and the end of the rollout in this order (`FirstTold`);
the first two may not answer, and the rollout may note any name given so far or none. The
hook writes what it found later, and may put another title than the newest back (`raced`).
The index only grows, so its contents stand for its length and times.

### CodexRollouts

`Lookup`, `CacheAnswer` are the parts of `codex_session_file` under the cache's lock;
`Scan` and `TakeNewest` run without it. A rollout's name carries its time of creation:
one that is removed does not come back. `Spawn` appends the record of a child to the
rollout of its parent, and is the only thing that changes the order of ages. The queue
holds a session once, so that `RemoveFirst` does what `retain` does; this is proved.

### PermissionPrompt

A text is its word, whether it is capitalised as the program writes it, and what follows
the word, which is what the code's comparisons tell apart. `Described` is what an option
is said to do, `PermissionResponse` what the reply makes the agent do. The code lets an
answer in free text that begins like an option but names a destination that was not on
offer select the first suggestion, and two suggestions with one label both select the
first; Gemini's reply never lasts although an option may be described as lasting: a grant
may be narrower than its description and is never wider. The options are a set: no
property depends on the order they are shown in. A suggestion is known by its position
in the request, which is how the reply names it. `PermissionPromptAssumption` says what
the plugin sends for OpenCode: neither suggestions nor anything of Codex's, which is why
"matching" is what an option that lasts is described to do there and also what is granted.

## Runs

| Run | Instance | Shows |
|---|---|---|
| `request_races` | four hooks, two sessions, limit 2; 519k states | seven invariants, `CancelHasCause`, and `KeepsPromise`, the refinement of `Approval` |
| `request_liveness` | three hooks, one session; 46k states | every hook returns; a decided hook returns with no timer involved |
| `removal_strands_hook` | four hooks | *violated*: a removal can leave a hook blocked on an object nobody can reach |
| `session_lifecycle` | three hooks, the watcher, two processes; 379k states | type invariant, no colliding creators, late events create nothing, only abandoned sessions are reaped; every hook finishes, dead owners' objects go |
| `duplicate_stop` | three hooks of a subagent | *violated*: a duplicate `Stop` with lineage brings the session back |
| `phantom_session` | update, end, update | *violated*: a hook handled during the end publishes the session again, for good |
| `subagent_window` | three hooks of a subagent | *violated*: a subagent's object gets a window |
| `codex_telemetry` | two updates, a removal and the watcher; three lines of four scripts, one rewriting; 2.2M states | type invariant, what is shown was parsed last, only lines finished after the reader was made and the file last rewritten are reported, each once; increments add up, reports come in order, an epoch keeps to one file; the session catches up with its file |
| `unnoticed_truncation` | the same with `Unnoticed` | *violated*: an epoch spans a truncation |
| `opencode` | two instances, the second a step later, two steps, a window of one, one restart; four sessions, room for two, three ticks; 459k states | type invariant, marks are queued, steps count once, totals follow, final usage precedes the end, marks go for cause |
| `session_view` | one hook with any event, one that disturbs it, one that asks, answers or ends; two objects, limit 2; 788k states | the client's view is current or due; a request that is announced is in the list the client has; in the end the view is current |
| `provider_parts` | three lines and a truncation; three titles and two hooks; three sessions in a chain, two rollouts for one of them, room for one path, two tasks; 60-odd prompts; 909k states | each log line is applied, the newest title wins, a path was there while it was asked for, lineage is true, a grant is as described |

The bounds. `Traffic` selects the combinations of events an instance considers, so
every hazard has a combination made for it and no state is spent on hooks that do not
interact. Four hooks are two waiters and two disturbers, or one request more than a
limit of 2 (the code's limit is 4; the argument does not depend on it, and the proofs
cover every limit). Three hooks are a session's start, its end and the event that
races with either. `MaxObject` is large enough that no run ever reaches the guard that
uses it. For telemetry, three lines hold every
pair of neighbours that `Delta` tells apart (a reset, a repetition, a rejected line, a
counter that appears, one that goes and comes back) with a line before or after;
two updates and a removal create a reader, drop it and create another; one rewriting
comes before, between or after them. The models stop when all hooks are done, so
deadlock is not checked; that hooks do finish is checked as liveness.

In `opencode` the chains and the set meet only in whether the followed session has a
mark. `MCOpenCode` explores them as two parts, one where no other session ends and no
time passes, and one where only the set moves: four sessions and room for two make a
session be inserted, evicted, inserted again and mistaken for its earlier record if the
code did not compare instants. A window of one id against two instances makes a step
count twice, at the distance the property allows. In `session_view`, `h1` carries each
event the program knows, `h2` a request or an event that clears attention, `h3` a
removal, a reply or another request; a second object at the path is what makes a view
stale. `provider_parts` chooses one of four parts at the start, since they share no
state: the run is the sum of four. A cache of one path with three sessions evicts at
every second search. The constant 256 of the code is `CacheMax`, 4096 is `MaxSeen`, 4
is `MaxPending`; no definition depends on their size.

Fairness. `FairSpec` has weak fairness for each task (tokio polls a task that is
ready), for each timer (tokio's `timeout`), for a removal, and for the watcher's loop,
which has no exit. Users need not answer, agents need not exit, and
nobody need write to a rollout file. Weak fairness
suffices for the create lock: a hook competes with finitely many others.
`PropertySignals!FairSpec` assumes that a task that has begun is run to its end and its
timer fires, and not that a hook comes. `TitleFairness` assumes that the watcher's loop
goes on and a hook that has begun ends, and not that Codex names anything; a read may
fail every time.

## Proofs

Every safety property of every passing run is proved, for all constants that the
assumptions of its module admit, and so are the refinement of `Approval` and the safety
half of three of the seven liveness properties. The invariants were checked with TLC
before they were proved.

`ElicitationProofs` proves, for any number of hooks, sessions and objects, any limit,
and any set of event combinations (`ElicitationAssumption`: the set of hooks is finite,
the limit positive, the "none" values are not proper values), every safety property of
`request_races`:

| Theorem | Statement |
|---|---|
| `TypeCorrect` | `TypeOK` |
| `BlockedHooksAreListed` | a hook that waits is queued in the object it holds, and in the broker |
| `ListedRequestsAreLive` | what is listed belongs to a hook that has not returned, and is unanswered |
| `FinishedHooksLeaveNothing` | a hook that has returned is in no queue and not in the broker |
| `AnswersReachTheirHooks` | a hook returns the answer given to its own request, or none if its timer fired |
| `AttentionStaysWarranted` | `AttentionIsWarranted`: an object asks for attention exactly while a reason is active or the broker holds a sender for a request queued there |
| `QueuesStayBounded` | no queue exceeds the limit |
| `CancellingHasCause` | who may cancel whom |
| `Refinement` | every step of `Elicitation` is a step of `Approval` or changes nothing of it |

The argument is one inductive invariant, `IInv`. None of the properties is inductive
alone. That a waiter is listed depends on the state of its channel (`ChannelOK`): a
cancelled request leaves the queue in the step that marks its channel "sent". That a
listed request is live needs the converse (`ListedOK`): anything listed is either
waiting with an open channel or has timed out and will clean up, and only in the object
its hook holds, so that a cancellation in one object cannot touch a waiter of another.
`AnswersOK` carries an answer from the user's choice through the channel to the result.
`QueuedOK` and `AttentionOK` give the flag its warrant: every sender in the broker is of a
queued request, once pushed, and each operation leaves the flag as queue and reasons say,
with one lemma per operation (`PushedContents` to `ThinnedContents`), since each refreshes
the flag by itself. `PlacesOK` says that new objects are nobody's yet, so creating one disturbs no
reference, and `AttemptsOK` bounds the retries for the type invariant. Every action
has a lemma; `NextIInv` combines them. `QueuesStayBounded` adds that only `PushRequest`
makes a queue larger and needs cardinalities of finite sets. `CancellingHasCause` needs
a further invariant, that an object serves one session and a task only holds objects
of its own session (`OwnerInvariant`). `Refinement` maps each action with one lemma per
kind of step.

`SessionLifecycleProofs` proves the safety properties of `session_lifecycle`, for any
number of hooks, sessions, windows, processes and objects and any events
(`LifecycleAssumption`: the watcher is no hook, the "none" values are not proper values):

| Theorem | Statement |
|---|---|
| `TypeCorrect` | `TypeOK` |
| `CreatorsNeverCollide` | `CreatorsDoNotCollide`: nobody publishes over a live object |
| `LateEventsNeverCreate` | `LateEventsCreateNothing`: what the checks of the ended set keep out |
| `OnlyAbandonedAreReaped` | `ReapOnlyAbandoned`: a reaped session's last reported process has exited |

Again one inductive invariant. Two creators are kept apart because whoever is at
"publish" holds the create lock (`CreatorsOK`) and nobody else adds an object. What an
old object's maker may have been needs three parts: why a hook is in the pass through
`update_session` that it is in (`StagesOK`), that a late hook whose session is still
marked is kept from the update pass (`LateOK`), and that every object has a maker that
was read before (`MakersOK`), so that its lateness is settled. `OwnersOK` says that the
recorded process is the one last reported or none; with the second comparison in the
watcher this gives the fourth theorem, for which one also shows that nothing but `Reap`
takes an idle watcher to "mark". `RefsOK` serves the type invariant.

`CodexTelemetryProofs` proves the safety properties of `codex_telemetry`, for any number
of hooks, lines and rewritings, any counters and whatever the lines carry
(`TelemetryAssumption`: the watcher is no hook, there is a mandatory counter, scripts
carry counters):

| Theorem | Statement |
|---|---|
| `TypeCorrect` | `TypeOK`; increments are never negative |
| `ShownIsCurrent` | `ShownIsParsed`: what is shown was parsed last |
| `HistoryIsNotReplayed` | `NothingReplayed`: a report is of a line finished after the reader was made and the file last rewritten, that nobody had parsed, and that no other report is of |
| `IncrementsAddUp` | `DeltasAddUp`: increments are differences of totals |
| `ReportsComeInOrder` | `ReportsInOrder`: epochs never go back, revisions grow |
| `EpochsKeepToFiles` | `EpochKeepsToFile`, provided that no truncation goes unnoticed |

The inductive invariant follows a report on its way. `LinesOK`: a line past the offset,
or half written, has not been parsed, and what is read and not parsed is new or part of
a baseline. `OrderOK`: the parser is ahead of what is pending, and that of what was
sent. `SumsOK` is a chain of totals from the last report sent through the pending ones
to the parser; a baseline begins a new one, because it opens a new epoch or serves a new
reader. `FilesOK`: a file that looks to the reader as it did before is the one it read.
`SinceOK`, which is proved on top, says where the news is: a line that is unread, in a
chunk that is no baseline, pending or sent is a later one than what was there when the
reader was made or the file last rewritten. It holds because making a reader or rewriting
the file leaves no line unread (the reader sees another file, or a shorter one, and takes
all of it for a baseline), save the half line whose end is still to come; truncations that
go unnoticed are no exception. `ReadKinds` and `ParseKinds` reduce a read and a line to three kinds each, and
`QuietIInv` serves all steps that neither read nor emit. The assumption of the last
theorem cannot be dropped: `unnoticed_truncation` shows the code does break the property.

`QuietFileIsCurrent` (`SettledIsCurrent`) is the safety half of `CatchesUp`: with no
notification under way and the lock free, a session with a reader shows the counters of
the last complete line that carries the mandatory ones. What remains for fairness is that
the watcher gets there. `FollowOK` extends the invariant: as long as the file does not
look new or shortened to the reader, its fragment is of this file, the lines it has yet to
parse are those of the file, and its totals are those of the lines before them, so that
`ParseLine` moves along the file; and a reader that is behind has a notification to come
or the watcher about to drain. It needs noticed truncations for the same reason as above.

`PropertySignalsProofs` proves `ViewFollows`, the invariant `ViewIsCurrentOrDue`, for
any hooks and events, any limit and any number of objects. `IInv` adds `Shape` (objects
are numbered in order, and every task holds one that exists) and `Held` (a task between
its lookup and its emission holds an object, and owes nothing when it writes to it).
One lemma serves each way of touching the view: `WriteStep` (an object changes, the
change is owed), `TellStep` (it is emitted), `CreateStep`, `CancelStep` and `QuietStep`.
The heart is that `Changed` compares what is shown, so a field that is not owed has not
changed. Three more theorems rest on it:

| Theorem | Statement |
|---|---|
| `TypeCorrect` | `TypeOK`, for the fields of every object and for the view |
| `AnnouncementsFindTheirRequest` | `AnnouncedIsListed`: a client hears of no request that is not in its list |
| `ClientIsCurrent` | once every task has ended, the view is what the object says: the safety half of `ClientCatchesUp` |

The types go through every update: for each operator of `SessionEvents` one lemma says
that it gives fields their types (`SetDerives` to `UpdateDerives`) and keeps the flag of
attention as derived, and one that what it leaves of the queue was there before
(`EffectTrims`, `UpdateTrims`). `Retained`, which is `Vec::retain`, is defined by the ranks
of the positions kept; `RankIsBijection` and `RetainedKeeps` say that it keeps exactly
these elements, in order. For `AnnouncedIsListed`, `Announced` says that a
hook that has pushed owes the list to the client, and that between its two emissions the
client has the request if the object still lists it. Other tasks keep this because an
update only trims the list (`TrimmedIsWithin`) and whatever is emitted is the list of that
moment. `PropertySignalsAssumption` says what
the parser of events produces: a state is one of the program's, and a flag is a Boolean.

`OpenCodeTelemetryProofs` begins with the operations of `ExpiringSet`, for any keys, bound
and time to live: each keeps `SetOK`, of which the important part is that the queue has
a record for every entry with its instant and is ordered by instants; and none forgets a
session without a cause. It goes on to prove every property of `opencode`, for any instances of the plugin, steps, tokens and bounds
(`OpenCodeAssumption`, `CountersHaveRoom`):

| Theorem | Statement |
|---|---|
| `TypeCorrect` | `TypeOK` |
| `EveryMarkIsQueued` | `MarksAreQueued` |
| `StepsCountOnce` | `CountedOnce` |
| `TotalsFollow` | `TotalsFollowSteps` |
| `FinalUsageComesFirst` | `UsageBeforeEnd` |
| `MarksForgottenForCause` | `MarksGoForCause` |

`IInv` has a part for the set, one for the object and one for the chains. For the object,
`WindowOK` says that the ids in the window are the steps of the last reports, in order,
so that an id that is not in the window is in none of the reports the window reaches;
`LastOK` ties the totals to the last report, and every report to what its instance knew
at that step. For the chains, `Waiting` says of an instance that has not been hasty that
whatever it has under way it waits for, so that its end is sent when all its steps are
done; and while no end has been handled the session has no mark, so nothing is ignored.

`CodexRolloutsProofs` proves the properties of `provider_parts` that are about rollouts,
for any sessions, files and tasks and any room in the cache (`CodexRolloutsAssumption`:
a rollout is named after one session, no session spawns itself): `RolloutTypeCorrect`,
`PathWasThere` (`RolloutWasThere`) and `LineageHolds` (`LineageIsTrue`). Lemmas say what
removing, appending and cutting do to a sequence that holds each element once;
with them `InsertOK`, `RemoveOK` and `TouchOK` keep the map and the queue of the cache
the same set, and so the loop that evicts always finds something to evict. `TaskOK`
follows a task: whatever files of its session are there now, it has seen there, so a
path that is validated, or found by the scan, is one of those, whoever cached it.

`CompactLogProofs` proves `CompactTypeCorrect` and `LinesAreApplied` (`EachLineIsApplied`) for
any number of lines and truncations (`CompactLogAssumption`: both are natural numbers).
`LogOK` says that the log is a sequence of whole lines in the order of their numbers, of
which the last may be half there. `CountOK` bounds how often a line can still be read by
where it ends: once applied, or about to be, if it ends past the offset, or if the log is
shorter than the offset, since counting then starts again; not at all if it ends past the
length that was seen. `CoverOK` is what each look leaves accounted for, while no
truncation is unnoticed: a line that begins before the offset and ends after it is the
one that may be lost. `OrderOK` says that a chunk that holds a whole line holds the last
one of the log, so that the newest line is applied last however often others come again.

`ProvidersProofs` has the other two parts of `provider_parts`, and the four together:

| Theorem | Statement |
|---|---|
| `GrantsAreDescribed` | `GrantIsAsDescribed`, for any requests, answers and reviewer |
| `PromptTypeCorrect`, `TitleTypeCorrect` | the type invariants of the two modules |
| `TitleIsNewest` | when the watcher sleeps and the index is as it last saw it, the session has the newest title, save for a failed read or a hook that has put another back: the safety half of `TitleCatchesUp` |
| `TypeCorrect` | `TypeOK` of `MCProviders` |
| `PartsKeepTheirPromises` | what each part keeps alone, it keeps in the specification the run checks |

For the prompt, `PromptIInv` says that whatever is printed is nothing, the empty object or
the reply to the answer, and that options and request never change once shown; the rest is
`OfferedIsGranted`, a fact about the operators: for every option that is offered, the reply
is what the description says or the same for this once. `SelectedAllows` is the lemma it
needs on the search among suggestions: what it finds is one that allows. For the titles,
`SeenOK` says that what the watcher has seen is never ahead of the index, so every later
change of the index differs from it (stamping after the read would break this); `ApplyOK`
says that, as long as nothing has changed since the stamp, the last title still to be
applied is the newest. `PartsBehave` projects a behaviour of the four parts to each.

Only model-checked, because the prover handles neither fairness nor ENABLED: the liveness
properties `EveryHookReturns`, `DecidedHookReturns`, `EveryHookFinishes`,
`DeadOwnerIsReaped`, `CatchesUp`, `ClientCatchesUp` and `TitleCatchesUp`. For the last
three, the theorems above say that the state they lead to is the right one; that it is
reached is TLC's. The statements of these halves are in the proof modules and in no
configuration, since the liveness properties imply them at the end of a fair run. Nothing
in the models is a recursive definition, so no proof waits for induction over data.

## What the runs found

1. **A removal can strand a blocked hook.** `handle_elicitation_event` queues its
   request in the object it looked up earlier. If `remove_session` has cancelled that
   object's queue by then, nobody cancels or can answer the request.
2. **A duplicate `Stop` resurrects a subagent.** `ensure_subagent_identity` and
   `refresh_session_title` run before the ended set is consulted, and publish the
   object; the event is then skipped and the object stays.
3. **Phantom sessions.** `update_session` publishes whatever the ended set says. A hook
   past the early checks recreates a session after its removal has verified that it is
   gone, and the parent entry is gone too, so the watcher never reaps it.
4. **A subagent's window.** A hook decides whether it may use its window before the
   session is known to be a subagent's, and writes it afterwards.
5. **A truncation that is not noticed.** The reader knows a truncated file by its
   length. One that has grown past the old offset by the next read is taken for the
   file read before: its new lines up to the offset are skipped, and the epoch goes on
   although the program's README says that truncation starts a new one (line 401).

Not a run: the README of the program says a session id may be resumed in another
terminal (lines 316-319), while `SessionStart` and `Stop` of an ended id are dropped as
stale duplicates because "ids are unique" (`service.rs` 193-194). Within ten minutes of
its end, a resumed session is published by its other events only.

Two more, which the models show and no run states:

* The README says that a session is published only after the triggering hook has been
  applied, so that InterfacesAdded carries the real window, state and directory (lines
  309-312). A hook that carries lineage or a title updates these first (`Updates` in
  `SessionEvents`), so the session appears with the state "no-session" and, if it was
  the lineage, with an empty window.
* The README says that closed-session telemetry is ignored (line 438). The check comes
  before the update, and `UpdateState` forgets the mark: telemetry in between, or after,
  publishes the session again, as in 3.

## Not modelled

* **Core library, context hook**: pure functions on strings, and a script that prints.
  A path enters the models as the identity of its session. (Segments are not injective:
  two ids that differ in characters D-Bus does not allow share a path.)
* **The plugin's permission bridge, questions and metadata.** What they do depends on
  replies of OpenCode, of which the repository shows only the calls.
* **`agent-hook`'s search for its agent** up the process tree, environment look-ups, and
  `agent-respond`'s arguments: reading of the system, without state.
* **Wording**: titles, details and descriptions of prompts, formatting of limits and
  costs, spellings of payload fields. The properties do not depend on it. The parsing of
  shell commands for a prefix rule is data of the same kind.
* **Failures of D-Bus and Locus**, which the code logs and passes over, and the focusing
  of windows. A failed signal leaves a client as if it had not been listening.
* **Reuse of a pid** by another process.
* **Model, effort and turn** of a Codex report and the counters of the last request,
  which are copied.

## Plan

What is left, in this order:

1. A property about `SessionLifecycle`'s relation to windows: when may a relation
   outlive its session? The model has the relation; neither code nor documentation says
   what is promised.
2. Failing calls of Locus and of the bus, as a fault in `SessionLifecycle`.
