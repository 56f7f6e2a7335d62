# Verification of niri-state

niri-state keeps an in-memory replica of the niri compositor's state: it queries
the compositor once, then applies the events of a stream, and publishes immutable
snapshots with a revision number to any number of subscribers. This directory
holds TLA+ models of that program, TLC runs that check them on small instances,
and proofs checked by TLAPS. Paths below are relative to `src/src/niri_state/`.

## 1. The system

| component | state | operations | what makes it correct |
|---|---|---|---|
| `NiriState` (`api/state.py`) | lock, `_closed`, bundle, engine, snapshot, revision, mutation task | `connect`, `refresh`, `close`, `subscribe`, the mutation loop, `_mark_desynced`, `_fail` | the loop reads the installed connection; nothing leaks; revisions grow; LIVE is trustworthy; calls return |
| `ResyncCoordinator` (`core/resync.py`) | trigger, task, attempt | `start`, `request`, `close`, a task that calls `refresh` with backoff | a requested resync happens; attempts are bounded; it is never cancelled half-way |
| `Broadcaster` (`core/broadcaster.py`) | set of subscribers, a bounded queue each, `_closed` | `subscribe`, `publish`, `close`, the readers' generator | readers get an ordered suffix, lose only what the policy says, and end |
| Health (`api/health.py`) | none | `validate_transition` | the table is followed |
| Reducers, reconcile, invariants (`core/`) | the `EngineState` | one reducer per event, five repairs, seven checks | references resolve or the snapshot says STALE |
| Bootstrap (`core/bootstrap.py`) | buffered events | eight queries, replay, invariant policy | the engine it builds is coherent; no change is lost between the queries and the stream |
| Waiters (`api/waiters.py`) | none | `watch`, `wait_until`, `wait_for_selector` | no publication is missed between check and subscription |
| Selectors, errors, CLI, logging, adapter | none | lookups, exception classes, printing, re-exports | nothing that a step could break (section 7) |

Everything runs as asyncio tasks on one thread. `connect`, `refresh` and `close`
hold one lock for their whole length, over awaits of the compositor; the
coordinator is a task that calls `refresh` like any user; the mutation loop runs
outside the lock and is cancelled by whoever holds it. `niri_pypc` (connections,
requests, the event stream) is external.

What is hard: a refresh that fails after it stopped the loop; exceptions stored in
a dead task and raised later by `refresh` or `close`; a subscriber's overflow that
surfaces in the middle of a publication; cancellation, which no `except Exception`
catches; `close` awaiting a task that may be waiting for the lock `close` holds;
queues that are full when the stream must end; a consumer that is given one snapshot
before it is registered for the next; queries answered at different moments while the
events of the same changes are buffered; events in an order that leaves references
dangling. `PROJECT.json` lists each of these at its line.

## 2. Modules

| module | models | lines of attack |
|---|---|---|
| `Health` | the six states and the transition table | used by `NiriState` |
| `NiriState` | `NiriState`, its mutation loop and `ResyncCoordinator` together | interleavings, failures, cancellation, liveness |
| `NiriState_proofs` | the inductive invariant `IInv` and what follows from it; that `NiriState` implements `Replica` | proofs |
| `NiriState_release_proofs` | loops, connections and `close()` without the faults that break them | proofs |
| `Replica` | what `NiriState` promises its readers | abstract; implemented by `NiriState` |
| `Broadcaster` | queues and readers | overflow, close, wake-ups |
| `Broadcaster_proofs` | the line of every subscriber | proofs |
| `SnapshotStream` | what a subscription promises | abstract; implemented by `Subscription` |
| `Subscription` | `subscribe`, `watch`, `wait_until` over `Broadcaster`, with the publications of a replica | first snapshot and registration, waiting, the end of streams |
| `Subscription_proofs` | the same lines under a replica and its consumers | proofs |
| `Subscription_stream_proofs` | that `Subscription` implements `SnapshotStream` | proofs |
| `Engine` | reducers, reconcile, invariants, domains | order of events |
| `Engine_proofs` | what every published engine satisfies | proofs |
| `Replication` | bootstrap and loop over `Engine`, with a changing compositor | races of queries, buffered events and changes |
| `Replication_proofs` | what a replay leaves, and why a replica whose stream starts with the lists connects | proofs |
| `Replication_agreement_proofs` | that a replica which has handled every event has what the compositor has | proofs |
| `MC*` | instances for TLC | |

How they fit together. `NiriState` and `Subscription` meet at `Replica`: its snapshots
are what `Subscription` publishes (`PublishSnapshot`, `Fail`, `CloseReplica`), and its
`EndsStreams` is `CloseBroadcaster`; RESYNCING, which `Replica` need not publish, makes
no step there. A publication that overflows is followed by FAILED in the loop but not
in a refresh, so `Subscription` allows both. `Subscription` and `Replication` EXTEND
the modules they compose; `NiriState` and `Engine` stay apart: what an event does to
the data is in `Engine`, what it does to the tasks is one of the `FaultKinds` of
`NiriState`.

### NiriState

An action is the code between two awaits that may suspend. `pc[p]` says at which
await task `p` is: waiting for the lock (`connect_lock`, `refresh_lock`,
`close_lock`) or, inside the call, at `_open_bundle` (`*_open`), `run_bootstrap`
(`*_boot`), the close of a connection after a failure (`*_undo`), the await of the
cancelled loop (`*_stop`), the close of the replaced connection (`refresh_retire`),
of the installed one (`close_bundle`), or the await of the coordinator
(`close_coordinator`). Awaits of coroutines that never suspend (`publish`,
`_transition_health`, `start`) are part of the action around them.

`bundle`, `engine`, `snapshot`, `revision`, `closed` are the attributes of the same
name. `open` is the set of connections that are open and `spare` the one a call
holds beside the installed one. `loop` is the mutation task: its status and the
connection it iterates. The data of a snapshot is reduced to health, desync mark
and revision; an event is good, or bad in one of the ways of `FaultKinds`, which
stand for what the reducers, the invariants and the stream can do to the loop.
`Faults` selects those the environment of a run may show. `_started` is set in the
step that sets `_bundle`, and is not a variable of its own. The loop's test of
`_closed` and the coordinator's `_closed` cannot be reached with another value and
are left out. Subscribers appear only as the exception a publication may raise
under `fail_fast` (`Overflow`); `Broadcaster` has the details.

### Broadcaster

A subscription's `reader` says where its generator is: between items, inside
`get()` on an empty queue, woken but not run yet, left by its consumer, or done.
`published` numbers the publications, so that a queue is a sequence of numbers and
0 is the sentinel. asyncio wakes a getter in one step and runs it in a later one:
`detached` are the woken readers whose queue object `close` has replaced.

### Subscription and SnapshotStream

A consumer of kind `subscribe` or `watch` is first `offered` the current snapshot and
is registered only when it resumes, in a later step; `watch` has the snapshot it read
itself before, and yields the subscription's first item only if it is another one
(`IsNew`). `wait_until` hands nothing to its caller until it ends, so it runs from its
first test to its first wait in one step, and takes a burst of queued items in one
step (`WaitRuns`, `StopsAt`). What it leaves behind is finalized later
(`WaitFinalized`), as the generator of a consumer that leaves its loop is. `log` has
the health of each snapshot and whether the predicate holds; revisions are positions.
`wait_for_selector` is a `wait_until` whose predicate looks at a selected value.

`SnapshotStream` says what a subscription is without queues, sentinels and wake-ups:
publications after the subscription, in order, without a hole if the policy is
fail-fast, and an end only after a cut or after the last publication. The mapping in
`Subscription` forgets the queues and folds the reader's states into four.

### Replica

The snapshot (revision and health), what `health()` returns, and whether subscriptions
have been ended. Three steps: a publication, the unpublished change to RESYNCING, and
the end of the streams. The mapping in `NiriState` is a projection.

### Engine

Each reducer is an operator from the engine to an engine with the domains it names
(`Applied`), or to the half-changed engine it leaves when it raises DesyncError
(`Raised`). There is one action per event type, each with everything the loop does
with it (`Handle`): reducer, reconcile, revision, invariant check and policy, label.
`Apply` and `Desync` are the two ways the loop's body can go. Windows have a workspace
and a layout, workspaces an output, the flags active and focused, and an active window.
Urgency, focus timestamps, titles and geometry are left out: they are stored and never read. Of
several workspaces that say they are focused the code takes the first in the
compositor's list; the model takes the same one each time.

### Replication

`world` is the compositor: where its windows are, which of them each workspace has active,
on which output each workspace is, which one each output shows, and which has the focus.
Windows open, close, move and are focused; workspaces are focused, shown on an output
without the focus (an activation with `focused` false), added, removed, and moved to
another output. A change picks a new world and appends the events that tell of it to
`stream`. The queries are answered one by one, in any order, from the world of
that moment; `BufferEvent` takes events meanwhile; `FinishBootstrap` builds the engine,
replays the buffer with `Engine`'s reducers, and hands what is left of the stream to
the loop (`HandleEvent`). Of the eight queries the three whose answers the events
change are modelled. Two things about the compositor are not in this repository and are
left open: whether a stream starts with the full lists (`greeted`), and whether a
change is told about workspaces or about windows first (`workspacesFirst`).

## 3. Runs

| run | expects | question |
|---|---|---|
| `lifecycle` | pass | Do two callers, the coordinator and the loop leak a connection, lose the loop, or leave something running after `close`? |
| `strict` | pass | What survives every fault, fail-fast overflow and cancelled callers? Is `Replica` implemented? |
| `recovery` | pass | Does every call return, is every desync followed by a resync, and does a replica without a loop say so? |
| `close_after_failure` | violation | README.md:64, `close()` wakes blocked subscribers; FINAL_SPEC.md:206 and 394, it makes a FAILED replica CLOSED |
| `dead_stream` | violation | FINAL_SPEC.md:422, the end of the stream makes the replica STALE |
| `unknown_event` | violation | FINAL_SPEC.md:420 and 427, an unknown event is resynced under AUTO |
| `streams` | pass | What do consumers receive, keep, lose, repeat and miss; do their streams end; is `SnapshotStream` implemented, in its steps (`ImplementsStream`) and its progress (`StreamsDeliver`)? |
| `subscribe_gap` | violation | README.md:61, `subscribe()` yields the current snapshot, then future publications |
| `close_race` | violation | README.md:64, with a reader woken just before `close` |
| `failed_recovery` | violation | FINAL_SPEC.md:431, failed auto recovery makes the replica STALE or FAILED |
| `events` | pass | Is the snapshot coherent after any sequence of events? |
| `replication` | pass | Does a replica bootstrapped while the compositor changes come to agree with it? |

FINAL_SPEC.md is in `.scratch/projects/02-final-concept/`, README.md is the repository's.

**Bounds.** Two callers: the lock serialises them, and a third adds only another
waiter; the coordinator is a third user of the lock. Three connections: the
installed one, the one being opened, and one that a cancellation has leaked; with
fewer, `OpenFails` stands for exhaustion. `MaxCalls` 3 or 4 lets both callers race,
fail and call again, `MaxEvents` 2 or 3 lets a desync, a recovery and another bad
event follow each other; `ResyncMaxAttempts` 2 has a first, a last and a next round
of attempts. Queue sizes 1 and 2 with four publications overflow a queue twice and
leave readers both behind and ahead. Two windows, two workspaces and two outputs
have every way a reference can dangle, move or be shared. The `events` and
`replication` runs have a VIEW without `changes`: the label of a publication constrains
no later step. In `streams` one consumer is always a waiter, the other a subscriber or
a watcher, which is enough for one to overflow while the other does not; both wait
policies are there, and a snapshot that a waiter must pass over is a STALE one under
LIVE_ONLY. `replication` starts from every arrangement of two windows, two workspaces
and two outputs and makes two changes: one before an answer and one after it, or one in
the buffer and one in the stream. Both workspaces may be on one output, of which an
activation then hides one, or on two, of which it must leave the other alone. Three
workspaces, where one activation does both, were checked once without windows (572,000
states) and showed nothing else; `CaughtUpAgreement` is proved for any number.

**Symmetry** (callers, connections) is used only where no liveness is checked.

**Which faults a property is checked with.** `NoConnectionLeaks`,
`LoopSurvivesRefresh` and `CloseReleases` are checked without cancelled callers,
failing closes, a dying loop and fail-fast overflows: with any of these the code
really leaks, stays without a loop or leaves close() unfinished. The reasons are in
the hazards of `PROJECT.json`. `StreamsEnd` passes when `close()` finds no reader
woken but not run (`ReadersRunFirst`), and `close_race` shows what happens without
that. The hang needs a full queue of size 1, or an overflow that raced the reader.
`LiveIsFed` is false whatever makes the loop end or stay away; `dead_stream` has the
plainest cause, and a refresh whose publication overflows is another (section 4).

**What the properties do not say**, where the documents ask for more than the code does:

* `LooplessIsResyncing` is about `health()`. The snapshot may still say LIVE, and after
  the last failed attempt of an automatic resync FINAL_SPEC.md:431 allows neither
  (`failed_recovery`).
* `HealthFollowsTable` and `ImplementsReplica` hold the code to its own table, in which
  nothing follows FAILED. FINAL_SPEC.md:206 has FAILED go to CLOSED
  (`close_after_failure`).
* `RevisionsIncrease` allows gaps. FINAL_SPEC.md:188 has the revision grow only when a
  snapshot is published.
* `LiveIsTrusted` says nothing of a STALE snapshot whose mark a refresh has cleared.
  FINAL_SPEC.md:355 wants the event and the reason in the diagnostics.
* `DomainsReportChanges` is for a consumer that takes "windows" and "focus" together.
  FINAL_SPEC.md:175 counts `focused_workspace_id` as focus, and it may change under
  WINDOWS alone. The property also excepts the half-applied layouts of a desync, which
  FINAL_SPEC.md:189 does not want published.
* `CaughtUpAgrees` lets a workspace that is active on its output keep `is_focused` when
  the focus goes to another output. FINAL_SPEC.md:477 asks for correct focus over several
  outputs.
* The first part of `DesyncIsResynced` is weak once a round has run out of attempts, since
  `attempt` keeps its maximum until the next round. Its second part is not: a desync seen
  since the last refresh began gets a refresh.
* `HealthySubscribersLoseNothing` is about the subscribers that keep up. An abandoned one
  fails the replica under fail-fast.

**Fairness.** A task that is ready runs, and the compositor answers or a timeout of
`niri_pypc` ends the wait: weak fairness of each caller's calls, of the
coordinator's refresh and of its own steps. asyncio's lock is fair; calls are
finitely many, so weak fairness of each waiter suffices. Nothing is assumed of
events, faults, cancellations or the calls users make. In `Broadcaster` readers
that keep reading are scheduled; publications and `close` may never come.
`Subscription` assumes the same of its consumers, and of nobody that they be finalized
or time out; `Replication` has safety properties only.

**Deadlock** is checked in every run but those of `Broadcaster`, `Subscription` and
`Replication`: a closed broadcaster whose readers have left has nothing more to do, and
a replica that has handled every change waits. In `NiriState` the
states in which nobody is in a call stutter explicitly (`Rest`); any other state
without a step would be reported.

## 4. Findings

What the runs that end in a violation show:

* `close_after_failure`: `close()` of a replica whose mutation loop failed raises the
  loop's exception after it has set `_closed`; neither the connection nor the coordinator
  nor the broadcaster is closed, and the second `close()` returns at once. Subscribers
  that wait are never woken (README.md:64). The replica stays FAILED: `health.py` has no
  transition to CLOSED, and `close()` would skip it anyway (FINAL_SPEC.md:206, 394).
* `close_race`: a blocked reader with a full queue hangs when `close()` comes between the
  publication that woke it and its own next step, since `close()` replaces its queue
  (README.md:64).
* `dead_stream`: the end of the event stream ends the loop silently; the replica stays
  LIVE (FINAL_SPEC.md:422).
* `unknown_event`: an unknown event under the stale policy never requests the automatic
  resync (FINAL_SPEC.md:420, 427).
* `failed_recovery`: a refresh that fails, also the last attempt of the coordinator,
  leaves `health()` at RESYNCING with nobody at work, while the snapshot says LIVE or
  STALE (FINAL_SPEC.md:431).
* `subscribe_gap`: what is published while the consumer of `subscribe()` handles its first
  snapshot is never queued for it. It can wait for ever over a FAILED replica it believes
  LIVE, or find its stream ended without CLOSED (README.md:61).

What the models show as well, without a run of its own; these disagree with a document
too:

* A partly applied `WindowLayoutsChanged` is published with the STALE snapshot
  (FINAL_SPEC.md:189).
* An invariant failure or a fail-fast overflow inside the loop uses up a revision number
  before FAILED is published with the next one (FINAL_SPEC.md:188).
* A refresh whose publication overflows a fail-fast subscriber raises with the new engine
  installed: the replica is LIVE without a loop, and the old connection stays open
  (FINAL_SPEC.md:422).
* `with_resync` clears the desync mark and the error that the replay of a buffered
  unknown event has set: the new replica is STALE without saying why (FINAL_SPEC.md:355).
* A focused window that moves takes `focused_workspace_id` along in a publication that
  names only WINDOWS; the command line does not print the new focus (FINAL_SPEC.md:326).
* When the focus goes to another output, the workspace it leaves keeps `is_focused` until
  a workspace of its own output is activated or a full list comes: an activation clears
  the flags of its own output only (FINAL_SPEC.md:477).

From `Replication`: `focused_workspace_id` may differ from the compositor's for as long
as no window has the focus, because `reconcile` lets it follow a focused window that
moves away; if a change is told about workspaces first, `reconcile` erases the active
window of a workspace whose window it does not know there yet, and nothing restores it
(hence the conditions in `CaughtUpAgrees` and `ActiveWindowsAgree`). A bootstrap whose
buffer is cut off in the middle of a change may end STALE and stay so, although the
data then agrees (`CaughtUpAgreement`); no resync is requested. If the stream does not start with the full
lists, a buffered event about a window that the answers no longer have fails the
connect, whereas FINAL_CONCEPT_ANALYSIS.md 7.3 argues that replay is right whatever
the prior state.

## 5. Proofs

Everything below is proved for all values of the constants (callers, connections,
subscribers, windows, queue sizes, policies, fault sets, bounds), from the named
assumptions on the constants and the hypotheses in the third column.

| theorem | states | hypotheses |
|---|---|---|
| **`NiriState_proofs`** | | |
| `TypeCorrect` | `TypeOK`, and the coordinator's attempts stay within the maximum | |
| `CallsExclude` | `MutualExclusion` | |
| `CancelledOutside` | `CoordinatorNotCancelledInside` | |
| `Invariance` | `IInv` | |
| `LoopReadsInstalled` | `LoopReadsInstalledConnection` | |
| `LiveBootstrapped` | `LiveIsBootstrapped` | |
| `RevisionsGrow` | `RevisionsIncrease` | |
| `HealthFollows` | `HealthFollowsTable` | |
| `LiveTrusted` | `LiveIsTrusted` | |
| `Refines` | `ImplementsReplica` | |
| **`NiriState_release_proofs`** | | |
| `LooplessSaysSo` | `LooplessIsResyncing` | drop-oldest |
| `ConnectionsDoNotLeak` | `NoConnectionLeaks` | `Undisturbed` |
| `LoopComesBack` | `LoopSurvivesRefresh` | `Undisturbed` |
| `CloseReleasesAll` | `CloseReleases` | `Undisturbed`, `LoopEndsWell` |
| **`Broadcaster_proofs`** | | |
| `BroadcasterTypes` | its `TypeOK` | |
| `QueuesAreLatest` | `QueueIsLatest` | |
| `HealthyLoseNothing` | `HealthySubscribersLoseNothing` | |
| `CloseLosesNothing` | `CloseKeepsLatest` | |
| **`Subscription_proofs`** | | |
| `ConsumersTypes` | `ConsumersOK` | |
| `ConsumersKeepPromises` | the broadcaster's three promises, in the composition | |
| `ConsumersSeeInOrder` | `SeenInOrder` | |
| `EndedIsOverflowed` | `StreamEndIsOverflow` | |
| `SleepersMissNothing` | `WaitersMissNothing` | `ReadersRunFirst` |
| **`Subscription_stream_proofs`** | | |
| `StreamsAreSeamless` | `StreamInv` | |
| `StreamsKeepTheirPromise` | `ImplementsStream` | |
| **`Engine_proofs`** | | |
| `EngineTypes` | its `TypeOK` | |
| `ReferencesAlwaysResolve` | `ReferencesResolve` | |
| `ReconcileStable` | `ReconcileIsStable` | |
| `InvalidAlwaysStale` | `InvalidIsStale` | |
| `FocusAgrees` | `FocusFollowsWindow` | |
| `DomainsReport` | `DomainsReportChanges` | |
| **`Replication_proofs`** | | |
| `ReplicationIsOK` | `ReplicationOK` | |
| `GreetedAlwaysConnects` | `GreetedConnects` | |
| `LiveIsSound` | `ReferencesResolve`, `ReconcileIsStable`, `InvalidIsStale` and `FocusFollowsWindow` of a live replica of a changing compositor | |
| **`Replication_agreement_proofs`** | | |
| `CaughtUpAgreement` | `CaughtUpAgrees` | |
| `ActiveWindowsAgreement` | `ActiveWindowsAgree` | |

**The lifecycle** (`NiriState_proofs`). The property about the loop is not inductive: a
refresh swaps connections in several steps, and only the lock keeps others out
meanwhile. `IInv` says so. `MutualExclusion`: the tasks inside a call are exactly the
holder of the lock. Hence only one `pc` matters, and `Ground(pc)` states what its
holder may still rely on: its lifecycle checks, the loop it stopped, the new
connection. `ConnectionsApart` keeps the connection a call may close different from the
installed one, and `HealthTellsStage` ties the health to how far the replica got
(BOOTSTRAPPING exactly while nothing is installed, FAILED only with a dead loop,
CLOSED only after close). `AttemptsLeft` bounds the attempts. `SuspendsType`,
`LockSuspends`, `GroundSuspends` and their companions reduce each action to the way
it goes on or ends. `EngineChanges` then classifies every step by what it does to
engine and snapshot; revisions, the transition table, that LIVE comes only from a
bootstrap, and the trust in LIVE follow from that classification, the second last with
`OnlyResyncing`: health and snapshot differ only while the health is RESYNCING. The `strict` run
checks `IInv` on an instance with every fault.

**The refinement** (`NiriState_proofs`, its second part). Every step of `NiriState` is a step of
`Replica` or changes nothing it has. Beyond `IInv` this needs two facts:
`BroadcasterClosedLast`, the streams are ended only on a closed replica and after the
last snapshot, and `LastSnapshotStays`, a terminal snapshot is the engine's, so that
nothing is published after it.

**Release** (`NiriState_release_proofs`). `Loopless`: a connected replica without a loop
is RESYNCING, inside calls too. `InHand`: no connection is open but the installed one
and the one a call holds, and only a refresh that is still opening or giving up its
connection has stopped the loop. `Released`: what `close()` has let go of at each of
its awaits. They are false of the code without their hypotheses, each of which names a
hazard of `PROJECT.json`. `Undisturbed`: a cancelled call leaves its new connection
open, so does a connection that fails to close, and under fail-fast a publication may
raise in the middle of a refresh. `LoopEndsWell`: `close()` raises the exception of a
loop that died, and releases nothing (`close_after_failure`).

**Lines** (`Broadcaster_proofs`). What a subscriber received, followed by what is queued
for it, is one line of numbers. `Line(s)` says that it is in order and that: for a
registered subscriber the queue is the most recent publications (`Recent`) and, under
fail-fast, the line has no hole (`Complete`); for one that `close()` ended the queue ends
with the last publication and the sentinel (`Finishing`); for one that overflowed it
ends with the sentinel (`Ended`). `QueueIsLatest` alone is not inductive: nothing in
it keeps a reader that was woken, or whose queue was replaced, from finding anything
else. The lemmas about `Append`, `Tail` and the predicates carry the argument, one
step lemma per action; nothing depends on how many subscribers there are, and no
theorem needs `ReadersRunFirst`.

**Consumers** (`Subscription_proofs`). `ConsumersInv` adds to `Lines` what a consumer
holds: what it was offered is earlier than anything in its line (`Earlier`), what a
waiter has passed over did not decide it (`Undecided`), and `close()` reaches the
broadcaster only after the terminal snapshot (`Concluded`). A waiter takes a burst of items up to the
first that decides it; that there is a first one is the least-number principle, from
`WFMin`. `Idle` (a consumer that waits has an empty queue) is what `WaitersMissNothing`
needs in addition, and is false when `close()` overtakes a woken reader: that reader
sleeps over its old queue, which is the finding of `close_race`; hence the hypothesis.
Both invariants were checked by TLC on the instance of `streams`, `ConsumersInv` also
with `ReadersRunFirst` false.

**The stream** (`Subscription_stream_proofs`). Every step of `Subscription` is a step of
`SnapshotStream`, or none of the things a subscription promises anything about: waking
a reader, asking for an item that is not there, finalizing an abandoned generator. A
reader that takes the first `k` items of its queue is given `k` numbers that grow and
are all above the last one it had (`InLine`; that at least `k` publications were left
is `Climbs`), so the step is a `Deliver`, a `Leave` or, at the sentinel, an `End`: then
`Finishing` says that the last publication has been given. `Complete` says that a
fail-fast line has no hole, but only of a registered subscriber; `Seamless` carries it
past `close()`, to the end of the queue. No hypothesis is needed: the hang of
`close_race` delays a stream and does not falsify it. The run `streams` checks what
is left, `StreamsDeliver`, the progress `SnapshotStream` promises.

**The engine** (`Engine_proofs`). The properties of a published engine are not inductive:
a reducer starts from it and may leave references dangling. The invariant `EngineInv`
says that the engine is `Publishable`: `Repaired` (a fixed point of `Reconcile`), and
STALE unless its references resolve. Each repair has a lemma
that says which fields it touches, `Reconciled` composes them in their order, and each
reducer has a lemma that the engine it leaves, also when it raises half-way, is of the
right type and that the domains it names cover what it changed (`Sound`). What `Handle`
does with a sound reducer is then proved once for all events.

**The replay** (`Replication_proofs`). `ReplicationInv` adds two things to the types.
`PhaseInv`: what each phase allows; for a live replica, `EngineInv`. `StreamTells`: if
the stream starts with the lists, every event sent since is about ids told of before it,
and by the last one every id the compositor has has been told of. Of each type of event
`Needs(ev)` has the ids without which its reducer raises, `Gives` and `Takes` those it
adds and removes; `EventsKept` and `ReplayStep` say that reducing and repairing keeps
what the engine has, but for what is taken. `Known(h, n, x)`: one of the first `n` events
of `h` gives `x` and none after it takes it. `Told(buffer \o stream, Ids(world))` holds
of the lists a stream starts with, and every change keeps it (`ChangeTells`, one case
per kind of event; a set of events is sent in any order). Hence a replay of the buffer
has, after `n` events, at least what is known after `n`, and never meets an event it
must refuse (`ReplayAccepts`), whatever the answers were.

The replay is a fold. `IsReplay` states what its defining function must satisfy;
`ReplayExists` builds that function, and `ReplayInduction` proves what holds of its
first value and is kept by each step. Both are from the least-number principle
(`LeastNatural`), with the property given as a set for each `n`: the library's
induction theorems, which take an operator, are not needed. That ids are finitely many
is assumed (they are numbers of 64 bits): without it the events of one change could not
be put in a sequence. TLC checked `ReplicationInv` on the instance of `replication`.

**Agreement** (`Replication_agreement_proofs`). `CaughtUpAgrees` is about the moment when
nothing is left to come, and says nothing before it. `AgreementInv` says what is to come:
an engine `e`, the events of `h` after the first `n`, and a world `w` are in the relation
`Follows(e, h, n, w)` if reducing those events makes `e` agree with `w`. While the queries
are answered, `e` is what the engine would be built from if the others were answered now
(`Asked`) and `h` is `buffer \o stream`; afterwards `e` is the engine and `h` the stream.

`Follows` has one part for each thing that can agree: a window, the set of workspaces,
the flags of an output's workspaces, the focused window, the active window of a workspace. For each there are the
places where it is set (place `n`, which stands for the engine, and the events about it)
and those of them that set it right; `Settled` says that a wrong place is followed by
another one. Since every event says what was so when it was sent (`Correct`), and a change
of anything sends an event about it (`Complete`), this holds of any history, and no event
needs to be compared with the answers: it does not matter how old they are, whether the
stream started with the lists, or where the buffering was cut off.

Two parts need more, since what is right can be lost again. `reconcile` forgets a focused
window that is not there, so a place counts as right only if from there on the window is
what it is in `w` (`Steady`, which is `Settled` up to that place instead of the end);
events of one change about a window come before the one that gives it the focus
(`Ordered`). The same goes for active windows, and there the order is right only if the
events about windows come first: hence `~workspacesFirst`. In the other order an active
window can be erased, but never replaced by an old one (`Fresh`), which needs no `Steady`.
Flags are followed output by output. An activation sets those of one output's workspaces,
if the replica has the compositor's workspaces and their outputs; if it has not, a list
of workspaces is still to come (`FlagsNext`), and so it is when a workspace changes its
output. `SameFlags` asks no more of `is_focused` than what a change of the focus tells:
it sends an activation on the output it goes to and none on the one it leaves, where the
workspace that is shown may keep the flag (`ShownAsWas`). That is why `CaughtUpAgrees`
does not claim it: it would be false of the code.

`FollowsNext` (an event is reduced), `ReconcileFollows`, `CheckedFollows` and
`HandleFollows` (the repairs, the checks and the loop's body, also when a reducer raises)
say that handling an event keeps `Follows`; `FollowsMore`, with `ChangeSent` and
`TouchSent`, that a step of the compositor does; `FollowsShift` forgets what was handled.
The replay is `FollowsNext` again, once for each buffered event, by `ReplayInduction`.
`NothingToCome` reads both properties off `Follows` with no event left. No hypothesis is
needed beyond the one in `ActiveWindowsAgree`. TLC checked `AgreementInv` on an instance
with three workspaces and no windows and on a smaller one of `replication`.

**Only model-checked.**

* Liveness: `CallsReturn`, `DesyncIsResynced`, `StreamsEnd`, `StreamsDeliver`. The
  proof system has no rule for ENABLED, and weak fairness needs it.
* The runs that find violations.

## 6. Plan

Done: the modules, runs and proofs above. Every invariant and every action property of
the passing runs is stated by a theorem; the liveness properties cannot be.

Next, if the code changes: an automatic resync of a replica that a bootstrap left STALE
(section 4) would join `NiriState` and `Replication`, whose `Follows` could then start
again at every refresh.

## 7. Not modelled

* Selectors (`api/selectors/`): pure lookups in one immutable snapshot.
* The command line (`cli.py`): a subscriber that prints; `Subscription` has what happens
  to it, the rest is argument parsing and formatting.
* `api/errors.py`, `api/types.py`, `adapters/protocol.py`, `observability/`: exception
  classes, aliases, re-exports, a logger factory. Which exception is raised is in the
  actions.
* Derived indexes of a snapshot and the invariants that compare them with what they are
  computed from; titles, geometry, urgency and timestamps of windows; the counters and
  notes of diagnostics: stored, and read by nothing that decides.
* Fail-fast overflow of `NiriState`'s CLOSED publication is in `NiriState`, but nothing
  good holds after it: connection, coordinator and broadcaster stay open.
