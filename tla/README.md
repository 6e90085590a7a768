# LuauG in TLA+

LuauG is a game engine: a C++ core that steps a world of instances at a fixed
tick, and Luau scripts that own its behaviour. This directory specifies and
checks the parts of the core whose correctness is a matter of *order*: who holds
a slot, who is awake, what a handle still names, what a queue still holds. It
follows the code, line by line where the control is, and quotes the
documentation only where the two disagree.

`PROJECT.json` is the index: the components, the runs, the lines each definition
stands for (`map`), the mutations each property is known to catch (`mutants`),
the disagreements found (`findings`), the hazards and the theorems.

    tlc -workers 2 -config SlotMap.cfg MCSlotMap     a run
    tlapm JobPoolProofs.tla                          a proof

## 1. The system

The engine is layered (docs/architecture.md, section 2): `core`; then `jobs` and
`platform`; then the interfaces to rendering, physics and the network, and
`asset`; then `scene`; then `render`, `audio`, `input` and `nav`; then `ui` and
`script`; and `app` on top, which owns the frame. Almost everything above `jobs`
and `platform` runs on the main thread. What makes it hard is therefore of two
kinds: a few places where threads do meet, and many where one thread calls back
into code that changes what the caller was in the middle of.

| Component | State | Operations | Talks to | What is hard |
| --- | --- | --- | --- | --- |
| Job pool (`engine/jobs`) | job slots with generations, a queue per worker, dependency counts, a ready count, `running` | `schedule`, `wait`, `init`, `shutdown`, the worker loop | every parallel loop of the engine | lock-free reads beside a lock and a condition variable; helping while waiting; shutdown against work in flight |
| Parallel ranges, `StableCommit` | buckets per range | `parallelFor`, `merged` | job pool | a partition that must not depend on the machine |
| Asynchronous file IO (`engine/platform`) | request slots with generations, a priority queue, the in-flight budget, SDL's queue | `readFileAsync`, `cancelIo`, `setIoPriority`, `takeIoResult`, `pumpIo`, `initIo`, `shutdownIo` | UI fonts, streaming, field cells, thumbnails and audio, all polling | a submitter thread that opens files outside the lock; cancellation at every stage; a shutdown that must count what SDL holds |
| Generation-checked slots (`core::SlotMap`) | slots, generations, a free list, ceilings | `insert`, `erase`, `clear`, copy, `restoreFrom` | instances, signals, connections, tweens; the editor's Play and Stop | a restore that moves the past back in while handles of the present are still held |
| Instance hierarchy (`scene::World`) | parent and sibling links, a name index, tags both ways, the corpses | `create`, `setParent`, `setName`, `moveChild`, `destroy`, `retireDestroyed`, `clone`, `addTag`, `removeTag` | scripts, the scene file, replication, streaming | four indices of one tree; a destroy in two steps, with a corpse in between |
| Deferred signals (`engine/script`) | connections, listeners of a signal, the queue with captured targets, the depth | `Connect`, `Once`, `Wait`, `Disconnect`, `Fire`, `Destroy`, `task.defer`, the drain | World (changes become fires), task scheduler | handlers change everything the drain is holding |
| Task scheduler | timers by due tick, deferred tasks | `task.wait`, `task.delay`, `task.defer`, `task.cancel` | deferred signals, the tick | a timer cancelled by another of the same tick, which has been collected with it |
| Script modules | the cache of `require`, start and stop of scripts | `require`, `startScript`, suppression | signals, tasks | cycles; a module that yields while it loads |
| Chunk streaming (`asset::StreamingManager`, `app::StreamingHost`, `scene::StreamingGlue`) | the state of each chunk, the reads that are out, the budget, the glue's record of what it built | `tick`, the completion of reads, materialize, evict, `LoadAreaAsync`, a hot reload | file IO, World, scripts | three records of one fact, replaced at different moments; results that come back for a world that has gone |
| Field streaming (`app::FieldStreamer`, `app::TerrainCells`) | the same manager, the live field, the cells it holds, the files | `pump`, materialize, evict, `saveTerrain`, `adoptTerrain`, `reconcile` | file IO, terrain and block fields, the editor | telling what came from a file from what somebody shaped |
| Replication session (`engine/replication`) | histories of states, baselines, acknowledgements, who is which player | `send` and `receive` at both ends, hello and welcome, the rejoin | transports, World | loss, overtaking, a baseline the other side has dropped, a player who is back before it is missed |
| Remote calls (`script/remote.cpp` and the session) | inboxes, outboxes, what is held for a spawn, running handlers, waiting callers | `FireClient`, `InvokeServerAsync`, `OnServerInvoke`, `sendMessages`, `receive` | session, timers, World | messages that wait in three queues; handlers that outlive the tick, the player, or the function |
| Transports | channels | `send`, `poll`, connect and close | session | delay and loss; half-open connections |
| Frame scheduler and world host | the accumulator, the tick, the phases | `beginFrame`, the phases of a tick | everything above | catch-up, and the order of drains in a tick |
| Hot reload, developer control, input, tweens | see PROJECT.json | | | |

How they meet, in a tick: the frame scheduler turns time into ticks; in each the
world host runs the phases, and at PreRender, PreAnimation, PreSimulation,
PostSimulation and Heartbeat drains the deferred queue; `ScriptRuntime::drain`
turns what changed in the World into fires, works the queue off to the end, and
calls `World::retireDestroyed`; timers resume between PostSimulation and
Heartbeat; `pumpIo` runs once a frame and hands finished reads to whoever polls.
Every name that crosses one of these borders is a generation-checked handle.

The rest of the engine is rendering, physics, navigation, audio, layout, asset
formats, the editor and tools. It is listed in PROJECT.json with the reason it is
not modelled: it is data (floating-point, geometry, text) more than control, or a
thin layer over a library.

### What makes each component correct

* **Job pool.** A job runs once, behind everything it depends on; a wait returns
  when the job has run and not before; nobody sleeps on work; shutdown runs what
  was scheduled and joins; a handle of a finished job never says otherwise.
* **File IO.** What is counted in flight is in flight; bytes reach the request
  that asked; an accepted read is finished or dropped; a callback fires once;
  shutdown waits for exactly what SDL holds, and returns.
* **Slots.** A handle names what it was issued for or nothing, whatever is erased,
  cleared or restored, and no slot is lost.
* **Hierarchy.** Parent and child agree, the name index is the children of a name
  in order, the two sides of the tag index agree, listeners know the descendants,
  destroy takes the whole subtree, and a clone is a copy.
* **Streaming.** A place in the budget is taken by a read that will end, and by
  nothing else; what the manager takes for resident is in the world, once; what a
  script holds outlives its chunk; a settled focus gets the world it is near. For the
  ground: loading and dropping cells never change it, a save leaves nothing out.
* **Session.** What a replica shows is one state the authority had, never an older one
  than it showed before; the two ends agree on what the replica has been told of; a
  quiet stretch brings it up to date, whatever was lost before.
* **Remote calls.** What is sent names something the other end has; messages of one
  event stay in order; every question is answered, or what happened to it is known; a
  timer is due on its tick, in its order.
* **Parallel ranges.** The partition of a span depends on the span and the grain and
  covers each element once, and a walk over the buckets is the sequential order.
* **Signals.** One queue, one order; a fire reaches those connected when it was
  raised, unless they disconnect first; a destroyed instance is silent but for
  `Destroying`; every drain ends.

## 2. Modules

| Module | Lines of the code | What it is |
| --- | --- | --- |
| `JobGraph` | (the promise of jobs.h) | abstract: submit, start behind dependencies, finish, await |
| `JobPool` | engine/jobs/src/jobs.cpp | the pool, one step per critical section |
| `ParallelFor`, `StableCommit` | jobs.h (parallelFor), commit.h | the partition, its waves, and the buckets: pure operators |
| `MCJobPool`, four cfg | | small programs over small pools; the assumptions that check the partition |
| `JobPoolProofs` | | theorems about `JobPool` (slots, handles, shutdown, queues, stacks, wake-ups), that it implements `JobGraph`, and about the partition |
| `AsyncIo` | engine/platform/src/async_io.cpp | the IO service: callers, submitter thread, SDL, pump, shutdown |
| `Sublists`, `SublistProofs` | | what a loop keeps of a vector, in its order, for the IO queue, the lists of listeners, the timers and what the remote calls hold; lists behind one another; and that it is that |
| `MCAsyncIo`, two cfg | | |
| `AsyncIoProofs` | | theorems about `AsyncIo`, and about `World` |
| `HandleTable` | (the promise of slotmap.h) | abstract: a handle names one object for ever |
| `SlotMap` | engine/core/include/luaug/core/slotmap.h | the container and its copies |
| `MCSlotMap`, one cfg | | |
| `World` | engine/scene/src/world.cpp | the tree and its indices |
| `MCWorld`, three cfg | | |
| `DeferredOrder` | (api-design.md, section 3.1) | abstract: one line in which listeners and tasks wait |
| `DeferredSignals` | engine/script/src/signals.cpp, tasks.cpp, runtime.cpp, instance_binding.cpp | the queue and its drain |
| `MCDeferredSignals`, two cfg | | |
| `SignalProofs` | | theorems about `DeferredSignals`, and about the slots (`SlotMap`) that its connections, signals and instances are handles of |
| `StreamingOrder` | engine/asset/src/streaming.cpp; both hosts | the order chunks are asked for in, and the list of reads a frame goes through |
| `StreamingManager` | engine/asset/src/streaming.cpp | the policy both streamers run, as operators on its record |
| `ChunkStreaming` | engine/app/src/streaming_host.cpp, world_host.cpp, reload.cpp; engine/scene/src/streaming_glue.cpp | the host's frame, the glue, the scripts and the reload around it |
| `Ground` | (the promise of field_streamer.h) | abstract: the ground is as whoever shaped it left it |
| `FieldStreaming` | engine/app/src/field_streamer.cpp, terrain_cells.cpp; engine/asset/src/field_cells.cpp | cells of ground, in a game and in the editor |
| `MCChunkStreaming`, `MCFieldStreaming`, four cfg | | |
| `ChunkStreamingProofs`, `FieldStreamingProofs` | | theorems about the two hosts, each with its lemmas about the manager |
| `ReplicationSession` | engine/replication/src/session.cpp, replication.cpp | both ends and the network between them |
| `MCReplicationSession`, two cfg | | |
| `ReplicationProofs` | | theorems about `ReplicationSession` |
| `TaskTimers` | engine/script/src/tasks.cpp | the timer list, as operators |
| `RemoteCalls` | engine/script/src/remote.cpp, tasks.cpp; engine/replication/src/session.cpp | questions, messages and timers over a session |
| `MCRemoteCalls`, one cfg | | |
| `RemoteCallsProofs` | | theorems about `RemoteCalls` and the timer list |

A configuration that no run of PROJECT.json uses is evidence for a disagreement of
section 6: TLC reports its one property violated.

### JobPool and JobGraph

An *actor* is something that can take a step: the main thread, a worker's loop, or
the body of a job. A job runs on the stack of the actor that called it, so the
call stack of a thread is a chain (`callee`), and only its top steps: that is what
makes helping during a wait, inline execution and the deadlock of two suspended
bodies expressible. `on` is the thread-local worker index, which decides whose
queue an enqueue pushes to.

Each critical section is one action; what the code does between two of them is
two. `schedule` reads `running` with no lock (`Schedule`), takes a slot under the
lock (`Allocate`) or runs inline (`RunInline`); an enqueue pushes to a queue
(`Push`), counts (`Count`) and notifies (`Notify`) in three steps, because a thief
can take the slot between the first and the second. Waiting evaluates its predicate
under the lock (`WaitCheck`, `Park`) and registers with the condition variable in
the next step (`Sleep`), with `graphLock` held between: whether a notification can
be lost there is what D037 of docs/defects.md was about, and `StopRunningUnlocked`,
the store before that fix, is a mutant here.

Left out: the exact victim order of a steal (any order), the free list's order,
names, domains, statistics, spurious wake-ups. A spurious wake-up only re-evaluates
the predicate, so leaving it out can hide nothing but a *lost* wake-up repaired by
luck. The ready count is an integer, not a u32: the code reads it only against 0,
and `ReadyCounted` says by how much it may be below the queues' length. A callable that
is aligned beyond 16 bytes, which `schedule` also runs inline (jobs.cpp:454), as in a
serial pool: no callable of the repository is, and a larger one does not compile
(jobs.h:168).

A program is a constant: `Body[a]` is what the main thread or a job's callable does
to the pool, `Deps[j]` what j is scheduled behind. `PoolAssumption` says a job is
scheduled once and only the main thread inits and shuts down, as in the
repository.

### ParallelFor and StableCommit

`parallelFor` cuts a span into ranges of `grain` elements, schedules them in waves the
pool has slots for, and waits for each wave; each range is a job, and its scheduling
and waiting are `JobPool`'s. What is left is arithmetic, at the widths of the code
(`% SizeLimit` for usize, `% IndexLimit` for u32), and the question whether the
partition is one. `Fits` says when no sum wraps: below it the code is right, and at
2^32 ranges it is not (a hazard of the type's width; no caller comes near it).
`StableCommit` is a bucket per range and a walk in index order; `Deterministic` says
that every order in which the pool can run the ranges leaves the same walk.

### AsyncIo

Four actors share the service: callers on the frame thread (`Call`), the submitter
thread (`Submitter`), SDL (`Sdl`, external: it finishes any read it holds, well or
badly, in any order) and the pump and shutdown, again on the frame thread (`Frame`,
`Stop`). The submitter picks the best request under the lock, opens the file
without it (`sub = "opening"`), and comes back to find the request as it was, or
cancelled, or re-prioritised. `pumpIo` collects outcomes under the lock and fires
callbacks outside it, so between `PumpIo` and `CallbackReturns` a callback can do
anything a caller can. `shutdownIo` is staged as it is in the code: stop flag, wake,
join, and only then read what is outstanding, wait for it with a bounded number of
empty waits, and release everything.

A file is the request that asked for it, so a mix-up is visible (`bytes`, `file`).
`told` and `over` are history. Left out: the process-exit destructor, statistics,
and the sizes of reads.

### SlotMap and HandleTable

Sequential: every operation is one action, and the hazards are in sequences of
them. `saved` is the set of copies a caller keeps (the editor keeps one over Play);
`RestoreFrom` brings a copy back, moves every free slot past all generations the
slot ever had, and gives slots the copy never saw back to the free list. `issued`
is the history of handles, each with what it was issued for. `wrapped` records that
a slot used up its generations (`LastGeneration`, 2^32 - 1 in the code); the promise is made
until then, because `nextGeneration` then repeats itself. The free list is a set:
which free slot is reused is left open.

### World

Instances are numbered as they are made (that a handle is never confused is
SlotMap's theorem). The sibling links are a sequence of kids per parent; the name
index is kept as the code keeps it, a chain of `first` and `next`, because its
surgery (`indexName`, `unindexName`, and the rebuild on a move) is where it can go
wrong. `heard` counts, for each ancestor and member, DescendantAdded less
DescendantRemoving. `Destroy` takes the subtree apart and leaves corpses;
`RetireDestroyed` erases them at the end of a drain. `CorpseUse` says what scripts
may do to a corpse in between: nothing (`{}`), tag it, or parent something under
it; the last two are the violations below.

Left out: properties, attributes, materials and components, which are data per
instance that these operations copy or erase as a whole.

### DeferredSignals and DeferredOrder

A fire captures its targets when it is raised (`FireEntry`) and asks each again
when it is served (`ServeTarget`); past `MaxDeferredDepth` it is replaced by a
message to the console at the depth of whoever raised it (`Report`). A script fires
any signal, `Destroying` and `MessageOut` among them. `Destroy`
raises `Destroying` with the close behind it and closes the instance's other
signals at once; `TakeClose` frees the records; `EndDrain` retires what was
destroyed. Between two entries of a drain nothing else runs; within one, a resumed
handler does one thing and yields (`running`): the bound on what a script does per
resumption, enough because a handler that does two things is, for the queue, two
handlers of the same fire. A connection is a model value, used again when nothing
names it any more; that its handle is then another is SlotMap's theorem.

`suppressionFor` is `Suppressed`: a stopped script is not resumed, except, when it was
destroyed, by the `Destroying` of its destruction. The code tells that fire by a mark on
the entry (`hook`), which it puts on the last entry of the queue if that is a fire of the
signal (`Marked`, signals.cpp:953-962): where the fire was dropped past the cap, on a fire
by hand that happens to stand there. A waiter (`:Wait()`) is resumed regardless, as in the
code.

`DeferredOrder` is the promise: one line, `pending`, of listeners and tasks. While a drain
is on and nobody it has resumed is at work (`ready`), the first in line is resumed
(`Resume`) or, only if its script is `stopped`, passed over (`PassOver`), or a destroyed
instance's connections leave (`Close`); and the drain ends with nobody in line (`Turn`).

Left out: arguments and their arena, the conversion of property changes into fires,
the start of scripts that were enabled, which happens at the head of a drain.

### StreamingManager and ChunkStreaming

`StreamingManager` is the policy as operators on one record `m`: `Delivered`,
`Rescored`, `Leaving`, `ToBuild`, `ToRead`, `Started`. Its `tick` is a walk with a
budget of time and of bytes, which an action takes as choices (how many waiting chunks
it reached, how much room it had): every place at which a frame can run out is a choice
of `n` and `r`. Chunks lie on a line and scores are distances along it; the order they
give, and the loop over the reads that both hosts share, are in `StreamingOrder`.

`ChunkStreaming` is one frame at a time, since everything in a frame runs on the frame
thread: `setWorld` when the world is another than last time, the reads that have ended,
the manager's tick with the glue's materialize and evict inside it, the starts that
failed, and `publishStreamingResults`. Around it: reads end, the focus moves, scripts
hold instances and let go, wait for areas, turn streaming off and on, and a hot reload
replaces the world. The three records of one fact are kept apart as in the code:
`m.state`, the glue's `glue`, and what is in the world, `live`.

`crossed` is history: chunks whose read was outstanding when the world was replaced.
Such a read is delivered to the next world's manager, which the code's comment calls
harmless; section 6 says what it does, and the properties excuse exactly these chunks.

Left out: the building of the index, layers and the second and third dimension (a score
is a distance either way), the floating origin, the contents of a chunk.

### FieldStreaming and Ground

The same manager over ground. A cell holds one chunk of ground whose content is a
number; `field` is what is there, `held` what each loaded cell brought, `disk` the
files. Whether a cell is as it was brought (`Untouched`) is by content for terrain
and by object for blocks, and everything hangs on it: eviction takes out what is
untouched, and a save writes what is not. The editor's `Undo`, `OpenScene` and `Save`
and the game's `Reload` are actions beside the frame's `Pump`; a save may fail for any
of the cells it writes.

`Ground` is the promise: only somebody who shapes the ground changes it. `Shown` maps
the detailed state to it. `late` and `resaved` are history, and excuse cells that were
loaded for another world or scene, and saved while their old file was being read.

### ReplicationSession

Both ends and the wire. A state is a function from network ids to values; a snapshot
carries the records that differ from the baseline, and its checksum is the state
itself. Reliable messages keep their order, snapshots are lost and overtake anything
(`Deliverable`, `Lose`); with `Ordered` one stream carries everything, as over TCP.
`Dial` and `Break` end a connection at any moment, and the authority hears of it before
the player is back or after (`AuthorityHears`): each dial is a connection of its own in
`peers`, so a stale one can be told from the new. A receive is one step per message.

Left out: intents, ownership, prediction, interpolation and tilemaps, which ride on the
same messages; sizes and fragmentation.

### TaskTimers and RemoteCalls

`TaskTimers` is the timer list as operators, with deadlines as ticks left, and with the
ticks waited so far. `RemoteCalls`
is a tick in its stages, since what scripts do between two of them is the hazard:
`TickStarts` (the tick is counted up, world_host.cpp:846, so that every timer is a tick
older; answers of the handlers that have finished), `Handle` for each question
in the inbox, `TimersDue` (what is due by this tick is collected), `ResumeTimer` for each,
whose thread finishes, waits once more, or is dropped with its disabled script, and
`TickEnds`, which is `send` and `sendMessages`: what enters and leaves the replica's
interest, then what was held, then what is new. Between them scripts make and destroy
remotes, replace the handler, cancel threads, disable the script and fire messages. The
replica receives one message at a time and has a tick of its own.

`excused` is history: the questions something happened to that the code drops, or
leaves waiting, by design or otherwise.

Left out: `FireServer` (the same path the other way, without the wait for a spawn), an
authority that asks itself, arguments.

## 3. What is checked

A passing run is exhaustive within its bounds. Each property of a passing run has a
mutant: the definition it names, replaced by the named wrong one, makes TLC report
that property violated under the same configuration. The mutants stand in the
modules beside what they mutate.

| Run | Instance | Distinct states | What it shows |
| --- | --- | --- | --- |
| `job_graph` | 2 workers, 4 slots, 4 jobs: a join of two that may end at once, a job behind one of them, a wait in the middle, shutdown | 123,185 | `ShutdownRunsEverything`, `ImplementsJobGraph` |
| `job_fork` | 2 workers, 2 slots, 4 jobs: one forks two, the second behind the first, and joins them on its own stack; a second init and a second shutdown that find nothing to do; a job of the serial pool | 35,363 | `PoolExact`, `NoLostWakeup`, `NoLostShutdown`, `HandlesTrue`, `Termination` |
| `io` | 3 requests, 2 slots, 1 in flight, 2 priorities, 2 callbacks | 250,192 | `SlotsExact`, `BudgetExact`, `DeliveredRight`, `Answered`, `ShutdownReturns` |
| `slotmap` | 4 objects, 2 slots, 2 copies, 3 restores | 186,691 | `Unaliased`, `FreeExact`, `ImplementsHandles` |
| `world` | 4 instances edited, clones up to 6, 2 names, 1 tag | 68,977 | `TreeExact`, `NamesInChildOrder`, `HeardIsTrue`, `WholeSubtrees` |
| `signals` | 2 connections, 2 tasks, 4 signals, 1 instance, depth 1 | 241,276 | `ListsExact`, `DestroyedIsSilent`, `OneOrder`, `DrainEnds` |
| `streaming` | 2 chunks, 4 focus sets, 1 read in flight, 1 malformed chunk, 1 reload | 61,664 | `BudgetExact`, `WorldAgrees`, `HeldOutlives`, `AreaIsThere`, `Settles` |
| `field` | 2 cells (1 of blocks in a game), 2 scenes, 2 changes, 1 save | 93,084 | `GroundIsHeld`, `UnchangedIsSaved`, `ImplementsGround`, `GroundComes` |
| `session` | 2 instances, 2 values, 4 sends, a history of 2, 3 messages on the wire at a send, 3 changes, 2 connections; ids and values symmetric | 7,178,767 | `PeersExact`, `OneMoment`, `Recovers`, `NeverBack` |
| `remote` | 2 questions, 2 messages of 1 event, waits of 0 to 2 ticks, 2 connections, 1 change | 258,719 | `NothingIsDropped`, `WaitsAreExact`, `HeardInOrder`, `CallersReturn` |

and two that must fail, one property each: `field_dug` and `session_checksum`
(section 6). `MCJobPool` also evaluates the assumptions `PartitionIsRight`,
`WavesAreRight` and `CommitIsDeterministic`, over every span of up to 9 elements, every
number of ranges below 13, and every schedule of up to 5 elements.

Properties that are conjunctions are named for what they say together; the module has
their parts, each with its own comment:

| Property | Parts |
| --- | --- |
| `JobPool!PoolExact` | `SlotsConserved` (a slot is free, or of one job), `ReadyCounted` (the ready count is the queues' length but for what is being enqueued or stolen) |
| `JobPool!HandlesTrue` | `WaitMeansDone`, `HandleTruth` |
| `AsyncIo!SlotsExact`, `BudgetExact`, `DeliveredRight` | `TypeOK`, `SlotsAccounted`; `InFlightHonest`, `DrainCounts`; `NoMisdelivery`, `ToldOnce`, `HandleNamesOwn` |
| `World!TreeExact`, `WholeSubtrees` | `WorldTypeOK`, `ParentListsChild`, `TaggedAreCarried`; `DestroyTakesAll`, `CloneIsCopy` |
| `DeferredSignals!ListsExact` | `TypeOK`, `ConnectedIsListed`, `RetiredAfterDestroying` |
| `ChunkStreaming!BudgetExact`, `WorldAgrees`, `Settles` | `TypeOK`, `InFlightExact`, `LoadingIsRead`, `ReadsBounded`; `ResidentIsThere`, `LeftOnlyByReload`; `NearArrives`, `FarLeaves` |
| `FieldStreaming!GroundIsHeld` | `TypeOK`, `ResidentHasGround`, `OnlyWorkStays` |
| `ReplicationSession!PeersExact` | `TypeOK`, `KnownIsTold`, `OneConnectionEach` |
| `RemoteCalls!NothingIsDropped` | `TypeOK`, `NamedIsThere`, `NothingIsLost` |

### Why the bounds are enough

* *Jobs.* A lost wake-up needs one thread about to sleep, one that makes the
  predicate true, and one that could have been notified instead: two workers and the
  main thread. A slot queued twice needs two dependencies that finish at once on two
  threads: the join of `GraphDeps`, z behind x and y, which depend on nothing. Running
  out of slots needs one job more than slots: the fork has slots for two of three, and
  `PoolExact` is checked there, where a slot is also used again.
* *IO.* A race at the in-flight limit needs a read in flight, one in the queue and
  one that arrives; two slots and three requests make a stale handle meet a reused
  slot; one place in flight makes every lost or leaked place visible at once.
  `MaxEmptyWaits` is 2 where the code has 16: what matters is that it is reached,
  and reset.
* *Slots.* An alias needs a handle issued, a copy, a change of the slot, a restore
  and a change again; two copies make the restores go back and forth. Four objects
  through two slots give every slot a past in a copy and a present outside it.
  `LastGeneration` is 20, which no run reaches: `wrapped` stays false there, and the theorem
  has the rest.
* *World.* A chain of the name index with a middle needs three children of one name;
  four instances give that and a parent. Two names tell a rename. Clone is checked of
  subtrees of three, which have a child and a grandchild, or two children. The
  constraint `Bounded` keeps TLC from *editing* worlds above four; the properties of
  the world that a clone makes are checked.
* *Signals.* Two connections are the least that have an order; a task stands among
  them. An instance with an event and its `Destroying`, a script's own signal and the
  console's are the kinds of signal there are. `MaxDeferredDepth` is 1 where the code
  has 10: it is reached and exceeded. Two tasks stand in line beside a fire. `MaxQueued`
  bounds what scripts raise between two drains: with one entry queued they raise nothing
  more, and still connect, disconnect, close, disable and cancel. What handlers raise
  within a drain it does not bound, and lines of several entries arise there.
* *Streaming.* A place lost from a budget of one stops streaming for good, and two
  chunks compete for it. The focus is on one chunk with
  the other just within its drop radius, near both, near one and far from the other, or
  there is none, and everything is wanted.
  One chunk has bytes that do not decode. One reload puts reads of one world into the
  next.
* *Field.* One cell is blocks in a game, and both are terrain in the editor. A cell
  shaped, left and come back to is two changes with a focus that moves; a scene changed
  while a cell is read, one. The two scenes share one cell of the two. The focus is
  near one cell and far from the other, or there is none: a cell is wanted and unwanted.
* *Session.* Two instances, so that one may change while the other leaves. A history of 2
  states (64 in the code) is outrun by 4 sends: baselines are dropped at both ends, and
  `Recovers` still has its two quiet sends. Three changes and three messages on the wire at
  a send are what it takes for an instance to leave, come back, and have its second spawn
  overtake a snapshot of the time between; with two of either, TLC agrees with an
  `OneMoment` that is false. Two connections make one rejoin, noticed late or in time.
  One thing a history of 2 leaves out: a baseline is at most a tick old, and the refused
  snapshot of `session_checksum` does not occur in `session`. That run, with a history of
  its own, shows the refusal, and `RecoversHolds` the recovery, for every history.
  The theorems of section 4 have no such bounds.
* *Remote.* Two questions are what one poll cuts to one (`MaxPerPoll` is 1 where the code
  has 256), what two threads due in one tick are, and what a second connection asks
  after the first broke. `MaxHeld` is 1: what is held is given up within the run. One
  change per behaviour (a break, a cancel, a function moved, made or destroyed, a
  handler removed, a script disabled, a second wait of one thread) keeps causes apart.

Two constants of `DeferredSignals` close off what the code does wrong, so that the run
can show there is nothing else: `LateConnect` (scripts connect to a closed signal) and
`ConsoleRaises` (what listens to MessageOut raises something).

### Fairness

* `JobPool`: weak fairness of each actor's step. Every thread of the operating system
  is scheduled. No strong fairness is needed for the lock: only an actor about to
  sleep holds it across a step, and it goes to sleep.
* `AsyncIo`: weak fairness of the submitter, of SDL (which finishes what it was
  given), of the pump (the frame loop calls it every frame) and of shutdown once it
  is called. Nothing is assumed of what callers do: a program need never take a
  result, or shut down.
* `DeferredSignals`: weak fairness of the drain's loop and of a handler's return. That
  a frame begins a drain is not assumed, and `DrainEnds` does not need it.
* `ChunkStreaming` and `FieldStreaming`: weak fairness of `FullFrame`, a frame with time
  and room for everything in which every read starts, and of the end of every chunk's
  reads, which is `AsyncIo!Answered`. Frames that run out may come between; that they do
  not go on for ever is what the budget in milliseconds is set for. Nothing is assumed of
  focus, scripts or reloads: the properties speak of a focus that has settled.
* `RemoteCalls`: both machines tick and receive (weak fairness of each stage), and strong
  fairness of a tick with a snapshot due, since captures are every few ticks, and of a
  receive, which is possible only between ticks. Nothing is assumed of scripts or of the
  connection.
* `ReplicationSession` states no fairness. `Recovers` is a safety property: it counts the
  quiet sends (`calm`), and says how many are enough.
* `SlotMap` and `World` are passive: no fairness and no liveness.

Deadlock is checked in the runs of the first six, and off in the four whose bounds
(ticks, changes, reloads) let the system run out of things to do. `JobPool` ends in
`Over`, which stutters; a state of `AsyncIo` where nobody calls stutters in `Rest`.

## 4. What is proved

For every value of the constants that satisfies the named assumptions (34,096
obligations):

| Theorem | Statement | From |
| --- | --- | --- |
| `JobPoolProofs!TypeCorrect` | `Spec => []TypeOK` | `PoolAssumption` |
| `JobPoolProofs!ShutdownWakesWorkers` | `Spec => []NoLostShutdown` | `PoolAssumption` |
| `JobPoolProofs!SlotInvHolds` | `Spec => []SlotInv` | `PoolAssumption`, `OneLife` |
| `JobPoolProofs!HandlesTrueHolds` | `Spec => []HandlesTrue` | `PoolAssumption`, `OneLife` |
| `JobPoolProofs!PoolHolds` | `Spec => []PoolInv` | `PoolAssumption`, `OneLife` |
| `JobPoolProofs!PoolExactHolds` | `Spec => []PoolExact` | `PoolAssumption`, `OneLife` |
| `JobPoolProofs!ShutdownRunsEverythingHolds` | `Spec => []ShutdownRunsEverything` | `PoolAssumption`, `OneLife` |
| `JobPoolProofs!NoLostWakeupHolds` | `Spec => []NoLostWakeup` | `PoolAssumption`, `OneLife` |
| `JobPoolProofs!ImplementsJobGraphHolds` | `Spec /\ []Room => ImplementsJobGraph` | `PoolAssumption`, `OneLife`, `BodiesFork` |
| `JobPoolProofs!RoomHolds` | `Spec => []Room` | `PoolAssumption`, `OneLife`, a slot per job |
| `JobPoolProofs!JobGraphHolds` | `Spec => ImplementsJobGraph` | `PoolAssumption`, `OneLife`, `BodiesFork`, a slot per job |
| `AsyncIoProofs!InvHolds` | `Spec => []Inv` | `IoAssumption` |
| `AsyncIoProofs!SlotsExactHolds` | `Spec => []SlotsExact` | `IoAssumption` |
| `AsyncIoProofs!BudgetExactHolds` | `Spec => []BudgetExact` | `IoAssumption` |
| `AsyncIoProofs!NoMisdeliveryHolds` | `Spec => []NoMisdelivery` | `IoAssumption` |
| `AsyncIoProofs!DeliveredRightHolds` | `Spec => [](life <= 1 => DeliveredRight)` | `IoAssumption` |
| `SignalProofs!TypeCorrect` | `SlotSpec => []SlotTypeOK` | `SlotAssumption` |
| `SignalProofs!SlotsExact` | `SlotSpec => []FreeExact` | `SlotAssumption` |
| `SignalProofs!NeverAliased` | `SlotSpec => []Unaliased` | `SlotAssumption` |
| `SignalProofs!MapImplementsTable` | `SlotSpec /\ []~wrapped => ImplementsHandles` | `SlotAssumption` |
| `ReplicationProofs!SessionInvHolds` | `Spec => []SessionInv` | `SessionAssumption` |
| `ReplicationProofs!PeersExactHolds` | `Spec => []PeersExact` | `SessionAssumption` |
| `ReplicationProofs!OneMomentHolds` | `Spec => []OneMoment` | `SessionAssumption` |
| `ReplicationProofs!NeverBackHolds` | `Spec => NeverBack` | `SessionAssumption` |
| `ReplicationProofs!RecoversHolds` | `Spec => []Recovers` | `SessionAssumption`, `StateHistory >= 2` |
| `ChunkStreamingProofs!BudgetExactHolds` | `Spec => []BudgetExact` | `StreamingAssumption`, `ChunkStreamingAssumption` |
| `ChunkStreamingProofs!WorldAgreesHolds` | `Spec => []WorldAgrees` | the same |
| `ChunkStreamingProofs!HeldOutlivesHolds` | `Spec => HeldOutlives` | the same |
| `ChunkStreamingProofs!AreaIsThereHolds` | `Spec => AreaIsThere` | the same |
| `FieldStreamingProofs!InvHolds` | `Spec => []Inv` | `StreamingAssumption`, `FieldAssumption` |
| `FieldStreamingProofs!GroundIsHeldHolds` | `Spec => []GroundIsHeld` | the same |
| `FieldStreamingProofs!UnchangedIsSavedHolds` | `Spec => []UnchangedIsSaved` | the same |
| `FieldStreamingProofs!ImplementsGroundHolds` | `Spec => ImplementsGround` | the same, `MayDigOut = FALSE` |
| `SignalProofs!SignalInvHolds` | `Spec => []SignalInv` | `SignalAssumption` |
| `SignalProofs!QueueExact` | `Spec => [](TypeOK /\ RetiredAfterDestroying)` | `SignalAssumption` |
| `SignalProofs!ListsExactHolds` | `Spec => []ListsExact` | `SignalAssumption`, `~LateConnect` |
| `SignalProofs!DestroyedIsSilentHolds` | `Spec => DestroyedIsSilent` | `SignalAssumption`, `~LateConnect` |
| `SignalProofs!OneOrderHolds` | `Spec => OneOrder` | `SignalAssumption`, `~LateConnect` |
| `RemoteCallsProofs!BaseHolds` | `Spec => []Base` | `RemoteAssumption` |
| `RemoteCallsProofs!WaitsAreExactHolds` | `Spec => []WaitsAreExact` | `RemoteAssumption` |
| `RemoteCallsProofs!HeardInOrderHolds` | `Spec => []HeardInOrder` | `RemoteAssumption` |
| `RemoteCallsProofs!NamedIsThereHolds` | `Spec => []NamedIsThere` | `RemoteAssumption` |
| `RemoteCallsProofs!NothingIsDroppedHolds` | `Spec => []NothingIsDropped` | `RemoteAssumption` |
| `AsyncIoProofs!WorldHolds` | `WorldSpec => []WorldInv` | `WorldAssumption`, `CorpseUse = {}` |
| `AsyncIoProofs!TreeExactHolds` | `WorldSpec => []TreeExact` | the same |
| `AsyncIoProofs!NamesInChildOrderHolds` | `WorldSpec => []NamesInChildOrder` | the same |
| `AsyncIoProofs!HeardIsTrueHolds` | `WorldSpec => []HeardIsTrue` | the same |
| `AsyncIoProofs!DestroyTakesAllHolds` | `WorldSpec => DestroyTakesAll` | the same |
| `AsyncIoProofs!CloneIsCopyHolds` | `WorldSpec => CloneIsCopy` | the same |
| `AsyncIoProofs!WholeSubtreesHolds` | `WorldSpec => WholeSubtrees` | the same |
| `JobPoolProofs!PartitionCovers` | every element of a span is in one range | `WidthAssumption`, `Fits` |
| `JobPoolProofs!PartitionInside` | a range is not empty, and inside the span | `WidthAssumption`, `Fits` |
| `JobPoolProofs!PartitionInOrder` | a lower range holds lower elements | `WidthAssumption`, `Fits` |
| `JobPoolProofs!WavesCover` | waves meet: none empty, none too large, no range between two | `WidthAssumption` |
| `SublistProofs!SublistIsExact` | what is kept of a sequence, in its order, each once | |

**Parallel ranges.** `Division` is the one fact about `\div` the rest needs, `Product`
the one about multiplication. `CountIsCeiling` shows that under `Fits` the two
reductions of `RangeCount` change nothing and the count is the span over the grain,
rounded up; `RangeBounds` that neither does the one in a range's begin and end. The
range of an element is then its offset over the grain, and two ranges that share an
element are equal since one below the other ends a whole grain before it. `Fits` is
what the widths demand, no more: a span of 2^32 grains loses its tail, and the last
wave's start must not wrap (`ranges + MaxRangesPerWave < IndexLimit`).

**JobPool, types.** `TypeOK` is not inductive: a job in `complete` looks its slot up in
its handle, and nothing in the types says that it has one. `TypeInv` adds
`CompleteHasSlot`. One lemma per action.

**JobPool, shutdown.** `NoLostShutdown` says that no worker sleeps once `running` is
false, but for the instant before `notify_all`. The invariant behind it,
`ShutdownInv`, follows the lock: a worker in `sleep` (predicate evaluated, not yet
registered) holds `graphLock`, and it evaluated `running` as true; `StopRunning` takes
the same lock, so it cannot fall between the two; and after it the main thread is in
`stopNotify`. Most actions touch none of this, and share the lemma `QuietKeeps`; the
five that do have their own. Take the lock out of `StopRunning` and the proof fails
where the D037 hang was.

**JobPool, slots and handles.** `SlotInv` has three layers. Where an actor is:
`PhasesFit`, `OpsFit` (an actor inside `schedule`, `wait` or `shutdown` is at that
operation of its body), `SubmittedOnce` (what has a handle was scheduled by an operation
some body has passed, which is why it is not scheduled again), `Life` and `FirstIsClean`
(before `init`, and during a shutdown). What a slot says: `SlotsAnswer` (a slot answers
for the job its handle names until the generation moves on, and then the job is done).
What is queued: `Places` (a slot about to be queued or queued holds a job that may run
and has not, and is in one such place) and `Waits` (a slot's count is the number of the
slots that will notify it). `WaitMeansDone` is proved with them, since each needs the
other: a wait reads a generation, and the generation is true because nobody completes
twice. Most of the first layer follows from two facts about *any* step, proved once per
action: the arcs (`Arc`: from where to where an actor can go, past which operation) and
the histories (`done`, `runs` and the handles only grow).

`OneLife` says that the main thread does not `init` after a `shutdown`. `init` sets the
generations back to 1 (jobs.cpp:368), so a handle kept over a shutdown would name a
stranger: the theorems are false without it, for a program that keeps one. A second
`init` of a running pool and a second `shutdown`, which return at once, are allowed and
are in the run `job_fork`.

**JobPool, queues and stacks.** `PoolInv` adds `Stack` (a job that was started and has
not returned is called by exactly one actor, on that actor's thread, and no set of jobs
calls itself: `Rooted`), `CountFits` (`ReadyCounted`, over finite sets) and
`NothingLost`: a slot that is ripe is in somebody's hand or in a queue (`NoneIsLost`),
a worker past its last look has left nothing behind (`Drained`), and the dependencies
among jobs with slots have no cycle (`Grounded`). From the last two it follows that
when the workers are gone everything has run: were there a job left, one of those left
would wait for none of the others, be ripe, and be somewhere, and there is nowhere.
`WakeInv` adds what a sleeper knew when it took the lock (`SleeperLooked`) and who still
owes it a notification (`AsleepFits`). `Workers # {}` is assumed: with no worker a job
that is queued would be run by nobody, and `init` makes one at least (jobs.cpp).

**JobPool, the promise.** The dependencies of a job are read once, in `Allocate`; what
starts it later is a count that has come to nothing. `Recorded` ties the two: a slot whose
job has not begun has, for each job that one was scheduled behind, that job done or an edge
from its slot. With `Waits`, a slot whose count is nothing has no edge into it, so that its
job's dependencies are done when it starts, and each action is then one step of `JobGraph` or
none. Two conditions are needed, since what runs inline looks at no dependency. `Room`: no
`schedule` finds every slot taken (the disagreement `JobPoolExhausted` of section 6);
`RoomHolds` gives it for a pool with a slot for every job, where the slots that are taken and
the jobs not yet scheduled can be counted against each other (`Filled`). `BodiesFork`: what
the body of a job schedules has no dependencies, as in a `parallelFor`; a job that is still
running while the pool shuts down schedules inline, whatever is queued.

**AsyncIo.** The inductive invariant `Inv` is `TypeOK`, `SlotsAccounted` and:
`Shape` (a free slot is blank, the marks of a request agree, nothing exists before
`initIo` and after `shutdownIo`, and the stages of a shutdown have left what they should),
`Hands` (the submitter, SDL and the outcomes hold at most one task of a slot between
them, and each task belongs to the request whose file it is), `Budget` (what is counted
is what those hands hold, over finite sets) and, while the service has been started
once, `FirstLife`: a held slot is named by its owner's handle and a free one by nobody's,
and whoever is still owed a callback has had none and has not given up. `Hands` is what
makes the outcome of a read find its request after a cancel and a reuse of the slot:
cancelling a read in flight leaves the slot taken until the read ends. `pumpIo` treats
any number of outcomes at once; its lemmas are of the slots it lets go, settles or leaves
alone, and of the callbacks it owes (`SublistProofs`). `DeliveredRight` is of the first
life only, for the reason of `OneLife`; that no read reaches a request which did not ask
for it (`NoMisdelivery`) holds for any number of lives.

**SlotMap.** The inductive invariant `SlotInv` is `SlotTypeOK`, `FreeExact`, `CopiesExact`
(each copy is as exact as the map was, and no larger) and, until a slot wraps:
`Bounded` (no handle of a slot is above both its generation and its ceiling),
`FreeFresh` (a free slot's generation is above every handle issued for it, so an insert cannot repeat one),
`HeldIssued` and `CopiesIssued` (what is occupied, here or in a copy, was issued under
that generation), and `Unique` (a name was issued once). A restore is the step that
needs all of them: what it brings back is issued, and what it frees must be made fresh
against a past that includes the present; `RestoreInv` is where the ceiling earns its
place.

`MapImplementsTable` maps `live` to the handles of the occupied slots and `copies` to
those of the copies; each operation of the map is one of the table's or a stutter.

**DeferredSignals.** `SignalInv` is the types and, whatever scripts do, `Queued`: a close
in the queue is of something destroyed and not retired, once each. So what is retired was
destroyed, in a drain that has served its `Destroying`, and no entry is deeper than the cap
(`QueueExact`). While nobody connects to a closed signal (`~LateConnect`) it adds three
things. `Faithful` and `Open` are the two directions of the lists: what is listed is live,
once and under that signal; what is live is listed, its signal is open and its instance
not retired. They are not inductive without `Quiet`, which follows an instance from
`Destroy` to the end of the drain: while its close is in the queue all its signals but
`Destroying` are closed already, so that nobody can connect to them, and after the close
is served nothing of it has a connection at all; `EndDrain` then erases records that no
connection needs. `DestroyedIsSilent` is read off `Quiet` at the one step that resumes a
handler, `ServeTarget`. With `LateConnect` the two are false for the reason in section 6
(a connection to a closed signal stays on no list and says Connected).

`OneOrderHolds` maps the queue to a line: the targets still to come of the entry in hand,
then those of each entry behind it (`Joined`), and of all these whoever is still connected
or a task (`Only`). Every operation of a script appends one list to the line, or nothing,
and takes some connections out of it, wherever they stand: `RaiseMoves`, for which the two
ways of taking them out, erasing the connections and filtering the lists of listeners, must
agree (`UnlistedIs`, `LineWithout`). The mark on the last entry changes no target
(`MarkedQueue`). An entry that is taken up changes nothing of the line;
serving a target resumes its first, or passes it over, and then its script is one of
`Stopped`; a target that has left is in the line no more. A drain that begins, or ends with
nothing in hand and nothing queued, is `Turn` (`TurnStep`). Who is stopped may change with
any step (`StepIsNext`). `TasksOnce`, which the line needs beside `SignalInv`: a
task is in the queue once, so that cancelling it takes one entry. The lemmas about `Joined` and
`Only` are inductions over lists, stated of sets of lists (`AllLists`).

**RemoteCalls.** `Base` is the types and the timers (`TimersFit`): what a timer has waited
and what it has left come to what it asked for, it is not past (`Soonest`: it has a tick left at
least, or none while the tick that has been counted has not yet collected), and the list is
sorted, the soonest first and of one deadline the oldest first. Counting the tick (`Aged`) takes one
from each and gives one to each, `InsertTimer` keeps the order, and so does a cancel
(`SublistProofs`); what is collected is then the front of the list, each of it with nothing
left, which is `WaitsAreExact`: it has waited the ticks it asked for, whichever stage of a
tick it was made in.

`HeardInOrder` is one line. What has been heard, what lies in the replica's inbox, what is on
the wire, what is held until the peer knows its event, and what is in the outbox follow
one another in the order they were fired (`Chain`); each step takes from the front of one
and puts at the back of the one before it, and what is given up (`MaxHeld`, a break, a
destroyed event) leaves a gap and never turns two round (`PartOf`).

`NamedIsThere` needs to know that an answer or a message on the wire arrives behind the
spawn of what it names: `KnownIsThere` says that of everything the authority takes the
peer to know, and `Connected` that what is on the wire belongs to the connection both
ends speak of.

`NothingIsLost` counts the places a question can be (`Places`): in eight sequences, of two
machines and the wires between. A question is live while somebody waits for it and nothing
has happened to it that the code answers with silence (`excused`). `Course` says that a live
question is in exactly one place, a question not yet asked in none, and why no live one
can be refused where it is: the connection that asked it stands, its function lives
(`Attended`, `Numberable`), and its handler, if it yielded, has a timer that will resume it
(`Parked`). The proof has one tally per sequence (`SharesAre`); every step keeps the sum for each live
question, and no step raises it for any.

**World.** `WorldInv` is `Numbered` (what is made, destroyed and retired), `Fine(tree)`,
`Lived` (only the living have a parent, and it is living) and `Carried` (the two sides of
the tags). `Fine` is about one tree: no set of instances goes round (`Rooted`), parents and
child lists match (`Matched`), the links of the name index spell, for each parent and name,
the children of that name in child order (`Threaded`, with `Matched` in `Woven`), and what
was announced is who is above whom (`Heard`).

The walks are recursive functions over the tree. That there are such functions at all
follows from `Rooted` (`ClimbExists`, `BelowExists`, `FollowExists`): of the parents for the
walk up and the walk down, and of `next` for the chains, which is itself rooted because the
chains are rows of the lists (`NextRooted`). What a walk down finds is then everyone under
its root, the root first (`BelowMembers`). The surgery on a chain is two lemmas, taking a
member out of a row and putting one into it (`ChainUnlinked`, `ChainLinked`); `indexName`,
`unindexName` and `indexNameInChildOrder` are cases of them. `ReparentIs` says that
`Reparent` keeps `Fine` and changes one parent, and takes care of the announcements on both
sides; `Destroy` and `Clone` are folds of it. A copy is never put under itself, since the
parents of the copies mirror those of the members (`Mirrors`, `MirrorAbove`).

That a clone comes out in the same order is about walks. `Document` is the order of a
document: one instance is above the other, or they are under two children of one parent,
the first under the earlier. It has a direction (`DocumentOnce`), and a walk is sorted by
it (`BelowSorted`). The copies are numbered along the walk of the members and appended in
that order, so the lists of the copies rise (`Grown`); then the document order of the copies
is the order of their numbers (`TwinOrder`), and a walk down them, sorted by it, counts
them up (`TwinWalk`). A copy has as many children as its member because each child of
either has one of its own in the other's list (`TwinLists`, by the pigeonhole principle).

`CorpseUse = {}` is needed: with a script that parents under a corpse or tags one,
`TreeExact` is false, which is what the two `WorldCorpse` configurations show (section 6).

**ReplicationSession.** `Upto(wire, n, S)` is what a replica that has S has once it has
received the reliable messages among the first n; a message that is received leaves it as
it was (`ReceiveUpto`), and a send brings it to what is sent (`SendUpto`). `SessionInv`
is the types; `Linked` (what either end takes the other to be: nothing is on the wire
before the Hello is answered, a Welcome is first or nowhere); `Listed` (players and their
connections); `ToldOf`, which is `KnownIsTold` with `Upto`; `Fits` (what is shown is of an
instance that is there, and as the last state has it where the last state has it); and
`InOrder` (over one ordered stream, a snapshot on the wire describes exactly what the
replica will have when it comes). `OneMoment` was found to be false while its proof was
attempted, and says since then what section 6 says.

`Recovers` has two invariants of its own. `Dated`: the history and every peer's interest
are of consecutive ticks up to the present, so that an acknowledged tick is either held or
out of the history. `Settling`: while the sends are quiet, the snapshot is in flight, has
landed, or was refused (`InFlight`, `Landed`, `Missed`). One that was refused was diffed
against a state that both ends remember differently (section 6); nothing is acknowledged,
so the acknowledged tick falls behind by one with every send (`Late`), until it is out of
the history and the next snapshot is whole (`Sure`), which the replica cannot refuse.
One that landed is acknowledged before the next send, which is then an empty diff against
the state the replica has. The history must be of 2 at least (the code's is 64): with 1, an
acknowledged state is gone before the send that would use it.

**ChunkStreaming.** A frame is long: drain the reads, settle a change of world, score and
evict, build, start reads, sweep, publish. Each stage has a lemma that says what it does to
the manager's record (`DeliveredIs`, `EvictedIs`, `BuiltIs`, `StartedIs`, ...), to the reads
(`StillOutIs`, `BegunIs`) or to the scene, and `FrameStages` gives the states in between
their names. What a budget reaches rests on the order of asking: a score is a number
(`ScoreIsInt`, over finite sets of foci), the order by score and then by chunk is total
(`BeforeIsTotal`), so that `Nearest` of k is at most k chunks (`NearestIsFew`) and
`InOrder` asks for each of them once (`InOrderIsExact`).

`BudgetExact` and `WorldAgrees` are inductive only with `Inv`, which adds three things.
`ReadsFew` is the sharp bound on what is in the air: the budget for every world before
this one, and the places taken in this one; the bound of the property follows and is not
inductive. `ReadsAreOwn`: a read that has not crossed a reload is the only one of its
chunk, and the chunk is loading; this is what makes a completion free a place that was
taken, and `LoadingIsRead`, the other way round, what makes every place come back.
`WorldIsEmpty`: a world the host has not heard of is the next one and has nothing in it,
so that forgetting what was resident loses nothing. `HeldIsThere` (what a script holds is in
the world or a husk) carries the two action properties: an eviction reads `kept` before it
takes anything out, and `Publish` runs after the build of its own frame. The properties are
of the frames the model has: cut short after any number of reads drained, chunks built and
reads started, with any of the starts refused.

**FieldStreaming.** The frame is cut into stages as above, over any index (a game's holds
every cell with a file, an editor's scene its own), and what it does to one cell is one of
five: nothing, a read that failed, dropping it, bringing it, asking for it (`FrameCell`). The heart of `Inv` is that a cell
to which nothing out of the ordinary has happened carries one number through its whole way:
`FreshRead`, `FreshRaw` and `FreshHeld` say that what was read of it, what is decoded of it
and what it is held to have brought is what its file holds now, and `OneRead` that nobody
else is on the way. Then untouched ground is the file's, so that eviction loses nothing and
a save may skip it (`UnchangedIsSaved`), and whatever is touched is in `worked`
(`TouchedIsWork`).

The case with an argument is a save while the cell's old file is being read: the editor
writes cells it shaped before they were loaded. Such a cell (`resaved`) holds what was saved
(`SavedIsThere`), and the old ground, which arrives once and before any later read of the
cell (`OldIsFirst`), finds ground there that counts as work and is not brought in. The
invariant was first written with the cell waiting to be read until then; TLC refuted it, since
a start that is refused leaves a cell `Failed` with its old read out, and it says now that
the cell is neither decoded nor resident.

`ImplementsGroundHolds` follows: where there is ground, `Shown` is it, and where there is
none it is the file's, so a frame that drops what is untouched or brings what a cell's file
holds shows the same ground before and after (`FrameShows`), a save writes what is shown,
and only an edit, an undo, another scene and a reload are steps of `Ground`. Without `MayDigOut = FALSE` it is false,
which is the disagreement `field_dug` of section 6.

The types of `JobPool`, `SlotMap` and the session are proved, and no run repeats the first
two.

Only model-checked: liveness (`Termination`, `Answered`, `ShutdownReturns`, `DrainEnds`,
`Settles`, `GroundComes`, `CallersReturn`), which TLAPS does not reach. Every safety property
of the passing runs is a theorem, under the assumptions the table names.

Induction over data: the library's induction theorems take an operator, which the installed
provers cannot instantiate. `AllNumbers` and `AllLists` (`SublistProofs`) say the same of a
set, from the well-foundedness of the numbers (`NaturalsInduction`), and are enough for what
is defined by a recursive function over a list; over a tree, `Rooted` and the number of who
is under or above one (`UnderSize`, `AboveSize`) take their place.

## 5. Reading the proofs

Each proof module has its lemmas in the order of the actions, one per action and
under it one step per conjunct that the action can disturb; `...Step` collects them
over `Next`, and the theorem is the three facts (`Init`, step, implication) with PTL.
Building blocks that write a variable in several actions (`Goto`, `NotifyAll`, `Call`)
have lemmas of their own. Where many actions are alike in what they leave alone, one lemma
says what is kept by any step that leaves it alone, and the actions cite it
(`QuietKeeps`, `Calm` and `Moves` of the pool; `OtherSteps` of the session).

## 6. Where code and documentation disagree

Shown by a run:

* `field_dug`: a cell dug to nothing is let go of at eviction, and its old ground comes
  back with the next load (field_streamer.cpp:297, against field_streamer.h:17-18).
* `session_checksum`: a replica that was told an instance has left its interest scrubs it
  from the states it remembers, the authority goes on diffing against the acknowledged
  one, and a snapshot is refused for its checksum with nothing lost (session.cpp:1790,
  against session.h:300-301). It recovers when that state has left the history
  (`RecoversHolds`).

Shown by a configuration that is kept beside the runs (`tlc -config X.cfg M`):

* `JobPoolExhausted`: with every slot taken, `schedule` runs a dependent inline before
  its dependencies (jobs.cpp:492, against jobs_tests.cpp:92).
* `JobPoolHostage`: a worker that helps while it waits can take a job that waits for the
  one suspended beneath it; neither returns (jobs.cpp:591, against jobs.h:124).
* `AsyncIoOpenFails`: a read that cannot be opened never fires its callback
  (async_io.cpp:205, against async_io.h:71).
* `WorldCorpseTag`: tagging a destroyed instance before the drain ends leaves its handle
  in the tag's bucket for ever (world.cpp:166, against world.cpp:797-798 and
  api-design.md:1159-1160).
* `WorldCorpseAdopt`: parenting under a destroyed instance leaves a child that names a
  parent which is gone (world.cpp:335, against world.cpp:410-411).
* `DeferredSignalsConsole`: a MessageOut handler that prints keeps its drain going for
  ever (signals.cpp:852, against api-design.md:1131-1137).
* `FieldStreamingScene` (`NoHoles`): another scene is opened over a loaded one, and a cell
  both have stays Resident while its ground is gone: nothing fills it
  (field_streamer.cpp:57).

Met while proving:

* While the pool shuts down, a job that is still running and schedules another has it run
  inline at once, before those it was scheduled behind, which may still be queued
  (jobs.cpp:457): the promise of `JobPoolExhausted`, broken with slots to spare.
* Where channels overtake each other, a replica may show a mixture of two moments for a
  while. An instance leaves and comes back; its despawn and its second spawn arrive; then
  the snapshots of before and of the time between are applied behind them, and the instance is
  shown as the first of them had it beside a world of the second (session.cpp:1726, 1919). `OneMoment` excuses exactly an
  instance whose despawn is on its way or which the authority takes the replica to have, and
  over one ordered stream it excuses nothing.

Met while modelling; the hazards of PROJECT.json have them with their notes:

* `init` and `initIo` set all generations back to 1, so a handle kept over a shutdown
  names a stranger; nothing in the repository keeps one.
* A read cancelled while it is being opened, whose open then fails, leaves its slot
  taken until shutdown (async_io.cpp:201).
* The shutdown drain gives up after its empty waits with SDL still reading.
* A slot whose ceiling is the last generation gives every later occupant the same name.
* Connecting to a closed signal leaves a connection that says Connected for ever.
* A waiter is resumed although its script is disabled or destroyed, which ADR 0059,
  rule 2, excludes.
* A completion for a world that has gone is delivered to the next one. The comment at
  streaming.cpp:100-101 has it that this is harmless: it can mark a chunk that is resident
  as decoded, which builds it a second time in the manager's count of bytes, or as
  failed, and then its instances stay until the next reload.
* A message that had to wait for its event's network id is overtaken by later ones of
  other events, though session.cpp:427 says a message never overtakes an earlier one
  (`NeverOvertakes` is false with two events).
* A question whose handler was cancelled or disabled is never answered, and neither is one
  asked while the connection is down.
* A module registered by the engine that fails is evaluated again for the next who
  requires it (modules.cpp:215), while api-design.md:1011-1013 says failures are cached.

## 7. What is not modelled

Rendering, physics, navigation, audio, layout, parsing and the asset formats are
computations on floating-point numbers, geometry and bytes, in one thread, whose
results TLC cannot enumerate; the repository tests them with captures and determinism
runs. The editor, the language service and the tools are single-threaded and on
strings. The API generator writes tables at build time. The platform layer, but for
file IO, translates SDL. `third_party`, examples, samples and art are not the engine.
SDL itself is modelled only from how the IO service uses it.

## 8. Plan

The core's components with state that more than one actor touches are modelled, and every
safety property that a passing run checks is proved. What is left of proof is liveness,
which is out of this prover's reach, and `World` for scripts that do use corpses, where
what still holds would have to be stated first.

Of the model: `FireServer` and an authority that asks itself in `RemoteCalls`; two layers
of chunks; and `require` with its cache, should it ever be able to yield.
