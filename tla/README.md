# Verification of GraphEngineering

TLA+ models of the runtime, the compiler, the storage and the front ends of
GraphEngineering, the TLC configurations that check them on small instances, and
TLAPS proofs, for instances of every size, about the two schedulers, the
compiler, the two stores, `init` and the MCP server. Paths below are relative to
the repository.

## 1. The system

GraphEngineering compiles a graph document (nodes, edges with optional ports,
entrypoints, outputs, policies) and runs it: in TypeScript (`packages/`) and,
with the same semantics, in Python (`python/`).

| component | state | operations | hard behaviour |
|---|---|---|---|
| Scheduler, `packages/runtime/src/scheduler.ts` | ready queue, in-degree countdown, active promises, results, semaphore (running, FIFO of waiters), attempt budget, abort signal | `runGraph` (settle, launchReady, race), `executeNode`, `executeAttempt`, acquire and release of a slot, `delay`, abort | coroutines interleave at every await; timeouts race answers; retries; abort at any time; a shared budget |
| Python scheduler, `scheduler.py` | as above, in asyncio tasks and a semaphore | as above | task cancellation against hand-over of a permit |
| Compiler, `packages/core/src/compiler.ts` | in-degrees, layers, processed set, reachability queue | structural checks, Kahn layering, reachability, policies | parallel edges, self-loops, cycles with tails, entrypoints that are not the roots |
| Patterns, `packages/patterns/src/` | none | `diamond`, `routedBranches`, `verifiedFanout`, `loopUntilDry` | options refused in a fixed order; what is built must compile; the caller's order must not matter |
| JSONL event store, `packages/persistence/src/jsonl-event-store.ts`, `serial-queue.ts`, `store-validation.ts`, `io.ts` | one append-only file per run, a chain of operations per path | `append` (compare-and-swap), `read` | compare and write lie several awaits apart; crashes and power loss inside an append; failing fsync |
| Checkpoint store, `file-checkpoint-store.ts` | one file per checkpoint, temporary files, a chain of operations per directory | `save`, `load`, `list` | publication by rename and sync; crashes and power loss at each await |
| Python stores, `python/.../persistence/` | as above, with a lock and worker threads | as above | a cancelled call whose thread goes on |
| Barrier and router, `packages/primitives/src/` | none between calls | `evaluateSettledBarrier`, `evaluateRouteSelection` | untrusted values; rounding at a threshold; empty inputs; all-or-nothing routing |
| MCP server, `packages/mcp-server/src/` | one worker, timer and abort listener per request; a cached schema | bounded compilation, three tools | answer, timeout, abort, error and exit race |
| CLI, `packages/cli/src/` | the project directory `init` creates | `init`, `validate`, `plan`, `compile`, `visualize`, `doctor` | two `init` and a user in one place; a failure half-way; clean-up of own files only; one output contract for every exit |

The scheduler calls the compiler and relies on what a valid compilation
guarantees: `GraphAssumption` in `Scheduler` is what `ValidGraphRuns` in
`Compiler` states and `CompilerProofs` proves. The pattern builders call the
compiler too, and `Patterns` composes with its module. The stores are used through interfaces, whose
contracts are `EventStream` and `CheckpointMap`.

What makes each part correct: the scheduler runs a node only after its
dependencies succeeded, never exceeds concurrency or budget, isolates failures,
loses no wake-up, and always returns a complete result; the compiler accepts
exactly the graphs the scheduler can run and explains the others truthfully; the
builders return a graph exactly for well-formed options; a store keeps every
acknowledged write, whole and in order, and never builds on a damaged log; the
barrier and the router refuse every malformed input and decide the others by
their policy; the server answers each request once and leaves no worker behind;
`init` creates a whole project or removes exactly what it made.

## 2. Modules

| module | models |
|---|---|
| `Scheduler` | `scheduler.ts`. The body of `runGraph` is `mainPc`; each launched node is a coroutine `phase[n]`. One action per piece of code between two awaits. |
| `RunLifecycle` | abstract: the node and run states of `spec/runtime-semantics.md` |
| `SchedulerRefinement` | the mapping from `Scheduler` to `RunLifecycle` |
| `SchedulerProofs` | theorems about `Scheduler`: readiness, slots, completeness |
| `SchedulerOutcomeProofs` | theorems about `Scheduler`: budgets, outcomes, refinement |
| `MCScheduler` | graphs for TLC |
| `PyScheduler` | `python/src/graph_engineering/scheduler.py`, and its mapping to `RunLifecycle` |
| `PySchedulerProofs` | theorems about `PyScheduler` |
| `MCPyScheduler` | the graph for TLC |
| `MCGraphs` | what the two MC modules share: edges, and the sequence both compilers compute |
| `Compiler` | `compileGraph`. The layer loop and the reachability loop are one step per iteration. |
| `CompilerProofs` | theorems about `Compiler` and `Patterns` |
| `Patterns` | the four builders; extends `Compiler`, whose steps are part of a builder's call |
| `MCCompiler` | documents and builder calls for TLC |
| `EventStream` | abstract: an event store as its callers see it |
| `JsonlEventStore` | the JSONL store of one run in one process, and its mapping to `EventStream` |
| `JsonlEventStoreProofs` | theorems about `JsonlEventStore` |
| `MCJsonlEventStore` | requests for TLC |
| `CheckpointMap` | abstract: a checkpoint store as its callers see it |
| `CheckpointStore` | the checkpoint store of one run in one process, and its mapping to `CheckpointMap` |
| `CheckpointStoreProofs` | theorems about `CheckpointStore` |
| `MCCheckpointStore` | requests for TLC |
| `PyEventStore` | lock, worker thread and cancellation of the Python event store |
| `ProjectInit` | `init.ts`: several invocations on one target, and a user |
| `ProjectInitProofs` | theorems about `ProjectInit` |
| `MCProjectInit` | starting directories for TLC |
| `Loops` | what a loop that pushes some entries of a list keeps, shared by the next three |
| `Barrier`, `Router` | the two decisions as operators, with all their validation |
| `CommandLine` | `cli.ts`, `doctor.ts`, `validation.ts`, `planner.ts`: arguments to exit code and output |
| `Decisions` | one question to one of these three, and the reference definitions its answer is compared with |
| `McpServer` | `limits.ts`, `tools.ts`, `schema.ts`: requests, workers, timers and aborts |
| `FrontEndProofs` | theorems about `Decisions` and `McpServer` |
| `MCFrontEnds` | questions and calls for TLC |

### Scheduler

JavaScript runs one thread. While `mainPc` is `"launch"` or `"return"` the code
is inside a synchronous block and no other actor moves; timers, executor answers,
resumed coroutines and the abort listener act while it is `"await"`.

| action | code |
|---|---|
| `LaunchSkipped`, `LaunchUnbound`, `LaunchNode`, `LaunchEnds` | one iteration of `launchReady` for each outcome, and its end |
| `SettleCompleted` | `Promise.race` resolves, `settle`, loop condition |
| `ResumeGranted` | after `await acquireAttemptSlot`: claim, start or give back |
| `ExecutorSettles`, `TimeoutFires` | the two arms of the race in `executeAttempt` |
| `ResumeDecided` | after `await executeAttempt`: release, return or sleep |
| `DelayEnds` | after `await delay`: the next `acquireAttemptSlot` |
| `Abort` | the caller's signal: queued waiters and sleeping nodes reject |
| `Return` | outputs, failures and status |

The ready queue is kept sorted by `settle`, so it is a set with an order given by
`Sequence`. Cancelled waiters stay in `waiters` as in the code. Values are
abstracted to the set of property names they have, which is all that
`endpointValue` looks at. Two early exits of `runGraph` (input that is not JSON,
a graph that does not compile) precede all state and are not actions.

### Python scheduler

asyncio runs one thread too, but a node is several tasks: the node's own
(`phase`), one that acquires a permit (`permit`) and one that runs the handler
(`handler`). A synchronous handler is called inside the node's task; in phase
`"calling"` nothing else moves. The event can be set before the run, at each
await, or by a synchronous handler.

| action | code |
|---|---|
| `LaunchSkipped`, `LaunchUnbound`, `LaunchNode`, `LaunchEnds` | one iteration of `launch_ready` for each outcome, and its end |
| `SettleDone` | `asyncio.wait` returns, all done tasks are settled, loop condition |
| `Start` | the task's first step: event, missing handler, first acquire |
| `ResumeAcquire`, `FinishAbandon` | `_acquire_attempt_slot` after its `asyncio.wait`, and after its closing `gather` without a permit |
| `ResumeGranted` | after the `gather` with a permit: stop, refuse, or claim and call |
| `SyncReturns`, `HandlerReturns` | a handler ends |
| `ResumeAttempt`, `HandlerUnwinds`, `CloseAttempt` | `_attempt` after its `asyncio.wait`; the cancelled handler ends; after its `gather` |
| `DelayEnds` | after `_delay_or_cancel` |
| `Cancel` | the caller sets the event |
| `AcquireStarts`, `AcquireResumes`, `AcquireUnwinds`, `Release` | `asyncio.Semaphore` (external): permits are handed to queued tasks in order of arrival, and a task cancelled between hand-over and resumption gives its permit back |

The event is assumed never to be cleared during a run. Cancelling the task that
awaits `run` is not handled by the code and not modelled.

### Compiler and patterns

A document is a sequence of nodes, a sequence of edges, entrypoints, outputs and
two policies. Refusals by canonicalisation or schema are one action. A layer is a
set: inside a layer the code orders by declaration, which `SequenceOf` uses. The
visiting order of the reachability queue does not matter to its result and is
left open.

A builder's call is `Reject`, or `Build` followed by the compiler's steps and
`Conclude`. Its options are a record with one field for each thing a check looks
at; keys are their ranks in code point order. Each list of checks in the module
has the order of the code, so the first that fails gives the error code.
A node that the builder refuses is `BadId` or `NotObject`. Ports (`PatternEdges`)
and the route keys in the conditions of `routedBranches` (`RouteConditions`) are
kept beside the document and compared with it when entries change their order;
the conditions of a loop and labels, which neither compiler nor scheduler reads,
are left out.

### JSONL event store

The file is its sequence of complete records and a flag for a torn tail;
`durable` says what survives a power loss. `Load` is everything `append` does up
to the first write, `Open`, `WriteRecord`, `Sync` and `SyncDirectory` are the
filesystem calls, `IoFails` is any of them rejecting. A write puts out whole
records one at a time, and may be interrupted between or inside them. Two
processes on one log are documented as unsupported and not modelled.

### Checkpoint store

`files` is what each identifier's name leads to, `entries` the files it may lead
to after a power loss, `temporary` the private file of each save. `save` is
`MakeDirectory`, `Open`, `Write`, `Sync` (with close), `Rename` and
`SyncDirectory`; `load` and `list` are one step each, since no other operation of
the process touches the directory while they run. `IoFails` is any call
rejecting, after which the temporary file may or may not be gone. The reasons
for which `#parse` refuses a file are one value, `Damaged`. `ImplementsMap` maps
`Rename` to the one step in which a save takes effect.

### Python event store

A task holds the lock (`queue`) while its thread works (`thread`). `Cancel` ends
the task in `async with`, which frees the lock; a thread that has started goes
on. The log is the sequence of its records' numbers.

### Project init

`at` says what the parent and the target path lead to; a directory is the actor
that made it and its path, which is what device and inode tell the code. Each
filesystem call of `inspectTarget`, `createTargetDirectories`,
`requireEmptyStableDirectory`, `createGraphFile` and the two clean-ups is an
action; checks that look twice are two steps wherever another actor can act in
between. `Fault` is one call failing, `UserActs` a user who adds directories,
files or a `graph.json`. The user never removes or replaces anything. A symbolic
link at the target is refused with a code of its own; a link to a directory in
the parent's place counts as that directory, and one that leads nowhere is left
out. Below a parent that is no directory every look at the target fails with
`ENOTDIR`. Reading the template throws before there is any state.

### Barrier, router, command line

These keep nothing between calls. A JavaScript value is a function from its own
property names, with marks for a property that is hidden, a hole in an array and
an object whose inspection throws. The command line is a function of the
arguments and a *world*: what the file, the compiler, `init` and the probes of
`doctor` turn out to be. Output is abstracted to how much goes to which stream
and to the fields of the JSON envelope. `Decisions` states what the answer should
be without reference to the order of the checks.

### MCP server

`compileGraphBounded` runs without interruption up to its first await (`Ask`).
After it `WorkerEnds` (the thread), `OnMessage`, `OnError`, `OnExit`, `Timeout`
and `Abort` race; `finish` is the code's function of that name. `Unheard` is an
event of a worker whose listeners `finish` removed. `AskSchema`,
`readBundledSchema` and `AnswerSchema` are the cached schema promise.

## 3. Runs

| run | checks | instance |
|---|---|---|
| `scheduler_join` | types, dependencies, exact ready queue, completeness, slots, wake-ups, attempt budget, outcomes, FIFO, final results, refinement of `RunLifecycle` | six nodes: four roots on two slots and a budget of four attempts; a join with parallel edges and a port that may be missing, a node without executor behind it; retries, a timeout, abort |
| `scheduler_live` | independent nodes settle beside an executor that never answers; if it answers, the run returns | five nodes, two slots, an executor with a timeout, retries, abort |
| `scheduler_order` | *violated*: launch in declaration order | five nodes |
| `py_scheduler` | permits (and types), outcomes, no start after cancellation, refinement of `RunLifecycle`, every run returns | five nodes on one permit and a budget of four attempts: a retried root with a delay, a root with a timeout, a synchronous root, a synchronous join with parallel edges and a port, a node without handler; event set at any time |
| `compiler` | types, valid graphs can be run, exact layers, exact cycle report, least reachability, sound patterns, every call ends | all edge lists of length at most 2 over four identifiers, one of them undeclared, two edge ids; all graphs of at most 4 edges on 4 nodes, small ones also with doubled edges; builder calls with up to 3 entries and each defect of the options |
| `event_store` | types, acknowledged appends stay, nothing after damage, refinement of `EventStream`, every call ends | three calls, batches of 0 to 2, every version, one crash over a new file or power loss over a file with a durable record (an empty append behind it included), any call failing |
| `event_store_entry_lost` | *violated*: durability of a log whose directory entry was never synced | three calls, one loss |
| `event_store_torn` | *violated*: a torn append is noticed | three calls, one crash |
| `checkpoint_store` | checkpoints are published whole and stay, refinement of `CheckpointMap`, every call is answered | three calls, two identifiers, one crash or power loss, any call failing |
| `project_init` | success is true, failure cleans up, one of two wins; nothing foreign is changed or removed | two invocations, a user, one failing call, six starting points |
| `front_ends` | requests are answered once and leave nothing running, every request is answered; barrier, router and command line agree with their reference definitions | two requests over each kind of call; barriers of up to 3 items, routes of up to 3, up to 5 arguments, and one defect at a time of each kind |
| `py_event_store_cancel` | *violated*: appends of one process are serialized | two callers |

`OutcomeFaithful` joins three statements about a run's outcome: failures are
isolated to what depends on them (`FailureIsolation`), each result says what
happened (`FailureFaithful`), and the status agrees with nodes and outputs
(`StatusSound`); for Python also `DependencySafety` and `RunComplete`.

Bounds. The scheduler's coordination is between a holder, a waiter and a
newcomer: four contenders on two slots meet each order of hand-over, refusal and
abort; the join needs two sources, one doubled edge and something behind it.
One permit is enough for the Python scheduler: every hand-over is then
contended, and a permit that leaks stops the run.
Four nodes with four edges contain each shape of cycle with a tail and each
diamond. Three calls give a writer, a rival and an observer; two identifiers give
an order to `list` and a neighbour whose file must not change. Three entries of a
builder or a barrier give a first, a middle and a last, and each side of a
rounding threshold. Two `init` and a user meet at each of the two directories.

Fairness. The event loop resumes every settled promise and fires every timer:
weak fairness of the main coroutine, the node coroutines and the timers. An
executor is fair only if it has no timeout, and never if it is in `HungNodes`;
`Termination` adds, as a hypothesis, that those answer too, which is what the
caller owes a node without a timeout. The caller's abort is never assumed. In
Python the event loop runs some task as long as one can run: weak fairness of
their disjunction, which suffices because each task takes finitely many steps.
A handler without a timeout ends, and a handler whose task was cancelled
unwinds, since the closing `gather` waits for it; a handler with a timeout may
hang. In the stores the running operation goes on; failures and crashes are never
assumed. Compilation and builders are synchronous and run to their end. In the
MCP server due events are delivered and timers fire; neither the worker, nor an
abort, nor a second request is assumed.

Deadlock is checked except in `front_ends`, where a decision ends and a server
may be idle or dead, and in `py_event_store_cancel`.

Each property is also run against a mutation of the code (operators marked
*Mutation*), which TLC must find to violate it.

## 4. Findings

1. Nodes that become ready together are launched in topological-layer order, not
   in the order of `GraphSpec.nodes` as `spec/runtime-semantics.md:43-44` says.
2. If the first append of a run fails after it created the file and before it
   synced the directory, later appends find the file and never sync the
   directory; an acknowledged append can be lost with the file.
   (The entries of the `events` directory and of a run's checkpoint directory in
   their parents are never synced either; the models start with those durable.)
3. A batch interrupted exactly at a newline is accepted by `load`; the reader
   sees part of a batch, while the README says an interrupted append is detected.
4. A Python `append` whose task is cancelled while its thread writes frees the
   lock (`event_store.py:259`). The next append decodes the log before that write,
   and both records get the same number. `event_store.py:151` says each append is
   serialized by the lock, `spec/persistence-semantics.md:101` that the stores
   serialize operations per run inside one process.

Smaller observations, without a run of their own:

- `python/README.md:188-189` says that on cancellation work that has not started
  becomes `skipped/NODE_CANCELLED`. A node whose task exists but waits for a
  permit becomes `failed/NODE_CANCELLED` with zero attempts (`FinishAbandon`).
- A run cancelled between the grant of a slot and the start of the attempt counts
  an attempt in TypeScript and none in Python (`ResumeGranted` in both modules).
- A worker's error that arrives after its request timed out or was aborted has no
  listener any more and ends the MCP server (`Unheard`, `limits.ts:108`).
- A failed read of the schema file is cached for the life of the server
  (`schema.ts:36`).
- A command with `--json` and `--help` or `--version` writes text:
  `parseArguments` returns for these before it looks at `--json` (`cli.ts:106`).
  `packages/cli/README.md:79-81` says that every invocation of a command with
  `--json` writes exactly one JSON document. `CliCorrect` asserts their exit code
  and nothing of their output.
- An append of no events is acknowledged without touching the file
  (`jsonl-event-store.ts:119`). Its version may be that of records which a
  failed append wrote and never synced, so a power loss can take the log back
  behind the acknowledged version. `Safe` in `EventStream` promises nothing of a
  batch without events. The proof of `AcknowledgedAlwaysStay` met this first.
- The temporary file of a save that a crash interrupts is never removed.
- `init` looks at an identity and then unlinks or removes, which is not atomic.
  If `stat` fails right after the file was opened, an empty `graph.json` stays;
  two failing invocations may leave an empty directory.

## 5. Proofs

A theorem holds for every value of the constants that satisfies the named
assumptions; TLC evaluates these on every run. Each safety theorem goes through
an inductive invariant: it holds initially, every action keeps it, and it implies
the property. Each refinement theorem shows that an initial state maps to an
initial state and every step to a step or a stutter of the abstract module.

| module | assumes | theorem | property |
|---|---|---|---|
| `SchedulerProofs` | `GraphAssumption`, `PolicyAssumption` | `TypeCorrect` | `TypeOK` |
| | | `SlotsAccounted` | `SlotAccounting` |
| | | `WakeupsKept` | `NoLostWakeup` |
| | | `QueueExact` | `ReadyExact` |
| | | `DependenciesRespected` | `DependencySafety` |
| | | `RunsComplete` | `RunComplete` |
| | | `ResultsKept` | `ResultsFinal` |
| | | `GrantsFifo` | `FifoGrants` |
| `SchedulerOutcomeProofs` | the same | `AttemptsBudgeted` | `AttemptBudget` |
| | | `OutcomesFaithful` | `OutcomeFaithful` |
| | | `SchedulerImplementsLifecycle` | `ImplementsLifecycle` |
| `PySchedulerProofs` | `PyGraphAssumption`, `PyPolicyAssumption` | `PermitsAlwaysConserved` | `PermitsConserved` |
| | | `OutcomeAlwaysFaithful` | `OutcomeFaithful` |
| | | `NoStartAfterCancelAlways` | `NoStartAfterCancel` |
| | | `PyImplementsLifecycle` | `ImplementsLifecycle` |
| `CompilerProofs` | `DocumentAssumption` | `CompilerTypes` | `TypeOK` |
| | | `LayersAlwaysExact` | `LayersExact` |
| | | `ReachabilityAlwaysLeast` | `ReachabilityLeast` |
| | | `ValidGraphAlwaysRuns` | `ValidGraphRuns` |
| | | `CyclesAlwaysExact` | `CycleExact` |
| | and `PatternAssumption` | `PatternsAlwaysSound` | `PatternsSound` |
| | | `BuiltGraphsCompile` | the five above, for documents of the builders |
| `JsonlEventStoreProofs` | `StoreAssumption` | `TypesAlways` | `TypeOK` |
| | | `NeverAfterDamage` | `NothingAfterDamage` |
| | and `EntryDurable` | `AcknowledgedAlwaysStay` | `AcknowledgedStay` |
| | | `StoreImplementsStream` | `ImplementsStream` |
| `CheckpointStoreProofs` | `CheckpointAssumption` | `CheckpointsAlwaysSafe` | `CheckpointsSafe` |
| | | `StoreImplementsMap` | `ImplementsMap` |
| `ProjectInitProofs` | `InitAssumption` | `OnlyOwnRemovedAlways` | `OnlyOwnRemoved` |
| | | `InitAlwaysSound` | `InitSound` |
| `FrontEndProofs` | `CallsAssumption` | `RequestsAlwaysSound` | `RequestsSound` |
| | `ValueAssumption`, `QuestionAssumption` | `BarrierAlwaysCorrect` | `BarrierCorrect` |
| | | `RouterAlwaysCorrect` | `RouterCorrect` |
| | and `DashedAssumption` | `CliAlwaysCorrect` | `CliCorrect` |

The assumptions on graphs say that edges join declared nodes and that the
sequence is a topological numbering, which is `ValidGraphAlwaysRuns` of a valid
compilation. Those on policies say that limits are positive, which schema and
constructors ensure. The others give the shapes of documents, requests and
starting points, and that crashes and failing calls are finite in number.
`PatternAssumption` and `QuestionAssumption` say which record or list a call or a
question is, of any length and with every defect that the modules tell apart.
`ValueAssumption` and part of `QuestionAssumption` keep the marks for hidden
properties, holes and the like apart from the values they stand beside.
`DashedAssumption` says that the options start with a dash.

### Scheduler: readiness and slots

`IndInv` has five parts.

- `TypeWeak`: types, with the counters only known to be integers. That they are
  natural numbers follows from the next two parts, not from typing.
- `ReadyInv`: `ReadyExact`, and a launched node has nothing left to count down.
  The second half is what makes the count of a launched node stay at zero when
  another node settles. The arithmetic is that of the cardinality of the set of
  incoming edges from unsettled sources, which loses exactly the edges from the
  node that settles.
- `SlotInv`: `SlotAccounting` and `NoLostWakeup`. They need each other: a
  newcomer may take a free slot only because nobody waits while one is free, and
  a release must find every waiter in the queue.
- `DependencySafety`, by stability of settled results.
- `AllSettled`: once the loop is left every node is settled. For the `break` on
  an empty active map, take the idle node that is first in the sequence: all its
  sources are settled, so its count is zero and it is in the ready queue, which
  is empty.

### Scheduler: outcomes and refinement

`OutcomeInv` adds to `IndInv`:

- `Budget` and `Totals`: the limits, and the total as a sum. The model's sum is a
  fold; `Sums` is the function the fold evaluates, and what it does under a
  change at one node is shown by taking a smallest set of nodes that is a
  counterexample.
- `AllLocal`: what a node remembers between its awaits. The failure a retry will
  return is the one of its last attempt, which is forgotten neither in the queue
  for a slot nor in the delay; `OutcomeFaithful` speaks only of the end and is
  not inductive without it.
- `Isolated`: a skip has a cause in an upstream node or in the abort.
- `Reported`: there is no return value before the end, and then a sound one.

Under the refinement mapping a hand-over changes two nodes at once, but a waiting
and a granted node are both *scheduled* in `RunLifecycle`, so only one moves.
That an attempt finds room below the concurrency limit is `SlotAccounting`.

### Python scheduler

`PyInv` is one invariant, because outcomes depend on permits and back.
`Semaphore` says that the permits left and those handed out add up to the
concurrency (`Conserved`), and that the queue holds each waiting task once
(`Queued`). `Matches` ties the phase of a node to the state of its permit task,
which is what makes a cancelled task's permit come back exactly once. `Measured`
ties `running` and `observed` to the nodes inside an attempt.
The other parts are as in the TypeScript scheduler.

### Compiler

The first five theorems are about `Spec` of `Compiler` for any set of documents.
`LayerInv` says that a counter is the number of incoming edges from nodes not yet
layered and that the current layer is every node that is free (`Counted`), and
that each layered node has a source in the layer before (`LayersTight`), so that
no node is late. `Reaching` is the loop invariant of reachability: closed up to
the queue, and inside every closed set with the entrypoints, which gives *least*
without induction over paths. `Accepted` is what the verdict has seen.

`CyclesAlwaysExact` rests on `Ended`: the report is what the layer loop left over,
and each of those nodes has an upstream node among them. No path is followed:
*downstream* of a node are the members of every closed set that holds the targets
of its edges. The nodes outside the layers up to that of a layered node are such
a set, so it is not downstream of itself. For a left-over node, take among the
left-over nodes that lead to it one with the largest set downstream; an upstream
node of it has at least that set and the node itself downstream, so the node
already lies downstream of itself, on a cycle.

### Patterns

`PatternInv` is the compiler's invariant while a builder runs it (`RunInv`, which
adds to the above what a returned verdict may rest on, `Verdict`) and `Called`:
the document that the compiler has is the builder's, and only for options of the
documented shape. `Promises` is a layering given in advance: edges go up, and
each node above the first layer has a source just below. From it follows what the
layer loop must find, that there is no cycle and that everything is reached, so
that a well-formed call is refused by the core only for what the caller's schemas
or policies rule out. For each of the four builders the layers of its document
are shown to be such a layering.

### Stores

In both stores `Asked` says that a call carries the arguments of a request and
`Chained` that only the head of the queue has begun, so that no other call has
touched the file since the head looked.

`JsonlEventStore`: `Sequenced` says that the records are numbered without a gap,
`Progress` that the tail of the log is what the append under way has written so
far behind the version it compared. These give `NothingAfterDamage`.
`AcknowledgedStay` also needs `Kept`: an acknowledged batch lies in the log at
its positions, and in its durable part where power may fail. The last two
theorems have the hypothesis `EntryDurable`: where power may fail, the log had a
record before the first call. Without it they are false, which is finding 2; the
crash of a process alone needs no hypothesis.

`CheckpointStore`: `Staged` says what the temporary file of a save holds at each
call, `Published` that a file to which a name leads, or may lead after a power loss, is
synced and is either absent, damaged since before the first call, or a whole
checkpoint of that identifier, `Kept`
that after an acknowledged save all of them are checkpoints. `StoreImplementsMap`
has no hypothesis on power: the directory is synced on every save.

### Project init

`Mine` says of each invocation how far it is and what it has still to make
(`Local`), that the directories it lists are its own and still there, and all of
its own except the one just made (`Holding`), and what a failing one has still to
clean up, the target before the parent (`Cleaning`). `OnlyOwnRemoved` follows
since only listed directories are removed and identities are compared first. The
third part of `InitSound`, that one invocation wins when nothing interferes, has
an invariant of its own, `FreeInv`: before there is a `graph.json` every
invocation is still on its way without an error (`Smooth`), and from then on the
one that made it completes (`Wins`).

### Barrier, router, command line

`DecisionInv` says that the decision is the code's answer to the open question,
which is one of the questions the assumption allows; the work is in the
operators. They all keep some entries of a list. `Kept` gives them by position:
the k-th kept entry is at the position with k - 1 kept positions before it.
`Positions` shows, from cardinalities alone, that every kept position is met once
and in order, which replaces an induction over the list.

- Barrier and router: each check of the code finds nothing exactly when one
  clause of the reference definition holds (`ItemsFine`, `PolicyFine`,
  `RoutingFine`). The barrier compares products, the reference a rounded-up
  quotient (`Ceiling`). The router's answer does not depend on the order of the
  request because the routes are chosen in the order of the policy
  (`SameRoutes`).
- Command line: `RunTold` gives the exit code of each command and what is
  written with it. That the arguments without their `--json` exit the same
  compares two argument vectors: `KeptWithout` shows that dropping one entry moves the others
  up and that every loop then keeps the same (`SamePositionals`, `SameFormats`),
  so both are parsed as the same command (`SameParsed`, `SameExit`). Two vectors
  are an exception, and `CliCorrect` says that they exit with the code of an
  input error: a repeated `--json`, and a `--json` right behind `--format`, which
  is then the value that `--format` refuses (`JsonRefused`). Help and version come
  before both and are the same without `--json` (`SameInfo`, `SameWithout`).

### MCP server

`Request` says, of each request, which of timer, listener and worker may exist
beside which answer; a worker whose request was cut off may still have an event
due, and only such a worker's error can end the server (`Alive`).

### Only model-checked

- Liveness, which needs fairness: `Termination` of both schedulers,
  `SlowSiblingHarmless`, `CallsEnd`, `EveryCallEnds`, `CallsAnswered`,
  `RequestsAnswered`.
- `PyEventStore`, which exists for finding 4.

## 6. Plan

Each component that can be modelled faithfully is, and each safety property,
action property and refinement that a passing run checks is a theorem. What would
come next is new ground rather than more proof: the Python compiler, barrier and
router, by showing that they compute the operators modelled here, and two
processes on one event log.

Not modelled:

- canonical JSON, schema validation and the validation of persisted values:
  checks and formatting of one value without state; the models take their verdict
  as a flag;
- the memory event store, whose operations have no await between check and
  write: it is `EventStream` itself, without storage or faults;
- the Python compiler, barrier, router and checkpoint store, second
  implementations of what is modelled from TypeScript; nothing here is claimed
  of them;
- the text that `visualize` renders, registration and stdio transport of the MCP
  server, the progress scanner, test harnesses, packaging scripts and examples.
