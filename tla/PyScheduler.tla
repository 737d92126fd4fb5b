---------------------------- MODULE PyScheduler ----------------------------
(***************************************************************************)
(* The Python ready-queue scheduler: AsyncScheduler.run, _execute_node,    *)
(* _attempt, _acquire_attempt_slot and _delay_or_cancel of                 *)
(* python/src/graph_engineering/scheduler.py.                              *)
(*                                                                         *)
(* asyncio runs one thread: code between two awaits is one step.  The main *)
(* task (mainPc) is the body of run; each launched node is a task          *)
(* (phase[n]) that creates further tasks: one that acquires a permit of    *)
(* the semaphore (permit[n]) and one that runs the handler (handler[n]).   *)
(* Tasks move only while the event loop is free: the main task awaits and  *)
(* no synchronous handler is being called.                                 *)
(***************************************************************************)
EXTENDS Integers, Sequences, FiniteSets, FiniteSetsExt

CONSTANTS
    Nodes,          \* graph.nodes, their identifiers
    Edges,          \* records [id, from, to, fromPort, toPort]
    Outputs,        \* graph.spec.outputs: records [node, port]
    Sequence,       \* position of a node in graph.topological_order
    Concurrency,    \* _effective_concurrency(graph)
    AttemptLimit,   \* policies.max_total_attempts
    MaxAttempts,    \* retry.max_attempts of each node
    Delayed,        \* nodes whose _retry_delay_ms is positive
    Timed,          \* nodes that have a timeout_ms
    Sync,           \* nodes whose handler is a plain function
    WithExecutor,   \* nodes _handler_for finds a handler for
    Ports,          \* keys a handler output can have
    NoPort          \* an endpoint without a port

(***************************************************************************)
(* What compile_graph guarantees of a CompiledGraph: edges join declared   *)
(* nodes and topological_order is a topological numbering.                 *)
(***************************************************************************)
ASSUME PyGraphAssumption ==
    /\ IsFiniteSet(Nodes) /\ Nodes # {}
    /\ IsFiniteSet(Edges)
    /\ Sequence \in [Nodes -> Nat]
    /\ \A m, n \in Nodes : Sequence[m] = Sequence[n] => m = n
    /\ \A e \in Edges : /\ e.from \in Nodes
                        /\ e.to \in Nodes
                        /\ Sequence[e.from] < Sequence[e.to]
    /\ \A o \in Outputs : o.node \in Nodes

(***************************************************************************)
(* The model validation and the constructor leave no limit below one.      *)
(***************************************************************************)
ASSUME PyPolicyAssumption ==
    /\ Concurrency \in Nat \ {0}
    /\ AttemptLimit \in Nat \ {0}
    /\ MaxAttempts \in [Nodes -> Nat \ {0}]
    /\ Delayed \subseteq Nodes
    /\ Timed \subseteq Nodes
    /\ Sync \subseteq Nodes
    /\ WithExecutor \subseteq Nodes

VARIABLES
    mainPc,         \* where run is
    ready,          \* the ready list; kept sorted by sequence, so a set
    remaining,      \* incoming edges whose source has not settled
    phase,          \* where the task of a node is
    permit,         \* where its acquire task is
    handler,        \* where its handler task is
    outcome,        \* what the handler ended with, then what _attempt makes of it
    attempts,       \* _execute_node's attempts
    lastFailure,    \* _execute_node's last_failure
    result,         \* the NodeResult, from phase "finished" on
    value,          \* the permits the semaphore has left
    waiters,        \* its queue of acquire tasks
    running,        \* running_attempts
    observed,       \* max_observed_concurrency
    totalAttempts,  \* total_attempts
    cancelled,      \* the caller's event is set
    run             \* the RunResult once run has returned

vars == <<mainPc, ready, remaining, phase, permit, handler, outcome, attempts,
          lastFailure, result, value, waiters, running, observed, totalAttempts,
          cancelled, run>>

graphVars == <<ready, remaining>>
taskVars == <<phase, handler, outcome, attempts, lastFailure, result>>
semaphoreVars == <<permit, value, waiters>>

(***************************************************************************)
(* idle       not launched                                                 *)
(* created    the task exists and has not run                              *)
(* acquiring  in asyncio.wait of _acquire_attempt_slot                     *)
(* abandoning in its closing gather, without a permit to use               *)
(* granted    in its closing gather, with a permit                         *)
(* calling    a synchronous handler runs; nothing else can                 *)
(* running    in asyncio.wait of _attempt                                  *)
(* closing    in the closing gather of _attempt                            *)
(* delay      in _delay_or_cancel                                          *)
(* finished   the task is done; run has not settled the node               *)
(* settled    the result is in run's results                               *)
(***************************************************************************)
Phases == {"idle", "created", "acquiring", "abandoning", "granted", "calling",
           "running", "closing", "delay", "finished", "settled"}

(***************************************************************************)
(* none       no acquire task, or one that ended without a permit          *)
(* asked      created, not yet run                                         *)
(* queued     in the semaphore's queue                                     *)
(* woken      the semaphore has handed it a permit; it has not resumed     *)
(* held       done; the permit is the node's until it is released          *)
(* returning  cancelled after it was woken: it will give the permit back   *)
(***************************************************************************)
Permits == {"none", "asked", "queued", "woken", "held", "returning"}

ExecutionCodes == {"NODE_EXECUTION_FAILED", "NODE_TIMEOUT", "INVALID_OUTPUT"}
FailureCodes == ExecutionCodes \cup
    {"NODE_CANCELLED", "UPSTREAM_FAILED", "INPUT_BINDING_FAILED",
     "EXECUTOR_NOT_FOUND", "ATTEMPT_BUDGET_EXHAUSTED"}

NoFailure == [code |-> "none", attempt |-> 0, retryable |-> FALSE]
NoOutcome == [code |-> "none", ports |-> {}]
NoResult == [status |-> "none", attempts |-> 0, failure |-> NoFailure, ports |-> {}]
NoRun == [status |-> "none", output |-> FALSE, failures |-> {}]

Failure(code, attempt) == [code |-> code, attempt |-> attempt, retryable |-> FALSE]
Succeeded(count, ports) ==
    [status |-> "succeeded", attempts |-> count, failure |-> NoFailure, ports |-> ports]
Failed(count, failure) ==
    [status |-> "failed", attempts |-> count, failure |-> failure, ports |-> {}]
Skipped(code) ==
    [status |-> "skipped", attempts |-> 0, failure |-> Failure(code, 0), ports |-> {}]
CancelledResult(count) == Failed(count, Failure("NODE_CANCELLED", count))

Settled == {n \in Nodes : phase[n] = "settled"}
Active == {n \in Nodes : phase[n] \notin {"idle", "settled"}}
Incoming(n) == {e \in Edges : e.to = n}
EdgesBetween(m, n) == {e \in Edges : e.from = m /\ e.to = n}

\* The tasks of the event loop can move.
LoopFree == mainPc = "await" /\ \A n \in Nodes : phase[n] # "calling"

-----------------------------------------------------------------------------
(* Input binding.                                                          *)

HasEndpoint(node, port) == port = NoPort \/ port \in result[node].ports
InputKey(e) == IF e.toPort = NoPort THEN e.from ELSE e.toPort

\* _bind_input does not raise
Binds(n) ==
    /\ \A e, f \in Incoming(n) : InputKey(e) = InputKey(f) => e = f
    /\ \A e \in Incoming(n) : HasEndpoint(e.from, e.fromPort)

-----------------------------------------------------------------------------
(* run, up to its loop.                                                    *)

InDegree(n) == Cardinality(Incoming(n))

Init ==
    /\ mainPc = "launch"
    /\ remaining = [n \in Nodes |-> InDegree(n)]
    /\ ready = {n \in Nodes : remaining[n] = 0}
    /\ phase = [n \in Nodes |-> "idle"]
    /\ permit = [n \in Nodes |-> "none"]
    /\ handler = [n \in Nodes |-> "none"]
    /\ outcome = [n \in Nodes |-> NoOutcome]
    /\ attempts = [n \in Nodes |-> 0]
    /\ lastFailure = [n \in Nodes |-> NoFailure]
    /\ result = [n \in Nodes |-> NoResult]
    /\ value = Concurrency
    /\ waiters = << >>
    /\ running = 0
    /\ observed = 0
    /\ totalAttempts = 0
    /\ cancelled \in BOOLEAN    \* the caller's event may be set already
    /\ run = NoRun

-----------------------------------------------------------------------------
(* The main task.                                                          *)

\* How often settle decrements remaining[m] when the nodes in done settle.
CountDown(done, m) == Cardinality({e \in Incoming(m) : e.from \in done})

\* settle for each node of done; queue is the ready list they leave behind.
Settle(done, results, queue) ==
    /\ result' = [n \in Nodes |-> IF n \in done THEN results[n] ELSE result[n]]
    /\ phase' = [n \in Nodes |-> IF n \in done THEN "settled" ELSE phase[n]]
    /\ remaining' = [m \in Nodes |-> remaining[m] - CountDown(done, m)]
    /\ ready' = queue \cup {m \in Nodes : remaining[m] > 0 /\ remaining'[m] <= 0}

\* ready.pop(0)
NextReady(n) ==
    /\ mainPc = "launch"
    /\ n \in ready
    /\ \A m \in ready : Sequence[n] <= Sequence[m]

\* Mutation: a skipped upstream node does not hold its dependents back.
UpstreamWithFailedStatus(n) ==
    {m \in Nodes : EdgesBetween(m, n) # {} /\ result[m].status = "failed"}

FailedUpstream(n) == {m \in Nodes : EdgesBetween(m, n) # {} /\ result[m].status # "succeeded"}

SkipCode == IF cancelled THEN "NODE_CANCELLED" ELSE "UPSTREAM_FAILED"

\* Node n is settled by launch_ready itself.
LaunchSettles(n, r) ==
    /\ NextReady(n)
    /\ Settle({n}, [m \in {n} |-> r], ready \ {n})
    /\ UNCHANGED <<mainPc, handler, outcome, attempts, lastFailure, semaphoreVars,
                   running, observed, totalAttempts, cancelled, run>>

LaunchSkipped(n) ==
    /\ cancelled \/ FailedUpstream(n) # {}
    /\ LaunchSettles(n, Skipped(SkipCode))

LaunchUnbound(n) ==
    /\ ~cancelled /\ FailedUpstream(n) = {} /\ ~Binds(n)
    /\ LaunchSettles(n, Failed(0, Failure("INPUT_BINDING_FAILED", 0)))

\* asyncio.create_task: the node's task will run later.
LaunchNode(n) ==
    /\ NextReady(n)
    /\ ~cancelled /\ FailedUpstream(n) = {} /\ Binds(n)
    /\ ready' = ready \ {n}
    /\ phase' = [phase EXCEPT ![n] = "created"]
    /\ UNCHANGED <<mainPc, remaining, handler, outcome, attempts, lastFailure, result,
                   semaphoreVars, running, observed, totalAttempts, cancelled, run>>

LaunchEnds ==
    /\ mainPc = "launch"
    /\ ready = {}
    /\ mainPc' = IF Active = {} THEN "return" ELSE "await"
    /\ UNCHANGED <<graphVars, taskVars, semaphoreVars, running, observed,
                   totalAttempts, cancelled, run>>

\* asyncio.wait returns with every task that is done by now; all are settled,
\* then the loop condition is tested.
SettleDone ==
    LET done == {n \in Nodes : phase[n] = "finished"}
    IN  /\ LoopFree
        /\ done # {}
        /\ Settle(done, result, ready)
        /\ mainPc' = IF Settled \cup done = Nodes THEN "return" ELSE "launch"
        /\ UNCHANGED <<handler, outcome, attempts, lastFailure, semaphoreVars,
                       running, observed, totalAttempts, cancelled, run>>

Reached(o) == result[o.node].status = "succeeded"
OutputsComplete == \A o \in Outputs : Reached(o) /\ HasEndpoint(o.node, o.port)
OutputFailures == {o \in Outputs : Reached(o) /\ ~HasEndpoint(o.node, o.port)}
NodeFailures == {n \in Nodes : result[n].failure # NoFailure}

Clean == NodeFailures = {} /\ OutputFailures = {} /\ OutputsComplete /\ Settled = Nodes

Return ==
    /\ mainPc = "return"
    /\ mainPc' = "done"
    /\ run' = [status |-> IF cancelled THEN "cancelled"
                          ELSE IF Clean THEN "succeeded" ELSE "failed",
               output |-> OutputsComplete,
               failures |-> NodeFailures \cup {o.node : o \in OutputFailures}]
    /\ UNCHANGED <<graphVars, taskVars, semaphoreVars, running, observed,
                   totalAttempts, cancelled>>

-----------------------------------------------------------------------------
(* asyncio.Semaphore.                                                      *)

\* A permit is handed to the first task in the queue, or kept.  p is where the
\* acquire tasks are otherwise.
Release(p) ==
    \/ /\ waiters = << >>
       /\ value' = value + 1
       /\ permit' = p
       /\ UNCHANGED waiters
    \/ /\ waiters # << >>
       /\ waiters' = Tail(waiters)
       /\ permit' = [p EXCEPT ![Head(waiters)] = "woken"]
       /\ UNCHANGED value

\* The acquire task runs: it takes a permit or queues.
AcquireStarts(n) ==
    /\ LoopFree
    /\ permit[n] = "asked"
    /\ \/ /\ value > 0
          /\ value' = value - 1
          /\ permit' = [permit EXCEPT ![n] = "held"]
          /\ UNCHANGED waiters
       \/ /\ value = 0
          /\ waiters' = Append(waiters, n)
          /\ permit' = [permit EXCEPT ![n] = "queued"]
          /\ UNCHANGED value
    /\ UNCHANGED <<mainPc, graphVars, taskVars, running, observed, totalAttempts, cancelled, run>>

\* The woken acquire task resumes and is done.
AcquireResumes(n) ==
    /\ LoopFree
    /\ permit[n] = "woken"
    /\ permit' = [permit EXCEPT ![n] = "held"]
    /\ UNCHANGED <<mainPc, graphVars, taskVars, value, waiters, running, observed,
                   totalAttempts, cancelled, run>>

\* An acquire task cancelled after it was woken gives the permit back.
AcquireUnwinds(n) ==
    /\ LoopFree
    /\ permit[n] = "returning"
    /\ Release([permit EXCEPT ![n] = "none"])
    /\ UNCHANGED <<mainPc, graphVars, taskVars, running, observed, totalAttempts, cancelled, run>>

-----------------------------------------------------------------------------
(* The task of a node.                                                     *)

Finish(n, r) ==
    /\ phase' = [phase EXCEPT ![n] = "finished"]
    /\ result' = [result EXCEPT ![n] = r]

\* The task runs for the first time, up to the await of _acquire_attempt_slot.
Start(n) ==
    /\ LoopFree
    /\ phase[n] = "created"
    /\ \/ /\ cancelled
          /\ Finish(n, CancelledResult(0))
          /\ UNCHANGED permit
       \/ /\ ~cancelled
          /\ n \notin WithExecutor
          /\ Finish(n, Failed(0, Failure("EXECUTOR_NOT_FOUND", 0)))
          /\ UNCHANGED permit
       \/ /\ ~cancelled
          /\ n \in WithExecutor
          /\ phase' = [phase EXCEPT ![n] = "acquiring"]
          /\ permit' = [permit EXCEPT ![n] = "asked"]
          /\ UNCHANGED result
    /\ UNCHANGED <<mainPc, graphVars, handler, outcome, attempts, lastFailure, value, waiters,
                   running, observed, totalAttempts, cancelled, run>>

\* Where waiter i leaves the semaphore's queue.
WithoutWaiter(i) ==
    [k \in 1..(Len(waiters) - 1) |-> IF k < i THEN waiters[k] ELSE waiters[k + 1]]

\* acquire_task.cancel(): a task that waits leaves the queue, one that was
\* woken will give its permit back.
CancelAcquire(n) ==
    \/ /\ permit[n] = "asked"
       /\ permit' = [permit EXCEPT ![n] = "none"]
       /\ UNCHANGED <<value, waiters>>
    \/ /\ permit[n] = "queued"
       /\ permit' = [permit EXCEPT ![n] = "none"]
       /\ \E i \in DOMAIN waiters : waiters[i] = n /\ waiters' = WithoutWaiter(i)
       /\ UNCHANGED value
    \/ /\ permit[n] = "woken"
       /\ permit' = [permit EXCEPT ![n] = "returning"]
       /\ UNCHANGED <<value, waiters>>

\* Mutation: the finally block only cancels; a permit that has just been
\* granted is forgotten.
SurrenderForgetting(n) ==
    \/ /\ permit[n] = "held"
       /\ permit' = [permit EXCEPT ![n] = "none"]
       /\ UNCHANGED <<value, waiters>>
    \/ CancelAcquire(n)

\* The finally block when no permit will be used: release one the acquire
\* task already holds, cancel the task otherwise.
Surrender(n) ==
    \/ permit[n] = "held" /\ Release([permit EXCEPT ![n] = "none"])
    \/ CancelAcquire(n)

\* asyncio.wait of _acquire_attempt_slot returns: the permit is there or the
\* event is set, and the event wins.
ResumeAcquire(n) ==
    /\ LoopFree
    /\ phase[n] = "acquiring"
    /\ \/ /\ cancelled
          /\ Surrender(n)
          /\ phase' = [phase EXCEPT ![n] = "abandoning"]
       \/ /\ ~cancelled
          /\ permit[n] = "held"
          /\ phase' = [phase EXCEPT ![n] = "granted"]
          /\ UNCHANGED semaphoreVars
    /\ UNCHANGED <<mainPc, graphVars, handler, outcome, attempts, lastFailure, result,
                   running, observed, totalAttempts, cancelled, run>>

\* The gather has seen the acquire task end.
FinishAbandon(n) ==
    /\ LoopFree
    /\ phase[n] = "abandoning"
    /\ permit[n] = "none"
    /\ Finish(n, CancelledResult(attempts[n]))
    /\ UNCHANGED <<mainPc, graphVars, handler, outcome, attempts, lastFailure, semaphoreVars,
                   running, observed, totalAttempts, cancelled, run>>

\* Mutation: the event is not looked at again after the gather.
NeverStops == FALSE

\* The event was set between the grant and the attempt.
StopsGranted == cancelled

RefusedFailure(n) ==
    IF lastFailure[n] # NoFailure THEN [lastFailure[n] EXCEPT !.retryable = FALSE]
    ELSE Failure("ATTEMPT_BUDGET_EXHAUSTED", attempts[n])

\* The permit is granted: stop on cancellation or without budget, giving the
\* permit back, or claim an attempt and call the handler.
ResumeGranted(n) ==
    /\ LoopFree
    /\ phase[n] = "granted"
    /\ observed' = Max({observed, running + 1})
    /\ \/ /\ StopsGranted
          /\ Finish(n, CancelledResult(attempts[n]))
          /\ Release([permit EXCEPT ![n] = "none"])
          /\ UNCHANGED <<handler, attempts, running, totalAttempts>>
       \/ /\ ~StopsGranted
          /\ totalAttempts >= AttemptLimit
          /\ Finish(n, Failed(attempts[n], RefusedFailure(n)))
          /\ Release([permit EXCEPT ![n] = "none"])
          /\ UNCHANGED <<handler, attempts, running, totalAttempts>>
       \/ /\ ~StopsGranted
          /\ totalAttempts < AttemptLimit
          /\ totalAttempts' = totalAttempts + 1
          /\ attempts' = [attempts EXCEPT ![n] = @ + 1]
          /\ running' = running + 1
          /\ phase' = [phase EXCEPT ![n] = IF n \in Sync THEN "calling" ELSE "running"]
          /\ handler' = [handler EXCEPT ![n] = "busy"]
          /\ UNCHANGED <<result, semaphoreVars>>
    /\ UNCHANGED <<mainPc, graphVars, outcome, lastFailure, cancelled, run>>

\* What a handler can end with: a portable value, another value, an
\* exception, a TimeoutError of its own, a cancellation of its own task.
Endings ==
    {[code |-> "ok", ports |-> p] : p \in SUBSET Ports} \cup
    {[code |-> c, ports |-> {}] : c \in {"INVALID_OUTPUT", "raised", "NODE_TIMEOUT", "self-cancelled"}}

\* Mutation: one attempt too many.
MayRetryOnceMore(n, code) == attempts[n] <= MaxAttempts[n] /\ code # "NODE_CANCELLED"

MayRetry(n, code) == attempts[n] < MaxAttempts[n] /\ code # "NODE_CANCELLED"

\* After _attempt: the permit goes back, then the node returns, sleeps or
\* acquires again.  set says whether the event is set by then.
Conclude(n, code, ports, set) ==
    LET failure == [code |-> code, attempt |-> attempts[n], retryable |-> MayRetry(n, code)]
    IN  /\ running' = running - 1
        /\ handler' = [handler EXCEPT ![n] = "none"]
        /\ outcome' = [outcome EXCEPT ![n] = NoOutcome]
        /\ \/ /\ code = "ok"
              /\ Finish(n, Succeeded(attempts[n], ports))
              /\ Release([permit EXCEPT ![n] = "none"])
              /\ UNCHANGED lastFailure
           \/ /\ code # "ok"
              /\ lastFailure' = [lastFailure EXCEPT ![n] = failure]
              /\ \/ /\ ~MayRetry(n, code)
                    /\ Finish(n, Failed(attempts[n], failure))
                    /\ Release([permit EXCEPT ![n] = "none"])
                 \/ /\ MayRetry(n, code) /\ set
                    /\ Finish(n, CancelledResult(attempts[n]))
                    /\ Release([permit EXCEPT ![n] = "none"])
                 \/ /\ MayRetry(n, code) /\ ~set /\ n \in Delayed
                    /\ phase' = [phase EXCEPT ![n] = "delay"]
                    /\ Release([permit EXCEPT ![n] = "none"])
                    /\ UNCHANGED result
                 \/ /\ MayRetry(n, code) /\ ~set /\ n \notin Delayed
                    /\ phase' = [phase EXCEPT ![n] = "acquiring"]
                    /\ Release([permit EXCEPT ![n] = "asked"])
                    /\ UNCHANGED result

\* A synchronous handler returns or raises; it may have set the event itself.
SyncReturns(n) ==
    /\ mainPc = "await"
    /\ phase[n] = "calling"
    /\ \E end \in Endings, set \in BOOLEAN :
          /\ cancelled' = (cancelled \/ set)
          /\ LET code == IF end.code \in {"NODE_TIMEOUT", "INVALID_OUTPUT"} THEN end.code
                         ELSE IF cancelled' THEN "NODE_CANCELLED"
                         ELSE IF end.code = "ok" THEN "ok" ELSE "NODE_EXECUTION_FAILED"
             IN  Conclude(n, code, end.ports, cancelled')
    /\ UNCHANGED <<mainPc, graphVars, attempts, observed, totalAttempts, run>>

\* The handler task ends by itself.
HandlerReturns(n) ==
    /\ LoopFree
    /\ phase[n] = "running"
    /\ handler[n] = "busy"
    /\ handler' = [handler EXCEPT ![n] = "ended"]
    /\ \E end \in Endings : outcome' = [outcome EXCEPT ![n] = end]
    /\ UNCHANGED <<mainPc, graphVars, phase, attempts, lastFailure, result, semaphoreVars,
                   running, observed, totalAttempts, cancelled, run>>

\* Mutation: no timeout is passed to asyncio.wait.
WakesWithoutTimeout(n) == handler[n] = "ended" \/ cancelled

\* asyncio.wait of _attempt returns.
Wakes(n) == handler[n] = "ended" \/ cancelled \/ n \in Timed

\* The event wins over the handler, the handler over the timeout; a handler
\* that is still busy is cancelled and then waited for.
ResumeAttempt(n) ==
    /\ LoopFree
    /\ phase[n] = "running"
    /\ Wakes(n)
    /\ phase' = [phase EXCEPT ![n] = "closing"]
    /\ \/ /\ cancelled
          /\ outcome' = [outcome EXCEPT ![n] = [code |-> "NODE_CANCELLED", ports |-> {}]]
       \/ /\ ~cancelled
          /\ handler[n] = "busy"
          /\ outcome' = [outcome EXCEPT ![n] = [code |-> "NODE_TIMEOUT", ports |-> {}]]
       \/ /\ ~cancelled
          /\ handler[n] = "ended"
          /\ UNCHANGED outcome
    /\ UNCHANGED <<mainPc, graphVars, handler, attempts, lastFailure, result, semaphoreVars,
                   running, observed, totalAttempts, cancelled, run>>

\* The cancelled handler task ends; what it ends with is ignored.
HandlerUnwinds(n) ==
    /\ LoopFree
    /\ phase[n] = "closing"
    /\ handler[n] = "busy"
    /\ handler' = [handler EXCEPT ![n] = "ended"]
    /\ UNCHANGED <<mainPc, graphVars, phase, outcome, attempts, lastFailure, result,
                   semaphoreVars, running, observed, totalAttempts, cancelled, run>>

\* The failure code of what left _attempt: an exception of the handler becomes
\* a cancellation if the event is set by the time it is classified.
CodeOf(n) ==
    CASE outcome[n].code = "raised" -> IF cancelled THEN "NODE_CANCELLED" ELSE "NODE_EXECUTION_FAILED"
      [] outcome[n].code = "self-cancelled" -> "NODE_EXECUTION_FAILED"
      [] OTHER -> outcome[n].code

CloseAttempt(n) ==
    /\ LoopFree
    /\ phase[n] = "closing"
    /\ handler[n] = "ended"
    /\ Conclude(n, CodeOf(n), outcome[n].ports, cancelled)
    /\ UNCHANGED <<mainPc, graphVars, attempts, observed, totalAttempts, cancelled, run>>

\* The retry delay ends, or the event cuts it short.
DelayEnds(n) ==
    /\ LoopFree
    /\ phase[n] = "delay"
    /\ \/ /\ cancelled
          /\ Finish(n, CancelledResult(attempts[n]))
          /\ UNCHANGED permit
       \/ /\ ~cancelled
          /\ phase' = [phase EXCEPT ![n] = "acquiring"]
          /\ permit' = [permit EXCEPT ![n] = "asked"]
          /\ UNCHANGED result
    /\ UNCHANGED <<mainPc, graphVars, handler, outcome, attempts, lastFailure, value, waiters,
                   running, observed, totalAttempts, cancelled, run>>

\* The caller sets the event.
Cancel ==
    /\ LoopFree
    /\ ~cancelled
    /\ cancelled' = TRUE
    /\ UNCHANGED <<mainPc, graphVars, taskVars, semaphoreVars, running, observed,
                   totalAttempts, run>>

-----------------------------------------------------------------------------

Main ==
    \/ \E n \in Nodes : LaunchSkipped(n) \/ LaunchUnbound(n) \/ LaunchNode(n)
    \/ LaunchEnds
    \/ Return

NodeTask(n) ==
    \/ Start(n) \/ ResumeAcquire(n) \/ FinishAbandon(n) \/ ResumeGranted(n)
    \/ SyncReturns(n) \/ ResumeAttempt(n) \/ CloseAttempt(n) \/ DelayEnds(n)

AcquireTask(n) == AcquireStarts(n) \/ AcquireResumes(n) \/ AcquireUnwinds(n)

Finished == mainPc = "done" /\ UNCHANGED vars

Next ==
    \/ Main
    \/ SettleDone
    \/ \E n \in Nodes : NodeTask(n)
    \/ \E n \in Nodes : AcquireTask(n)
    \/ \E n \in Nodes : HandlerReturns(n)
    \/ \E n \in Nodes : HandlerUnwinds(n)
    \/ Cancel
    \/ Finished

Spec == Init /\ [][Next]_vars

(***************************************************************************)
(* The event loop runs some task as long as one can run, and timers fire.  *)
(* An asynchronous handler without a timeout is assumed to end by itself,  *)
(* one that was cancelled to unwind; one with a timeout may hang, and the  *)
(* caller need never set the event.  Every task takes finitely many steps, *)
(* so fairness to each of them is not needed.                              *)
(***************************************************************************)
LoopRuns ==
    \/ Main
    \/ SettleDone
    \/ \E n \in Nodes : NodeTask(n) \/ AcquireTask(n) \/ HandlerUnwinds(n)
    \/ \E n \in Nodes \ Timed : HandlerReturns(n)

FairSpec == Spec /\ WF_vars(LoopRuns)

-----------------------------------------------------------------------------
(* Properties.                                                             *)

Failures == [code : FailureCodes \cup {"none"}, attempt : Nat, retryable : BOOLEAN]
Outcomes == [code : ExecutionCodes \cup {"none", "ok", "raised", "self-cancelled", "NODE_CANCELLED"},
             ports : SUBSET Ports]

\* Every variable has its type; the count-down of remaining and the permits of
\* the semaphore never go below zero.
TypeOK ==
    /\ mainPc \in {"launch", "await", "return", "done"}
    /\ ready \subseteq Nodes
    /\ remaining \in [Nodes -> Nat]
    /\ phase \in [Nodes -> Phases]
    /\ permit \in [Nodes -> Permits]
    /\ handler \in [Nodes -> {"none", "busy", "ended"}]
    /\ outcome \in [Nodes -> Outcomes]
    /\ attempts \in [Nodes -> Nat]
    /\ lastFailure \in [Nodes -> Failures]
    /\ result \in [Nodes -> [status : {"none", "succeeded", "failed", "skipped"},
                             attempts : Nat, failure : Failures, ports : SUBSET Ports]]
    /\ value \in Nat
    /\ waiters \in Seq(Nodes)
    /\ {running, observed, totalAttempts} \subseteq Nat
    /\ cancelled \in BOOLEAN
    /\ run \in [status : {"none", "succeeded", "failed", "cancelled"},
                output : BOOLEAN, failures : SUBSET Nodes]

PermitOwners == {n \in Nodes : permit[n] \in {"woken", "held", "returning"}}

\* No permit is lost or invented, whichever of grant and cancellation comes
\* first: those out are exactly with the tasks that were handed one, a handler
\* runs only under one, and all are back when the run returns.
PermitsConserved ==
    /\ TypeOK
    /\ value + Cardinality(PermitOwners) = Concurrency
    /\ \A n \in Nodes : phase[n] \in {"granted", "calling", "running", "closing"} => permit[n] = "held"
    /\ running = Cardinality({n \in Nodes : phase[n] \in {"calling", "running", "closing"}})
    /\ observed <= Concurrency
    /\ mainPc = "done" => value = Concurrency

\* No attempt is claimed and no handler called once the event is set, even for
\* a node that already owns a permit.
NoStartAfterCancel ==
    [][cancelled => totalAttempts' = totalAttempts
                    /\ \A n \in Nodes : handler'[n] = "busy" => handler[n] = "busy"]_vars

\* A node that has been launched has only upstream nodes that succeeded.
DependencySafety ==
    \A n \in Nodes : (phase[n] \in Phases \ {"idle", "settled"} \/ attempts[n] > 0) =>
        \A e \in Incoming(n) : phase[e.from] = "settled" /\ result[e.from].status = "succeeded"

\* run leaves its loop only when every node has a result, so ordered_results
\* finds them all.
RunComplete == mainPc \in {"return", "done"} => Settled = Nodes

NotSucceeded(n) == {m \in Settled : EdgesBetween(m, n) # {} /\ result[m].status # "succeeded"}

\* A settled node with an upstream node that did not succeed is skipped; a
\* skipped node made no attempt and has such an upstream node, or the run was
\* cancelled.  UPSTREAM_FAILED needs such a node, NODE_CANCELLED the event.
FailureIsolation ==
    \A n \in Settled :
        LET r == result[n]
        IN  /\ NotSucceeded(n) # {} => r.status = "skipped"
            /\ r.status = "skipped" => r.attempts = 0 /\ (NotSucceeded(n) # {} \/ cancelled)
            /\ r.failure.code = "UPSTREAM_FAILED" => NotSucceeded(n) # {}
            /\ r.failure.code = "NODE_CANCELLED" => cancelled

\* The failure a node reports describes its last attempt, is not advertised as
\* retryable, and comes only when its own or the run's attempts are spent.
FailureFaithful ==
    \A n \in Settled :
        LET r == result[n]
        IN  r.status = "failed" =>
                /\ r.failure.code # "none"
                /\ r.failure.attempt = r.attempts
                /\ ~r.failure.retryable
                /\ r.failure.code \in ExecutionCodes =>
                       r.attempts = MaxAttempts[n] \/ totalAttempts = AttemptLimit
                /\ r.failure.code = "ATTEMPT_BUDGET_EXHAUSTED" =>
                       r.attempts = 0 /\ totalAttempts = AttemptLimit

\* The status of the run agrees with its nodes, outputs and the event.
StatusSound ==
    mainPc = "done" =>
        /\ run.status = "succeeded" =>
               run.output /\ \A n \in Nodes : result[n].status = "succeeded"
        /\ run.status = "cancelled" <=> cancelled
        /\ run.status = "failed" => run.failures # {}

\* What a run reports is complete and true: every node has a result, only nodes
\* whose dependencies succeeded were launched, nodes are skipped only for a cause
\* upstream or a cancellation, a failure describes the last attempt of its node,
\* and the status of the run agrees with its nodes and outputs.
OutcomeFaithful ==
    DependencySafety /\ RunComplete /\ FailureIsolation /\ FailureFaithful /\ StatusSound

\* Every run returns: no wait for a permit, a handler, a delay or a gather is
\* for ever, with or without cancellation.
Termination == <>(mainPc = "done")

StateOf(n) ==
    CASE phase[n] = "idle" -> "pending"
      [] phase[n] \in {"created", "acquiring", "abandoning", "granted"} -> "scheduled"
      [] phase[n] \in {"calling", "running", "closing"} -> "running"
      [] phase[n] = "delay" -> "retry-wait"
      [] phase[n] \in {"finished", "settled"} -> result[n].status

Lifecycle == INSTANCE RunLifecycle WITH
    state <- [n \in Nodes |-> StateOf(n)],
    spent <- attempts,
    budget <- AttemptLimit - totalAttempts,
    verdict <- IF run = NoRun THEN "running" ELSE run.status

\* The Python scheduler implements the same lifecycle as the TypeScript one.
ImplementsLifecycle == Lifecycle!LifecycleSpec
=============================================================================
