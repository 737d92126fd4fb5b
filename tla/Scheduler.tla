----------------------------- MODULE Scheduler -----------------------------
(***************************************************************************)
(* The TypeScript ready-queue scheduler: runGraph, executeNode,            *)
(* executeAttempt and createAttemptSemaphore of                            *)
(* packages/runtime/src/scheduler.ts.                                      *)
(*                                                                         *)
(* JavaScript runs one thread: code between two awaits is one atomic step. *)
(* The main coroutine (mainPc) is the body of runGraph; each launched node *)
(* is one coroutine (phase[n]) whose steps are the pieces of executeNode   *)
(* between its awaits.  Node steps, timers, executor answers and the       *)
(* caller's abort only happen while runGraph awaits Promise.race; the      *)
(* synchronous block of runGraph (settle, then launchReady, node by node)  *)
(* is a sequence of steps during which mainPc is not "await" and nothing   *)
(* else can move.                                                          *)
(***************************************************************************)
EXTENDS Integers, Sequences, FiniteSets, FiniteSetsExt

CONSTANTS
    Nodes,          \* graph.nodes, their identifiers
    Edges,          \* records [id, from, to, fromPort, toPort]
    Outputs,        \* graph.outputs: records [node, port]
    Sequence,       \* position of a node in the flattened topologicalLayers
    Concurrency,    \* resolveConcurrency(graph, options.concurrency)
    AttemptLimit,   \* policies.maxTotalAttempts
    MaxAttempts,    \* retry.maxAttempts of each node
    Delayed,        \* nodes whose retryDelay is positive
    Timed,          \* nodes that have a timeoutMs
    WithExecutor,   \* nodes an executor is registered for
    Ports,          \* property names an executor output can have
    NoPort          \* an endpoint without a port

(***************************************************************************)
(* What a valid compilation guarantees of the graph: edges join declared   *)
(* nodes and the sequence is a topological numbering.                      *)
(***************************************************************************)
ASSUME GraphAssumption ==
    /\ IsFiniteSet(Nodes) /\ Nodes # {}
    /\ IsFiniteSet(Edges)
    /\ Sequence \in [Nodes -> Nat]
    /\ \A m, n \in Nodes : Sequence[m] = Sequence[n] => m = n
    /\ \A e \in Edges : /\ e.from \in Nodes
                        /\ e.to \in Nodes
                        /\ Sequence[e.from] < Sequence[e.to]
    /\ \A o \in Outputs : o.node \in Nodes

(***************************************************************************)
(* positiveInteger and resolveConcurrency leave no zero or fraction.       *)
(***************************************************************************)
ASSUME PolicyAssumption ==
    /\ Concurrency \in Nat \ {0}
    /\ AttemptLimit \in Nat \ {0}
    /\ MaxAttempts \in [Nodes -> Nat \ {0}]
    /\ Delayed \subseteq Nodes
    /\ Timed \subseteq Nodes
    /\ WithExecutor \subseteq Nodes

VARIABLES
    mainPc,         \* where runGraph is
    ready,          \* the ready queue; kept sorted by sequence, so a set
    remaining,      \* incoming edges whose source has not settled
    phase,          \* where the coroutine of a node is
    attempts,       \* executeNode's attempts
    outcome,        \* the AttemptOutcome an attempt resolved to
    lastFailure,    \* executeNode's lastFailure
    result,         \* the NodeRunResult, from phase "finished" on
    running,        \* slots handed out by the semaphore
    waiters,        \* the semaphore's FIFO queue, cancelled waiters included
    observed,       \* observedConcurrency
    totalAttempts,  \* attempts claimed by the whole run
    aborted,        \* runController.signal.aborted
    run             \* the GraphRunResult once runGraph has returned

vars == <<mainPc, ready, remaining, phase, attempts, outcome, lastFailure,
          result, running, waiters, observed, totalAttempts, aborted, run>>

ExecutionCodes == {"NODE_EXECUTION_FAILED", "NODE_TIMEOUT", "INVALID_OUTPUT"}
FailureCodes == ExecutionCodes \cup
    {"NODE_CANCELLED", "UPSTREAM_FAILED", "INPUT_BINDING_FAILED",
     "EXECUTOR_NOT_FOUND", "ATTEMPT_BUDGET_EXHAUSTED"}

(***************************************************************************)
(* idle      not launched                                                  *)
(* waiting   queued in the semaphore                                       *)
(* granted   owns a slot; the await of acquireAttemptSlot has not resumed  *)
(* running   owns a slot; the executor has been called                     *)
(* decided   owns a slot; executeAttempt has resolved, not yet resumed     *)
(* delay     sleeping before a retry                                       *)
(* finished  executeNode has resolved; runGraph has not settled the node   *)
(* settled   the result is in runGraph's results map                       *)
(***************************************************************************)
Phases == {"idle", "waiting", "granted", "running", "decided", "delay",
           "finished", "settled"}
SlotPhases == {"granted", "running", "decided"}

NoFailure == [code |-> "none", attempt |-> 0, retryable |-> FALSE]
NoOutcome == [code |-> "none", ports |-> {}]
NoResult == [status |-> "none", attempts |-> 0, failure |-> NoFailure, ports |-> {}]
NoRun == [status |-> "none", output |-> FALSE, failures |-> {}]

Failures == [code : FailureCodes \cup {"none"}, attempt : Nat, retryable : BOOLEAN]
Outcomes == [code : ExecutionCodes \cup {"none", "ok", "NODE_CANCELLED"}, ports : SUBSET Ports]
Results == [status : {"none", "succeeded", "failed", "skipped"}, attempts : Nat,
            failure : Failures, ports : SUBSET Ports]

-----------------------------------------------------------------------------
(* Results.                                                                *)

\* runtimeFailure with its default retryable = false
Failure(code, attempt) == [code |-> code, attempt |-> attempt, retryable |-> FALSE]

Succeeded(count, ports) ==
    [status |-> "succeeded", attempts |-> count, failure |-> NoFailure, ports |-> ports]
Failed(count, failure) ==
    [status |-> "failed", attempts |-> count, failure |-> failure, ports |-> {}]
Skipped(code) ==
    [status |-> "skipped", attempts |-> 0, failure |-> Failure(code, 0), ports |-> {}]

Settled == {n \in Nodes : phase[n] = "settled"}
Active == {n \in Nodes : phase[n] \notin {"idle", "settled"}}
SlotHolders == {n \in Nodes : phase[n] \in SlotPhases}

Incoming(n) == {e \in Edges : e.to = n}
EdgesBetween(m, n) == {e \in Edges : e.from = m /\ e.to = n}

\* Mutation: count the distinct sources instead of the edges.
InDegreeOfSources(n) == Cardinality({e.from : e \in Incoming(n)})

\* The initial value of remaining: parallel edges count one by one.
InDegree(n) == Cardinality(Incoming(n))

-----------------------------------------------------------------------------
(* Input binding.                                                          *)

\* endpointValue finds the selected property, or no property is selected
HasEndpoint(node, port) == port = NoPort \/ port \in result[node].ports

InputKey(e) == IF e.toPort = NoPort THEN e.from ELSE e.toPort

\* bindNodeInput does not throw
Binds(n) ==
    /\ \A e, f \in Incoming(n) : InputKey(e) = InputKey(f) => e = f
    /\ \A e \in Incoming(n) : HasEndpoint(e.from, e.fromPort)

-----------------------------------------------------------------------------
(* The attempt semaphore.                                                  *)

\* Mutation: the release loop does not test next.cancelled.
AllWaiters == DOMAIN waiters

\* Mutation: release forgets its waiters.
NoWaiters == {}

\* The queue positions of waiters that abort has not cancelled.
LiveWaiters == {i \in DOMAIN waiters : phase[waiters[i]] = "waiting"}

\* Mutation: the queue is a stack, pop() instead of shift().
LastLive(i) == i \in LiveWaiters /\ \A j \in LiveWaiters : j <= i

\* The waiter the release loop stops at.
FirstLive(i) == i \in LiveWaiters /\ \A j \in LiveWaiters : i <= j

\* The release function: give the slot back, drop cancelled waiters from the
\* head of the queue, grant the first live one.  Node n continues in phase p.
Release(n, p) ==
    \/ /\ LiveWaiters = {}
       /\ running' = running - 1
       /\ waiters' = << >>
       /\ phase' = [phase EXCEPT ![n] = p]
    \/ \E i \in LiveWaiters :
          /\ FirstLive(i)
          /\ waiters' = SubSeq(waiters, i + 1, Len(waiters))
          /\ phase' = [phase EXCEPT ![n] = p, ![waiters[i]] = "granted"]
          /\ UNCHANGED running

\* Mutation: one slot too many.
SlotFreeLate == running <= Concurrency

\* Mutation: one slot too few.
SlotFreeEarly == running < Concurrency - 1

SlotFree == running < Concurrency

\* The executeNode loop head: acquireAttemptSlot, up to its await.
Acquire(n) ==
    \/ /\ aborted
       /\ phase' = [phase EXCEPT ![n] = "finished"]
       /\ result' = [result EXCEPT ![n] =
                        Failed(attempts[n], Failure("NODE_CANCELLED", attempts[n]))]
       /\ UNCHANGED <<running, waiters, observed>>
    \/ /\ ~aborted
       /\ SlotFree
       /\ running' = running + 1
       /\ observed' = IF running' > observed THEN running' ELSE observed
       /\ phase' = [phase EXCEPT ![n] = "granted"]
       /\ UNCHANGED <<waiters, result>>
    \/ /\ ~aborted
       /\ ~SlotFree
       /\ waiters' = Append(waiters, n)
       /\ phase' = [phase EXCEPT ![n] = "waiting"]
       /\ UNCHANGED <<running, observed, result>>

-----------------------------------------------------------------------------
(* runGraph, up to its loop.                                               *)

Init ==
    /\ mainPc = "launch"
    /\ remaining = [n \in Nodes |-> InDegree(n)]
    /\ ready = {n \in Nodes : remaining[n] = 0}
    /\ phase = [n \in Nodes |-> "idle"]
    /\ attempts = [n \in Nodes |-> 0]
    /\ outcome = [n \in Nodes |-> NoOutcome]
    /\ lastFailure = [n \in Nodes |-> NoFailure]
    /\ result = [n \in Nodes |-> NoResult]
    /\ running = 0
    /\ waiters = << >>
    /\ observed = 0
    /\ totalAttempts = 0
    /\ aborted \in BOOLEAN      \* options.signal may already be aborted
    /\ run = NoRun

-----------------------------------------------------------------------------
(* The main loop.                                                          *)

\* Mutation: one decrement for each distinct target.
CountDownOnce(n, m) == IF EdgesBetween(n, m) = {} THEN 0 ELSE 1

\* How often settle decrements remaining[m]: once for each edge from n to m.
CountDown(n, m) == Cardinality(EdgesBetween(n, m))

\* Mutation: the node is queued one edge too early.
QueuedEarly(m, left) == remaining[m] > 0 /\ left <= 1

\* settle pushes m: a decrement takes remaining[m] to zero.
Queued(m, left) == remaining[m] > 0 /\ left <= 0

\* settle: record r for n, count down every outgoing edge, queue the nodes
\* whose count passes zero.  queue is the ready queue n was taken from.
Settle(n, r, queue) ==
    /\ result' = [result EXCEPT ![n] = r]
    /\ phase' = [phase EXCEPT ![n] = "settled"]
    /\ remaining' = [m \in Nodes |-> remaining[m] - CountDown(n, m)]
    /\ ready' = queue \cup {m \in Nodes : Queued(m, remaining'[m])}

\* ready.shift(), the queue being sorted by compareNodes
NextReady(n) ==
    /\ mainPc = "launch"
    /\ n \in ready
    /\ \A m \in ready : Sequence[n] <= Sequence[m]

\* Mutation: a skipped upstream node does not hold its dependents back.
UpstreamWithFailedStatus(n) == {m \in Nodes : EdgesBetween(m, n) # {} /\ result[m].status = "failed"}

FailedUpstream(n) == {m \in Nodes : /\ EdgesBetween(m, n) # {}
                                    /\ ~(phase[m] = "settled" /\ result[m].status = "succeeded")}

SkipCode == IF aborted THEN "NODE_CANCELLED" ELSE "UPSTREAM_FAILED"

LaunchSkipped(n) ==
    /\ NextReady(n)
    /\ aborted \/ FailedUpstream(n) # {}
    /\ Settle(n, Skipped(SkipCode), ready \ {n})
    /\ UNCHANGED <<mainPc, attempts, outcome, lastFailure, running, waiters,
                   observed, totalAttempts, aborted, run>>

LaunchUnbound(n) ==
    /\ NextReady(n)
    /\ ~aborted
    /\ FailedUpstream(n) = {}
    /\ ~Binds(n)
    /\ Settle(n, Failed(0, Failure("INPUT_BINDING_FAILED", 0)), ready \ {n})
    /\ UNCHANGED <<mainPc, attempts, outcome, lastFailure, running, waiters,
                   observed, totalAttempts, aborted, run>>

\* executeNode is called and runs to its first await, or resolves at once
\* when no executor is registered.
LaunchNode(n) ==
    /\ NextReady(n)
    /\ ~aborted
    /\ FailedUpstream(n) = {}
    /\ Binds(n)
    /\ ready' = ready \ {n}
    /\ \/ /\ n \in WithExecutor
          /\ Acquire(n)
       \/ /\ n \notin WithExecutor
          /\ phase' = [phase EXCEPT ![n] = "finished"]
          /\ result' = [result EXCEPT ![n] = Failed(0, Failure("EXECUTOR_NOT_FOUND", 0))]
          /\ UNCHANGED <<running, waiters, observed>>
    /\ UNCHANGED <<mainPc, remaining, attempts, outcome, lastFailure,
                   totalAttempts, aborted, run>>

\* launchReady is through: leave the loop when nothing is active, else await.
LaunchEnds ==
    /\ mainPc = "launch"
    /\ ready = {}
    /\ mainPc' = IF Active = {} THEN "return" ELSE "await"
    /\ UNCHANGED <<ready, remaining, phase, attempts, outcome, lastFailure,
                   result, running, waiters, observed, totalAttempts, aborted, run>>

\* Promise.race has resolved with node n: settle it, test the loop condition.
SettleCompleted(n) ==
    /\ mainPc = "await"
    /\ phase[n] = "finished"
    /\ Settle(n, result[n], ready)
    /\ mainPc' = IF Settled \cup {n} = Nodes THEN "return" ELSE "launch"
    /\ UNCHANGED <<attempts, outcome, lastFailure, running, waiters,
                   observed, totalAttempts, aborted, run>>

Reached(o) == result[o.node].status = "succeeded"
OutputsComplete == \A o \in Outputs : Reached(o) /\ HasEndpoint(o.node, o.port)
OutputFailures == {o \in Outputs : Reached(o) /\ ~HasEndpoint(o.node, o.port)}
NodeFailures == {n \in Nodes : result[n].failure # NoFailure}

Clean == NodeFailures = {} /\ OutputFailures = {} /\ OutputsComplete

\* The GraphRunResult: ordered node results, failures, outputs and status.
Return ==
    /\ mainPc = "return"
    /\ mainPc' = "done"
    /\ run' = [status |-> IF aborted THEN "cancelled"
                          ELSE IF Clean THEN "succeeded" ELSE "failed",
               output |-> OutputsComplete,
               failures |-> NodeFailures \cup {o.node : o \in OutputFailures}]
    /\ UNCHANGED <<ready, remaining, phase, attempts, outcome, lastFailure,
                   result, running, waiters, observed, totalAttempts, aborted>>

-----------------------------------------------------------------------------
(* The coroutine of a node, between the awaits of executeNode.             *)

\* Mutation: the failure keeps its retryable flag.
RefusedFailureAsIs(n) ==
    IF lastFailure[n] # NoFailure THEN lastFailure[n]
    ELSE Failure("ATTEMPT_BUDGET_EXHAUSTED", attempts[n])

\* The failure of a node whose claim on the attempt budget is refused.
RefusedFailure(n) ==
    IF lastFailure[n] # NoFailure THEN [lastFailure[n] EXCEPT !.retryable = FALSE]
    ELSE Failure("ATTEMPT_BUDGET_EXHAUSTED", attempts[n])

\* A slot was granted: claim an attempt of the run's budget and start it, or
\* give the slot back and fail.  A run aborted meanwhile still counts the
\* attempt, but executeAttempt returns before it calls the executor.
ResumeGranted(n) ==
    /\ mainPc = "await"
    /\ phase[n] = "granted"
    /\ \/ /\ totalAttempts >= AttemptLimit
          /\ Release(n, "finished")
          /\ result' = [result EXCEPT ![n] = Failed(attempts[n], RefusedFailure(n))]
          /\ UNCHANGED <<attempts, outcome, totalAttempts>>
       \/ /\ totalAttempts < AttemptLimit
          /\ totalAttempts' = totalAttempts + 1
          /\ attempts' = [attempts EXCEPT ![n] = @ + 1]
          /\ phase' = [phase EXCEPT ![n] = IF aborted THEN "decided" ELSE "running"]
          /\ outcome' = [outcome EXCEPT ![n] =
                 IF aborted THEN [code |-> "NODE_CANCELLED", ports |-> {}] ELSE NoOutcome]
          /\ UNCHANGED <<result, running, waiters>>
    /\ UNCHANGED <<mainPc, ready, remaining, lastFailure, observed, aborted, run>>

Decide(n, code, ports) ==
    /\ mainPc = "await"
    /\ phase[n] = "running"
    /\ phase' = [phase EXCEPT ![n] = "decided"]
    /\ outcome' = [outcome EXCEPT ![n] = [code |-> code, ports |-> ports]]
    /\ UNCHANGED <<mainPc, ready, remaining, attempts, lastFailure, result, running,
                   waiters, observed, totalAttempts, aborted, run>>

\* The executor resolves with a JSON value, resolves with a value that is not
\* portable JSON, or throws; after an abort each of them is a cancellation.
ExecutorSettles(n) ==
    \/ ~aborted /\ \E ports \in SUBSET Ports : Decide(n, "ok", ports)
    \/ ~aborted /\ \E code \in {"INVALID_OUTPUT", "NODE_EXECUTION_FAILED"} : Decide(n, code, {})
    \/ aborted /\ Decide(n, "NODE_CANCELLED", {})

\* The timer wins Promise.race; whatever the executor still does is ignored.
TimeoutFires(n) == n \in Timed /\ Decide(n, "NODE_TIMEOUT", {})

\* Mutation: one attempt too many.
MayRetryOnceMore(n) == attempts[n] <= MaxAttempts[n] /\ outcome[n].code # "NODE_CANCELLED"

MayRetry(n) == attempts[n] < MaxAttempts[n] /\ outcome[n].code # "NODE_CANCELLED"

\* executeAttempt resolved: release the slot, then return or sleep.  The code
\* loops once more after NODE_CANCELLED; the aborted signal makes that
\* acquireAttemptSlot reject with the same failure and attempt count.
ResumeDecided(n) ==
    /\ mainPc = "await"
    /\ phase[n] = "decided"
    /\ LET code == outcome[n].code
           failure == [code |-> code, attempt |-> attempts[n], retryable |-> MayRetry(n)]
       IN  \/ /\ code = "ok"
              /\ Release(n, "finished")
              /\ result' = [result EXCEPT ![n] = Succeeded(attempts[n], outcome[n].ports)]
              /\ UNCHANGED lastFailure
           \/ /\ code # "ok"
              /\ ~MayRetry(n)
              /\ Release(n, "finished")
              /\ lastFailure' = [lastFailure EXCEPT ![n] = failure]
              /\ result' = [result EXCEPT ![n] = Failed(attempts[n], failure)]
           \/ /\ code # "ok"
              /\ MayRetry(n)
              /\ Release(n, "delay")
              /\ lastFailure' = [lastFailure EXCEPT ![n] = failure]
              /\ UNCHANGED result
    /\ outcome' = [outcome EXCEPT ![n] = NoOutcome]
    /\ UNCHANGED <<mainPc, ready, remaining, attempts, observed, totalAttempts, aborted, run>>

\* The retry delay ends (at once when it is zero) and the loop acquires again.
DelayEnds(n) ==
    /\ mainPc = "await"
    /\ phase[n] = "delay"
    /\ Acquire(n)
    /\ UNCHANGED <<mainPc, ready, remaining, attempts, outcome, lastFailure,
                   totalAttempts, aborted, run>>

-----------------------------------------------------------------------------
(* Cancellation: the caller's signal aborts while runGraph is suspended.   *)
(* Queued waiters are rejected and stay in the queue as cancelled; sleeps  *)
(* that had begun are rejected.  A delay of zero has no abort listener.    *)

Interrupted == {n \in Nodes : \/ phase[n] = "waiting"
                              \/ phase[n] = "delay" /\ n \in Delayed}

Abort ==
    /\ mainPc = "await"
    /\ ~aborted
    /\ aborted' = TRUE
    /\ phase' = [n \in Nodes |-> IF n \in Interrupted THEN "finished" ELSE phase[n]]
    /\ result' = [n \in Nodes |->
                    IF n \in Interrupted
                    THEN Failed(attempts[n], Failure("NODE_CANCELLED", attempts[n]))
                    ELSE result[n]]
    /\ UNCHANGED <<mainPc, ready, remaining, attempts, outcome, lastFailure,
                   running, waiters, observed, totalAttempts, run>>

-----------------------------------------------------------------------------

Main ==
    \/ \E n \in Nodes : LaunchSkipped(n) \/ LaunchUnbound(n) \/ LaunchNode(n)
    \/ LaunchEnds
    \/ Return

NodeStep(n) == ResumeGranted(n) \/ ResumeDecided(n) \/ DelayEnds(n)

\* runGraph has returned; the run stays as it is.
Finished == mainPc = "done" /\ UNCHANGED vars

Next ==
    \/ Main
    \/ \E n \in Nodes : SettleCompleted(n)
    \/ \E n \in Nodes : NodeStep(n)
    \/ \E n \in Nodes : ExecutorSettles(n)
    \/ \E n \in Nodes : TimeoutFires(n)
    \/ Abort
    \/ Finished

Spec == Init /\ [][Next]_vars

(***************************************************************************)
(* The event loop resumes every settled promise and fires every timer; an  *)
(* executor without a timeout is assumed to answer, unless it is one of    *)
(* the hung nodes.  An executor that has a timeout may hang for ever, and  *)
(* the caller need never abort.                                            *)
(***************************************************************************)
Fairness(hung) ==
    /\ WF_vars(Main)
    /\ WF_vars(\E n \in Nodes : SettleCompleted(n))
    /\ \A n \in Nodes : /\ WF_vars(NodeStep(n))
                        /\ WF_vars(TimeoutFires(n))
    /\ \A n \in Nodes \ (Timed \cup hung) : WF_vars(ExecutorSettles(n))

-----------------------------------------------------------------------------
(* Properties.                                                             *)

\* Every variable has the type its declaration in scheduler.ts gives it; in
\* particular the count-down of remaining never goes below zero.
TypeOK ==
    /\ mainPc \in {"launch", "await", "return", "done"}
    /\ ready \subseteq Nodes
    /\ remaining \in [Nodes -> Nat]
    /\ phase \in [Nodes -> Phases]
    /\ attempts \in [Nodes -> Nat]
    /\ outcome \in [Nodes -> Outcomes]
    /\ lastFailure \in [Nodes -> Failures]
    /\ result \in [Nodes -> Results]
    /\ running \in Nat
    /\ waiters \in Seq(Nodes)
    /\ observed \in Nat
    /\ totalAttempts \in Nat
    /\ aborted \in BOOLEAN
    /\ run \in [status : {"none", "succeeded", "failed", "cancelled"},
                output : BOOLEAN, failures : SUBSET Nodes]

\* The semaphore's counter is the number of nodes that own a slot, through
\* every hand-over, retry, budget refusal and abort, and it never passes the
\* resolved concurrency; neither does the reported maxObservedConcurrency.
SlotAccounting ==
    /\ running = Cardinality(SlotHolders)
    /\ running <= observed
    /\ observed <= Concurrency

\* A node waits only while every slot is taken, and it is in the queue, so
\* the release that frees a slot will find it: no wake-up is lost.
NoLostWakeup ==
    \A n \in Nodes : phase[n] = "waiting" =>
        /\ ~aborted
        /\ running = Concurrency
        /\ \E i \in DOMAIN waiters : waiters[i] = n

\* The run never claims more attempts than its budget, no node more than its
\* own, and the total reported is the sum over the nodes.
AttemptBudget ==
    /\ totalAttempts <= AttemptLimit
    /\ \A n \in Nodes : attempts[n] <= MaxAttempts[n]
    /\ totalAttempts = MapThenSumSet(LAMBDA n : attempts[n], Nodes)

\* A node that has been launched, and so any executor call, has only
\* upstream nodes that settled as succeeded.
DependencySafety ==
    \A n \in Nodes : (phase[n] \in Phases \ {"idle", "settled"} \/ attempts[n] > 0) =>
        \A e \in Incoming(n) : phase[e.from] = "settled" /\ result[e.from].status = "succeeded"

\* remaining counts the incoming edges whose source has not settled, and the
\* ready queue holds exactly the unlaunched nodes for which it is zero: no
\* node is queued early, twice or never.
ReadyExact ==
    \A n \in Nodes :
        /\ remaining[n] = Cardinality({e \in Incoming(n) : e.from \notin Settled})
        /\ n \in ready <=> (remaining[n] = 0 /\ phase[n] = "idle")

\* runGraph leaves its loop, by the loop condition or by the break on an
\* empty active map, only when every node has a result and no slot is held.
RunComplete ==
    mainPc \in {"return", "done"} => Settled = Nodes /\ running = 0

NotSucceeded(n) == {m \in Settled : EdgesBetween(m, n) # {} /\ result[m].status # "succeeded"}

\* Failure isolation: a settled node with an upstream node that did not succeed
\* is skipped; a skipped node made no attempt and has such an upstream node, or
\* the run was cancelled.  UPSTREAM_FAILED needs such a node, NODE_CANCELLED a
\* run that was cancelled.
FailureIsolation ==
    \A n \in Settled :
        LET r == result[n]
        IN  /\ NotSucceeded(n) # {} => r.status = "skipped"
            /\ r.status = "skipped" => r.attempts = 0 /\ (NotSucceeded(n) # {} \/ aborted)
            /\ r.failure.code = "UPSTREAM_FAILED" => NotSucceeded(n) # {}
            /\ r.failure.code = "NODE_CANCELLED" => aborted

\* The failure a node reports describes its last attempt, is not advertised
\* as retryable, and gives up only when the node's or the run's attempts are
\* spent.
FailureFaithful ==
    \A n \in Settled :
        LET r == result[n]
        IN  r.status = "failed" =>
                /\ r.failure.code # "none"
                /\ r.failure.attempt = r.attempts
                /\ ~r.failure.retryable
                /\ r.failure.code \in ExecutionCodes =>
                       r.attempts = MaxAttempts[n] \/ totalAttempts = AttemptLimit
                /\ r.failure.code = "ATTEMPT_BUDGET_EXHAUSTED" =>
                       r.attempts = 0 /\ totalAttempts = AttemptLimit

\* The status of the run agrees with the nodes: succeeded means every node
\* succeeded and every output is bound, cancelled means the caller aborted,
\* and failed always comes with a failure that explains it.
StatusSound ==
    mainPc = "done" =>
        /\ run.status = "succeeded" =>
               run.output /\ \A n \in Nodes : result[n].status = "succeeded"
        /\ run.status = "cancelled" <=> aborted
        /\ run.status = "failed" => run.failures # {}

\* What a run reports is true: nodes are skipped only for a cause upstream or a
\* cancellation, a failure describes the last attempt of its node, and the
\* status of the run agrees with its nodes and outputs.
OutcomeFaithful == FailureIsolation /\ FailureFaithful /\ StatusSound

\* Slots are granted in the order of arrival: a node that gets one stands
\* before every node still waiting, and a newcomer finds nobody waiting.
FifoGrants ==
    [][\A n \in Nodes : (phase[n] # "granted" /\ phase'[n] = "granted") =>
           \A i \in LiveWaiters : \E j \in 1..i : waiters[j] = n]_vars

\* Once executeNode has resolved, its result is the one runGraph records and
\* returns: no later grant, timer, executor answer or abort changes it.
ResultsFinal ==
    [][\A n \in Nodes : phase[n] \in {"finished", "settled"} =>
           /\ phase'[n] \in {phase[n], "settled"}
           /\ result'[n] = result[n]]_vars
=============================================================================
