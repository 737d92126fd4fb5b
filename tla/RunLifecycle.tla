---------------------------- MODULE RunLifecycle ----------------------------
(***************************************************************************)
(* What a run promises, whichever runtime executes it: the node and run    *)
(* states of spec/runtime-semantics.md.  A node is scheduled only after    *)
(* all its dependencies succeeded, at most Concurrency attempts run at a   *)
(* time and at most AttemptLimit in all, a node that lost a dependency is  *)
(* skipped, cancellation stops what has not started, and the run ends when *)
(* every node is terminal.  Nothing is said of queues, slots or promises.  *)
(***************************************************************************)
EXTENDS Naturals, FiniteSets

CONSTANTS Nodes, Edges, Concurrency, AttemptLimit, MaxAttempts, WithExecutor

VARIABLES
    state,      \* the state of each node
    spent,      \* attempts started, for each node
    budget,     \* attempts the run has left
    cancelled,  \* the caller has cancelled the run
    verdict     \* the terminal state of the run, or "running"

lifecycle == <<state, spent, budget, cancelled, verdict>>

NodeStates == {"pending", "scheduled", "running", "retry-wait",
               "succeeded", "failed", "skipped"}
Terminal == {"succeeded", "failed", "skipped"}

Upstream(n) == {e.from : e \in {f \in Edges : f.to = n}}
Satisfied(n) == \A m \in Upstream(n) : state[m] = "succeeded"
Running == {n \in Nodes : state[n] = "running"}

LifecycleInit ==
    /\ state = [n \in Nodes |-> "pending"]
    /\ spent = [n \in Nodes |-> 0]
    /\ budget = AttemptLimit
    /\ cancelled \in BOOLEAN
    /\ verdict = "running"

Move(n, from, to) ==
    /\ state[n] \in from
    /\ verdict = "running"
    /\ state' = [state EXCEPT ![n] = to]

Schedule(n) ==
    /\ Move(n, {"pending"}, "scheduled")
    /\ ~cancelled /\ Satisfied(n)
    /\ UNCHANGED <<spent, budget, cancelled, verdict>>

\* The node cannot be given an input or, found out now or later, an executor.
Refuse(n) ==
    /\ \/ Move(n, {"pending"}, "failed")
       \/ Move(n, {"scheduled"}, "failed") /\ n \notin WithExecutor
    /\ ~cancelled /\ Satisfied(n)
    /\ UNCHANGED <<spent, budget, cancelled, verdict>>

Skip(n) ==
    /\ Move(n, {"pending"}, "skipped")
    /\ \A m \in Upstream(n) : state[m] \in Terminal
    /\ cancelled \/ ~Satisfied(n)
    /\ UNCHANGED <<spent, budget, cancelled, verdict>>

StartAttempt(n) ==
    /\ Move(n, {"scheduled"}, "running")
    /\ Cardinality(Running) < Concurrency
    /\ budget > 0
    /\ spent[n] < MaxAttempts[n]
    /\ spent' = [spent EXCEPT ![n] = @ + 1]
    /\ budget' = budget - 1
    /\ UNCHANGED <<cancelled, verdict>>

EndAttempt(n) ==
    /\ \/ Move(n, {"running"}, "succeeded")
       \/ Move(n, {"running"}, "failed")
       \/ Move(n, {"running"}, "retry-wait") /\ spent[n] < MaxAttempts[n]
       \/ Move(n, {"running"}, "scheduled") /\ spent[n] < MaxAttempts[n] /\ ~cancelled
    /\ UNCHANGED <<spent, budget, cancelled, verdict>>

Reschedule(n) ==
    /\ Move(n, {"retry-wait"}, "scheduled")
    /\ ~cancelled
    /\ UNCHANGED <<spent, budget, cancelled, verdict>>

\* A scheduled or sleeping node ends: the budget is spent or the run cancelled.
GiveUp(n) ==
    /\ Move(n, {"scheduled", "retry-wait"}, "failed")
    /\ cancelled \/ budget = 0
    /\ UNCHANGED <<spent, budget, cancelled, verdict>>

\* Cancellation fails some of the nodes that have started; a handler may cause
\* it and fail by it in one step.
Cancel ==
    /\ ~cancelled
    /\ cancelled' = TRUE
    /\ verdict = "running"
    /\ state' \in [Nodes -> NodeStates]
    /\ \A n \in Nodes : \/ state'[n] = state[n]
                       \/ /\ state[n] \in {"scheduled", "running", "retry-wait"}
                          /\ state'[n] = "failed"
    /\ UNCHANGED <<spent, budget, verdict>>

End ==
    /\ verdict = "running"
    /\ \A n \in Nodes : state[n] \in Terminal
    /\ verdict' \in {"succeeded", "failed", "cancelled"}
    /\ verdict' = "cancelled" <=> cancelled
    /\ verdict' = "succeeded" => \A n \in Nodes : state[n] = "succeeded"
    /\ UNCHANGED <<state, spent, budget, cancelled>>

LifecycleNext ==
    \/ \E n \in Nodes : \/ Schedule(n) \/ Refuse(n) \/ Skip(n) \/ StartAttempt(n)
                        \/ EndAttempt(n) \/ Reschedule(n) \/ GiveUp(n)
    \/ Cancel
    \/ End

LifecycleSpec == LifecycleInit /\ [][LifecycleNext]_lifecycle
=============================================================================
