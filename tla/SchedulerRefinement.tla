------------------------ MODULE SchedulerRefinement ------------------------
(***************************************************************************)
(* scheduler.ts implements RunLifecycle.  A node is scheduled while it     *)
(* queues for a slot or owns one it has not used yet, running from the     *)
(* claim of an attempt until its slot is released, and terminal as soon as *)
(* executeNode resolves, which is before runGraph settles it.              *)
(***************************************************************************)
EXTENDS Scheduler

StateOf(n) ==
    CASE phase[n] = "idle" -> "pending"
      [] phase[n] \in {"waiting", "granted"} -> "scheduled"
      [] phase[n] \in {"running", "decided"} -> "running"
      [] phase[n] = "delay" -> "retry-wait"
      [] phase[n] \in {"finished", "settled"} -> result[n].status

Lifecycle == INSTANCE RunLifecycle WITH
    state <- [n \in Nodes |-> StateOf(n)],
    spent <- attempts,
    budget <- AttemptLimit - totalAttempts,
    cancelled <- aborted,
    verdict <- IF run = NoRun THEN "running" ELSE run.status

\* The scheduler implements the lifecycle: each step of runGraph, of a node's
\* coroutine, of a timer and of the abort listener is a step the promise
\* allows, or none that shows.
ImplementsLifecycle == Lifecycle!LifecycleSpec
=============================================================================
