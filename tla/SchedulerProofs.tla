--------------------------- MODULE SchedulerProofs ---------------------------
(***************************************************************************)
(* Theorems about the scheduler for every graph, policy and number of      *)
(* nodes.                                                                  *)
(***************************************************************************)
EXTENDS Scheduler, TLAPS, FiniteSetTheorems, WellFoundedInduction

-----------------------------------------------------------------------------
(* Types, the counters being integers only.                                *)

TypeWeak ==
    /\ mainPc \in {"launch", "await", "return", "done"}
    /\ ready \subseteq Nodes
    /\ remaining \in [Nodes -> Int]
    /\ phase \in [Nodes -> Phases]
    /\ attempts \in [Nodes -> Nat]
    /\ outcome \in [Nodes -> Outcomes]
    /\ lastFailure \in [Nodes -> Failures]
    /\ result \in [Nodes -> Results]
    /\ running \in Int
    /\ waiters \in Seq(Nodes)
    /\ observed \in Int
    /\ totalAttempts \in Nat
    /\ aborted \in BOOLEAN
    /\ run \in [status : {"none", "succeeded", "failed", "cancelled"},
                output : BOOLEAN, failures : SUBSET Nodes]

LEMMA EdgeCounts ==
    ASSUME NEW m \in Nodes, NEW n \in Nodes
    PROVE  /\ IsFiniteSet(Incoming(n)) /\ InDegree(n) \in Nat
           /\ IsFiniteSet(EdgesBetween(m, n)) /\ CountDown(m, n) \in Nat
<1>1. IsFiniteSet(Incoming(n)) /\ IsFiniteSet(EdgesBetween(m, n))
  BY FS_Subset, GraphAssumption DEF Incoming, EdgesBetween
<1> QED
  BY <1>1, FS_CardinalityType DEF InDegree, CountDown

LEMMA RecordTypes ==
    /\ NoFailure \in Failures
    /\ NoOutcome \in Outcomes
    /\ NoResult \in Results
    /\ \A code \in FailureCodes, k \in Nat : Failure(code, k) \in Failures
    /\ \A k \in Nat, ports \in SUBSET Ports : Succeeded(k, ports) \in Results
    /\ \A k \in Nat, failure \in Failures : Failed(k, failure) \in Results
    /\ \A code \in FailureCodes : Skipped(code) \in Results
  BY DEF NoFailure, NoOutcome, NoResult, Failures, Outcomes, Results, Failure,
         Succeeded, Failed, Skipped, FailureCodes, ExecutionCodes

LEMMA ReleaseTypes ==
    ASSUME TypeWeak, NEW n \in Nodes, NEW p \in Phases, Release(n, p)
    PROVE  running' \in Int /\ waiters' \in Seq(Nodes) /\ phase' \in [Nodes -> Phases]
<1>1. CASE LiveWaiters = {} /\ running' = running - 1 /\ waiters' = << >>
           /\ phase' = [phase EXCEPT ![n] = p]
  BY <1>1 DEF TypeWeak
<1>2. ASSUME NEW i \in LiveWaiters,
             waiters' = SubSeq(waiters, i + 1, Len(waiters)),
             phase' = [phase EXCEPT ![n] = p, ![waiters[i]] = "granted"],
             running' = running
      PROVE  running' \in Int /\ waiters' \in Seq(Nodes) /\ phase' \in [Nodes -> Phases]
  <2>1. i \in 1..Len(waiters) /\ waiters[i] \in Nodes
    BY DEF LiveWaiters, TypeWeak
  <2>2. waiters' \in Seq(Nodes)
    BY <1>2, <2>1 DEF TypeWeak
  <2> QED
    BY <1>2, <2>1, <2>2 DEF TypeWeak, Phases
<1> QED
  BY <1>1, <1>2 DEF Release

LEMMA AcquireTypes ==
    ASSUME TypeWeak, NEW n \in Nodes, Acquire(n)
    PROVE  /\ running' \in Int /\ waiters' \in Seq(Nodes) /\ observed' \in Int
           /\ phase' \in [Nodes -> Phases] /\ result' \in [Nodes -> Results]
<1>1. Failed(attempts[n], Failure("NODE_CANCELLED", attempts[n])) \in Results
  BY RecordTypes DEF TypeWeak, FailureCodes
<1>2. Append(waiters, n) \in Seq(Nodes)
  BY DEF TypeWeak
<1>3. CASE aborted
  <2> DEFINE r == Failed(attempts[n], Failure("NODE_CANCELLED", attempts[n]))
  <2>1. /\ phase' = [phase EXCEPT ![n] = "finished"]
        /\ result' = [result EXCEPT ![n] = r]
        /\ running' = running /\ waiters' = waiters /\ observed' = observed
    BY <1>3 DEF Acquire
  <2>2. r \in Results
    BY <1>1
  <2> HIDE DEF r
  <2> QED
    BY <2>1, <2>2 DEF TypeWeak, Phases
<1>4. CASE ~aborted /\ SlotFree
  <2>1. /\ running' = running + 1
        /\ observed' = running' \/ observed' = observed
        /\ phase' = [phase EXCEPT ![n] = "granted"]
        /\ waiters' = waiters /\ result' = result
    BY <1>4 DEF Acquire
  <2> QED
    BY <2>1 DEF TypeWeak, Phases
<1>5. CASE ~aborted /\ ~SlotFree
  BY <1>2, <1>5 DEF TypeWeak, Acquire, Phases
<1> QED
  BY <1>3, <1>4, <1>5

LEMMA SettleTypes ==
    ASSUME TypeWeak, NEW n \in Nodes, NEW r \in Results, NEW q \in SUBSET Nodes,
           Settle(n, r, q)
    PROVE  /\ result' \in [Nodes -> Results] /\ phase' \in [Nodes -> Phases]
           /\ remaining' \in [Nodes -> Int] /\ ready' \subseteq Nodes
<1>1. \A m \in Nodes : CountDown(n, m) \in Nat
  BY EdgeCounts
<1> QED
  BY <1>1 DEF TypeWeak, Settle, Phases

LEMMA TypeWeakInit == Init => TypeWeak
<1> SUFFICES ASSUME Init PROVE TypeWeak
  OBVIOUS
<1>1. remaining \in [Nodes -> Int] /\ ready \subseteq Nodes
  <2>1. \A n \in Nodes : InDegree(n) \in Nat
    BY EdgeCounts
  <2>2. remaining = [n \in Nodes |-> InDegree(n)] /\ ready = {n \in Nodes : remaining[n] = 0}
    BY DEF Init
  <2> QED
    BY <2>1, <2>2
<1>2. /\ outcome \in [Nodes -> Outcomes] /\ lastFailure \in [Nodes -> Failures]
      /\ result \in [Nodes -> Results]
  BY RecordTypes DEF Init
<1>3. phase \in [Nodes -> Phases] /\ attempts \in [Nodes -> Nat] /\ waiters \in Seq(Nodes)
  BY DEF Init, Phases
<1>4. run \in [status : {"none", "succeeded", "failed", "cancelled"},
               output : BOOLEAN, failures : SUBSET Nodes]
  BY DEF Init, NoRun
<1> QED
  BY <1>1, <1>2, <1>3, <1>4 DEF Init, TypeWeak

LEMMA TypeWeakStep == TypeWeak /\ [Next]_vars => TypeWeak'
<1> SUFFICES ASSUME TypeWeak, [Next]_vars PROVE TypeWeak'
  OBVIOUS
<1>1. ASSUME NEW n \in Nodes, LaunchSkipped(n) PROVE TypeWeak'
  <2>1. Skipped(SkipCode) \in Results /\ ready \ {n} \in SUBSET Nodes
    BY RecordTypes DEF SkipCode, FailureCodes, TypeWeak
  <2>2. Settle(n, Skipped(SkipCode), ready \ {n})
    BY <1>1 DEF LaunchSkipped
  <2> QED
    BY <1>1, <2>1, <2>2, SettleTypes DEF LaunchSkipped, TypeWeak
<1>2. ASSUME NEW n \in Nodes, LaunchUnbound(n) PROVE TypeWeak'
  <2>1. Failed(0, Failure("INPUT_BINDING_FAILED", 0)) \in Results /\ ready \ {n} \in SUBSET Nodes
    BY RecordTypes DEF FailureCodes, TypeWeak
  <2>2. Settle(n, Failed(0, Failure("INPUT_BINDING_FAILED", 0)), ready \ {n})
    BY <1>2 DEF LaunchUnbound
  <2> QED
    BY <1>2, <2>1, <2>2, SettleTypes DEF LaunchUnbound, TypeWeak
<1>3. ASSUME NEW n \in Nodes, LaunchNode(n) PROVE TypeWeak'
  <2>1. Failed(0, Failure("EXECUTOR_NOT_FOUND", 0)) \in Results
    BY RecordTypes DEF FailureCodes
  <2>2. CASE n \in WithExecutor
    <3>1. Acquire(n)
      BY <1>3, <2>2 DEF LaunchNode
    <3> QED
      BY <1>3, <3>1, AcquireTypes DEF LaunchNode, TypeWeak
  <2>3. CASE n \notin WithExecutor
    <3>1. /\ phase' = [phase EXCEPT ![n] = "finished"]
          /\ result' = [result EXCEPT ![n] = Failed(0, Failure("EXECUTOR_NOT_FOUND", 0))]
          /\ UNCHANGED <<running, waiters, observed>>
      BY <1>3, <2>3 DEF LaunchNode
    <3>2. phase' \in [Nodes -> Phases] /\ result' \in [Nodes -> Results]
      BY <2>1, <3>1 DEF TypeWeak, Phases
    <3> QED
      BY <1>3, <3>1, <3>2 DEF LaunchNode, TypeWeak
  <2> QED
    BY <2>2, <2>3
<1>4. CASE LaunchEnds
  BY <1>4 DEF LaunchEnds, TypeWeak
<1>5. CASE Return
  <2>1. NodeFailures \cup {o.node : o \in OutputFailures} \in SUBSET Nodes
    BY GraphAssumption DEF NodeFailures, OutputFailures
  <2>2. run'.status \in {"succeeded", "failed", "cancelled"} /\ run'.output \in BOOLEAN
    BY <1>5 DEF Return, OutputsComplete
  <2> QED
    BY <1>5, <2>1, <2>2 DEF Return, TypeWeak, OutputsComplete
<1>6. ASSUME NEW n \in Nodes, SettleCompleted(n) PROVE TypeWeak'
  <2>1. Settle(n, result[n], ready) /\ result[n] \in Results
    BY <1>6 DEF SettleCompleted, TypeWeak
  <2> QED
    BY <1>6, <2>1, SettleTypes DEF SettleCompleted, TypeWeak
<1>7. ASSUME NEW n \in Nodes, ResumeGranted(n) PROVE TypeWeak'
  <2>1. RefusedFailure(n) \in Failures
    BY RecordTypes DEF RefusedFailure, TypeWeak, Failures, FailureCodes
  <2>2. CASE totalAttempts >= AttemptLimit
    <3>1. Release(n, "finished") /\ result' = [result EXCEPT ![n] = Failed(attempts[n], RefusedFailure(n))]
      BY <1>7, <2>2, PolicyAssumption DEF ResumeGranted, TypeWeak
    <3>2. UNCHANGED <<attempts, outcome, totalAttempts>>
      BY <1>7, <2>2, PolicyAssumption DEF ResumeGranted, TypeWeak
    <3>3. result' \in [Nodes -> Results]
      BY <2>1, <3>1, RecordTypes DEF TypeWeak
    <3> QED
      BY <1>7, <3>1, <3>2, <3>3, ReleaseTypes DEF ResumeGranted, TypeWeak, Phases
  <2>3. CASE ~(totalAttempts >= AttemptLimit)
    <3>1. NoOutcome \in Outcomes /\ [code |-> "NODE_CANCELLED", ports |-> {}] \in Outcomes
      BY RecordTypes DEF Outcomes
    <3>2. /\ totalAttempts' = totalAttempts + 1
          /\ attempts' = [attempts EXCEPT ![n] = @ + 1]
          /\ phase' = [phase EXCEPT ![n] = IF aborted THEN "decided" ELSE "running"]
          /\ outcome' = [outcome EXCEPT ![n] =
                 IF aborted THEN [code |-> "NODE_CANCELLED", ports |-> {}] ELSE NoOutcome]
          /\ UNCHANGED <<result, running, waiters>>
      BY <1>7, <2>3 DEF ResumeGranted
    <3>3. phase' \in [Nodes -> Phases] /\ outcome' \in [Nodes -> Outcomes]
      BY <3>1, <3>2 DEF TypeWeak, Phases
    <3>4. attempts' \in [Nodes -> Nat] /\ totalAttempts' \in Nat
      BY <3>2 DEF TypeWeak
    <3> QED
      BY <1>7, <3>2, <3>3, <3>4 DEF ResumeGranted, TypeWeak
  <2> QED
    BY <2>2, <2>3
<1>8. ASSUME NEW n \in Nodes, ResumeDecided(n) PROVE TypeWeak'
  <2> DEFINE failure == [code |-> outcome[n].code, attempt |-> attempts[n], retryable |-> MayRetry(n)]
  <2>1. outcome[n].code # "ok" => \/ failure \in Failures
    BY DEF TypeWeak, Failures, Outcomes, FailureCodes, MayRetry
  <2>2. outcome' \in [Nodes -> Outcomes]
    BY <1>8, RecordTypes DEF ResumeDecided, TypeWeak
  <2>3. \E p \in Phases : Release(n, p)
    BY <1>8 DEF ResumeDecided, Phases
  <2>4. lastFailure' \in [Nodes -> Failures] /\ result' \in [Nodes -> Results]
    <3>1. CASE outcome[n].code = "ok"
      <4>1. Succeeded(attempts[n], outcome[n].ports) \in Results
        BY RecordTypes DEF TypeWeak, Outcomes
      <4> QED
        BY <1>8, <3>1, <4>1 DEF ResumeDecided, TypeWeak
    <3>2. CASE outcome[n].code # "ok"
      <4>1. Failed(attempts[n], failure) \in Results
        BY <2>1, <3>2, RecordTypes DEF TypeWeak
      <4> HIDE DEF failure
      <4>2. /\ lastFailure' = [lastFailure EXCEPT ![n] = failure]
            /\ \/ result' = [result EXCEPT ![n] = Failed(attempts[n], failure)]
               \/ result' = result
        BY <1>8, <3>2 DEF ResumeDecided, failure
      <4>3. result' \in [Nodes -> Results]
        BY <4>1, <4>2 DEF TypeWeak
      <4> QED
        BY <2>1, <3>2, <4>2, <4>3 DEF TypeWeak
    <3> QED
      BY <3>1, <3>2
  <2> QED
    BY <1>8, <2>2, <2>3, <2>4, ReleaseTypes DEF ResumeDecided, TypeWeak
<1>9. ASSUME NEW n \in Nodes, DelayEnds(n) PROVE TypeWeak'
  BY <1>9, AcquireTypes DEF DelayEnds, TypeWeak
<1>10. ASSUME NEW n \in Nodes, ExecutorSettles(n) \/ TimeoutFires(n) PROVE TypeWeak'
  <2>1. PICK code \in ExecutionCodes \cup {"ok", "NODE_CANCELLED"}, ports \in SUBSET Ports :
            Decide(n, code, ports)
    BY <1>10 DEF ExecutorSettles, TimeoutFires, ExecutionCodes
  <2>2. [code |-> code, ports |-> ports] \in Outcomes
    BY <2>1 DEF Outcomes
  <2> QED
    BY <2>1, <2>2 DEF Decide, TypeWeak, Phases
<1>11. CASE Abort
  <2>1. \A n \in Nodes : Failed(attempts[n], Failure("NODE_CANCELLED", attempts[n])) \in Results
    BY RecordTypes DEF TypeWeak, FailureCodes
  <2> QED
    BY <1>11, <2>1 DEF Abort, TypeWeak, Phases
<1>12. CASE UNCHANGED vars
  BY <1>12 DEF vars, TypeWeak
<1> QED
  BY <1>1, <1>2, <1>3, <1>4, <1>5, <1>6, <1>7, <1>8, <1>9, <1>10, <1>11, <1>12
     DEF Next, Main, NodeStep, Finished

-----------------------------------------------------------------------------
(* Phases.  Each step but the ones that launch or settle a node moves      *)
(* nodes only between the phases of a launched node.                       *)

Quiet ==
    /\ UNCHANGED <<ready, remaining>>
    /\ \A n \in Nodes : /\ phase'[n] = "idle" <=> phase[n] = "idle"
                        /\ phase'[n] = "settled" <=> phase[n] = "settled"

LEMMA ReleasePhases ==
    ASSUME TypeWeak, NEW n \in Nodes, phase[n] \in SlotPhases, NEW p \in Phases, Release(n, p)
    PROVE  /\ phase'[n] = p
           /\ \A m \in Nodes \ {n} : phase'[m] = phase[m] \/ (phase[m] = "waiting" /\ phase'[m] = "granted")
<1>1. CASE phase' = [phase EXCEPT ![n] = p]
  BY <1>1 DEF TypeWeak
<1>2. ASSUME NEW i \in LiveWaiters,
             phase' = [phase EXCEPT ![n] = p, ![waiters[i]] = "granted"]
      PROVE  /\ phase'[n] = p
             /\ \A m \in Nodes \ {n} : phase'[m] = phase[m] \/ (phase[m] = "waiting" /\ phase'[m] = "granted")
  <2>1. waiters[i] \in Nodes /\ phase[waiters[i]] = "waiting" /\ waiters[i] # n
    BY DEF LiveWaiters, TypeWeak, SlotPhases
  <2> QED
    BY <1>2, <2>1 DEF TypeWeak
<1> QED
  BY <1>1, <1>2 DEF Release

LEMMA AcquirePhases ==
    ASSUME TypeWeak, NEW n \in Nodes, Acquire(n)
    PROVE  /\ phase'[n] \in {"waiting", "granted", "finished"}
           /\ \A m \in Nodes \ {n} : phase'[m] = phase[m] /\ result'[m] = result[m]
  BY DEF Acquire, TypeWeak

LEMMA QuietSteps ==
    ASSUME TypeWeak, NEW n \in Nodes,
           ResumeGranted(n) \/ ResumeDecided(n) \/ DelayEnds(n) \/ ExecutorSettles(n) \/ TimeoutFires(n)
    PROVE  Quiet
<1>1. CASE ResumeGranted(n)
  <2>1. CASE Release(n, "finished")
    BY <1>1, <2>1, ReleasePhases DEF ResumeGranted, Quiet, SlotPhases, Phases
  <2>2. CASE phase' = [phase EXCEPT ![n] = IF aborted THEN "decided" ELSE "running"]
    BY <1>1, <2>2 DEF ResumeGranted, Quiet, TypeWeak
  <2> QED
    BY <1>1, <2>1, <2>2 DEF ResumeGranted
<1>2. CASE ResumeDecided(n)
  <2>1. PICK p \in {"finished", "delay"} : Release(n, p)
    BY <1>2 DEF ResumeDecided
  <2> QED
    BY <1>2, <2>1, ReleasePhases DEF ResumeDecided, Quiet, SlotPhases, Phases
<1>3. CASE DelayEnds(n)
  BY <1>3, AcquirePhases DEF DelayEnds, Quiet
<1>4. CASE ExecutorSettles(n) \/ TimeoutFires(n)
  <2>1. phase[n] = "running" /\ phase' = [phase EXCEPT ![n] = "decided"] /\ UNCHANGED <<ready, remaining>>
    BY <1>4 DEF ExecutorSettles, TimeoutFires, Decide
  <2> QED
    BY <2>1 DEF Quiet, TypeWeak
<1> QED
  BY <1>1, <1>2, <1>3, <1>4

LEMMA QuietAbort == TypeWeak /\ Abort => Quiet
  BY DEF TypeWeak, Abort, Interrupted, Quiet

-----------------------------------------------------------------------------
(* The ready queue.                                                        *)

Unsettled(n) == {e \in Incoming(n) : e.from \notin Settled}

LEMMA UnsettledFinite ==
    ASSUME NEW n \in Nodes
    PROVE  IsFiniteSet(Unsettled(n)) /\ Cardinality(Unsettled(n)) \in Nat
  BY EdgeCounts, FS_Subset, FS_CardinalityType DEF Unsettled

ReadyInv ==
    /\ ReadyExact
    /\ \A n \in Nodes : phase[n] # "idle" => remaining[n] = 0

LEMMA ReadyInit == Init => ReadyInv
<1> SUFFICES ASSUME Init PROVE ReadyInv
  OBVIOUS
<1>1. \A n \in Nodes : {e \in Incoming(n) : e.from \notin Settled} = Incoming(n)
  BY GraphAssumption DEF Init, Settled, Incoming
<1> QED
  BY <1>1 DEF Init, ReadyInv, ReadyExact, InDegree

LEMMA ReadyQuiet == TypeWeak /\ ReadyInv /\ Quiet => ReadyInv'
<1> SUFFICES ASSUME TypeWeak, ReadyInv, Quiet PROVE ReadyInv'
  OBVIOUS
<1>1. Settled' = Settled
  BY DEF Quiet, Settled
<1>2. \A n \in Nodes : Incoming(n)' = Incoming(n)
  BY DEF Incoming
<1> QED
  BY <1>1, <1>2 DEF ReadyInv, ReadyExact, Quiet, Incoming

LEMMA ReadySettle ==
    ASSUME TypeWeak, ReadyInv, NEW n \in Nodes, NEW r, NEW q,
           phase[n] # "settled", Settle(n, r, q),
           q = ready \ {n}, phase[n] = "idle" => remaining[n] = 0
    PROVE  ReadyInv'
<1>1. /\ phase' = [phase EXCEPT ![n] = "settled"]
      /\ remaining' = [m \in Nodes |-> remaining[m] - CountDown(n, m)]
      /\ ready' = (ready \ {n}) \cup {m \in Nodes : Queued(m, remaining'[m])}
  BY DEF Settle
<1>2. Settled' = Settled \cup {n} /\ n \notin Settled
  BY <1>1 DEF Settled, TypeWeak
<1>3. ASSUME NEW m \in Nodes
      PROVE  /\ remaining'[m] = Cardinality({e \in Incoming(m) : e.from \notin Settled'})
             /\ remaining'[m] \in Nat
             /\ remaining[m] \in Nat
             /\ remaining[m] = 0 => remaining'[m] = 0
  <2> DEFINE Left == {e \in Incoming(m) : e.from \notin Settled'}
  <2>1. Left \cap EdgesBetween(n, m) = {} /\ Unsettled(m) = Left \cup EdgesBetween(n, m)
    BY <1>2 DEF Unsettled, Incoming, EdgesBetween
  <2>2. IsFiniteSet(Unsettled(m)) /\ IsFiniteSet(Left) /\ IsFiniteSet(EdgesBetween(n, m))
    BY <2>1, UnsettledFinite, EdgeCounts, FS_Subset
  <2> HIDE DEF Left
  <2>3. /\ Cardinality(Left) \in Nat
        /\ Cardinality(EdgesBetween(n, m)) \in Nat
        /\ Cardinality(Unsettled(m)) = Cardinality(Left) + Cardinality(EdgesBetween(n, m))
    <3>1. Cardinality(Left \cup EdgesBetween(n, m)) =
              Cardinality(Left) + Cardinality(EdgesBetween(n, m)) - Cardinality(Left \cap EdgesBetween(n, m))
      BY <2>2, FS_Union
    <3>2. Cardinality(Left \cap EdgesBetween(n, m)) = 0
      BY <2>1, FS_EmptySet
    <3>3. Cardinality(Left) \in Nat /\ Cardinality(EdgesBetween(n, m)) \in Nat
      BY <2>2, FS_CardinalityType
    <3> QED
      BY <2>1, <3>1, <3>2, <3>3
  <2>4. remaining[m] = Cardinality(Unsettled(m))
    BY DEF ReadyInv, ReadyExact, Unsettled
  <2>5. remaining'[m] = Cardinality(Left)
    BY <1>1, <2>3, <2>4 DEF CountDown
  <2> QED
    BY <2>3, <2>4, <2>5 DEF Left
<1>4. ASSUME NEW m \in Nodes
      PROVE  m \in ready' <=> (remaining'[m] = 0 /\ phase'[m] = "idle")
  <2>1. CASE m = n
    <3>1. phase'[n] = "settled" /\ remaining[n] = 0
      BY <1>1 DEF TypeWeak, ReadyInv
    <3> QED
      BY <1>1, <1>3, <2>1, <3>1 DEF Queued
  <2>2. CASE m # n
    <3>1. phase'[m] = phase[m]
      BY <1>1, <2>2 DEF TypeWeak
    <3>2. m \in ready' <=> (m \in ready \/ (remaining[m] > 0 /\ remaining'[m] <= 0))
      BY <1>1, <2>2 DEF Queued
    <3>3. m \in ready <=> (remaining[m] = 0 /\ phase[m] = "idle")
      BY DEF ReadyInv, ReadyExact
    <3>4. phase[m] # "idle" => remaining[m] = 0
      BY DEF ReadyInv
    <3>5. remaining'[m] \in Nat /\ remaining[m] \in Nat /\ (remaining[m] = 0 => remaining'[m] = 0)
      BY <1>3
    <3>6. (remaining[m] > 0 /\ remaining'[m] <= 0) <=> (remaining[m] # 0 /\ remaining'[m] = 0)
      BY <3>5
    <3> QED
      BY <3>1, <3>2, <3>3, <3>4, <3>5, <3>6, Zenon
  <2> QED
    BY <2>1, <2>2
<1>5. \A m \in Nodes : phase'[m] # "idle" => remaining'[m] = 0
  BY <1>1, <1>3 DEF TypeWeak, ReadyInv
<1> QED
  BY <1>3, <1>4, <1>5 DEF ReadyInv, ReadyExact, Incoming

\* A launched node leaves the queue; a skipped one is settled at once.
LEMMA ReadyStep == TypeWeak /\ ReadyInv /\ [Next]_vars => ReadyInv'
<1> SUFFICES ASSUME TypeWeak, ReadyInv, [Next]_vars PROVE ReadyInv'
  OBVIOUS
<1>1. \A n \in ready : n \in Nodes /\ phase[n] = "idle" /\ remaining[n] = 0
  BY DEF TypeWeak, ReadyInv, ReadyExact
<1>2. ASSUME NEW n \in Nodes, LaunchSkipped(n) \/ LaunchUnbound(n) PROVE ReadyInv'
  <2>1. n \in ready /\ \E r : Settle(n, r, ready \ {n})
    BY <1>2 DEF LaunchSkipped, LaunchUnbound, NextReady
  <2> QED
    BY <1>1, <2>1, ReadySettle
<1>3. ASSUME NEW n \in Nodes, SettleCompleted(n) PROVE ReadyInv'
  <2>1. phase[n] = "finished" /\ Settle(n, result[n], ready)
    BY <1>3 DEF SettleCompleted
  <2>2. ready = ready \ {n}
    BY <1>1, <2>1
  <2> QED
    BY <2>1, <2>2, ReadySettle
<1>4. ASSUME NEW n \in Nodes, LaunchNode(n) PROVE ReadyInv'
  <2>1. n \in ready /\ ready' = ready \ {n} /\ remaining' = remaining
    BY <1>4 DEF LaunchNode, NextReady
  <2>2. /\ phase'[n] \notin {"idle", "settled"}
        /\ \A m \in Nodes \ {n} : phase'[m] = phase[m]
    BY <1>4, AcquirePhases DEF LaunchNode, TypeWeak
  <2>3. Settled' = Settled
    BY <1>1, <2>1, <2>2 DEF Settled
  <2>4. \A m \in Nodes : m \in ready' <=> (remaining'[m] = 0 /\ phase'[m] = "idle")
    BY <2>1, <2>2 DEF ReadyInv, ReadyExact
  <2>5. \A m \in Nodes : phase'[m] # "idle" => remaining'[m] = 0
    BY <1>1, <2>1, <2>2 DEF ReadyInv
  <2> QED
    BY <2>1, <2>3, <2>4, <2>5 DEF ReadyInv, ReadyExact, Incoming
<1>5. CASE LaunchEnds \/ Return \/ UNCHANGED vars
  <2>1. Quiet
    BY <1>5 DEF LaunchEnds, Return, vars, Quiet
  <2> QED
    BY <2>1, ReadyQuiet
<1>6. ASSUME NEW n \in Nodes, NodeStep(n) \/ ExecutorSettles(n) \/ TimeoutFires(n) PROVE ReadyInv'
  BY <1>6, QuietSteps, ReadyQuiet DEF NodeStep
<1>7. CASE Abort
  BY <1>7, QuietAbort, ReadyQuiet
<1> QED
  BY <1>2, <1>3, <1>4, <1>5, <1>6, <1>7 DEF Next, Main, Finished

-----------------------------------------------------------------------------
(* The attempt semaphore.                                                  *)

LEMMA HoldersFinite ==
    IsFiniteSet(SlotHolders) /\ IsFiniteSet(SlotHolders') /\ Cardinality(SlotHolders) \in Nat
  BY GraphAssumption, FS_Subset, FS_CardinalityType DEF SlotHolders

SlotInv == SlotAccounting /\ NoLostWakeup

LEMMA SlotInit == Init => SlotInv
<1> SUFFICES ASSUME Init PROVE SlotInv
  OBVIOUS
<1>1. SlotHolders = {}
  BY DEF Init, SlotHolders, SlotPhases
<1>2. running = Cardinality(SlotHolders) /\ running = 0 /\ observed = 0
  BY <1>1, FS_EmptySet DEF Init
<1> QED
  BY <1>2, PolicyAssumption DEF SlotInv, SlotAccounting, NoLostWakeup, Init

\* Slots and queue are untouched and no node starts to wait.
LEMMA SlotQuiet ==
    ASSUME TypeWeak, SlotInv, UNCHANGED <<running, observed, waiters, SlotHolders>>,
           \A n \in Nodes : phase'[n] = "waiting" => phase[n] = "waiting" /\ ~aborted'
    PROVE  SlotInv'
<1>1. SlotAccounting'
  BY DEF SlotInv, SlotAccounting
<1>2. NoLostWakeup'
  BY DEF SlotInv, NoLostWakeup
<1> QED
  BY <1>1, <1>2 DEF SlotInv

\* A node that holds no slot arrives at the semaphore.
LEMMA SlotAcquire ==
    ASSUME TypeWeak, SlotInv, NEW n \in Nodes, phase[n] \in {"idle", "delay"},
           Acquire(n), aborted' = aborted
    PROVE  SlotInv'
<1>1. running \in Int /\ observed \in Int /\ running <= observed /\ observed <= Concurrency
  BY DEF SlotInv, SlotAccounting, TypeWeak
<1>2. CASE aborted
  <2>1. phase' = [phase EXCEPT ![n] = "finished"] /\ UNCHANGED <<running, waiters, observed>>
    BY <1>2 DEF Acquire
  <2>2. SlotHolders' = SlotHolders
    BY <2>1 DEF SlotHolders, SlotPhases, TypeWeak
  <2>3. \A m \in Nodes : phase'[m] = "waiting" => phase[m] = "waiting"
    BY <2>1 DEF TypeWeak
  <2>4. \A m \in Nodes : phase[m] # "waiting"
    BY <1>2 DEF SlotInv, NoLostWakeup
  <2> QED
    BY <2>1, <2>2, <2>3, <2>4, SlotQuiet
<1>3. CASE ~aborted /\ SlotFree
  <2>1. /\ phase' = [phase EXCEPT ![n] = "granted"] /\ waiters' = waiters
        /\ running' = running + 1
        /\ observed' = IF running' > observed THEN running' ELSE observed
    BY <1>3 DEF Acquire
  <2>2. SlotHolders' = SlotHolders \cup {n} /\ n \notin SlotHolders
    BY <2>1 DEF SlotHolders, SlotPhases, TypeWeak
  <2>3. running' = Cardinality(SlotHolders')
    BY <2>1, <2>2, HoldersFinite, FS_AddElement DEF SlotInv, SlotAccounting
  <2>4. running' <= observed' /\ observed' <= Concurrency
    BY <1>1, <1>3, <2>1, PolicyAssumption DEF SlotFree
  <2>5. \A m \in Nodes : phase[m] # "waiting"
    BY <1>1, <1>3, PolicyAssumption DEF SlotInv, NoLostWakeup, SlotFree
  <2>6. \A m \in Nodes : phase'[m] # "waiting"
    BY <2>1, <2>5 DEF TypeWeak
  <2> QED
    BY <2>3, <2>4, <2>6 DEF SlotInv, SlotAccounting, NoLostWakeup
<1>4. CASE ~aborted /\ ~SlotFree
  <2>1. /\ phase' = [phase EXCEPT ![n] = "waiting"] /\ waiters' = Append(waiters, n)
        /\ UNCHANGED <<running, observed>>
    BY <1>4 DEF Acquire
  <2>2. SlotHolders' = SlotHolders
    BY <2>1 DEF SlotHolders, SlotPhases, TypeWeak
  <2>3. SlotAccounting'
    BY <2>1, <2>2 DEF SlotInv, SlotAccounting
  <2>4. running' = Concurrency
    BY <1>1, <1>4, <2>1, PolicyAssumption DEF SlotFree
  <2>5. ASSUME NEW m \in Nodes, phase'[m] = "waiting"
        PROVE  \E i \in DOMAIN waiters' : waiters'[i] = m
    <3>1. CASE m = n
      <4>1. Len(waiters) + 1 \in DOMAIN waiters' /\ waiters'[Len(waiters) + 1] = n
        BY <2>1 DEF TypeWeak
      <4> QED
        BY <3>1, <4>1
    <3>2. CASE m # n
      <4>1. PICK i \in DOMAIN waiters : waiters[i] = m
        BY <2>1, <2>5, <3>2 DEF SlotInv, NoLostWakeup, TypeWeak
      <4>2. i \in DOMAIN waiters' /\ waiters'[i] = m
        BY <2>1, <4>1 DEF TypeWeak
      <4> QED
        BY <4>2
    <3> QED
      BY <3>1, <3>2
  <2> QED
    BY <1>4, <2>3, <2>4, <2>5 DEF SlotInv, NoLostWakeup
<1> QED
  BY <1>2, <1>3, <1>4

\* A holder gives its slot back or hands it to the first live waiter.
LEMMA SlotRelease ==
    ASSUME TypeWeak, SlotInv, NEW n \in Nodes, phase[n] \in SlotPhases,
           NEW p \in {"finished", "delay"}, Release(n, p), UNCHANGED <<aborted, observed>>
    PROVE  SlotInv'
<1>0. n \in SlotHolders
  BY DEF SlotHolders
<1>1. running \in Int /\ observed \in Int /\ running <= observed /\ observed <= Concurrency
      /\ running = Cardinality(SlotHolders)
  BY DEF SlotInv, SlotAccounting, TypeWeak
<1>2. Cardinality(SlotHolders \ {n}) = running - 1 /\ IsFiniteSet(SlotHolders \ {n})
  BY <1>0, <1>1, HoldersFinite, FS_RemoveElement
<1>3. CASE LiveWaiters = {} /\ running' = running - 1 /\ phase' = [phase EXCEPT ![n] = p]
  <2>1. SlotHolders' = SlotHolders \ {n}
    BY <1>3 DEF SlotHolders, SlotPhases, TypeWeak
  <2>2. SlotAccounting'
    BY <1>1, <1>2, <1>3, <2>1, PolicyAssumption DEF SlotAccounting
  <2>3. \A m \in Nodes : phase[m] # "waiting"
    BY <1>3 DEF SlotInv, NoLostWakeup, LiveWaiters
  <2>4. \A m \in Nodes : phase'[m] # "waiting"
    BY <1>3, <2>3 DEF TypeWeak
  <2> QED
    BY <2>2, <2>4 DEF SlotInv, NoLostWakeup
<1>4. ASSUME NEW i \in LiveWaiters, FirstLive(i),
             waiters' = SubSeq(waiters, i + 1, Len(waiters)),
             phase' = [phase EXCEPT ![n] = p, ![waiters[i]] = "granted"],
             running' = running
      PROVE  SlotInv'
  <2> DEFINE w == waiters[i]
  <2>1. i \in 1..Len(waiters) /\ w \in Nodes /\ phase[w] = "waiting" /\ w # n /\ w \notin SlotHolders
    BY DEF LiveWaiters, TypeWeak, SlotPhases, SlotHolders
  <2> HIDE DEF w
  <2>2. /\ phase'[n] = p /\ phase'[w] = "granted"
        /\ \A m \in Nodes \ {n, w} : phase'[m] = phase[m]
    BY <1>4, <2>1 DEF TypeWeak, w
  <2>3. SlotHolders' = (SlotHolders \ {n}) \cup {w} /\ w \notin SlotHolders \ {n}
    BY <2>1, <2>2 DEF SlotHolders, SlotPhases
  <2>4. Cardinality(SlotHolders') = running
    <3>1. Cardinality((SlotHolders \ {n}) \cup {w}) = Cardinality(SlotHolders \ {n}) + 1
      BY <1>2, <2>3, FS_AddElement
    <3> QED
      BY <1>1, <1>2, <2>3, <3>1
  <2>5. SlotAccounting'
    BY <1>1, <1>4, <2>4 DEF SlotAccounting
  <2>6. ASSUME NEW m \in Nodes, phase'[m] = "waiting"
        PROVE  \E j \in DOMAIN waiters' : waiters'[j] = m
    <3>1. m # n /\ m # w /\ phase[m] = "waiting"
      BY <2>2, <2>6
    <3>2. PICK k \in DOMAIN waiters : waiters[k] = m
      BY <3>1 DEF SlotInv, NoLostWakeup
    <3>3. k \in LiveWaiters /\ i <= k /\ i # k /\ k \in 1..Len(waiters)
      BY <1>4, <3>1, <3>2 DEF LiveWaiters, FirstLive, TypeWeak, w
    <3>4. k - i \in DOMAIN waiters' /\ waiters'[k - i] = waiters[k]
      <4>1. waiters \in Seq(Nodes) /\ i \in Int /\ Len(waiters) \in Nat /\ k \in Int
        BY <2>1, <3>3 DEF TypeWeak
      <4>2. Len(waiters') = Len(waiters) - i /\ DOMAIN waiters' = 1..(Len(waiters) - i)
        BY <1>4, <2>1, <4>1
      <4>3. k - i \in 1..(Len(waiters) - i) /\ (i + 1) + (k - i) - 1 = k
        BY <2>1, <3>3, <4>1
      <4>4. waiters'[k - i] = waiters[(i + 1) + (k - i) - 1]
        BY <1>4, <2>1, <4>1, <4>2, <4>3
      <4> QED
        BY <4>2, <4>3, <4>4
    <3> QED
      BY <3>2, <3>4
  <2>7. \A m \in Nodes : phase'[m] = "waiting" => ~aborted' /\ running' = Concurrency
    BY <1>4, <2>2 DEF SlotInv, NoLostWakeup
  <2> QED
    BY <2>5, <2>6, <2>7 DEF SlotInv, NoLostWakeup
<1> QED
  BY <1>3, <1>4 DEF Release

LEMMA SlotStep == TypeWeak /\ ReadyInv /\ SlotInv /\ [Next]_vars => SlotInv'
<1> SUFFICES ASSUME TypeWeak, ReadyInv, SlotInv, [Next]_vars PROVE SlotInv'
  OBVIOUS
<1>1. \A n \in ready : n \in Nodes /\ phase[n] = "idle"
  BY DEF TypeWeak, ReadyInv, ReadyExact
<1>2. \A n \in Nodes : phase[n] = "waiting" => ~aborted
  BY DEF SlotInv, NoLostWakeup
\* a node outside the semaphore moves to a phase outside the semaphore
<1>3. ASSUME NEW n \in Nodes, phase[n] \in {"idle", "finished"},
             NEW p \in {"finished", "settled"}, phase' = [phase EXCEPT ![n] = p],
             UNCHANGED <<running, waiters, observed, aborted>>
      PROVE  SlotInv'
  <2>1. SlotHolders' = SlotHolders
    BY <1>3 DEF SlotHolders, SlotPhases, TypeWeak
  <2> QED
    BY <1>2, <1>3, <2>1, SlotQuiet DEF TypeWeak
\* a holder moves on and keeps its slot
<1>4. ASSUME NEW n \in Nodes, phase[n] \in SlotPhases,
             NEW p \in SlotPhases \ {"waiting"}, phase' = [phase EXCEPT ![n] = p],
             UNCHANGED <<running, waiters, observed, aborted>>
      PROVE  SlotInv'
  <2>1. SlotHolders' = SlotHolders
    BY <1>4 DEF SlotHolders, TypeWeak
  <2> QED
    BY <1>2, <1>4, <2>1, SlotQuiet DEF TypeWeak
<1>5. ASSUME NEW n \in Nodes, LaunchSkipped(n) \/ LaunchUnbound(n) \/ SettleCompleted(n) PROVE SlotInv'
  <2>1. phase[n] \in {"idle", "finished"}
    BY <1>1, <1>5 DEF LaunchSkipped, LaunchUnbound, SettleCompleted, NextReady
  <2>2. phase' = [phase EXCEPT ![n] = "settled"] /\ UNCHANGED <<running, waiters, observed, aborted>>
    BY <1>5 DEF LaunchSkipped, LaunchUnbound, SettleCompleted, Settle
  <2> QED
    BY <1>3, <2>1, <2>2
<1>6. ASSUME NEW n \in Nodes, LaunchNode(n) PROVE SlotInv'
  <2>1. phase[n] = "idle" /\ aborted' = aborted
    BY <1>1, <1>6 DEF LaunchNode, NextReady
  <2>2. CASE Acquire(n)
    BY <2>1, <2>2, SlotAcquire
  <2>3. CASE phase' = [phase EXCEPT ![n] = "finished"] /\ UNCHANGED <<running, waiters, observed>>
    BY <1>3, <2>1, <2>3
  <2> QED
    BY <1>6, <2>2, <2>3 DEF LaunchNode
<1>7. CASE LaunchEnds \/ Return \/ UNCHANGED vars
  <2>1. UNCHANGED <<phase, running, waiters, observed, aborted>>
    BY <1>7 DEF LaunchEnds, Return, vars
  <2> QED
    BY <1>2, <2>1, SlotQuiet DEF SlotHolders
<1>8. ASSUME NEW n \in Nodes, ResumeGranted(n) PROVE SlotInv'
  <2>1. phase[n] = "granted" /\ UNCHANGED <<observed, aborted>>
    BY <1>8 DEF ResumeGranted
  <2>2. CASE Release(n, "finished")
    BY <2>1, <2>2, SlotRelease DEF SlotPhases
  <2>3. CASE phase' = [phase EXCEPT ![n] = IF aborted THEN "decided" ELSE "running"]
             /\ UNCHANGED <<running, waiters>>
    <3> DEFINE p == IF aborted THEN "decided" ELSE "running"
    <3>1. p \in SlotPhases \ {"waiting"} /\ phase' = [phase EXCEPT ![n] = p]
      BY <2>3 DEF SlotPhases
    <3> HIDE DEF p
    <3> QED
      BY <1>4, <2>1, <2>3, <3>1 DEF SlotPhases
  <2> QED
    BY <1>8, <2>2, <2>3 DEF ResumeGranted
<1>9. ASSUME NEW n \in Nodes, ResumeDecided(n) PROVE SlotInv'
  <2>1. phase[n] = "decided" /\ UNCHANGED <<observed, aborted>>
    BY <1>9 DEF ResumeDecided
  <2>2. PICK p \in {"finished", "delay"} : Release(n, p)
    BY <1>9 DEF ResumeDecided
  <2> QED
    BY <2>1, <2>2, SlotRelease DEF SlotPhases
<1>10. ASSUME NEW n \in Nodes, DelayEnds(n) PROVE SlotInv'
  BY <1>10, SlotAcquire DEF DelayEnds
<1>11. ASSUME NEW n \in Nodes, ExecutorSettles(n) \/ TimeoutFires(n) PROVE SlotInv'
  <2>1. /\ phase[n] = "running" /\ phase' = [phase EXCEPT ![n] = "decided"]
        /\ UNCHANGED <<running, waiters, observed, aborted>>
    BY <1>11 DEF ExecutorSettles, TimeoutFires, Decide
  <2> QED
    BY <1>4, <2>1 DEF SlotPhases
<1>12. CASE Abort
  <2>1. UNCHANGED <<running, waiters, observed>>
    BY <1>12 DEF Abort
  <2>2. /\ SlotHolders' = SlotHolders
        /\ \A n \in Nodes : phase'[n] # "waiting"
    BY <1>12 DEF Abort, Interrupted, SlotHolders, SlotPhases, TypeWeak
  <2> QED
    BY <2>1, <2>2, SlotQuiet
<1> QED
  BY <1>5, <1>6, <1>7, <1>8, <1>9, <1>10, <1>11, <1>12 DEF Next, Main, NodeStep, Finished

-----------------------------------------------------------------------------
(* Dependencies.                                                           *)

\* A resolved node keeps its result, and its phase until it is settled.
LEMMA ResultStable ==
    ASSUME TypeWeak, ReadyInv, [Next]_vars, NEW m \in Nodes, phase[m] \in {"finished", "settled"}
    PROVE  phase'[m] \in {phase[m], "settled"} /\ result'[m] = result[m]
<1> DEFINE Kept == phase'[m] \in {phase[m], "settled"} /\ result'[m] = result[m]
<1>1. \A n \in ready : n \in Nodes /\ phase[n] = "idle"
  BY DEF TypeWeak, ReadyInv, ReadyExact
<1>2. ASSUME NEW n \in Nodes, LaunchSkipped(n) \/ LaunchUnbound(n) PROVE Kept
  <2>1. n # m
    BY <1>1, <1>2 DEF LaunchSkipped, LaunchUnbound, NextReady
  <2>2. \E r : result' = [result EXCEPT ![n] = r] /\ phase' = [phase EXCEPT ![n] = "settled"]
    BY <1>2 DEF LaunchSkipped, LaunchUnbound, Settle
  <2> QED
    BY <2>1, <2>2 DEF TypeWeak
<1>3. ASSUME NEW n \in Nodes, SettleCompleted(n) PROVE Kept
  <2>1. result' = [result EXCEPT ![n] = result[n]] /\ phase' = [phase EXCEPT ![n] = "settled"]
    BY <1>3 DEF SettleCompleted, Settle
  <2> QED
    BY <2>1 DEF TypeWeak
<1>4. ASSUME NEW n \in Nodes, LaunchNode(n) PROVE Kept
  <2>1. n # m
    BY <1>1, <1>4 DEF LaunchNode, NextReady
  <2> QED
    BY <1>4, <2>1, AcquirePhases DEF LaunchNode, TypeWeak
<1>5. CASE LaunchEnds \/ Return \/ UNCHANGED vars
  BY <1>5 DEF LaunchEnds, Return, vars
<1>6. ASSUME NEW n \in Nodes, NodeStep(n) \/ ExecutorSettles(n) \/ TimeoutFires(n) PROVE Kept
  <2>1. n # m
    BY <1>6 DEF NodeStep, ResumeGranted, ResumeDecided, DelayEnds, ExecutorSettles, TimeoutFires, Decide
  <2>2. CASE DelayEnds(n)
    BY <2>1, <2>2, AcquirePhases DEF DelayEnds
  <2>3. CASE ResumeGranted(n)
    <3>1. result' = result \/ \E r : result' = [result EXCEPT ![n] = r]
      BY <2>3 DEF ResumeGranted
    <3>2. CASE Release(n, "finished")
      BY <2>1, <2>3, <3>1, <3>2, ReleasePhases DEF ResumeGranted, SlotPhases, Phases, TypeWeak
    <3>3. CASE phase' = [phase EXCEPT ![n] = IF aborted THEN "decided" ELSE "running"]
      BY <2>1, <3>1, <3>3 DEF TypeWeak
    <3> QED
      BY <2>3, <3>2, <3>3 DEF ResumeGranted
  <2>4. CASE ResumeDecided(n)
    <3>1. result' = result \/ \E r : result' = [result EXCEPT ![n] = r]
      BY <2>4 DEF ResumeDecided
    <3>2. PICK p \in {"finished", "delay"} : Release(n, p)
      BY <2>4 DEF ResumeDecided
    <3> QED
      BY <2>1, <2>4, <3>1, <3>2, ReleasePhases DEF ResumeDecided, SlotPhases, Phases, TypeWeak
  <2>5. CASE ExecutorSettles(n) \/ TimeoutFires(n)
    <3>1. phase' = [phase EXCEPT ![n] = "decided"] /\ result' = result
      BY <2>5 DEF ExecutorSettles, TimeoutFires, Decide
    <3> QED
      BY <2>1, <3>1 DEF TypeWeak
  <2> QED
    BY <1>6, <2>2, <2>3, <2>4, <2>5 DEF NodeStep
<1>7. CASE Abort
  BY <1>7 DEF Abort, Interrupted
<1> QED
  BY <1>2, <1>3, <1>4, <1>5, <1>6, <1>7 DEF Next, Main, Finished

LEMMA SettledStable ==
    ASSUME TypeWeak, ReadyInv, [Next]_vars, NEW m \in Nodes, phase[m] = "settled"
    PROVE  phase'[m] = "settled" /\ result'[m] = result[m]
  BY ResultStable

\* What a step does to the nodes that are launched or have claimed attempts.
Launched(n) == phase[n] \in Phases \ {"idle", "settled"} \/ attempts[n] > 0

LEMMA LaunchedStep ==
    ASSUME TypeWeak, ReadyInv, [Next]_vars, NEW n \in Nodes, Launched(n)', ~Launched(n)
    PROVE  LaunchNode(n)
<1>1. phase[n] \in {"idle", "settled"} /\ attempts[n] \in Nat /\ ~(attempts[n] > 0)
  BY DEF Launched, TypeWeak
<1>2. ASSUME NEW m \in Nodes, LaunchSkipped(m) \/ LaunchUnbound(m) \/ SettleCompleted(m) PROVE FALSE
  <2>1. phase' = [phase EXCEPT ![m] = "settled"] /\ attempts' = attempts
    BY <1>2 DEF LaunchSkipped, LaunchUnbound, SettleCompleted, Settle
  <2> QED
    BY <1>1, <2>1 DEF Launched, TypeWeak
<1>3. ASSUME NEW m \in Nodes, LaunchNode(m), m # n PROVE FALSE
  <2>1. phase'[n] = phase[n] /\ attempts' = attempts
    BY <1>3, AcquirePhases DEF LaunchNode, TypeWeak
  <2> QED
    BY <1>1, <2>1 DEF Launched
<1>4. CASE LaunchEnds \/ Return \/ UNCHANGED vars
  <2>1. phase' = phase /\ attempts' = attempts
    BY <1>4 DEF LaunchEnds, Return, vars
  <2> QED
    BY <1>1, <2>1 DEF Launched
<1>5. ASSUME NEW m \in Nodes, NodeStep(m) \/ ExecutorSettles(m) \/ TimeoutFires(m) PROVE FALSE
  <2>1. phase'[n] \in {"idle", "settled"}
    BY <1>1, <1>5, QuietSteps DEF NodeStep, Quiet
  <2>2. phase[m] \notin {"idle", "settled"}
    BY <1>5 DEF NodeStep, ResumeGranted, ResumeDecided, DelayEnds, ExecutorSettles, TimeoutFires, Decide
  <2>3. attempts' = attempts \/ \E k : attempts' = [attempts EXCEPT ![m] = k]
    BY <1>5 DEF NodeStep, ResumeGranted, ResumeDecided, DelayEnds, ExecutorSettles, TimeoutFires, Decide
  <2>4. attempts'[n] = attempts[n]
    BY <1>1, <2>2, <2>3 DEF TypeWeak
  <2> QED
    BY <1>1, <2>1, <2>4 DEF Launched
<1>6. CASE Abort
  <2>1. phase'[n] \in {"idle", "settled"} /\ attempts' = attempts
    BY <1>1, <1>6, QuietAbort DEF Quiet, Abort
  <2> QED
    BY <1>1, <2>1 DEF Launched
<1> QED
  BY <1>2, <1>3, <1>4, <1>5, <1>6 DEF Next, Main, Finished

LEMMA DependencyStep ==
    TypeWeak /\ ReadyInv /\ DependencySafety /\ [Next]_vars => DependencySafety'
<1> SUFFICES ASSUME TypeWeak, ReadyInv, DependencySafety, [Next]_vars,
                    NEW n \in Nodes, Launched(n)', NEW e \in Incoming(n)
             PROVE  phase'[e.from] = "settled" /\ result'[e.from].status = "succeeded"
  BY DEF DependencySafety, Launched, Incoming
<1>1. e \in Edges /\ e.to = n /\ e.from \in Nodes
  BY GraphAssumption DEF Incoming
<1>2. phase[e.from] = "settled" /\ result[e.from].status = "succeeded"
  <2>1. CASE Launched(n)
    BY <2>1 DEF DependencySafety, Launched
  <2>2. CASE ~Launched(n)
    <3>1. FailedUpstream(n) = {}
      BY <2>2, LaunchedStep DEF LaunchNode
    <3>2. EdgesBetween(e.from, n) # {}
      BY <1>1 DEF EdgesBetween
    <3> QED
      BY <1>1, <3>1, <3>2 DEF FailedUpstream
  <2> QED
    BY <2>1, <2>2
<1> QED
  BY <1>1, <1>2, SettledStable

-----------------------------------------------------------------------------
(* Completion.                                                             *)

\* A non-empty set of nodes has a member that comes first in the sequence.
LEMMA FirstNode ==
    ASSUME NEW S \in SUBSET Nodes, S # {}
    PROVE  \E n \in S : \A m \in S : ~(Sequence[m] < Sequence[n])
<1> DEFINE T == {Sequence[n] : n \in S}
<1>1. T \subseteq Nat /\ T # {}
  BY GraphAssumption
<1> HIDE DEF T
<1>2. PICK x \in T : \A y \in T : ~(<<y, x>> \in OpToRel(<, Nat))
  BY <1>1, WFMin, NatLessThanWellFounded
<1>3. \A y \in T : ~(y < x)
  BY <1>1, <1>2 DEF OpToRel
<1> QED
  BY <1>3 DEF T

\* The break on an empty active map: no node is left behind idle.
LEMMA NothingLeft ==
    ASSUME TypeWeak, ReadyInv, ready = {}, Active = {}
    PROVE  Settled = Nodes
<1> DEFINE Idle == {n \in Nodes : phase[n] = "idle"}
<1>1. SUFFICES ASSUME Idle # {} PROVE FALSE
  BY DEF Active, Settled
<1>2. PICK n \in Idle : \A m \in Idle : ~(Sequence[m] < Sequence[n])
  BY <1>1, FirstNode
<1>3. ASSUME NEW e \in Incoming(n) PROVE e.from \in Settled
  <2>1. e.from \in Nodes /\ Sequence[e.from] < Sequence[n]
    BY GraphAssumption DEF Incoming
  <2> QED
    BY <1>2, <2>1 DEF Active, Settled
<1>4. {e \in Incoming(n) : e.from \notin Settled} = {}
  BY <1>3
<1>5. remaining[n] = 0
  BY <1>4, FS_EmptySet DEF ReadyInv, ReadyExact
<1> QED
  BY <1>5 DEF ReadyInv, ReadyExact

AllSettled == mainPc \in {"return", "done"} => Settled = Nodes

LEMMA AllSettledStep == TypeWeak /\ ReadyInv /\ AllSettled /\ [Next]_vars => AllSettled'
<1> SUFFICES ASSUME TypeWeak, ReadyInv, AllSettled, [Next]_vars, mainPc' \in {"return", "done"}
             PROVE  Settled' = Nodes
  BY DEF AllSettled
<1>1. \A n \in Settled : n \in Settled'
  BY SettledStable DEF Settled
<1>2. CASE Settled = Nodes
  BY <1>1, <1>2 DEF Settled
<1>3. CASE LaunchEnds
  <2>1. ready = {} /\ Active = {}
    BY <1>3 DEF LaunchEnds
  <2> QED
    BY <1>2, <2>1, NothingLeft
<1>4. ASSUME NEW n \in Nodes, SettleCompleted(n) PROVE Settled' = Nodes
  <2>1. Settled \cup {n} = Nodes /\ phase' = [phase EXCEPT ![n] = "settled"]
    BY <1>4 DEF SettleCompleted, Settle
  <2> QED
    BY <1>1, <2>1 DEF Settled, TypeWeak
<1>5. CASE ~LaunchEnds /\ ~(\E n \in Nodes : SettleCompleted(n))
  <2>1. mainPc \in {"return", "done"}
    BY <1>5 DEF Next, Main, NodeStep, Finished, LaunchSkipped, LaunchUnbound, LaunchNode, NextReady,
                Return, ResumeGranted, ResumeDecided, DelayEnds, ExecutorSettles, TimeoutFires, Decide, Abort, vars
  <2> QED
    BY <1>2, <2>1 DEF AllSettled
<1> QED
  BY <1>3, <1>4, <1>5

-----------------------------------------------------------------------------
(* The inductive invariant and the theorems.                               *)

IndInv == TypeWeak /\ ReadyInv /\ SlotInv /\ DependencySafety /\ AllSettled

LEMMA IndInvInit == Init => IndInv
<1> SUFFICES ASSUME Init PROVE IndInv
  OBVIOUS
<1>1. DependencySafety
  BY DEF Init, DependencySafety
<1> QED
  BY <1>1, TypeWeakInit, ReadyInit, SlotInit DEF IndInv, Init, AllSettled

LEMMA IndInvStep == IndInv /\ [Next]_vars => IndInv'
  BY TypeWeakStep, ReadyStep, SlotStep, DependencyStep, AllSettledStep DEF IndInv

LEMMA IndInvAlways == Spec => []IndInv
  BY IndInvInit, IndInvStep, PTL DEF Spec

LEMMA IndInvTypes == IndInv => TypeOK
<1> SUFFICES ASSUME IndInv PROVE TypeOK
  OBVIOUS
<1>1. running \in Nat /\ observed \in Nat
  BY HoldersFinite DEF IndInv, SlotInv, SlotAccounting, TypeWeak
<1>2. \A n \in Nodes : remaining[n] \in Nat
  BY UnsettledFinite DEF IndInv, ReadyInv, ReadyExact, Unsettled
<1>3. remaining \in [Nodes -> Nat]
  BY <1>2 DEF IndInv, TypeWeak
<1> QED
  BY <1>1, <1>3 DEF IndInv, TypeWeak, TypeOK

LEMMA IndInvComplete == IndInv => RunComplete
<1> SUFFICES ASSUME IndInv, mainPc \in {"return", "done"} PROVE Settled = Nodes /\ running = 0
  BY DEF RunComplete
<1>1. Settled = Nodes
  BY DEF IndInv, AllSettled
<1>2. SlotHolders = {}
  BY <1>1 DEF Settled, SlotHolders, SlotPhases
<1> QED
  BY <1>1, <1>2, FS_EmptySet DEF IndInv, SlotInv, SlotAccounting

(***************************************************************************)
(* Every variable keeps its type: in particular the in-degree countdown of *)
(* settle and the semaphore's counter never go below zero.                 *)
(***************************************************************************)
THEOREM TypeCorrect == Spec => []TypeOK
  BY IndInvAlways, IndInvTypes, PTL

(***************************************************************************)
(* The semaphore counts exactly the nodes that hold a slot, and neither it *)
(* nor maxObservedConcurrency passes the resolved concurrency.             *)
(***************************************************************************)
THEOREM SlotsAccounted == Spec => []SlotAccounting
<1>1. IndInv => SlotAccounting
  BY DEF IndInv, SlotInv
<1> QED
  BY <1>1, IndInvAlways, PTL

(***************************************************************************)
(* A node waits for a slot only while all slots are taken and its entry is *)
(* in the semaphore's queue.                                               *)
(***************************************************************************)
THEOREM WakeupsKept == Spec => []NoLostWakeup
<1>1. IndInv => NoLostWakeup
  BY DEF IndInv, SlotInv
<1> QED
  BY <1>1, IndInvAlways, PTL

(***************************************************************************)
(* The countdown of settle is exact, parallel edges included, and the      *)
(* ready queue holds exactly the unlaunched nodes it has freed.            *)
(***************************************************************************)
THEOREM QueueExact == Spec => []ReadyExact
<1>1. IndInv => ReadyExact
  BY DEF IndInv, ReadyInv
<1> QED
  BY <1>1, IndInvAlways, PTL

(***************************************************************************)
(* No executor is called before every upstream node has settled as         *)
(* succeeded.                                                              *)
(***************************************************************************)
THEOREM DependenciesRespected == Spec => []DependencySafety
<1>1. IndInv => DependencySafety
  BY DEF IndInv
<1> QED
  BY <1>1, IndInvAlways, PTL

(***************************************************************************)
(* runGraph returns only when every node has a result and every slot is    *)
(* free, whichever exit of the loop it takes.                              *)
(***************************************************************************)
THEOREM RunsComplete == Spec => []RunComplete
  BY IndInvAlways, IndInvComplete, PTL

(***************************************************************************)
(* The result executeNode resolved with is the one the run returns: no     *)
(* later grant, timer, executor answer or abort changes it.                *)
(***************************************************************************)
THEOREM ResultsKept == Spec => ResultsFinal
<1>1. IndInv /\ [Next]_vars =>
          [\A n \in Nodes : phase[n] \in {"finished", "settled"} =>
               /\ phase'[n] \in {phase[n], "settled"}
               /\ result'[n] = result[n]]_vars
  BY ResultStable DEF IndInv
<1> QED
  BY <1>1, IndInvAlways, PTL DEF Spec, ResultsFinal

\* Who gets a slot in a step that grants one.
LEMMA GrantOrder ==
    ASSUME IndInv, [Next]_vars, NEW n \in Nodes, phase[n] # "granted", phase'[n] = "granted",
           NEW i \in LiveWaiters
    PROVE  \E j \in 1..i : waiters[j] = n
<1> USE DEF IndInv
<1>0. i \in 1..Len(waiters) /\ waiters[i] \in Nodes /\ phase[waiters[i]] = "waiting"
  BY DEF LiveWaiters, TypeWeak
<1>1. ~aborted /\ running = Concurrency
  BY <1>0 DEF SlotInv, NoLostWakeup
\* a newcomer cannot be granted a slot past the waiters
<1>2. ASSUME NEW m \in Nodes, Acquire(m) PROVE FALSE
  <2>1. ~SlotFree
    BY <1>1, PolicyAssumption DEF SlotFree
  <2>2. phase' = [phase EXCEPT ![m] = "waiting"]
    BY <1>1, <1>2, <2>1 DEF Acquire
  <2> QED
    BY <2>2 DEF TypeWeak
\* a release grants the first live waiter
<1>3. ASSUME NEW m \in Nodes, NEW p \in {"finished", "delay"}, Release(m, p)
      PROVE  \E j \in 1..i : waiters[j] = n
  <2>1. PICK j \in LiveWaiters : /\ FirstLive(j)
                                /\ phase' = [phase EXCEPT ![m] = p, ![waiters[j]] = "granted"]
    BY <1>3 DEF Release
  <2>2. j \in 1..Len(waiters) /\ j <= i
    BY <2>1 DEF LiveWaiters, FirstLive, TypeWeak
  <2>3. waiters[j] = n
    BY <2>1 DEF TypeWeak
  <2> QED
    BY <1>0, <2>2, <2>3
<1>4. ASSUME NEW m \in Nodes, LaunchSkipped(m) \/ LaunchUnbound(m) \/ SettleCompleted(m) PROVE FALSE
  <2>1. phase' = [phase EXCEPT ![m] = "settled"]
    BY <1>4 DEF LaunchSkipped, LaunchUnbound, SettleCompleted, Settle
  <2> QED
    BY <2>1 DEF TypeWeak
<1>5. ASSUME NEW m \in Nodes, LaunchNode(m) PROVE FALSE
  <2>1. CASE phase' = [phase EXCEPT ![m] = "finished"]
    BY <2>1 DEF TypeWeak
  <2> QED
    BY <1>2, <1>5, <2>1 DEF LaunchNode
<1>6. CASE LaunchEnds \/ Return \/ UNCHANGED vars
  BY <1>6 DEF LaunchEnds, Return, vars
<1>7. ASSUME NEW m \in Nodes, ResumeGranted(m) PROVE \E j \in 1..i : waiters[j] = n
  <2>1. CASE phase' = [phase EXCEPT ![m] = IF aborted THEN "decided" ELSE "running"]
    BY <2>1 DEF TypeWeak
  <2> QED
    BY <1>3, <1>7, <2>1 DEF ResumeGranted
<1>8. ASSUME NEW m \in Nodes, ResumeDecided(m) PROVE \E j \in 1..i : waiters[j] = n
  <2>1. \E p \in {"finished", "delay"} : Release(m, p)
    BY <1>8 DEF ResumeDecided
  <2> QED
    BY <1>3, <2>1
<1>9. ASSUME NEW m \in Nodes, DelayEnds(m) PROVE FALSE
  BY <1>2, <1>9 DEF DelayEnds
<1>10. ASSUME NEW m \in Nodes, ExecutorSettles(m) \/ TimeoutFires(m) PROVE FALSE
  <2>1. phase' = [phase EXCEPT ![m] = "decided"]
    BY <1>10 DEF ExecutorSettles, TimeoutFires, Decide
  <2> QED
    BY <2>1 DEF TypeWeak
<1>11. CASE Abort
  BY <1>11 DEF Abort
<1> QED
  BY <1>4, <1>5, <1>6, <1>7, <1>8, <1>9, <1>10, <1>11 DEF Next, Main, NodeStep, Finished

(***************************************************************************)
(* The semaphore is first come, first served: a node that gets a slot      *)
(* stands in the queue before every node that goes on waiting.             *)
(***************************************************************************)
THEOREM GrantsFifo == Spec => FifoGrants
<1>1. IndInv /\ [Next]_vars =>
          [\A n \in Nodes : (phase[n] # "granted" /\ phase'[n] = "granted") =>
               \A i \in LiveWaiters : \E j \in 1..i : waiters[j] = n]_vars
  BY GrantOrder
<1> QED
  BY <1>1, IndInvAlways, PTL DEF Spec, FifoGrants
=============================================================================
