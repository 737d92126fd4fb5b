----------------------- MODULE SchedulerOutcomeProofs -----------------------
(***************************************************************************)
(* What a run of the scheduler reports, for every graph, policy and number *)
(* of nodes: attempts stay within their budgets and add up, results and    *)
(* status are true, and the scheduler implements the lifecycle of the      *)
(* semantics document.                                                     *)
(***************************************************************************)
EXTENDS SchedulerProofs, SchedulerRefinement

-----------------------------------------------------------------------------
(* Sums over the nodes.  MapThenSumSet takes the elements of a set one by  *)
(* one; Sums is the function it evaluates, on every subset of the nodes.   *)

Pick(s) == CHOOSE x \in s : TRUE

SumOf(a, f, s) == IF s = {} THEN 0 ELSE a[Pick(s)] + f[s \ {Pick(s)}]

IsSum(a, f) == f = [s \in SUBSET Nodes |-> SumOf(a, f, s)]

Sums(a) == CHOOSE f : IsSum(a, f)

LEMMA SumUnfolds ==
    ASSUME NEW a
    PROVE  MapThenSumSet(LAMBDA n : a[n], Nodes) = Sums(a)[Nodes]
  BY DEF MapThenSumSet, MapThenFoldSet, Sums, IsSum, SumOf, Pick

LEMMA PickFacts ==
    ASSUME NEW s \in SUBSET Nodes, s # {}
    PROVE  /\ Pick(s) \in s /\ s \ {Pick(s)} \in SUBSET Nodes
           /\ IsFiniteSet(s) /\ Cardinality(s) \in Nat
           /\ Cardinality(s \ {Pick(s)}) \in Nat
           /\ Cardinality(s \ {Pick(s)}) = Cardinality(s) - 1
<1>1. Pick(s) \in s
  BY DEF Pick
<1>2. IsFiniteSet(s)
  BY FS_Subset, GraphAssumption
<1>3. Cardinality(s) \in Nat /\ Cardinality(s \ {Pick(s)}) = Cardinality(s) - 1 /\ IsFiniteSet(s \ {Pick(s)})
  BY <1>1, <1>2, FS_CardinalityType, FS_RemoveElement
<1> QED
  BY <1>1, <1>2, <1>3, FS_CardinalityType

\* A set of natural numbers with 0 that is closed under successor, by the
\* least number outside it.
LEMMA Induct ==
    ASSUME NEW K \in SUBSET Nat, 0 \in K, \A k \in K : k + 1 \in K
    PROVE  K = Nat
<1> SUFFICES ASSUME Nat \ K # {} PROVE FALSE
  OBVIOUS
<1> DEFINE T == Nat \ K
<1>1. T \subseteq Nat /\ T # {}
  OBVIOUS
<1> HIDE DEF T
<1>2. PICK x \in T : \A y \in T : ~(<<y, x>> \in OpToRel(<, Nat))
  BY <1>1, WFMin, NatLessThanWellFounded
<1>3. x \in T /\ x \in Nat /\ \A y \in T : y \in Nat /\ ~(y < x)
  BY <1>1, <1>2 DEF OpToRel
<1>4. x # 0 /\ x - 1 \in Nat /\ (x - 1) + 1 = x /\ x - 1 < x
  BY <1>3 DEF T
<1>5. x - 1 \in K
  BY <1>3, <1>4 DEF T
<1> QED
  BY <1>3, <1>4, <1>5 DEF T

\* The sums exist: a function that is right on the sets of at most k nodes
\* yields one that is right on those of at most k + 1.
LEMMA SumsExist ==
    ASSUME NEW a \in [Nodes -> Nat]
    PROVE  IsSum(a, Sums(a))
<1> DEFINE Right(f, k) == \A s \in SUBSET Nodes : Cardinality(s) <= k => f[s] = SumOf(a, f, s)
           K == {k \in Nat : \E f \in [SUBSET Nodes -> Nat] : Right(f, k)}
<1>0. \A s \in SUBSET Nodes : Cardinality(s) \in Nat /\ (Cardinality(s) = 0 <=> s = {})
  BY FS_Subset, FS_CardinalityType, FS_EmptySet, GraphAssumption
<1>1. ASSUME NEW f \in [SUBSET Nodes -> Nat], NEW s \in SUBSET Nodes PROVE SumOf(a, f, s) \in Nat
  <2>1. CASE s = {}
    BY <2>1 DEF SumOf
  <2>2. CASE s # {}
    <3>1. Pick(s) \in Nodes /\ s \ {Pick(s)} \in SUBSET Nodes
      BY <2>2, PickFacts
    <3>2. a[Pick(s)] \in Nat /\ f[s \ {Pick(s)}] \in Nat
      BY <3>1
    <3> QED
      BY <2>2, <3>2 DEF SumOf
  <2> QED
    BY <2>1, <2>2
<1>2. 0 \in K
  <2> DEFINE f == [s \in SUBSET Nodes |-> 0]
  <2>1. f \in [SUBSET Nodes -> Nat]
    OBVIOUS
  <2>2. Right(f, 0)
    BY <1>0 DEF SumOf
  <2> QED
    BY <2>1, <2>2
<1>3. ASSUME NEW k \in K PROVE k + 1 \in K
  <2>1. PICK f \in [SUBSET Nodes -> Nat] : Right(f, k)
    OBVIOUS
  <2> DEFINE g == [s \in SUBSET Nodes |-> SumOf(a, f, s)]
  <2>2. g \in [SUBSET Nodes -> Nat]
    BY <1>1
  <2>3. ASSUME NEW s \in SUBSET Nodes, Cardinality(s) <= k + 1 PROVE g[s] = SumOf(a, g, s)
    <3>1. CASE s = {}
      BY <3>1 DEF SumOf
    <3>2. CASE s # {}
      <4> DEFINE t == s \ {Pick(s)}
      <4>1. t \in SUBSET Nodes /\ Cardinality(t) <= k
        BY <2>3, <3>2, PickFacts
      <4>2. g[t] = f[t]
        BY <2>1, <4>1
      <4>3. SumOf(a, f, s) = a[Pick(s)] + f[t] /\ SumOf(a, g, s) = a[Pick(s)] + g[t]
        BY <3>2 DEF SumOf
      <4> QED
        BY <4>2, <4>3
    <3> QED
      BY <3>1, <3>2
  <2>4. Right(g, k + 1)
    BY <2>3
  <2>5. k + 1 \in Nat
    OBVIOUS
  <2> HIDE DEF g, Right
  <2> QED
    BY <2>2, <2>4, <2>5
<1>4. K = Nat
  <2> HIDE DEF K
  <2>1. K \in SUBSET Nat
    BY DEF K
  <2> QED
    BY <1>2, <1>3, <2>1, Induct
<1>5. Cardinality(Nodes) \in Nat /\ \A s \in SUBSET Nodes : Cardinality(s) <= Cardinality(Nodes)
  BY FS_Subset, FS_CardinalityType, GraphAssumption
<1>6. PICK f \in [SUBSET Nodes -> Nat] : Right(f, Cardinality(Nodes))
  BY <1>4, <1>5
<1>7. IsSum(a, f)
  <2>1. \A s \in SUBSET Nodes : f[s] = SumOf(a, f, s)
    BY <1>5, <1>6
  <2>2. f = [s \in SUBSET Nodes |-> f[s]]
    OBVIOUS
  <2> QED
    BY <2>1, <2>2 DEF IsSum
<1> QED
  BY <1>7 DEF Sums

\* One more attempt of node n makes the sum one more.
LEMMA SumsBump ==
    ASSUME NEW a \in [Nodes -> Nat], NEW n \in Nodes, NEW b, b = [a EXCEPT ![n] = @ + 1]
    PROVE  /\ Sums(a)[Nodes] \in Nat
           /\ Sums(b)[Nodes] = Sums(a)[Nodes] + 1
<1> DEFINE f == Sums(a)
           g == Sums(b)
           One(s) == IF n \in s THEN 1 ELSE 0
           K == {k \in Nat : \A s \in SUBSET Nodes : Cardinality(s) <= k => f[s] \in Nat /\ g[s] = f[s] + One(s)}
<1>1. b \in [Nodes -> Nat] /\ b[n] = a[n] + 1 /\ \A m \in Nodes \ {n} : b[m] = a[m]
  OBVIOUS
<1>2. /\ \A s \in SUBSET Nodes : f[s] = SumOf(a, f, s)
      /\ \A s \in SUBSET Nodes : g[s] = SumOf(b, g, s)
  BY <1>1, SumsExist DEF IsSum
<1> HIDE DEF f, g
<1>3. \A s \in SUBSET Nodes : Cardinality(s) \in Nat /\ (Cardinality(s) = 0 <=> s = {})
  BY FS_Subset, FS_CardinalityType, FS_EmptySet, GraphAssumption
<1>4. f[{}] = 0 /\ g[{}] = 0 /\ One({}) = 0
  BY <1>2 DEF SumOf
<1>5. 0 \in K
  BY <1>3, <1>4
<1>6. ASSUME NEW k \in K PROVE k + 1 \in K
  <2>1. ASSUME NEW s \in SUBSET Nodes, Cardinality(s) <= k + 1
        PROVE  f[s] \in Nat /\ g[s] = f[s] + One(s)
    <3>1. CASE s = {}
      BY <1>4, <3>1
    <3>2. CASE s # {}
      <4> DEFINE x == Pick(s)
                 t == s \ {x}
      <4>1. x \in s /\ x \in Nodes /\ t \in SUBSET Nodes /\ Cardinality(t) <= k
        BY <2>1, <3>2, PickFacts
      <4>2. f[t] \in Nat /\ g[t] = f[t] + One(t)
        BY <4>1
      <4>3. f[s] = a[x] + f[t] /\ g[s] = b[x] + g[t]
        BY <1>2, <3>2 DEF SumOf
      <4>4. a[x] \in Nat /\ b[x] = a[x] + (IF x = n THEN 1 ELSE 0)
        BY <1>1, <4>1
      <4>5. One(s) = One(t) + (IF x = n THEN 1 ELSE 0)
        BY <4>1
      <4>6. One(t) \in Nat
        OBVIOUS
      <4> HIDE DEF x, t, One
      <4> QED
        BY <4>2, <4>3, <4>4, <4>5, <4>6
    <3> QED
      BY <3>1, <3>2
  <2> QED
    BY <2>1
<1>7. K = Nat
  <2>1. K \in SUBSET Nat
    OBVIOUS
  <2> HIDE DEF K
  <2> QED
    BY <1>5, <1>6, <2>1, Induct
<1>8. Cardinality(Nodes) \in K /\ Cardinality(Nodes) <= Cardinality(Nodes) /\ One(Nodes) = 1
  BY <1>3, <1>7
<1> QED
  BY <1>8 DEF f, g

LEMMA SumsZero == Sums([n \in Nodes |-> 0])[Nodes] = 0
<1> DEFINE a == [n \in Nodes |-> 0]
           f == Sums(a)
           K == {k \in Nat : \A s \in SUBSET Nodes : Cardinality(s) <= k => f[s] = 0}
<1>1. a \in [Nodes -> Nat]
  OBVIOUS
<1>2. \A s \in SUBSET Nodes : f[s] = SumOf(a, f, s)
  BY <1>1, SumsExist DEF IsSum
<1>3. \A m \in Nodes : a[m] = 0
  OBVIOUS
<1> HIDE DEF a, f
<1>4. \A s \in SUBSET Nodes : Cardinality(s) \in Nat /\ (Cardinality(s) = 0 <=> s = {})
  BY FS_Subset, FS_CardinalityType, FS_EmptySet, GraphAssumption
<1>5. f[{}] = 0
  BY <1>2 DEF SumOf
<1>6. 0 \in K
  BY <1>4, <1>5
<1>7. ASSUME NEW k \in K PROVE k + 1 \in K
  <2>1. ASSUME NEW s \in SUBSET Nodes, Cardinality(s) <= k + 1, s # {} PROVE f[s] = 0
    <3>1. /\ Pick(s) \in Nodes /\ s \ {Pick(s)} \in SUBSET Nodes /\ Cardinality(s \ {Pick(s)}) <= k
      BY <2>1, PickFacts
    <3>2. f[s] = a[Pick(s)] + f[s \ {Pick(s)}]
      BY <1>2, <2>1 DEF SumOf
    <3>3. f[s \ {Pick(s)}] = 0 /\ a[Pick(s)] = 0
      BY <1>3, <3>1
    <3> QED
      BY <3>2, <3>3
  <2> QED
    BY <1>5, <2>1
<1>8. K = Nat
  <2>1. K \in SUBSET Nat
    OBVIOUS
  <2> HIDE DEF K
  <2> QED
    BY <1>6, <1>7, <2>1, Induct
<1>9. Cardinality(Nodes) \in K /\ Cardinality(Nodes) <= Cardinality(Nodes)
  BY <1>4, <1>8
<1> QED
  BY <1>9 DEF f, a

-----------------------------------------------------------------------------
(* A node, from its launch to its result.                                  *)

Budget == totalAttempts <= AttemptLimit

\* What the retries of n remember of its last attempt.
Tried(n) ==
    \/ attempts[n] = 0 /\ lastFailure[n] = NoFailure
    \/ /\ attempts[n] > 0 /\ lastFailure[n].code \in ExecutionCodes
       /\ lastFailure[n].attempt = attempts[n]

\* The result r of n says why it ended.
FailureTrue(n, r) ==
    /\ r.failure.code \notin {"none", "UPSTREAM_FAILED"}
    /\ r.failure.attempt = r.attempts
    /\ ~r.failure.retryable
    /\ r.failure.code \in ExecutionCodes => r.attempts = MaxAttempts[n] \/ totalAttempts = AttemptLimit
    /\ r.failure.code = "ATTEMPT_BUDGET_EXHAUSTED" => r.attempts = 0 /\ totalAttempts = AttemptLimit
    /\ r.failure.code = "NODE_CANCELLED" => aborted

ResultTrue(n, r) ==
    \/ r.status = "succeeded" /\ r.failure = NoFailure
    \/ r.status = "failed" /\ FailureTrue(n, r)
    \/ /\ r.status = "skipped" /\ r.attempts = 0
       /\ \/ r.failure.code = "NODE_CANCELLED" /\ aborted
          \/ r.failure.code = "UPSTREAM_FAILED"

DecidedCodes == ExecutionCodes \cup {"ok", "NODE_CANCELLED"}

Local(n) ==
    /\ attempts[n] <= MaxAttempts[n]
    /\ phase[n] = "idle" => attempts[n] = 0 /\ lastFailure[n] = NoFailure
    /\ phase[n] \in {"waiting", "granted", "delay"} => attempts[n] < MaxAttempts[n] /\ Tried(n)
    /\ phase[n] \in {"running", "decided"} => attempts[n] > 0
    /\ phase[n] = "decided" => /\ outcome[n].code \in DecidedCodes
                               /\ outcome[n].code = "NODE_CANCELLED" => aborted
    /\ phase[n] = "finished" => result[n].status # "skipped"
    /\ phase[n] \in {"finished", "settled"} => ResultTrue(n, result[n])

AllLocal == \A n \in Nodes : Local(n)

\* Nodes are skipped for a cause upstream or a cancellation.
Isolated ==
    \A n \in Settled :
        /\ NotSucceeded(n) # {} => result[n].status = "skipped"
        /\ result[n].status = "skipped" => NotSucceeded(n) # {} \/ aborted
        /\ result[n].failure.code = "UPSTREAM_FAILED" => NotSucceeded(n) # {}

\* The return value, once there is one.
Reported ==
    /\ mainPc # "done" => run = NoRun
    /\ mainPc = "done" => StatusSound /\ run.status \in {"succeeded", "failed", "cancelled"}

Totals == totalAttempts = Sums(attempts)[Nodes]

OutcomeInv == IndInv /\ Budget /\ Totals /\ AllLocal /\ Isolated /\ Reported

\* What a step may do to a node it does not concern.
Calm(m) ==
    /\ attempts'[m] = attempts[m] /\ lastFailure'[m] = lastFailure[m] /\ result'[m] = result[m]
    /\ outcome'[m] = outcome[m]
    /\ phase'[m] = phase[m] \/ (phase[m] = "waiting" /\ phase'[m] = "granted")

\* The abort is for ever and the budget is only spent.
Onward ==
    /\ aborted => aborted'
    /\ totalAttempts <= totalAttempts' /\ totalAttempts' <= AttemptLimit

LEMMA LimitKept ==
    ASSUME TypeWeak, TypeWeak', Onward
    PROVE  totalAttempts = AttemptLimit => totalAttempts' = AttemptLimit
<1>1. totalAttempts \in Nat /\ totalAttempts' \in Nat /\ AttemptLimit \in Nat
  BY PolicyAssumption DEF TypeWeak
<1> QED
  BY <1>1 DEF Onward

LEMMA ResultKept ==
    ASSUME TypeWeak, TypeWeak', Onward, NEW m \in Nodes, result'[m] = result[m],
           ResultTrue(m, result[m])
    PROVE  ResultTrue(m, result[m])'
  BY LimitKept DEF Onward, ResultTrue, FailureTrue

LEMMA CalmKeeps ==
    ASSUME TypeWeak, TypeWeak', Onward, NEW m \in Nodes, Local(m), Calm(m)
    PROVE  Local(m)'
<1>1. phase'[m] \in {"finished", "settled"} => ResultTrue(m, result[m])'
  BY ResultKept DEF Local, Calm
<1>2. Tried(m) <=> Tried(m)'
  BY DEF Tried, Calm
<1> QED
  BY <1>1, <1>2 DEF Local, Calm, Onward

LEMMA NodeKeeps ==
    ASSUME TypeWeak, TypeWeak', AllLocal, Onward, NEW n \in Nodes, Local(n)',
           \A m \in Nodes \ {n} : Calm(m)
    PROVE  AllLocal'
<1>1. ASSUME NEW m \in Nodes PROVE Local(m)'
  <2>1. CASE m = n
    BY <2>1
  <2>2. CASE m # n
    BY <2>2, CalmKeeps DEF AllLocal
  <2> QED
    BY <2>1, <2>2
<1> QED
  BY <1>1 DEF AllLocal

LEMMA EndsLocal ==
    ASSUME NEW n \in Nodes, attempts'[n] <= MaxAttempts[n], phase'[n] \in {"finished", "settled"},
           phase'[n] = "finished" => result'[n].status # "skipped", ResultTrue(n, result[n])'
    PROVE  Local(n)'
  BY DEF Local

\* The failure of a node that stops because the run was cancelled.
CancelledResult(n) == Failed(attempts[n], Failure("NODE_CANCELLED", attempts[n]))

LEMMA CancelledTrue ==
    ASSUME TypeWeak, NEW n \in Nodes, aborted', attempts'[n] = attempts[n], result'[n] = CancelledResult(n)
    PROVE  ResultTrue(n, result[n])' /\ result'[n].status = "failed"
<1> DEFINE r == result'[n]
<1>1. /\ r.status = "failed" /\ r.attempts = attempts[n] /\ r.failure.code = "NODE_CANCELLED"
      /\ r.failure.attempt = attempts[n] /\ ~r.failure.retryable
  BY DEF CancelledResult, Failed, Failure
<1> QED
  BY <1>1 DEF ResultTrue, FailureTrue, ExecutionCodes

\* acquireAttemptSlot: a cancellation, a slot or a place in the queue.
LEMMA AcquireLocal ==
    ASSUME TypeWeak, NEW n \in Nodes, Acquire(n), attempts[n] < MaxAttempts[n], Tried(n),
           UNCHANGED <<attempts, lastFailure, outcome, totalAttempts, aborted>>
    PROVE  Local(n)' /\ \A m \in Nodes \ {n} : Calm(m)
<1>1. \A m \in Nodes \ {n} : Calm(m)
  BY AcquirePhases DEF Calm
<1>2. attempts[n] <= MaxAttempts[n] /\ attempts'[n] = attempts[n]
  BY PolicyAssumption DEF TypeWeak
<1>3. CASE aborted
  <2>1. phase'[n] = "finished" /\ result'[n] = CancelledResult(n)
    BY <1>3 DEF Acquire, CancelledResult, TypeWeak
  <2>2. ResultTrue(n, result[n])' /\ result'[n].status = "failed"
    BY <1>2, <1>3, <2>1, CancelledTrue
  <2> QED
    BY <1>1, <1>2, <2>1, <2>2, EndsLocal
<1>4. CASE ~aborted
  <2>1. phase'[n] \in {"granted", "waiting"}
    BY <1>4 DEF Acquire, TypeWeak
  <2>2. Tried(n)'
    BY DEF Tried
  <2> QED
    BY <1>1, <1>2, <2>1, <2>2 DEF Local
<1> QED
  BY <1>3, <1>4

\* What the steps of a node rely on.
Relies == IndInv /\ Budget /\ AllLocal /\ TypeWeak'

LEMMA LaunchLocal ==
    ASSUME Relies, NEW n \in Nodes, LaunchSkipped(n) \/ LaunchUnbound(n) \/ LaunchNode(n)
    PROVE  AllLocal' /\ Onward
<1>1. TypeWeak /\ TypeWeak' /\ AllLocal /\ Local(n) /\ Budget
  BY DEF Relies, IndInv, AllLocal
<1>2. /\ n \in ready /\ UNCHANGED <<attempts, lastFailure, outcome, totalAttempts, aborted>>
  BY DEF LaunchSkipped, LaunchUnbound, LaunchNode, NextReady
<1>3. Onward
  BY <1>1, <1>2 DEF Onward, Budget, TypeWeak
<1>4. phase[n] = "idle" /\ attempts[n] = 0 /\ attempts[n] < MaxAttempts[n] /\ Tried(n)
  <2>1. phase[n] = "idle"
    BY <1>2 DEF Relies, IndInv, ReadyInv, ReadyExact
  <2> QED
    BY <1>1, <2>1, PolicyAssumption DEF Local, Tried
<1>5. attempts'[n] <= MaxAttempts[n]
  BY <1>2, <1>4, PolicyAssumption
<1>6. CASE LaunchSkipped(n)
  <2> DEFINE c == SkipCode
  <2>1. c \in {"NODE_CANCELLED", "UPSTREAM_FAILED"} /\ (c = "NODE_CANCELLED" => aborted)
    BY DEF SkipCode
  <2>2. Settle(n, Skipped(c), ready \ {n})
    BY <1>6 DEF LaunchSkipped
  <2> HIDE DEF c
  <2>3. /\ phase'[n] = "settled" /\ result'[n] = Skipped(c)
        /\ \A m \in Nodes \ {n} : phase'[m] = phase[m] /\ result'[m] = result[m]
    BY <1>1, <2>2 DEF Settle, TypeWeak
  <2>4. ResultTrue(n, result[n])'
    BY <1>2, <2>1, <2>3 DEF ResultTrue, Skipped, Failure
  <2>5. Local(n)'
    BY <1>5, <2>3, <2>4, EndsLocal
  <2> QED
    BY <1>1, <1>2, <1>3, <2>3, <2>5, NodeKeeps DEF Calm
<1>7. CASE LaunchUnbound(n)
  <2> DEFINE r == Failed(0, Failure("INPUT_BINDING_FAILED", 0))
  <2>1. Settle(n, r, ready \ {n})
    BY <1>7 DEF LaunchUnbound
  <2>2. /\ phase'[n] = "settled" /\ result'[n] = r
        /\ \A m \in Nodes \ {n} : phase'[m] = phase[m] /\ result'[m] = result[m]
    BY <1>1, <2>1 DEF Settle, TypeWeak
  <2>3. ResultTrue(n, result[n])'
    BY <2>2 DEF ResultTrue, FailureTrue, Failed, Failure, ExecutionCodes
  <2>4. Local(n)'
    BY <1>5, <2>2, <2>3, EndsLocal
  <2> QED
    BY <1>1, <1>2, <1>3, <2>2, <2>4, NodeKeeps DEF Calm
<1>8. CASE LaunchNode(n) /\ n \in WithExecutor
  <2>1. Acquire(n)
    BY <1>8 DEF LaunchNode
  <2>2. Local(n)' /\ \A m \in Nodes \ {n} : Calm(m)
    BY <1>1, <1>2, <1>4, <2>1, AcquireLocal
  <2> QED
    BY <1>1, <1>3, <2>2, NodeKeeps
<1>9. CASE LaunchNode(n) /\ n \notin WithExecutor
  <2>1. /\ phase'[n] = "finished" /\ result'[n] = Failed(0, Failure("EXECUTOR_NOT_FOUND", 0))
        /\ \A m \in Nodes \ {n} : phase'[m] = phase[m] /\ result'[m] = result[m]
    BY <1>1, <1>9 DEF LaunchNode, TypeWeak
  <2>2. ResultTrue(n, result[n])' /\ result'[n].status = "failed"
    BY <2>1 DEF ResultTrue, FailureTrue, Failed, Failure, ExecutionCodes
  <2>3. Local(n)'
    BY <1>5, <2>1, <2>2, EndsLocal
  <2> QED
    BY <1>1, <1>2, <1>3, <2>1, <2>3, NodeKeeps DEF Calm
<1> QED
  BY <1>6, <1>7, <1>8, <1>9

LEMMA SettleLocal ==
    ASSUME Relies, NEW n \in Nodes, SettleCompleted(n)
    PROVE  AllLocal' /\ Onward
<1>1. TypeWeak /\ TypeWeak' /\ AllLocal /\ Local(n) /\ Budget
  BY DEF Relies, IndInv, AllLocal
<1>2. /\ phase[n] = "finished" /\ Settle(n, result[n], ready)
      /\ UNCHANGED <<attempts, lastFailure, outcome, totalAttempts, aborted>>
  BY DEF SettleCompleted
<1>3. Onward
  BY <1>1, <1>2 DEF Onward, Budget, TypeWeak
<1>4. /\ phase'[n] = "settled" /\ result'[n] = result[n]
      /\ \A m \in Nodes \ {n} : phase'[m] = phase[m] /\ result'[m] = result[m]
  BY <1>1, <1>2 DEF Settle, TypeWeak
<1>5. ResultTrue(n, result[n])'
  BY <1>1, <1>2, <1>3, <1>4, ResultKept DEF Local
<1>6. Local(n)'
  BY <1>1, <1>2, <1>4, <1>5, EndsLocal DEF Local
<1> QED
  BY <1>1, <1>2, <1>3, <1>4, <1>6, NodeKeeps DEF Calm

LEMMA DelayLocal ==
    ASSUME Relies, NEW n \in Nodes, DelayEnds(n)
    PROVE  AllLocal' /\ Onward
<1>1. TypeWeak /\ TypeWeak' /\ AllLocal /\ Local(n) /\ Budget
  BY DEF Relies, IndInv, AllLocal
<1>2. /\ phase[n] = "delay" /\ Acquire(n)
      /\ UNCHANGED <<attempts, lastFailure, outcome, totalAttempts, aborted>>
  BY DEF DelayEnds
<1>3. Onward
  BY <1>1, <1>2 DEF Onward, Budget, TypeWeak
<1>4. attempts[n] < MaxAttempts[n] /\ Tried(n)
  BY <1>1, <1>2 DEF Local
<1> QED
  BY <1>1, <1>2, <1>3, <1>4, AcquireLocal, NodeKeeps

LEMMA AnswerLocal ==
    ASSUME Relies, NEW n \in Nodes, ExecutorSettles(n) \/ TimeoutFires(n)
    PROVE  AllLocal' /\ Onward
<1>1. TypeWeak /\ TypeWeak' /\ AllLocal /\ Local(n) /\ Budget
  BY DEF Relies, IndInv, AllLocal
<1>2. PICK code \in DecidedCodes, ports \in SUBSET Ports :
          Decide(n, code, ports) /\ (code = "NODE_CANCELLED" => aborted)
  BY DEF ExecutorSettles, TimeoutFires, DecidedCodes, ExecutionCodes
<1>3. /\ phase[n] = "running" /\ phase' = [phase EXCEPT ![n] = "decided"]
      /\ outcome' = [outcome EXCEPT ![n] = [code |-> code, ports |-> ports]]
      /\ UNCHANGED <<attempts, lastFailure, result, totalAttempts, aborted>>
  BY <1>2 DEF Decide
<1>4. Onward
  BY <1>1, <1>3 DEF Onward, Budget, TypeWeak
<1>5. /\ phase'[n] = "decided" /\ outcome'[n].code = code
      /\ \A m \in Nodes \ {n} : Calm(m)
  BY <1>1, <1>3 DEF TypeWeak, Calm
<1>6. Local(n)'
  BY <1>1, <1>2, <1>3, <1>5 DEF Local
<1> QED
  BY <1>1, <1>4, <1>5, <1>6, NodeKeeps

\* A slot is given back: the others are calm or granted.
LEMMA ReleaseCalm ==
    ASSUME TypeWeak, NEW n \in Nodes, phase[n] \in SlotPhases, NEW p \in Phases, Release(n, p),
           \A m \in Nodes \ {n} : /\ attempts'[m] = attempts[m] /\ lastFailure'[m] = lastFailure[m]
                                  /\ result'[m] = result[m] /\ outcome'[m] = outcome[m]
    PROVE  phase'[n] = p /\ \A m \in Nodes \ {n} : Calm(m)
  BY ReleasePhases DEF Calm

\* A slot was granted: the budget refuses the attempt or pays for it.
LEMMA GrantedLocal ==
    ASSUME Relies, NEW n \in Nodes, ResumeGranted(n)
    PROVE  AllLocal' /\ Onward
<1>1. TypeWeak /\ TypeWeak' /\ AllLocal /\ Local(n) /\ Budget
  BY DEF Relies, IndInv, AllLocal
<1>2. phase[n] = "granted" /\ phase[n] \in SlotPhases /\ UNCHANGED <<lastFailure, aborted>>
  BY DEF ResumeGranted, SlotPhases
<1>3. /\ attempts[n] < MaxAttempts[n] /\ Tried(n) /\ attempts[n] \in Nat /\ MaxAttempts[n] \in Nat
      /\ totalAttempts \in Nat /\ AttemptLimit \in Nat /\ totalAttempts <= AttemptLimit
      /\ lastFailure[n] \in Failures
  BY <1>1, <1>2, PolicyAssumption DEF Local, TypeWeak, Budget
<1>4. CASE /\ totalAttempts >= AttemptLimit /\ Release(n, "finished")
           /\ result' = [result EXCEPT ![n] = Failed(attempts[n], RefusedFailure(n))]
           /\ UNCHANGED <<attempts, outcome, totalAttempts>>
  <2>1. totalAttempts' = AttemptLimit /\ Onward
    BY <1>1, <1>2, <1>3, <1>4 DEF Onward, TypeWeak
  <2>2. /\ result'[n] = Failed(attempts[n], RefusedFailure(n))
        /\ \A m \in Nodes \ {n} : result'[m] = result[m]
    BY <1>1, <1>4 DEF TypeWeak
  <2>3. phase'[n] = "finished" /\ \A m \in Nodes \ {n} : Calm(m)
    BY <1>1, <1>2, <1>4, <2>2, ReleaseCalm DEF Phases
  <2>4. /\ RefusedFailure(n).attempt = attempts[n] /\ ~RefusedFailure(n).retryable
        /\ \/ RefusedFailure(n).code \in ExecutionCodes
           \/ RefusedFailure(n).code = "ATTEMPT_BUDGET_EXHAUSTED" /\ attempts[n] = 0
    <3>1. CASE attempts[n] = 0 /\ lastFailure[n] = NoFailure
      BY <3>1 DEF RefusedFailure, Failure
    <3>2. CASE /\ lastFailure[n].code \in ExecutionCodes /\ lastFailure[n].attempt = attempts[n]
      <4>1. lastFailure[n] # NoFailure
        BY <3>2 DEF NoFailure, ExecutionCodes
      <4>2. RefusedFailure(n) = [lastFailure[n] EXCEPT !.retryable = FALSE]
        BY <4>1 DEF RefusedFailure
      <4> QED
        BY <1>3, <3>2, <4>2 DEF Failures
    <3> QED
      BY <1>3, <3>1, <3>2 DEF Tried
  <2>5. /\ result'[n].status = "failed" /\ result'[n].attempts = attempts[n]
        /\ result'[n].failure = RefusedFailure(n)
    BY <2>2 DEF Failed
  <2>6. ResultTrue(n, result[n])'
    BY <2>1, <2>4, <2>5 DEF ResultTrue, FailureTrue, ExecutionCodes
  <2>7. attempts'[n] <= MaxAttempts[n]
    BY <1>3, <1>4
  <2>8. Local(n)'
    BY <2>3, <2>5, <2>6, <2>7, EndsLocal
  <2> QED
    BY <1>1, <2>1, <2>3, <2>8, NodeKeeps
<1>5. CASE /\ totalAttempts < AttemptLimit /\ totalAttempts' = totalAttempts + 1
           /\ attempts' = [attempts EXCEPT ![n] = @ + 1]
           /\ phase' = [phase EXCEPT ![n] = IF aborted THEN "decided" ELSE "running"]
           /\ outcome' = [outcome EXCEPT ![n] =
                  IF aborted THEN [code |-> "NODE_CANCELLED", ports |-> {}] ELSE NoOutcome]
           /\ UNCHANGED <<result, running, waiters>>
  <2>1. Onward
    BY <1>2, <1>3, <1>5 DEF Onward
  <2>2. /\ attempts'[n] = attempts[n] + 1
        /\ phase'[n] = IF aborted THEN "decided" ELSE "running"
        /\ aborted => outcome'[n].code = "NODE_CANCELLED"
        /\ \A m \in Nodes \ {n} : Calm(m)
    BY <1>1, <1>2, <1>5 DEF TypeWeak, Calm
  <2>3. attempts'[n] <= MaxAttempts[n] /\ attempts'[n] > 0
    BY <1>3, <2>2
  <2>4. Local(n)'
    BY <1>2, <2>2, <2>3 DEF Local, DecidedCodes
  <2> QED
    BY <1>1, <2>1, <2>2, <2>4, NodeKeeps
<1> QED
  BY <1>4, <1>5 DEF ResumeGranted

FailureOf(n) == [code |-> outcome[n].code, attempt |-> attempts[n], retryable |-> MayRetry(n)]

\* executeAttempt has resolved: a result, or one more round.
LEMMA DecidedLocal ==
    ASSUME Relies, NEW n \in Nodes, ResumeDecided(n)
    PROVE  AllLocal' /\ Onward
<1> DEFINE b == MayRetry(n)
           code == outcome[n].code
<1>1. TypeWeak /\ TypeWeak' /\ AllLocal /\ Local(n) /\ Budget
  BY DEF Relies, IndInv, AllLocal
<1>2. /\ phase[n] = "decided" /\ phase[n] \in SlotPhases
      /\ UNCHANGED <<attempts, totalAttempts, aborted>>
      /\ outcome' = [outcome EXCEPT ![n] = NoOutcome]
  BY DEF ResumeDecided, SlotPhases
<1>3. Onward
  BY <1>1, <1>2 DEF Onward, Budget, TypeWeak
<1>4. /\ attempts[n] <= MaxAttempts[n] /\ attempts[n] > 0 /\ attempts[n] \in Nat /\ MaxAttempts[n] \in Nat
      /\ code \in DecidedCodes /\ (code = "NODE_CANCELLED" => aborted)
  BY <1>1, <1>2, PolicyAssumption DEF Local, TypeWeak
<1>5. b \in BOOLEAN /\ (b <=> attempts[n] < MaxAttempts[n] /\ code # "NODE_CANCELLED")
  BY DEF MayRetry
<1>6. FailureOf(n) = [code |-> code, attempt |-> attempts[n], retryable |-> b]
  BY DEF FailureOf
<1>7. \A m \in Nodes \ {n} : attempts'[m] = attempts[m] /\ outcome'[m] = outcome[m]
  BY <1>1, <1>2 DEF TypeWeak
<1>8. \/ /\ code = "ok" /\ Release(n, "finished") /\ UNCHANGED lastFailure
         /\ result' = [result EXCEPT ![n] = Succeeded(attempts[n], outcome[n].ports)]
      \/ /\ code # "ok" /\ ~b /\ Release(n, "finished")
         /\ lastFailure' = [lastFailure EXCEPT ![n] = FailureOf(n)]
         /\ result' = [result EXCEPT ![n] = Failed(attempts[n], FailureOf(n))]
      \/ /\ code # "ok" /\ b /\ Release(n, "delay") /\ UNCHANGED result
         /\ lastFailure' = [lastFailure EXCEPT ![n] = FailureOf(n)]
  BY DEF ResumeDecided, FailureOf
<1> HIDE DEF b, code
<1>9. \A m \in Nodes \ {n} : result'[m] = result[m] /\ lastFailure'[m] = lastFailure[m]
  BY <1>1, <1>8 DEF TypeWeak
<1>10. CASE code = "ok"
  <2>1. Release(n, "finished") /\ result'[n] = Succeeded(attempts[n], outcome[n].ports)
    BY <1>1, <1>8, <1>10 DEF TypeWeak
  <2>2. phase'[n] = "finished" /\ \A m \in Nodes \ {n} : Calm(m)
    BY <1>1, <1>2, <1>7, <1>9, <2>1, ReleaseCalm DEF Phases
  <2>3. ResultTrue(n, result[n])' /\ result'[n].status = "succeeded"
    BY <2>1 DEF ResultTrue, Succeeded
  <2>4. Local(n)'
    BY <1>2, <1>4, <2>2, <2>3, EndsLocal
  <2> QED
    BY <1>1, <1>3, <2>2, <2>4, NodeKeeps
<1>11. CASE code # "ok" /\ ~b
  <2>1. Release(n, "finished") /\ result'[n] = Failed(attempts[n], FailureOf(n))
    BY <1>1, <1>8, <1>11 DEF TypeWeak
  <2>2. phase'[n] = "finished" /\ \A m \in Nodes \ {n} : Calm(m)
    BY <1>1, <1>2, <1>7, <1>9, <2>1, ReleaseCalm DEF Phases
  <2>3. /\ result'[n].status = "failed" /\ result'[n].attempts = attempts[n]
        /\ result'[n].failure.code = code /\ result'[n].failure.attempt = attempts[n]
        /\ result'[n].failure.retryable = b
    BY <1>6, <2>1 DEF Failed
  <2>4. code \in ExecutionCodes => attempts[n] = MaxAttempts[n]
    BY <1>4, <1>5, <1>11 DEF ExecutionCodes
  <2>5. ResultTrue(n, result[n])'
    BY <1>2, <1>4, <1>11, <2>3, <2>4 DEF ResultTrue, FailureTrue, DecidedCodes, ExecutionCodes
  <2>6. Local(n)'
    BY <1>2, <1>4, <2>2, <2>3, <2>5, EndsLocal
  <2> QED
    BY <1>1, <1>3, <2>2, <2>6, NodeKeeps
<1>12. CASE code # "ok" /\ b
  <2>1. Release(n, "delay") /\ lastFailure'[n] = FailureOf(n)
    BY <1>1, <1>8, <1>12 DEF TypeWeak
  <2>2. phase'[n] = "delay" /\ \A m \in Nodes \ {n} : Calm(m)
    BY <1>1, <1>2, <1>7, <1>9, <2>1, ReleaseCalm DEF Phases
  <2>3. lastFailure'[n].code = code /\ lastFailure'[n].attempt = attempts[n] /\ code \in ExecutionCodes
    BY <1>4, <1>5, <1>6, <1>12, <2>1 DEF DecidedCodes
  <2>4. Tried(n)'
    BY <1>2, <1>4, <2>3 DEF Tried
  <2>5. Local(n)'
    BY <1>2, <1>4, <1>5, <1>12, <2>2, <2>4 DEF Local
  <2> QED
    BY <1>1, <1>3, <2>2, <2>5, NodeKeeps
<1> QED
  BY <1>8, <1>10, <1>11, <1>12

LEMMA AbortLocal ==
    ASSUME Relies, Abort
    PROVE  AllLocal' /\ Onward
<1>1. TypeWeak /\ TypeWeak' /\ AllLocal /\ Budget
  BY DEF Relies, IndInv
<1>2. /\ aborted' /\ UNCHANGED <<attempts, lastFailure, outcome, totalAttempts>>
      /\ phase' = [n \in Nodes |-> IF n \in Interrupted THEN "finished" ELSE phase[n]]
      /\ result' = [n \in Nodes |-> IF n \in Interrupted THEN CancelledResult(n) ELSE result[n]]
  BY DEF Abort, CancelledResult
<1>3. Onward
  BY <1>1, <1>2 DEF Onward, Budget, TypeWeak
<1>4. ASSUME NEW n \in Nodes PROVE Local(n)'
  <2>1. Local(n)
    BY <1>1 DEF AllLocal
  <2>2. CASE n \in Interrupted
    <3>1. phase'[n] = "finished" /\ result'[n] = CancelledResult(n)
      BY <1>2, <2>2
    <3>2. ResultTrue(n, result[n])' /\ result'[n].status = "failed"
      BY <1>1, <1>2, <3>1, CancelledTrue
    <3> QED
      BY <1>2, <2>1, <3>1, <3>2, EndsLocal DEF Local
  <2>3. CASE n \notin Interrupted
    <3>1. Calm(n)
      BY <1>2, <2>3 DEF Calm
    <3> QED
      BY <1>1, <1>3, <2>1, <3>1, CalmKeeps
  <2> QED
    BY <2>2, <2>3
<1> QED
  BY <1>3, <1>4 DEF AllLocal

LEMMA LocalStep ==
    ASSUME Relies, [Next]_vars
    PROVE  AllLocal' /\ Onward
<1>1. CASE LaunchEnds \/ Return \/ UNCHANGED vars
  <2>1. UNCHANGED <<attempts, lastFailure, outcome, phase, result, totalAttempts, aborted>>
    BY <1>1 DEF LaunchEnds, Return, vars
  <2>2. TypeWeak /\ TypeWeak' /\ AllLocal /\ Budget
    BY DEF Relies, IndInv
  <2>3. Onward
    BY <2>1, <2>2 DEF Onward, Budget, TypeWeak
  <2>4. \A n \in Nodes : Calm(n)
    BY <2>1 DEF Calm
  <2> QED
    BY <2>2, <2>3, <2>4, CalmKeeps DEF AllLocal
<1> QED
  BY <1>1, LaunchLocal, SettleLocal, DelayLocal, AnswerLocal, GrantedLocal, DecidedLocal, AbortLocal
  DEF Next, Main, NodeStep, Finished

-----------------------------------------------------------------------------
(* The run: its total, its skipped nodes and its status.                   *)

\* Only the claim of an attempt counts, for its node and for the run.
LEMMA ClaimsOnly ==
    ASSUME [Next]_vars
    PROVE  \/ UNCHANGED <<attempts, totalAttempts>>
           \/ \E n \in Nodes : /\ attempts' = [attempts EXCEPT ![n] = @ + 1]
                               /\ totalAttempts' = totalAttempts + 1
<1>1. CASE \E n \in Nodes : ResumeGranted(n)
  BY <1>1 DEF ResumeGranted
<1>2. CASE ~ \E n \in Nodes : ResumeGranted(n)
  <2>1. UNCHANGED <<attempts, totalAttempts>>
    BY <1>2 DEF Next, Main, NodeStep, Finished, LaunchSkipped, LaunchUnbound, LaunchNode, LaunchEnds,
                Return, SettleCompleted, ResumeDecided, DelayEnds, ExecutorSettles, TimeoutFires,
                Decide, Abort, vars
  <2> QED
    BY <2>1
<1> QED
  BY <1>1, <1>2

LEMMA TotalsStep ==
    ASSUME TypeWeak, Totals, [Next]_vars
    PROVE  Totals'
<1>1. attempts \in [Nodes -> Nat]
  BY DEF TypeWeak
<1>2. CASE UNCHANGED <<attempts, totalAttempts>>
  BY <1>2 DEF Totals
<1>3. ASSUME NEW n \in Nodes, attempts' = [attempts EXCEPT ![n] = @ + 1],
             totalAttempts' = totalAttempts + 1
      PROVE  Totals'
  <2>1. Sums(attempts')[Nodes] = Sums(attempts)[Nodes] + 1
    BY <1>1, <1>3, SumsBump
  <2>2. Totals' <=> totalAttempts' = Sums(attempts')[Nodes]
    BY DEF Totals
  <2> QED
    BY <1>3, <2>1, <2>2 DEF Totals
<1> QED
  BY <1>2, <1>3, ClaimsOnly

\* The upstream nodes of a node that has left the queue are settled.
LEMMA UpstreamSettled ==
    ASSUME IndInv, NEW n \in Nodes, remaining[n] = 0
    PROVE  \A m : EdgesBetween(m, n) # {} => m \in Settled
<1>1. remaining[n] = Cardinality(Unsettled(n))
  BY DEF IndInv, ReadyInv, ReadyExact, Unsettled
<1>2. Unsettled(n) = {}
  BY <1>1, UnsettledFinite, FS_EmptySet
<1> QED
  BY <1>2 DEF Unsettled, EdgesBetween, Incoming

LEMMA NewlySettled ==
    ASSUME IndInv, [Next]_vars, NEW n \in Settled', n \notin Settled
    PROVE  LaunchSkipped(n) \/ LaunchUnbound(n) \/ SettleCompleted(n)
<1>1. TypeWeak /\ n \in Nodes /\ phase[n] # "settled" /\ phase'[n] = "settled"
  BY DEF IndInv, Settled
<1>2. ASSUME NEW m \in Nodes, LaunchSkipped(m) \/ LaunchUnbound(m) \/ SettleCompleted(m) PROVE m = n
  <2>1. phase' = [phase EXCEPT ![m] = "settled"]
    BY <1>2 DEF LaunchSkipped, LaunchUnbound, SettleCompleted, Settle
  <2> QED
    BY <1>1, <2>1 DEF TypeWeak
<1>3. ASSUME NEW m \in Nodes, NodeStep(m) \/ ExecutorSettles(m) \/ TimeoutFires(m) PROVE FALSE
  BY <1>1, <1>3, QuietSteps DEF NodeStep, Quiet
<1>4. ASSUME NEW m \in Nodes, LaunchNode(m) PROVE FALSE
  <2>1. CASE Acquire(m)
    BY <1>1, <2>1, AcquirePhases
  <2>2. CASE phase' = [phase EXCEPT ![m] = "finished"]
    BY <1>1, <2>2 DEF TypeWeak
  <2> QED
    BY <1>4, <2>1, <2>2 DEF LaunchNode
<1>5. CASE LaunchEnds \/ Return \/ UNCHANGED vars
  BY <1>1, <1>5 DEF LaunchEnds, Return, vars
<1>6. CASE Abort
  BY <1>1, <1>6, QuietAbort DEF Quiet
<1> QED
  BY <1>2, <1>3, <1>4, <1>5, <1>6 DEF Next, Main, Finished

LEMMA IsolatedStep ==
    ASSUME IndInv, AllLocal, Isolated, Onward, [Next]_vars
    PROVE  Isolated'
<1>1. TypeWeak /\ ReadyInv
  BY DEF IndInv
<1>2. ASSUME NEW m \in Settled PROVE m \in Settled' /\ result'[m] = result[m]
  BY <1>1, SettledStable DEF Settled
<1>3. ASSUME NEW n \in Nodes, remaining[n] = 0 PROVE NotSucceeded(n)' = NotSucceeded(n)
  <2>1. \A m : EdgesBetween(m, n) # {} => m \in Settled
    BY <1>3, UpstreamSettled
  <2> QED
    BY <1>2, <2>1 DEF NotSucceeded
<1>4. ASSUME NEW n \in Settled'
      PROVE  /\ NotSucceeded(n)' # {} => result'[n].status = "skipped"
             /\ result'[n].status = "skipped" => NotSucceeded(n)' # {} \/ aborted'
             /\ result'[n].failure.code = "UPSTREAM_FAILED" => NotSucceeded(n)' # {}
  <2>1. n \in Nodes
    BY DEF Settled
  <2>2. CASE n \in Settled
    <3>1. remaining[n] = 0
      BY <1>1, <2>1, <2>2 DEF ReadyInv, Settled
    <3> QED
      BY <1>2, <1>3, <2>1, <2>2, <3>1 DEF Isolated, Onward
  <2>3. CASE SettleCompleted(n)
    <3>1. phase[n] = "finished" /\ result' = [result EXCEPT ![n] = result[n]]
      BY <2>3 DEF SettleCompleted, Settle
    <3>2. remaining[n] = 0 /\ result'[n] = result[n]
      BY <1>1, <2>1, <3>1 DEF ReadyInv, TypeWeak
    <3>3. ResultTrue(n, result[n]) /\ result[n].status # "skipped"
      BY <2>1, <3>1 DEF AllLocal, Local
    <3>4. result[n].failure.code # "UPSTREAM_FAILED"
      BY <3>3 DEF ResultTrue, FailureTrue, NoFailure
    <3>5. \A e \in Incoming(n) : result[e.from].status = "succeeded"
      BY <2>1, <3>1 DEF IndInv, DependencySafety, Phases
    <3>6. NotSucceeded(n) = {}
      BY <3>5 DEF NotSucceeded, EdgesBetween, Incoming
    <3> QED
      BY <1>3, <2>1, <3>2, <3>3, <3>4, <3>6
  <2>4. CASE LaunchSkipped(n) \/ LaunchUnbound(n)
    <3>1. n \in ready /\ UNCHANGED aborted
      BY <2>4 DEF LaunchSkipped, LaunchUnbound, NextReady
    <3>2. remaining[n] = 0
      BY <1>1, <2>1, <3>1 DEF ReadyInv, ReadyExact
    <3>3. FailedUpstream(n) = NotSucceeded(n)
      <4>1. \A m : EdgesBetween(m, n) # {} => m \in Settled
        BY <2>1, <3>2, UpstreamSettled
      <4> QED
        BY <4>1 DEF FailedUpstream, NotSucceeded, Settled
    <3>4. NotSucceeded(n)' = FailedUpstream(n)
      BY <1>3, <2>1, <3>2, <3>3
    <3>5. CASE LaunchSkipped(n)
      <4>1. /\ aborted \/ FailedUpstream(n) # {}
            /\ result' = [result EXCEPT ![n] = Skipped(SkipCode)]
        BY <3>5 DEF LaunchSkipped, Settle
      <4>2. result'[n].status = "skipped" /\ result'[n].failure.code = SkipCode
        BY <1>1, <2>1, <4>1 DEF TypeWeak, Skipped, Failure
      <4>3. SkipCode = "UPSTREAM_FAILED" => ~aborted
        BY DEF SkipCode
      <4> QED
        BY <3>1, <3>4, <4>1, <4>2, <4>3
    <3>6. CASE LaunchUnbound(n)
      <4>1. FailedUpstream(n) = {} /\ result' = [result EXCEPT ![n] = Failed(0, Failure("INPUT_BINDING_FAILED", 0))]
        BY <3>6 DEF LaunchUnbound, Settle
      <4>2. result'[n].status = "failed" /\ result'[n].failure.code = "INPUT_BINDING_FAILED"
        BY <1>1, <2>1, <4>1 DEF TypeWeak, Failed, Failure
      <4> QED
        BY <3>4, <4>1, <4>2
    <3> QED
      BY <2>4, <3>5, <3>6
  <2> QED
    BY <2>2, <2>3, <2>4, NewlySettled
<1> QED
  BY <1>4 DEF Isolated

\* What Return reports is true of the results.
LEMMA ReturnReports ==
    ASSUME IndInv, AllLocal, Return
    PROVE  Reported'
<1> DEFINE fails == NodeFailures \cup {o.node : o \in OutputFailures}
           whole == OutputsComplete
           clean == Clean
<1>1. /\ mainPc = "return" /\ mainPc' = "done"
      /\ run' = [status |-> IF aborted THEN "cancelled" ELSE IF clean THEN "succeeded" ELSE "failed",
                 output |-> whole, failures |-> fails]
      /\ UNCHANGED <<result, aborted>>
  BY DEF Return
<1>2. \A n \in Nodes : ResultTrue(n, result[n])
  <2>1. Settled = Nodes
    BY <1>1 DEF IndInv, AllSettled
  <2> QED
    BY <2>1 DEF AllLocal, Local, Settled
<1>3. whole \in BOOLEAN /\ clean \in BOOLEAN /\ aborted \in BOOLEAN
  BY DEF OutputsComplete, Clean, IndInv, TypeWeak
<1>4. clean => whole
  BY DEF Clean
<1>5. ASSUME clean, NEW n \in Nodes PROVE result[n].status = "succeeded"
  <2>1. result[n].failure = NoFailure
    BY <1>5 DEF Clean, NodeFailures
  <2> QED
    BY <1>2, <2>1 DEF ResultTrue, FailureTrue, NoFailure
<1>6. ~clean => fails # {}
  <2> SUFFICES ASSUME ~clean, fails = {} PROVE FALSE
    OBVIOUS
  <2>1. NodeFailures = {} /\ \A o \in OutputFailures : FALSE
    OBVIOUS
  <2>2. PICK o \in Outputs : ~(Reached(o) /\ HasEndpoint(o.node, o.port))
    BY <2>1 DEF Clean, OutputsComplete
  <2>3. ~Reached(o)
    BY <2>1, <2>2 DEF OutputFailures
  <2>4. o.node \in Nodes /\ result[o.node].failure = NoFailure
    BY <2>1, GraphAssumption DEF NodeFailures
  <2>5. ResultTrue(o.node, result[o.node])
    BY <1>2, <2>4
  <2> QED
    BY <2>3, <2>4, <2>5 DEF Reached, ResultTrue, FailureTrue, NoFailure
<1> HIDE DEF fails, whole, clean
<1>7. /\ run'.output = whole /\ run'.failures = fails
      /\ run'.status \in {"succeeded", "failed", "cancelled"}
      /\ run'.status = "cancelled" <=> aborted
      /\ run'.status = "succeeded" => clean
      /\ run'.status = "failed" => ~clean
  BY <1>1, <1>3
<1>8. StatusSound'
  BY <1>1, <1>4, <1>5, <1>6, <1>7 DEF StatusSound
<1> QED
  BY <1>1, <1>7, <1>8 DEF Reported

LEMMA ReportedStep ==
    ASSUME IndInv, AllLocal, Reported, [Next]_vars
    PROVE  Reported'
<1>1. CASE UNCHANGED vars
  BY <1>1 DEF vars, Reported, StatusSound
<1>2. CASE ~UNCHANGED vars /\ ~Return
  <2>1. mainPc # "done" /\ mainPc' # "done" /\ run' = run
    BY <1>2 DEF Next, Main, NodeStep, Finished, LaunchSkipped, LaunchUnbound, LaunchNode, LaunchEnds,
                NextReady, SettleCompleted, ResumeGranted, ResumeDecided, DelayEnds, ExecutorSettles,
                TimeoutFires, Decide, Abort
  <2> QED
    BY <2>1 DEF Reported
<1> QED
  BY <1>1, <1>2, ReturnReports

LEMMA OutcomeInit == Init => OutcomeInv
<1> SUFFICES ASSUME Init PROVE OutcomeInv
  OBVIOUS
<1>1. Budget /\ AllLocal /\ Isolated /\ Reported
  BY PolicyAssumption DEF Init, Budget, AllLocal, Local, Tried, Isolated, Settled, Reported
<1>2. Totals
  BY SumsZero DEF Init, Totals
<1> QED
  BY <1>1, <1>2, IndInvInit DEF OutcomeInv

LEMMA OutcomeStep == OutcomeInv /\ [Next]_vars => OutcomeInv'
<1> SUFFICES ASSUME OutcomeInv, [Next]_vars PROVE OutcomeInv'
  OBVIOUS
<1>1. IndInv'
  BY IndInvStep DEF OutcomeInv
<1>2. Relies
  BY <1>1 DEF OutcomeInv, IndInv, Relies
<1>3. AllLocal' /\ Onward
  BY <1>2, LocalStep
<1>4. Budget'
  BY <1>3 DEF Onward, Budget
<1>5. Totals'
  BY TotalsStep DEF OutcomeInv, IndInv
<1>6. Isolated'
  BY <1>3, IsolatedStep DEF OutcomeInv
<1>7. Reported'
  BY ReportedStep DEF OutcomeInv
<1> QED
  BY <1>1, <1>3, <1>4, <1>5, <1>6, <1>7 DEF OutcomeInv

LEMMA OutcomeAlways == Spec => []OutcomeInv
  BY OutcomeInit, OutcomeStep, PTL DEF Spec

LEMMA OutcomeBudget == OutcomeInv => AttemptBudget
<1> SUFFICES ASSUME OutcomeInv PROVE AttemptBudget
  OBVIOUS
<1>1. totalAttempts <= AttemptLimit /\ \A n \in Nodes : attempts[n] <= MaxAttempts[n]
  BY DEF OutcomeInv, Budget, AllLocal, Local
<1>2. totalAttempts = MapThenSumSet(LAMBDA n : attempts[n], Nodes)
  BY SumUnfolds DEF OutcomeInv, Totals
<1> QED
  BY <1>1, <1>2 DEF AttemptBudget

(***************************************************************************)
(* executeNode never claims an attempt beyond the node's own or the run's  *)
(* limit, over any interleaving of retries, grants and refusals, and the   *)
(* total the run counts is the sum over its nodes.                         *)
(***************************************************************************)
THEOREM AttemptsBudgeted == Spec => []AttemptBudget
  BY OutcomeAlways, OutcomeBudget, PTL

LEMMA OutcomeTrue == OutcomeInv => OutcomeFaithful
<1> SUFFICES ASSUME OutcomeInv PROVE OutcomeFaithful
  OBVIOUS
<1>1. \A n \in Settled : n \in Nodes /\ ResultTrue(n, result[n])
  BY DEF OutcomeInv, AllLocal, Local, Settled
<1>2. FailureIsolation
  BY <1>1 DEF OutcomeInv, Isolated, FailureIsolation, ResultTrue, FailureTrue, NoFailure
<1>3. FailureFaithful
  BY <1>1 DEF FailureFaithful, ResultTrue, FailureTrue
<1>4. StatusSound
  BY DEF OutcomeInv, Reported, StatusSound
<1> QED
  BY <1>2, <1>3, <1>4 DEF OutcomeFaithful

(***************************************************************************)
(* What runGraph reports is true for every graph and policy: a node is     *)
(* skipped only for a cause upstream or the abort, a failure describes its *)
(* node's last attempt and gives up only when attempts are spent, and the  *)
(* status of the run agrees with its nodes, its outputs and the abort.     *)
(***************************************************************************)
THEOREM OutcomesFaithful == Spec => []OutcomeFaithful
  BY OutcomeAlways, OutcomeTrue, PTL

-----------------------------------------------------------------------------
(* The lifecycle.                                                          *)

Verdict == IF run = NoRun THEN "running" ELSE run.status
NodeStates == [n \in Nodes |-> StateOf(n)]

LEMMA StateOfPhase ==
    ASSUME OutcomeInv, NEW n \in Nodes
    PROVE  /\ phase[n] = "idle" => StateOf(n) = "pending"
           /\ phase[n] \in {"waiting", "granted"} => StateOf(n) = "scheduled"
           /\ phase[n] \in {"running", "decided"} => StateOf(n) = "running"
           /\ phase[n] = "delay" => StateOf(n) = "retry-wait"
           /\ phase[n] \in {"finished", "settled"} =>
                  StateOf(n) = result[n].status /\ result[n].status \in Lifecycle!Terminal
           /\ StateOf(n) \in Lifecycle!NodeStates
           /\ phase[n] \in Phases
<1>1. phase[n] \in Phases
  BY DEF OutcomeInv, IndInv, TypeWeak
<1>2. /\ phase[n] = "idle" => StateOf(n) = "pending"
      /\ phase[n] \in {"waiting", "granted"} => StateOf(n) = "scheduled"
      /\ phase[n] \in {"running", "decided"} => StateOf(n) = "running"
      /\ phase[n] = "delay" => StateOf(n) = "retry-wait"
      /\ phase[n] \in {"finished", "settled"} => StateOf(n) = result[n].status
  BY DEF StateOf
<1>3. phase[n] \in {"finished", "settled"} => result[n].status \in Lifecycle!Terminal
  BY DEF OutcomeInv, AllLocal, Local, ResultTrue, Lifecycle!Terminal
<1> QED
  BY <1>1, <1>2, <1>3 DEF Phases, Lifecycle!Terminal, Lifecycle!NodeStates

\* What the lifecycle sees of a node that a step does not concern: a waiter
\* that is granted a slot is scheduled before and after.
Undisturbed(m) ==
    /\ result'[m] = result[m]
    /\ phase'[m] = phase[m] \/ (phase[m] = "waiting" /\ phase'[m] = "granted")

LEMMA NodeMoves ==
    ASSUME NEW n \in Nodes, \A m \in Nodes \ {n} : Undisturbed(m)
    PROVE  NodeStates' = [NodeStates EXCEPT ![n] = StateOf(n)']
<1>1. ASSUME NEW m \in Nodes, m # n PROVE StateOf(m)' = StateOf(m)
  BY <1>1 DEF StateOf, Undisturbed
<1> QED
  BY <1>1 DEF NodeStates

LEMMA NodeStays ==
    ASSUME NEW n \in Nodes, \A m \in Nodes \ {n} : Undisturbed(m), StateOf(n)' = StateOf(n)
    PROVE  NodeStates' = NodeStates
  BY NodeMoves DEF NodeStates

\* The run is under way, before and after the step.
UnderWay == Verdict = "running" /\ Verdict' = "running"

LEMMA UnderWayHolds ==
    ASSUME OutcomeInv, OutcomeInv', mainPc # "done", mainPc' # "done"
    PROVE  UnderWay
  BY DEF OutcomeInv, Reported, UnderWay, Verdict

LEMMA MoveMaps ==
    ASSUME NEW n \in Nodes, NEW from, NEW to, StateOf(n) \in from, UnderWay,
           \A m \in Nodes \ {n} : Undisturbed(m), StateOf(n)' = to
    PROVE  Lifecycle!Move(n, from, to)
<1>1. NodeStates' = [NodeStates EXCEPT ![n] = to]
  BY NodeMoves
<1>2. NodeStates[n] \in from
  BY DEF NodeStates
<1> QED
  BY <1>1, <1>2 DEF Lifecycle!Move, NodeStates, UnderWay, Verdict

\* A step that changes no state of a node and no counter shows nothing.
LEMMA Unseen ==
    ASSUME NodeStates' = NodeStates, UNCHANGED <<attempts, totalAttempts, aborted, run>>
    PROVE  UNCHANGED Lifecycle!lifecycle
  BY DEF Lifecycle!lifecycle, NodeStates

LEMMA StatesKept ==
    ASSUME UNCHANGED <<phase, result>>
    PROVE  NodeStates' = NodeStates
<1>1. \A n \in Nodes : StateOf(n)' = StateOf(n)
  BY DEF StateOf
<1> QED
  BY <1>1 DEF NodeStates

\* A node that ends without an attempt: the run is aborted or has no budget.
LEMMA GiveUpMaps ==
    ASSUME OutcomeInv, UnderWay, NEW n \in Nodes, \A m \in Nodes \ {n} : Undisturbed(m),
           phase[n] \in {"granted", "delay"}, phase'[n] = "finished", result'[n].status = "failed",
           aborted \/ totalAttempts >= AttemptLimit, UNCHANGED <<attempts, totalAttempts, aborted, run>>
    PROVE  Lifecycle!GiveUp(n)
<1>1. StateOf(n) \in {"scheduled", "retry-wait"} /\ StateOf(n)' = "failed"
  BY StateOfPhase DEF StateOf
<1>2. Lifecycle!Move(n, {"scheduled", "retry-wait"}, "failed")
  BY <1>1, MoveMaps
<1>3. totalAttempts \in Nat /\ AttemptLimit \in Nat /\ totalAttempts <= AttemptLimit
  BY PolicyAssumption DEF OutcomeInv, IndInv, TypeWeak, Budget
<1>4. aborted \/ AttemptLimit - totalAttempts = 0
  BY <1>3
<1> QED
  BY <1>2, <1>4 DEF Lifecycle!GiveUp

LEMMA DelayMaps ==
    ASSUME OutcomeInv, UnderWay, NEW n \in Nodes, DelayEnds(n)
    PROVE  Lifecycle!GiveUp(n) \/ Lifecycle!Reschedule(n)
<1>1. /\ phase[n] = "delay" /\ Acquire(n) /\ UNCHANGED <<attempts, totalAttempts, aborted, run>>
      /\ phase \in [Nodes -> Phases] /\ result \in [Nodes -> Results] /\ TypeWeak
  BY DEF DelayEnds, OutcomeInv, IndInv, TypeWeak
<1>2. \A m \in Nodes \ {n} : Undisturbed(m)
  BY <1>1, AcquirePhases DEF Undisturbed
<1>3. \/ aborted /\ phase'[n] = "finished" /\ result'[n].status = "failed"
      \/ ~aborted /\ phase'[n] \in {"waiting", "granted"}
  BY <1>1 DEF Acquire, Failed
<1>4. CASE aborted /\ phase'[n] = "finished" /\ result'[n].status = "failed"
  BY <1>1, <1>2, <1>4, GiveUpMaps
<1>5. CASE ~aborted /\ phase'[n] \in {"waiting", "granted"}
  <2>1. StateOf(n) \in {"retry-wait"} /\ StateOf(n)' = "scheduled"
    BY <1>1, <1>5, StateOfPhase DEF StateOf
  <2>2. Lifecycle!Move(n, {"retry-wait"}, "scheduled")
    BY <1>2, <2>1, MoveMaps
  <2> QED
    BY <1>1, <1>5, <2>2 DEF Lifecycle!Reschedule
<1> QED
  BY <1>3, <1>4, <1>5

LEMMA SameCardinality == \A S : Lifecycle!Cardinality(S) = Cardinality(S)
  BY DEF Lifecycle!Cardinality, Cardinality

\* The attempts under way hold slots, and so does the node that starts one.
LEMMA RoomMaps ==
    ASSUME OutcomeInv, NEW n \in Nodes, phase[n] = "granted"
    PROVE  Lifecycle!Cardinality(Lifecycle!Running) < Concurrency
<1> DEFINE S == SlotHolders
           R == Lifecycle!Running
<1>1. \A m \in Nodes : StateOf(m) = "running" => phase[m] \in {"running", "decided"}
  BY StateOfPhase DEF Phases, Lifecycle!Terminal
<1>2. R \in SUBSET (S \ {n}) /\ n \in S
  BY <1>1 DEF Lifecycle!Running, SlotHolders, SlotPhases
<1>3. IsFiniteSet(S) /\ Cardinality(S) \in Nat
  BY HoldersFinite
<1>4. /\ IsFiniteSet(S \ {n}) /\ Cardinality(S \ {n}) = Cardinality(S) - 1
      /\ Cardinality(S \ {n}) \in Nat
  BY <1>2, <1>3, FS_RemoveElement, FS_CardinalityType
<1>5. Cardinality(R) <= Cardinality(S \ {n}) /\ Cardinality(R) \in Nat
  BY <1>2, <1>4, FS_Subset, FS_CardinalityType
<1>6. /\ Cardinality(S) = running /\ running <= observed /\ observed <= Concurrency
      /\ observed \in Int /\ Concurrency \in Nat
  BY PolicyAssumption DEF OutcomeInv, IndInv, SlotInv, SlotAccounting, TypeWeak
<1>7. Lifecycle!Cardinality(R) = Cardinality(R)
  BY SameCardinality
<1> HIDE DEF S, R
<1>8. Lifecycle!Cardinality(R) < Concurrency
  BY <1>3, <1>4, <1>5, <1>6, <1>7
<1> QED
  BY <1>8 DEF R

LEMMA GrantedMaps ==
    ASSUME OutcomeInv, UnderWay, NEW n \in Nodes, ResumeGranted(n)
    PROVE  Lifecycle!GiveUp(n) \/ Lifecycle!StartAttempt(n)
<1>1. /\ phase[n] = "granted" /\ UNCHANGED <<aborted, run>> /\ TypeWeak
      /\ phase \in [Nodes -> Phases] /\ result \in [Nodes -> Results] /\ attempts \in [Nodes -> Nat]
  BY DEF ResumeGranted, OutcomeInv, IndInv, TypeWeak
<1>2. CASE /\ totalAttempts >= AttemptLimit /\ Release(n, "finished")
           /\ result' = [result EXCEPT ![n] = Failed(attempts[n], RefusedFailure(n))]
           /\ UNCHANGED <<attempts, outcome, totalAttempts>>
  <2>1. /\ phase'[n] = "finished"
        /\ \A m \in Nodes \ {n} : phase'[m] = phase[m] \/ (phase[m] = "waiting" /\ phase'[m] = "granted")
    BY <1>1, <1>2, ReleasePhases DEF SlotPhases, Phases
  <2>2. \A m \in Nodes \ {n} : Undisturbed(m)
    BY <1>1, <1>2, <2>1 DEF Undisturbed
  <2>3. result'[n].status = "failed"
    BY <1>1, <1>2 DEF Failed
  <2> QED
    BY <1>1, <1>2, <2>1, <2>2, <2>3, GiveUpMaps
<1>3. CASE /\ totalAttempts < AttemptLimit /\ totalAttempts' = totalAttempts + 1
           /\ attempts' = [attempts EXCEPT ![n] = @ + 1]
           /\ phase' = [phase EXCEPT ![n] = IF aborted THEN "decided" ELSE "running"]
           /\ UNCHANGED result
  <2>1. StateOf(n) \in {"scheduled"} /\ StateOf(n)' = "running" /\ \A m \in Nodes \ {n} : Undisturbed(m)
    BY <1>1, <1>3, StateOfPhase DEF StateOf, Undisturbed
  <2>2. Lifecycle!Move(n, {"scheduled"}, "running")
    BY <2>1, MoveMaps
  <2>3. totalAttempts \in Nat /\ AttemptLimit \in Nat
    BY PolicyAssumption DEF OutcomeInv, IndInv, TypeWeak
  <2>4. AttemptLimit - totalAttempts > 0 /\ AttemptLimit - totalAttempts' = (AttemptLimit - totalAttempts) - 1
    BY <1>3, <2>3
  <2>5. attempts[n] < MaxAttempts[n]
    BY <1>1 DEF OutcomeInv, AllLocal, Local
  <2>6. Lifecycle!Cardinality(Lifecycle!Running) < Concurrency
    BY <1>1, RoomMaps
  <2>7. attempts' = [attempts EXCEPT ![n] = attempts[n] + 1] /\ aborted' = aborted /\ run' = run
    BY <1>1, <1>3
  <2> QED
    BY ONLY <2>2, <2>4, <2>5, <2>6, <2>7 DEF Lifecycle!StartAttempt
<1> QED
  BY <1>2, <1>3 DEF ResumeGranted

LEMMA DecidedMaps ==
    ASSUME OutcomeInv, UnderWay, NEW n \in Nodes, ResumeDecided(n)
    PROVE  Lifecycle!EndAttempt(n)
<1>1. /\ phase[n] = "decided" /\ UNCHANGED <<attempts, totalAttempts, aborted, run>> /\ TypeWeak
      /\ result \in [Nodes -> Results]
  BY DEF ResumeDecided, OutcomeInv, IndInv, TypeWeak
<1> DEFINE Ends(p) ==
               \/ p = "finished" /\ \E r : /\ result' = [result EXCEPT ![n] = r]
                                           /\ r.status \in {"succeeded", "failed"}
               \/ p = "delay" /\ MayRetry(n) /\ result' = result
<1>2. PICK p \in {"finished", "delay"} : Release(n, p) /\ Ends(p)
  <2>1. CASE /\ Release(n, "finished")
             /\ result' = [result EXCEPT ![n] = Succeeded(attempts[n], outcome[n].ports)]
    <3>1. Succeeded(attempts[n], outcome[n].ports).status = "succeeded"
      BY DEF Succeeded
    <3>2. Ends("finished")
      BY <2>1, <3>1
    <3> QED
      BY <2>1, <3>2
  <2>2. CASE /\ Release(n, "finished")
             /\ result' = [result EXCEPT ![n] = Failed(attempts[n], FailureOf(n))]
    <3>1. Failed(attempts[n], FailureOf(n)).status = "failed"
      BY DEF Failed
    <3>2. Ends("finished")
      BY <2>2, <3>1
    <3> QED
      BY <2>2, <3>2
  <2>3. CASE MayRetry(n) /\ Release(n, "delay") /\ UNCHANGED result
    BY <2>3
  <2> QED
    BY <2>1, <2>2, <2>3 DEF ResumeDecided, FailureOf
<1>3. /\ phase'[n] = p
      /\ \A m \in Nodes \ {n} : phase'[m] = phase[m] \/ (phase[m] = "waiting" /\ phase'[m] = "granted")
  BY <1>1, <1>2, ReleasePhases DEF SlotPhases, Phases
<1>4. \A m \in Nodes \ {n} : Undisturbed(m)
  BY <1>1, <1>2, <1>3 DEF Undisturbed
<1>5. StateOf(n) \in {"running"}
  BY <1>1, StateOfPhase
<1>6. \/ StateOf(n)' \in {"succeeded", "failed"}
      \/ StateOf(n)' = "retry-wait" /\ attempts[n] < MaxAttempts[n]
  BY <1>1, <1>2, <1>3 DEF StateOf, MayRetry
<1>7. \/ Lifecycle!Move(n, {"running"}, "succeeded")
      \/ Lifecycle!Move(n, {"running"}, "failed")
      \/ Lifecycle!Move(n, {"running"}, "retry-wait") /\ attempts[n] < MaxAttempts[n]
  BY <1>4, <1>5, <1>6, MoveMaps
<1> QED
  BY <1>1, <1>7 DEF Lifecycle!EndAttempt

\* An executor answers or a timer fires: the attempt is still under way.
LEMMA AnswerMaps ==
    ASSUME OutcomeInv, NEW n \in Nodes, ExecutorSettles(n) \/ TimeoutFires(n)
    PROVE  UNCHANGED Lifecycle!lifecycle
<1>1. /\ phase[n] = "running" /\ phase' = [phase EXCEPT ![n] = "decided"]
      /\ UNCHANGED <<attempts, totalAttempts, aborted, run, result>>
      /\ phase \in [Nodes -> Phases]
  BY DEF ExecutorSettles, TimeoutFires, Decide, OutcomeInv, IndInv, TypeWeak
<1>2. StateOf(n)' = StateOf(n) /\ \A m \in Nodes \ {n} : Undisturbed(m)
  BY <1>1 DEF StateOf, Undisturbed
<1>3. NodeStates' = NodeStates
  BY <1>2, NodeStays
<1> QED
  BY <1>1, <1>3, Unseen

LEMMA SettleMaps ==
    ASSUME OutcomeInv, NEW n \in Nodes, SettleCompleted(n)
    PROVE  UNCHANGED Lifecycle!lifecycle
<1>1. /\ phase[n] = "finished" /\ phase' = [phase EXCEPT ![n] = "settled"]
      /\ result' = [result EXCEPT ![n] = result[n]]
      /\ UNCHANGED <<attempts, totalAttempts, aborted, run>>
      /\ phase \in [Nodes -> Phases] /\ result \in [Nodes -> Results]
  BY DEF SettleCompleted, Settle, OutcomeInv, IndInv, TypeWeak
<1>2. StateOf(n)' = StateOf(n) /\ \A m \in Nodes \ {n} : Undisturbed(m)
  BY <1>1 DEF StateOf, Undisturbed
<1>3. NodeStates' = NodeStates
  BY <1>2, NodeStays
<1> QED
  BY <1>1, <1>3, Unseen

\* All upstream nodes of n are settled and have succeeded.
LEMMA SatisfiedMaps ==
    ASSUME OutcomeInv, NEW n \in Nodes, FailedUpstream(n) = {}
    PROVE  Lifecycle!Satisfied(n)
<1>1. ASSUME NEW e \in Edges, e.to = n PROVE NodeStates[e.from] = "succeeded"
  <2>1. e.from \in Nodes /\ EdgesBetween(e.from, n) # {}
    BY <1>1, GraphAssumption DEF EdgesBetween
  <2>2. phase[e.from] = "settled" /\ result[e.from].status = "succeeded"
    BY <2>1 DEF FailedUpstream
  <2> QED
    BY <2>1, <2>2, StateOfPhase DEF NodeStates
<1> QED
  BY <1>1 DEF Lifecycle!Satisfied, Lifecycle!Upstream, NodeStates

\* Node n leaves the ready queue: it is scheduled, skipped or refused.
LEMMA LaunchMaps ==
    ASSUME OutcomeInv, UnderWay, NEW n \in Nodes, LaunchSkipped(n) \/ LaunchUnbound(n) \/ LaunchNode(n)
    PROVE  Lifecycle!Schedule(n) \/ Lifecycle!Refuse(n) \/ Lifecycle!Skip(n)
<1>1. n \in ready /\ UNCHANGED <<attempts, totalAttempts, aborted, run>>
  BY DEF LaunchSkipped, LaunchUnbound, LaunchNode, NextReady
<1>2. /\ phase[n] = "idle" /\ remaining[n] = 0 /\ StateOf(n) = "pending" /\ TypeWeak
      /\ phase \in [Nodes -> Phases] /\ result \in [Nodes -> Results]
  BY <1>1, StateOfPhase DEF OutcomeInv, IndInv, ReadyInv, ReadyExact, TypeWeak
<1>3. CASE LaunchNode(n)
  <2>1. ~aborted /\ Lifecycle!Satisfied(n)
    BY <1>3, SatisfiedMaps DEF LaunchNode
  <2>2. CASE Acquire(n)
    <3>1. phase'[n] \in {"waiting", "granted"} /\ \A m \in Nodes \ {n} : Undisturbed(m)
      BY <1>2, <2>1, <2>2, AcquirePhases DEF Acquire, Undisturbed
    <3>2. StateOf(n)' = "scheduled"
      BY <3>1 DEF StateOf
    <3>3. Lifecycle!Move(n, {"pending"}, "scheduled")
      BY <1>2, <3>1, <3>2, MoveMaps
    <3> QED
      BY <1>1, <2>1, <3>3 DEF Lifecycle!Schedule
  <2>3. CASE /\ phase' = [phase EXCEPT ![n] = "finished"]
             /\ result' = [result EXCEPT ![n] = Failed(0, Failure("EXECUTOR_NOT_FOUND", 0))]
    <3>1. /\ phase'[n] = "finished" /\ result'[n].status = "failed"
          /\ \A m \in Nodes \ {n} : Undisturbed(m)
      BY <1>2, <2>3 DEF Failed, Undisturbed
    <3>2. StateOf(n)' = "failed"
      BY <3>1 DEF StateOf
    <3>3. Lifecycle!Move(n, {"pending"}, "failed")
      BY <1>2, <3>1, <3>2, MoveMaps
    <3> QED
      BY <1>1, <2>1, <3>3 DEF Lifecycle!Refuse
  <2> QED
    BY <1>3, <2>2, <2>3 DEF LaunchNode
<1>4. ASSUME NEW r, Settle(n, r, ready \ {n})
      PROVE  Lifecycle!Move(n, {"pending"}, r.status)
  <2>1. /\ phase'[n] = "settled" /\ result'[n] = r
        /\ \A m \in Nodes \ {n} : Undisturbed(m)
    BY <1>2, <1>4 DEF Settle, Undisturbed
  <2>2. StateOf(n)' = r.status
    BY <2>1 DEF StateOf
  <2> QED
    BY <1>2, <2>1, <2>2, MoveMaps
<1>5. CASE LaunchUnbound(n)
  <2>1. /\ ~aborted /\ Lifecycle!Satisfied(n)
        /\ Settle(n, Failed(0, Failure("INPUT_BINDING_FAILED", 0)), ready \ {n})
    BY <1>5, SatisfiedMaps DEF LaunchUnbound
  <2>2. Lifecycle!Move(n, {"pending"}, "failed")
    BY <1>4, <2>1 DEF Failed
  <2> QED
    BY <1>1, <2>1, <2>2 DEF Lifecycle!Refuse
<1>6. CASE LaunchSkipped(n)
  <2>1. (aborted \/ FailedUpstream(n) # {}) /\ Settle(n, Skipped(SkipCode), ready \ {n})
    BY <1>6 DEF LaunchSkipped
  <2>2. Lifecycle!Move(n, {"pending"}, "skipped")
    BY <1>4, <2>1 DEF Skipped
  <2>3. ASSUME NEW m \in Lifecycle!Upstream(n)
        PROVE  /\ m \in Nodes /\ phase[m] = "settled"
               /\ NodeStates[m] = result[m].status /\ NodeStates[m] \in Lifecycle!Terminal
    <3>1. m \in Nodes /\ EdgesBetween(m, n) # {}
      BY GraphAssumption DEF Lifecycle!Upstream, EdgesBetween
    <3>2. phase[m] = "settled"
      BY <1>2, <3>1, UpstreamSettled DEF OutcomeInv, Settled
    <3> QED
      BY <3>1, <3>2, StateOfPhase DEF NodeStates
  <2>4. FailedUpstream(n) # {} => ~Lifecycle!Satisfied(n)
    <3> SUFFICES ASSUME NEW m \in FailedUpstream(n) PROVE ~Lifecycle!Satisfied(n)
      OBVIOUS
    <3>1. m \in Lifecycle!Upstream(n) /\ ~(phase[m] = "settled" /\ result[m].status = "succeeded")
      BY DEF FailedUpstream, EdgesBetween, Lifecycle!Upstream
    <3>2. NodeStates[m] # "succeeded"
      BY <2>3, <3>1
    <3> QED
      BY <3>1, <3>2 DEF Lifecycle!Satisfied, NodeStates
  <2> QED
    BY <1>1, <2>1, <2>2, <2>3, <2>4 DEF Lifecycle!Skip, NodeStates
<1> QED
  BY <1>3, <1>5, <1>6

\* The abort fails the waiters and the sleepers it can reach.
LEMMA AbortMaps ==
    ASSUME OutcomeInv, OutcomeInv', UnderWay, Abort
    PROVE  Lifecycle!Cancel
<1>1. /\ ~aborted /\ aborted' = TRUE /\ UNCHANGED <<attempts, totalAttempts, run>>
      /\ \A n \in Nodes : /\ n \in Interrupted => /\ phase[n] \in {"waiting", "delay"}
                                                  /\ phase'[n] = "finished"
                                                  /\ result'[n].status = "failed"
                          /\ n \notin Interrupted => phase'[n] = phase[n] /\ result'[n] = result[n]
  BY DEF Abort, Interrupted, Failed
<1>2. ASSUME NEW n \in Nodes
      PROVE  /\ \/ StateOf(n)' = StateOf(n)
                \/ StateOf(n) \in {"scheduled", "running", "retry-wait"} /\ StateOf(n)' = "failed"
             /\ StateOf(n)' \in Lifecycle!NodeStates
  <2>1. CASE n \in Interrupted
    <3>1. StateOf(n)' = "failed"
      BY <1>1, <2>1 DEF StateOf
    <3> QED
      BY <1>1, <2>1, <3>1, StateOfPhase DEF Lifecycle!NodeStates
  <2>2. CASE n \notin Interrupted
    <3>1. StateOf(n)' = StateOf(n)
      BY <1>1, <2>2 DEF StateOf
    <3> QED
      BY <3>1, StateOfPhase
  <2> QED
    BY <2>1, <2>2
<1>3. /\ NodeStates' \in [Nodes -> Lifecycle!NodeStates]
      /\ \A n \in Nodes : \/ NodeStates'[n] = NodeStates[n]
                          \/ /\ NodeStates[n] \in {"scheduled", "running", "retry-wait"}
                             /\ NodeStates'[n] = "failed"
  BY <1>2 DEF NodeStates
<1> QED
  BY <1>1, <1>3 DEF Lifecycle!Cancel, NodeStates, UnderWay, Verdict

LEMMA ReturnMaps ==
    ASSUME OutcomeInv, OutcomeInv', Return
    PROVE  Lifecycle!End
<1>1. /\ mainPc = "return" /\ mainPc' = "done"
      /\ UNCHANGED <<phase, result, attempts, totalAttempts, aborted>>
  BY DEF Return
<1>2. NodeStates' = NodeStates
  BY <1>1, StatesKept
<1>3. \A n \in Nodes : NodeStates[n] \in Lifecycle!Terminal /\ NodeStates[n] = result[n].status
  <2>1. Settled = Nodes
    BY <1>1 DEF OutcomeInv, IndInv, AllSettled
  <2> QED
    BY <2>1, StateOfPhase DEF NodeStates, Settled
<1>4. Verdict = "running"
  BY <1>1 DEF OutcomeInv, Reported, Verdict
<1>5. /\ StatusSound' /\ run'.status \in {"succeeded", "failed", "cancelled"}
      /\ run' # NoRun
  BY <1>1 DEF OutcomeInv, Reported, NoRun
<1>6. Verdict' = run'.status
  BY <1>5 DEF Verdict
<1>7. /\ Verdict' \in {"succeeded", "failed", "cancelled"}
      /\ Verdict' = "cancelled" <=> aborted
      /\ Verdict' = "succeeded" => \A n \in Nodes : NodeStates[n] = "succeeded"
  BY <1>1, <1>3, <1>5, <1>6 DEF StatusSound
<1> QED
  BY <1>1, <1>2, <1>3, <1>4, <1>7 DEF Lifecycle!End, NodeStates, Verdict

LEMMA LifecycleInitMaps == Init => Lifecycle!LifecycleInit
<1> SUFFICES ASSUME Init PROVE Lifecycle!LifecycleInit
  OBVIOUS
<1>1. \A n \in Nodes : StateOf(n) = "pending"
  BY DEF Init, StateOf
<1>2. AttemptLimit - totalAttempts = AttemptLimit
  BY PolicyAssumption DEF Init
<1> QED
  BY <1>1, <1>2 DEF Init, Lifecycle!LifecycleInit

LEMMA StepMaps ==
    OutcomeInv /\ OutcomeInv' /\ [Next]_vars => [Lifecycle!LifecycleNext]_Lifecycle!lifecycle
<1> SUFFICES ASSUME OutcomeInv, OutcomeInv', [Next]_vars
             PROVE  [Lifecycle!LifecycleNext]_Lifecycle!lifecycle
  OBVIOUS
<1>1. CASE UNCHANGED vars \/ LaunchEnds
  <2>1. UNCHANGED <<phase, result, attempts, totalAttempts, aborted, run>>
    BY <1>1 DEF vars, LaunchEnds
  <2> QED
    BY <2>1, StatesKept, Unseen
<1>2. CASE Return
  BY <1>2, ReturnMaps DEF Lifecycle!LifecycleNext
<1>3. ASSUME NEW n \in Nodes, LaunchSkipped(n) \/ LaunchUnbound(n) \/ LaunchNode(n)
      PROVE  Lifecycle!LifecycleNext
  <2>1. mainPc # "done" /\ mainPc' # "done"
    BY <1>3 DEF LaunchSkipped, LaunchUnbound, LaunchNode, NextReady
  <2> QED
    BY <1>3, <2>1, UnderWayHolds, LaunchMaps DEF Lifecycle!LifecycleNext
<1>4. ASSUME NEW n \in Nodes, NodeStep(n)
      PROVE  Lifecycle!LifecycleNext
  <2>1. mainPc # "done" /\ mainPc' # "done"
    BY <1>4 DEF NodeStep, ResumeGranted, ResumeDecided, DelayEnds
  <2> QED
    BY <1>4, <2>1, UnderWayHolds, GrantedMaps, DecidedMaps, DelayMaps DEF NodeStep, Lifecycle!LifecycleNext
<1>5. CASE Abort
  <2>1. mainPc # "done" /\ mainPc' # "done"
    BY <1>5 DEF Abort
  <2> QED
    BY <1>5, <2>1, UnderWayHolds, AbortMaps DEF Lifecycle!LifecycleNext
<1> QED
  BY <1>1, <1>2, <1>3, <1>4, <1>5, SettleMaps, AnswerMaps DEF Next, Main, Finished

(***************************************************************************)
(* scheduler.ts implements the lifecycle of the semantics document, for    *)
(* every graph and policy: each step of runGraph, of a node's coroutine,   *)
(* of the semaphore, of a timer and of the abort listener is a step the    *)
(* lifecycle allows, or changes nothing it speaks of.                      *)
(***************************************************************************)
THEOREM SchedulerImplementsLifecycle == Spec => ImplementsLifecycle
<1>1. Init => Lifecycle!LifecycleInit
  BY LifecycleInitMaps
<1>2. OutcomeInv /\ OutcomeInv' /\ [Next]_vars => [Lifecycle!LifecycleNext]_Lifecycle!lifecycle
  BY StepMaps
<1> QED
  BY <1>1, <1>2, OutcomeAlways, PTL DEF Spec, ImplementsLifecycle, Lifecycle!LifecycleSpec
=============================================================================
