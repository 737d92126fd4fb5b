------------------------- MODULE PySchedulerProofs -------------------------
(***************************************************************************)
(* Theorems about the Python scheduler for every graph, policy and number  *)
(* of nodes: permits are conserved, what a run reports is true, and it     *)
(* implements the lifecycle of the semantics document.                     *)
(***************************************************************************)
EXTENDS PyScheduler, TLAPS, FiniteSetTheorems, SequenceTheorems, WellFoundedInduction

Results == [status : {"none", "succeeded", "failed", "skipped"},
            attempts : Nat, failure : Failures, ports : SUBSET Ports]
Runs == [status : {"none", "succeeded", "failed", "cancelled"},
         output : BOOLEAN, failures : SUBSET Nodes]
HandlerStates == {"none", "busy", "ended"}

\* Types, the counters being integers only.
Types ==
    /\ mainPc \in {"launch", "await", "return", "done"}
    /\ ready \subseteq Nodes
    /\ remaining \in [Nodes -> Int]
    /\ phase \in [Nodes -> Phases]
    /\ permit \in [Nodes -> Permits]
    /\ handler \in [Nodes -> HandlerStates]
    /\ outcome \in [Nodes -> Outcomes]
    /\ attempts \in [Nodes -> Nat]
    /\ lastFailure \in [Nodes -> Failures]
    /\ result \in [Nodes -> Results]
    /\ value \in Int
    /\ waiters \in Seq(Nodes)
    /\ running \in Int /\ observed \in Int /\ totalAttempts \in Nat
    /\ cancelled \in BOOLEAN
    /\ run \in Runs

AttemptCodes == ExecutionCodes \cup {"none", "ok", "NODE_CANCELLED"}

LEMMA RecordTypes ==
    /\ NoFailure \in Failures
    /\ NoOutcome \in Outcomes
    /\ NoResult \in Results
    /\ NoRun \in Runs
    /\ \A code \in FailureCodes, k \in Nat : Failure(code, k) \in Failures
    /\ \A k \in Nat, ports \in SUBSET Ports : Succeeded(k, ports) \in Results
    /\ \A k \in Nat, failure \in Failures : Failed(k, failure) \in Results
    /\ \A code \in FailureCodes : Skipped(code) \in Results
    /\ \A k \in Nat : CancelledResult(k) \in Results
    /\ Endings \subseteq Outcomes
  BY DEF NoFailure, NoOutcome, NoResult, NoRun, Failures, Outcomes, Results, Runs, Failure,
         Succeeded, Failed, Skipped, CancelledResult, FailureCodes, ExecutionCodes, Endings

LEMMA EdgeCounts ==
    ASSUME NEW n \in Nodes, NEW S \in SUBSET Incoming(n)
    PROVE  IsFiniteSet(S) /\ Cardinality(S) \in Nat /\ (Cardinality(S) = 0 <=> S = {})
<1>1. S \in SUBSET Edges /\ IsFiniteSet(Edges)
  BY PyGraphAssumption DEF Incoming
<1>2. IsFiniteSet(S)
  BY <1>1, FS_Subset
<1> QED
  BY <1>2, FS_CardinalityType, FS_EmptySet

LEMMA InitTypes == Init => Types
<1> SUFFICES ASSUME Init PROVE Types
  OBVIOUS
<1>1. \A n \in Nodes : InDegree(n) \in Int
  <2> TAKE n \in Nodes
  <2>1. Incoming(n) \in SUBSET Incoming(n)
    OBVIOUS
  <2> QED
    BY <2>1, EdgeCounts DEF InDegree
<1>2. remaining \in [Nodes -> Int] /\ ready \subseteq Nodes
  BY <1>1 DEF Init
<1>3. /\ phase \in [Nodes -> Phases] /\ permit \in [Nodes -> Permits]
      /\ handler \in [Nodes -> HandlerStates]
  BY DEF Init, Phases, Permits, HandlerStates
<1>4. /\ outcome \in [Nodes -> Outcomes] /\ lastFailure \in [Nodes -> Failures]
      /\ result \in [Nodes -> Results] /\ run \in Runs
  BY RecordTypes DEF Init
<1>5. /\ attempts \in [Nodes -> Nat] /\ value \in Int /\ waiters \in Seq(Nodes)
      /\ running \in Int /\ observed \in Int /\ totalAttempts \in Nat
      /\ cancelled \in BOOLEAN /\ mainPc \in {"launch", "await", "return", "done"}
  BY PyPolicyAssumption DEF Init
<1> QED
  BY <1>2, <1>3, <1>4, <1>5 DEF Types

-----------------------------------------------------------------------------
(* The semaphore.                                                          *)

\* The tasks that wait are the ones in the queue, each once.
Queued ==
    /\ \A n \in Nodes : permit[n] = "queued" <=> \E i \in DOMAIN waiters : waiters[i] = n
    /\ \A i, j \in DOMAIN waiters : waiters[i] = waiters[j] => i = j

\* The permits the semaphore has left and those out add up.
Conserved ==
    /\ value \in Nat
    /\ value + Cardinality(PermitOwners) = Concurrency

Semaphore == Queued /\ Conserved

LEMMA OwnersFinite == IsFiniteSet(PermitOwners) /\ Cardinality(PermitOwners) \in Nat
<1>1. IsFiniteSet(Nodes) /\ PermitOwners \in SUBSET Nodes
  BY PyGraphAssumption DEF PermitOwners
<1>2. IsFiniteSet(PermitOwners)
  BY <1>1, FS_Subset
<1> QED
  BY <1>2, FS_CardinalityType

\* Removing the head of the queue, or a waiter in the middle of it.
LEMMA TailFacts ==
    ASSUME waiters \in Seq(Nodes), waiters # << >>
    PROVE  /\ Tail(waiters) \in Seq(Nodes)
           /\ Head(waiters) = waiters[1] /\ Head(waiters) \in Nodes /\ 1 \in DOMAIN waiters
           /\ \A i \in DOMAIN Tail(waiters) : i + 1 \in DOMAIN waiters /\ Tail(waiters)[i] = waiters[i + 1]
           /\ \A i \in DOMAIN waiters : i # 1 => i - 1 \in DOMAIN Tail(waiters) /\ Tail(waiters)[i - 1] = waiters[i]
           /\ \A i \in DOMAIN waiters : i \in Int
           /\ \A i \in DOMAIN Tail(waiters) : i \in Int /\ i >= 1
<1>1. /\ Tail(waiters) \in Seq(Nodes) /\ Len(Tail(waiters)) = Len(waiters) - 1
      /\ \A i \in 1..Len(Tail(waiters)) : Tail(waiters)[i] = waiters[i + 1]
      /\ Head(waiters) = waiters[1]
  BY HeadTailProperties
<1>2. /\ Len(waiters) \in Nat /\ Len(waiters) # 0 /\ DOMAIN waiters = 1..Len(waiters)
      /\ DOMAIN Tail(waiters) = 1..(Len(waiters) - 1)
      /\ \A i \in 1..Len(waiters) : waiters[i] \in Nodes
  BY <1>1, EmptySeq
<1>3. ASSUME NEW i \in DOMAIN Tail(waiters)
      PROVE  /\ i + 1 \in DOMAIN waiters /\ Tail(waiters)[i] = waiters[i + 1]
             /\ i \in Int /\ i >= 1
  BY <1>1, <1>2
<1>4. ASSUME NEW i \in DOMAIN waiters, i # 1
      PROVE  i - 1 \in DOMAIN Tail(waiters) /\ Tail(waiters)[i - 1] = waiters[i]
  <2>1. i - 1 \in 1..Len(Tail(waiters)) /\ (i - 1) + 1 = i
    BY <1>1, <1>2, <1>4
  <2> QED
    BY <2>1, <1>1, <1>2
<1>5. 1 \in DOMAIN waiters /\ Head(waiters) \in Nodes /\ \A i \in DOMAIN waiters : i \in Int
  BY <1>1, <1>2
<1> QED
  BY <1>1, <1>3, <1>4, <1>5

LEMMA WithoutFacts ==
    ASSUME waiters \in Seq(Nodes), NEW i \in DOMAIN waiters
    PROVE  /\ WithoutWaiter(i) \in Seq(Nodes)
           /\ \A k \in DOMAIN WithoutWaiter(i) :
                  \E l \in DOMAIN waiters : /\ l # i /\ WithoutWaiter(i)[k] = waiters[l]
                                            /\ (k < i => l = k) /\ (k >= i => l = k + 1)
           /\ \A l \in DOMAIN waiters : l # i =>
                  \E k \in DOMAIN WithoutWaiter(i) : WithoutWaiter(i)[k] = waiters[l]
           /\ DOMAIN WithoutWaiter(i) \subseteq Int /\ i \in Int
<1> DEFINE w == WithoutWaiter(i)
           L == Len(waiters)
<1>1. L \in Nat /\ DOMAIN waiters = 1..L /\ i \in 1..L /\ \A k \in 1..L : waiters[k] \in Nodes
  OBVIOUS
<1>2. DOMAIN w = 1..(L - 1) /\ \A k \in 1..(L - 1) : w[k] = IF k < i THEN waiters[k] ELSE waiters[k + 1]
  BY DEF WithoutWaiter
<1> HIDE DEF w, L
<1>3. ASSUME NEW k \in 1..(L - 1)
      PROVE  /\ w[k] \in Nodes
             /\ \E l \in 1..L : /\ l # i /\ w[k] = waiters[l]
                                /\ (k < i => l = k) /\ (k >= i => l = k + 1)
  <2>1. k \in 1..L /\ k + 1 \in 1..L
    BY <1>1
  <2>2. CASE k < i
    BY <1>1, <1>2, <2>1, <2>2
  <2>3. CASE ~(k < i)
    BY <1>1, <1>2, <2>1, <2>3
  <2> QED
    BY <2>2, <2>3
<1>4. ASSUME NEW l \in 1..L, l # i PROVE \E k \in 1..(L - 1) : w[k] = waiters[l]
  <2>1. CASE l < i
    <3>1. l \in 1..(L - 1)
      BY <1>1, <2>1
    <3> QED
      BY <1>2, <2>1, <3>1
  <2>2. CASE l > i
    <3>1. l - 1 \in 1..(L - 1) /\ ~(l - 1 < i) /\ (l - 1) + 1 = l
      BY <1>1, <2>2
    <3> QED
      BY <1>2, <3>1
  <2> QED
    BY <1>1, <1>4, <2>1, <2>2
<1>5. w \in Seq(Nodes)
  <2>1. w = [k \in 1..(L - 1) |-> w[k]]
    BY <1>2 DEF w, WithoutWaiter, L
  <2>2. L - 1 \in Nat
    BY <1>1
  <2> QED
    BY <1>3, <2>1, <2>2
<1>6. \A k \in DOMAIN w : \E l \in DOMAIN waiters : /\ l # i /\ w[k] = waiters[l]
                                                     /\ (k < i => l = k) /\ (k >= i => l = k + 1)
  BY <1>1, <1>2, <1>3
<1>7. \A l \in DOMAIN waiters : l # i => \E k \in DOMAIN w : w[k] = waiters[l]
  BY <1>1, <1>2, <1>4
<1>8. DOMAIN w \subseteq Int /\ i \in Int
  BY <1>1, <1>2
<1> QED
  BY <1>5, <1>6, <1>7, <1>8 DEF w

\* Releasing a permit that n owns: it goes to the first task in the queue or
\* back to the semaphore.
LEMMA ReleaseEffect ==
    ASSUME Types, Semaphore, NEW n \in Nodes, permit[n] \in {"held", "returning"},
           NEW q \in {"none", "asked"}, Release([permit EXCEPT ![n] = q])
    PROVE  /\ permit' \in [Nodes -> Permits] /\ value' \in Int /\ waiters' \in Seq(Nodes)
           /\ permit'[n] = q
           /\ \A m \in Nodes \ {n} : \/ permit'[m] = permit[m]
                                     \/ permit[m] = "queued" /\ permit'[m] = "woken"
           /\ Semaphore'
<1>1. /\ permit \in [Nodes -> Permits] /\ waiters \in Seq(Nodes) /\ value \in Nat
      /\ Concurrency \in Nat
      /\ q \in Permits /\ q # "queued" /\ q \notin {"woken", "held", "returning"}
  BY PyPolicyAssumption DEF Types, Semaphore, Conserved, Permits
<1>2. /\ IsFiniteSet(PermitOwners) /\ Cardinality(PermitOwners) \in Nat
      /\ n \in PermitOwners /\ value + Cardinality(PermitOwners) = Concurrency
  BY OwnersFinite DEF PermitOwners, Semaphore, Conserved
<1>3. CASE waiters = << >> /\ value' = value + 1 /\ permit' = [permit EXCEPT ![n] = q] /\ waiters' = waiters
  <2>1. /\ permit' \in [Nodes -> Permits] /\ permit'[n] = q
        /\ \A m \in Nodes \ {n} : permit'[m] = permit[m]
    BY <1>1, <1>3
  <2>2. PermitOwners' = PermitOwners \ {n}
    BY <1>1, <2>1 DEF PermitOwners
  <2>3. Cardinality(PermitOwners') = Cardinality(PermitOwners) - 1
    BY <1>2, <2>2, FS_RemoveElement
  <2>4. Conserved'
    BY <1>1, <1>2, <1>3, <2>3 DEF Conserved
  <2>5. Queued'
    BY <1>1, <1>3, <2>1 DEF Queued, Semaphore
  <2> QED
    BY <1>1, <1>3, <2>1, <2>4, <2>5 DEF Semaphore
<1>4. CASE /\ waiters # << >> /\ waiters' = Tail(waiters) /\ value' = value
           /\ permit' = [[permit EXCEPT ![n] = q] EXCEPT ![Head(waiters)] = "woken"]
  <2> DEFINE h == Head(waiters)
  <2>1. /\ Tail(waiters) \in Seq(Nodes)
        /\ h = waiters[1] /\ h \in Nodes /\ 1 \in DOMAIN waiters
        /\ \A i \in DOMAIN Tail(waiters) : i + 1 \in DOMAIN waiters /\ Tail(waiters)[i] = waiters[i + 1]
        /\ \A i \in DOMAIN waiters : i # 1 => i - 1 \in DOMAIN Tail(waiters) /\ Tail(waiters)[i - 1] = waiters[i]
        /\ \A i \in DOMAIN waiters : i \in Int
        /\ \A i \in DOMAIN Tail(waiters) : i \in Int /\ i >= 1
    BY <1>1, <1>4, TailFacts
  <2>2. permit[h] = "queued" /\ h # n
    BY <2>1 DEF Semaphore, Queued
  <2>3. permit' = [[permit EXCEPT ![n] = q] EXCEPT ![h] = "woken"]
    BY <1>4
  <2> HIDE DEF h
  <2>4. /\ permit' \in [Nodes -> Permits] /\ permit'[n] = q /\ permit'[h] = "woken"
        /\ \A m \in Nodes \ {n, h} : permit'[m] = permit[m]
    BY <1>1, <2>1, <2>2, <2>3 DEF Permits
  <2>5. PermitOwners' = (PermitOwners \ {n}) \cup {h} /\ h \notin PermitOwners \ {n}
    BY <1>1, <2>1, <2>2, <2>4 DEF PermitOwners
  <2>6. /\ Cardinality(PermitOwners \ {n}) = Cardinality(PermitOwners) - 1
        /\ IsFiniteSet(PermitOwners \ {n})
    BY <1>2, FS_RemoveElement
  <2>7. Cardinality(PermitOwners') = Cardinality(PermitOwners \ {n}) + 1
    BY <2>5, <2>6, FS_AddElement
  <2>8. Conserved'
    BY <1>1, <1>2, <1>4, <2>6, <2>7 DEF Conserved
  <2>9. \A i, j \in DOMAIN waiters' : waiters'[i] = waiters'[j] => i = j
    BY <1>4, <2>1 DEF Semaphore, Queued
  <2>10. ASSUME NEW m \in Nodes
         PROVE  permit'[m] = "queued" <=> \E i \in DOMAIN waiters' : waiters'[i] = m
    <3>1. ASSUME NEW i \in DOMAIN waiters', waiters'[i] = h PROVE FALSE
      <4>1. i + 1 \in DOMAIN waiters /\ waiters[i + 1] = waiters[1] /\ i >= 1 /\ i \in Int
        BY <1>4, <2>1, <3>1
      <4>2. i + 1 = 1
        BY <2>1, <4>1 DEF Semaphore, Queued
      <4> QED
        BY <4>1, <4>2
    <3>2. CASE m = h
      BY <2>4, <3>1, <3>2
    <3>3. CASE m = n
      <4>1. ~ \E i \in DOMAIN waiters : waiters[i] = n
        BY DEF Semaphore, Queued
      <4> QED
        BY <1>1, <1>4, <2>1, <2>4, <3>3, <4>1
    <3>4. CASE m # h /\ m # n
      <4>1. permit'[m] = permit[m]
        BY <2>4, <3>4
      <4>2. permit[m] = "queued" <=> \E i \in DOMAIN waiters : waiters[i] = m
        BY DEF Semaphore, Queued
      <4>3. (\E i \in DOMAIN waiters' : waiters'[i] = m) => \E i \in DOMAIN waiters : waiters[i] = m
        BY <1>4, <2>1
      <4>4. (\E i \in DOMAIN waiters : waiters[i] = m) => \E i \in DOMAIN waiters' : waiters'[i] = m
        <5> SUFFICES ASSUME NEW i \in DOMAIN waiters, waiters[i] = m
                     PROVE  \E j \in DOMAIN waiters' : waiters'[j] = m
          OBVIOUS
        <5>1. i # 1
          BY <2>1, <3>4
        <5>2. i - 1 \in DOMAIN Tail(waiters) /\ Tail(waiters)[i - 1] = m
          BY <2>1, <5>1
        <5>3. waiters' = Tail(waiters)
          BY <1>4
        <5> QED
          BY <5>2, <5>3
      <4> QED
        BY <4>1, <4>2, <4>3, <4>4
    <3> QED
      BY <3>2, <3>3, <3>4
  <2> QED
    BY <1>1, <1>4, <2>1, <2>2, <2>4, <2>8, <2>9, <2>10 DEF Semaphore, Queued
<1> QED
  BY <1>3, <1>4 DEF Release

Owning == {"woken", "held", "returning"}

\* What a step of node n's tasks does to the semaphore.
SemaphoreStep(n) ==
    /\ permit' \in [Nodes -> Permits] /\ value' \in Int /\ waiters' \in Seq(Nodes)
    /\ \A m \in Nodes \ {n} : \/ permit'[m] = permit[m]
                              \/ permit[m] = "queued" /\ permit'[m] = "woken"
    /\ Semaphore'

LEMMA SemaphoreIdle ==
    ASSUME Types, Semaphore, UNCHANGED semaphoreVars, NEW n \in Nodes
    PROVE  SemaphoreStep(n) /\ permit'[n] = permit[n]
  BY DEF Types, Semaphore, Queued, Conserved, PermitOwners, semaphoreVars, SemaphoreStep

LEMMA SemaphoreRelease ==
    ASSUME Types, Semaphore, NEW n \in Nodes, permit[n] \in {"held", "returning"},
           NEW q \in {"none", "asked"}, Release([permit EXCEPT ![n] = q])
    PROVE  SemaphoreStep(n) /\ permit'[n] = q
  BY ReleaseEffect DEF SemaphoreStep

\* A task that neither takes nor gives back a permit nor waits for one.
LEMMA SemaphoreRelabel ==
    ASSUME Types, Semaphore, NEW n \in Nodes, NEW q \in Permits \ {"queued"},
           permit[n] # "queued", permit[n] \in Owning <=> q \in Owning,
           permit' = [permit EXCEPT ![n] = q], UNCHANGED <<value, waiters>>
    PROVE  SemaphoreStep(n) /\ permit'[n] = q
<1>1. /\ permit' \in [Nodes -> Permits] /\ permit'[n] = q
      /\ \A m \in Nodes \ {n} : permit'[m] = permit[m]
  BY DEF Types
<1>2. PermitOwners' = PermitOwners
  BY <1>1 DEF PermitOwners, Owning
<1>3. Conserved'
  BY <1>2 DEF Semaphore, Conserved
<1>4. Queued'
  BY <1>1 DEF Semaphore, Queued
<1> QED
  BY <1>1, <1>3, <1>4 DEF SemaphoreStep, Semaphore, Types

LEMMA SemaphoreTake ==
    ASSUME Types, Semaphore, NEW n \in Nodes, permit[n] = "asked", value > 0, value' = value - 1,
           permit' = [permit EXCEPT ![n] = "held"], UNCHANGED waiters
    PROVE  SemaphoreStep(n) /\ permit'[n] = "held"
<1>1. /\ permit' \in [Nodes -> Permits] /\ permit'[n] = "held"
      /\ \A m \in Nodes \ {n} : permit'[m] = permit[m]
  BY DEF Types, Permits
<1>2. PermitOwners' = PermitOwners \cup {n} /\ n \notin PermitOwners
  BY <1>1 DEF PermitOwners
<1>3. Cardinality(PermitOwners') = Cardinality(PermitOwners) + 1
  BY <1>2, OwnersFinite, FS_AddElement
<1>4. Conserved'
  <2>1. value \in Nat /\ value + Cardinality(PermitOwners) = Concurrency
    BY DEF Semaphore, Conserved
  <2>2. Cardinality(PermitOwners) \in Nat /\ Concurrency \in Nat
    BY OwnersFinite, PyPolicyAssumption
  <2> QED
    BY <1>3, <2>1, <2>2 DEF Conserved
<1>5. Queued'
  BY <1>1 DEF Semaphore, Queued
<1> QED
  BY <1>1, <1>4, <1>5 DEF SemaphoreStep, Semaphore, Types, Conserved

LEMMA SemaphoreWait ==
    ASSUME Types, Semaphore, NEW n \in Nodes, permit[n] = "asked", waiters' = Append(waiters, n),
           permit' = [permit EXCEPT ![n] = "queued"], UNCHANGED value
    PROVE  SemaphoreStep(n) /\ permit'[n] = "queued"
<1>1. /\ permit' \in [Nodes -> Permits] /\ permit'[n] = "queued"
      /\ \A m \in Nodes \ {n} : permit'[m] = permit[m]
  BY DEF Types, Permits
<1>2. PermitOwners' = PermitOwners
  BY <1>1 DEF PermitOwners
<1>3. Conserved'
  BY <1>2 DEF Semaphore, Conserved
<1> DEFINE L == Len(waiters)
<1>4. /\ L \in Nat /\ DOMAIN waiters = 1..L /\ waiters' \in Seq(Nodes)
      /\ DOMAIN waiters' = 1..(L + 1) /\ waiters'[L + 1] = n
      /\ \A i \in 1..L : waiters'[i] = waiters[i]
  BY AppendProperties DEF Types
<1> HIDE DEF L
<1>5. \A i \in 1..(L + 1) : i \in 1..L \/ i = L + 1
  BY <1>4
<1>6. 1..L \subseteq 1..(L + 1) /\ L + 1 \in 1..(L + 1)
  BY <1>4
<1>7. \A i \in 1..L : waiters[i] # n
  BY <1>4 DEF Semaphore, Queued
<1>8. \A i, j \in 1..(L + 1) : waiters'[i] = waiters'[j] => i = j
  BY <1>4, <1>5, <1>7 DEF Semaphore, Queued
<1>9. ASSUME NEW m \in Nodes
      PROVE  permit'[m] = "queued" <=> \E i \in 1..(L + 1) : waiters'[i] = m
  <2>1. CASE m = n
    BY <1>1, <1>4, <1>6, <2>1
  <2>2. CASE m # n
    <3>1. permit'[m] = "queued" <=> \E i \in 1..L : waiters[i] = m
      BY <1>1, <1>4, <2>2 DEF Semaphore, Queued
    <3> QED
      BY <1>4, <1>5, <1>6, <2>2, <3>1
  <2> QED
    BY <2>1, <2>2
<1>10. Queued'
  BY <1>4, <1>8, <1>9 DEF Queued
<1> QED
  BY <1>1, <1>3, <1>4, <1>10 DEF SemaphoreStep, Semaphore, Types

LEMMA SemaphoreLeave ==
    ASSUME Types, Semaphore, NEW n \in Nodes, permit[n] = "queued",
           NEW i \in DOMAIN waiters, waiters[i] = n, waiters' = WithoutWaiter(i),
           permit' = [permit EXCEPT ![n] = "none"], UNCHANGED value
    PROVE  SemaphoreStep(n) /\ permit'[n] = "none"
<1>1. /\ permit' \in [Nodes -> Permits] /\ permit'[n] = "none"
      /\ \A m \in Nodes \ {n} : permit'[m] = permit[m]
  BY DEF Types, Permits
<1>2. PermitOwners' = PermitOwners
  BY <1>1 DEF PermitOwners
<1>3. Conserved'
  BY <1>2 DEF Semaphore, Conserved
<1>4. /\ waiters' \in Seq(Nodes)
      /\ \A k \in DOMAIN waiters' :
             \E l \in DOMAIN waiters : /\ l # i /\ waiters'[k] = waiters[l]
                                       /\ (k < i => l = k) /\ (k >= i => l = k + 1)
      /\ \A l \in DOMAIN waiters : l # i => \E k \in DOMAIN waiters' : waiters'[k] = waiters[l]
      /\ DOMAIN waiters' \subseteq Int /\ i \in Int
  BY WithoutFacts DEF Types
<1>5. \A k, l \in DOMAIN waiters : waiters[k] = waiters[l] => k = l
  BY DEF Semaphore, Queued
<1>6. ASSUME NEW j \in DOMAIN waiters', NEW k \in DOMAIN waiters', waiters'[j] = waiters'[k]
      PROVE  j = k
  <2>1. PICK a \in DOMAIN waiters : /\ a # i /\ waiters'[j] = waiters[a]
                                    /\ (j < i => a = j) /\ (j >= i => a = j + 1)
    BY <1>4
  <2>2. PICK b \in DOMAIN waiters : /\ b # i /\ waiters'[k] = waiters[b]
                                    /\ (k < i => b = k) /\ (k >= i => b = k + 1)
    BY <1>4
  <2>3. a = b
    BY <1>5, <1>6, <2>1, <2>2
  <2>4. j \in Int /\ k \in Int /\ i \in Int
    BY <1>4
  <2> QED
    BY <2>1, <2>2, <2>3, <2>4
<1>7. ASSUME NEW m \in Nodes
      PROVE  permit'[m] = "queued" <=> \E k \in DOMAIN waiters' : waiters'[k] = m
  <2>1. CASE m = n
    BY <1>1, <1>4, <1>5, <2>1
  <2>2. CASE m # n
    <3>1. permit'[m] = "queued" <=> \E k \in DOMAIN waiters : waiters[k] = m
      BY <1>1, <2>2 DEF Semaphore, Queued
    <3> QED
      BY <1>4, <2>2, <3>1
  <2> QED
    BY <2>1, <2>2
<1>8. Queued'
  BY <1>6, <1>7 DEF Queued
<1> QED
  BY <1>1, <1>3, <1>4, <1>8 DEF SemaphoreStep, Semaphore, Types

-----------------------------------------------------------------------------
(* Steps of the tasks.                                                     *)

Attempting == {"calling", "running", "closing"}
Live == Phases \ {"idle", "finished", "settled"}

\* The permits a node can have in a phase.
Fits(p, q) ==
    /\ p \in Attempting \cup {"granted"} => q = "held"
    /\ p = "acquiring" => q \in {"asked", "queued", "woken", "held"}
    /\ p = "abandoning" => q \in {"none", "returning"}
    /\ p \in {"idle", "created", "delay", "finished", "settled"} => q = "none"

Matches == \A n \in Nodes : Fits(phase[n], permit[n])

\* The nodes a step of n's tasks does not concern.
Others(n) ==
    \A m \in Nodes \ {n} :
        /\ phase'[m] = phase[m] /\ handler'[m] = handler[m] /\ outcome'[m] = outcome[m]
        /\ attempts'[m] = attempts[m] /\ lastFailure'[m] = lastFailure[m] /\ result'[m] = result[m]

\* The variables of the node tasks keep their types.
TaskTypes ==
    /\ phase \in [Nodes -> Phases]
    /\ handler \in [Nodes -> HandlerStates]
    /\ outcome \in [Nodes -> Outcomes]
    /\ attempts \in [Nodes -> Nat]
    /\ lastFailure \in [Nodes -> Failures]
    /\ result \in [Nodes -> Results]
    /\ running \in Int /\ observed \in Int /\ totalAttempts \in Nat
    /\ cancelled \in BOOLEAN

Budget == totalAttempts <= AttemptLimit

\* What the retries of n remember of its last attempt.
Tried(n) ==
    \/ attempts[n] = 0 /\ lastFailure[n] = NoFailure
    \/ /\ attempts[n] > 0 /\ lastFailure[n].code \in ExecutionCodes
       /\ lastFailure[n].attempt = attempts[n]

\* The result of n says why it ended.
FailureTrue(n, r) ==
    /\ r.failure.code \notin {"none", "UPSTREAM_FAILED"}
    /\ r.failure.attempt = r.attempts
    /\ ~r.failure.retryable
    /\ r.failure.code \in ExecutionCodes => r.attempts = MaxAttempts[n] \/ totalAttempts = AttemptLimit
    /\ r.failure.code = "ATTEMPT_BUDGET_EXHAUSTED" => r.attempts = 0 /\ totalAttempts = AttemptLimit
    /\ r.failure.code = "NODE_CANCELLED" => cancelled

ResultTrue(n, r) ==
    \/ r.status = "succeeded" /\ r.failure = NoFailure
    \/ r.status = "failed" /\ FailureTrue(n, r)
    \/ /\ r.status = "skipped" /\ r.attempts = 0
       /\ \/ r.failure.code = "NODE_CANCELLED" /\ cancelled
          \/ r.failure.code = "UPSTREAM_FAILED"

\* What holds of node n alone, from its launch to its result.
Local(n) ==
    /\ attempts[n] <= MaxAttempts[n]
    /\ phase[n] \in {"idle", "created"} => attempts[n] = 0 /\ lastFailure[n] = NoFailure
    /\ phase[n] \in {"acquiring", "abandoning", "granted", "delay"} =>
           attempts[n] < MaxAttempts[n] /\ Tried(n)
    /\ phase[n] = "abandoning" => cancelled
    /\ phase[n] \in Attempting => attempts[n] > 0
    /\ phase[n] = "running" /\ handler[n] = "ended" => outcome[n] \in Endings
    /\ phase[n] = "closing" => \/ outcome[n] \in Endings
                               \/ outcome[n].code = "NODE_TIMEOUT"
                               \/ outcome[n].code = "NODE_CANCELLED" /\ cancelled
    /\ phase[n] = "finished" => result[n].status # "skipped"
    /\ phase[n] \in {"finished", "settled"} => ResultTrue(n, result[n])

\* running counts the attempts.
RunningStep(n) ==
    \/ (phase[n] \in Attempting <=> phase'[n] \in Attempting) /\ running' = running
    \/ phase[n] \notin Attempting /\ phase'[n] \in Attempting /\ running' = running + 1
    \/ phase[n] \in Attempting /\ phase'[n] \notin Attempting /\ running' = running - 1

\* A step of one of n's tasks.
Moves(n) ==
    /\ mainPc = "await" /\ UNCHANGED <<mainPc, ready, remaining, run>>
    /\ TaskTypes' /\ Others(n)
    /\ SemaphoreStep(n) /\ Fits(phase'[n], permit'[n])
    /\ \/ phase'[n] = phase[n] /\ result'[n] = result[n] /\ attempts'[n] = attempts[n]
       \/ phase[n] \in Live /\ phase'[n] \notin {"idle", "settled"}
    /\ RunningStep(n)
    /\ observed' = observed \/ (phase[n] = "granted" /\ observed' = Max({observed, running + 1}))
    /\ totalAttempts <= totalAttempts' /\ Budget'
    /\ cancelled => cancelled'
    /\ Local(n)'

\* What the steps of n's tasks rely on.
Relies(n) == Types /\ Semaphore /\ Matches /\ Budget /\ Local(n)

LEMMA MovesTypes ==
    ASSUME Types, NEW n \in Nodes, Moves(n)
    PROVE  Types'
  BY DEF Types, Moves, TaskTypes, SemaphoreStep

LEMMA MaxTwo ==
    ASSUME NEW a \in Int, NEW b \in Int
    PROVE  Max({a, b}) \in Int /\ Max({a, b}) >= a /\ Max({a, b}) >= b /\ Max({a, b}) \in {a, b}
<1>1. \E x \in {a, b} : \A y \in {a, b} : x >= y
  <2>1. CASE a >= b
    BY <2>1
  <2>2. CASE b >= a
    BY <2>2
  <2> QED
    BY <2>1, <2>2
<1>2. Max({a, b}) \in {a, b} /\ \A y \in {a, b} : Max({a, b}) >= y
  BY <1>1 DEF Max
<1> QED
  BY <1>2

LEMMA TypesParts == Types => TaskTypes
  BY DEF Types, TaskTypes

\* The failure Conclude records.
FailureOf(n, code) == [code |-> code, attempt |-> attempts[n], retryable |-> MayRetry(n, code)]

LEMMA FailureType ==
    ASSUME Types, NEW n \in Nodes, NEW code \in AttemptCodes
    PROVE  code # "ok" => FailureOf(n, code) \in Failures
<1> DEFINE b == MayRetry(n, code)
<1>1. b \in BOOLEAN
  BY DEF MayRetry
<1>2. attempts[n] \in Nat
  BY DEF Types
<1>3. FailureOf(n, code) = [code |-> code, attempt |-> attempts[n], retryable |-> b]
  BY DEF FailureOf
<1> HIDE DEF b
<1> QED
  BY <1>1, <1>2, <1>3 DEF Failures, FailureCodes, AttemptCodes, ExecutionCodes

\* How an attempt ends for its node.
Concluded(n, code, ports, set) ==
    \/ /\ code = "ok"
       /\ phase'[n] = "finished" /\ permit'[n] = "none"
       /\ result'[n] = Succeeded(attempts[n], ports)
    \/ /\ code # "ok" /\ ~MayRetry(n, code)
       /\ phase'[n] = "finished" /\ permit'[n] = "none"
       /\ result'[n] = Failed(attempts[n], FailureOf(n, code))
    \/ /\ code # "ok" /\ MayRetry(n, code) /\ set
       /\ phase'[n] = "finished" /\ permit'[n] = "none"
       /\ result'[n] = CancelledResult(attempts[n])
    \/ /\ code # "ok" /\ MayRetry(n, code) /\ ~set
       /\ lastFailure'[n] = FailureOf(n, code) /\ result'[n] = result[n]
       /\ \/ phase'[n] = "delay" /\ permit'[n] = "none" /\ n \in Delayed
          \/ phase'[n] = "acquiring" /\ permit'[n] = "asked"

LEMMA ConcludeEffect ==
    ASSUME Types, Semaphore, NEW n \in Nodes, permit[n] = "held", NEW code \in AttemptCodes,
           NEW ports \in SUBSET Ports, NEW set \in BOOLEAN, Conclude(n, code, ports, set),
           UNCHANGED attempts
    PROVE  /\ SemaphoreStep(n) /\ Fits(phase'[n], permit'[n])
           /\ phase' \in [Nodes -> Phases] /\ handler' \in [Nodes -> HandlerStates]
           /\ outcome' \in [Nodes -> Outcomes] /\ lastFailure' \in [Nodes -> Failures]
           /\ result' \in [Nodes -> Results] /\ running' = running - 1
           /\ Others(n)
           /\ Concluded(n, code, ports, set)
           /\ handler'[n] = "none"
<1>1. /\ running' = running - 1
      /\ handler' = [handler EXCEPT ![n] = "none"]
      /\ outcome' = [outcome EXCEPT ![n] = NoOutcome]
  BY DEF Conclude
<1>2. /\ handler' \in [Nodes -> HandlerStates] /\ outcome' \in [Nodes -> Outcomes] /\ handler'[n] = "none"
      /\ \A m \in Nodes \ {n} : handler'[m] = handler[m] /\ outcome'[m] = outcome[m]
  BY <1>1, RecordTypes DEF Types, HandlerStates
<1>3. attempts[n] \in Nat
  BY DEF Types
<1>4. CASE code = "ok" /\ Finish(n, Succeeded(attempts[n], ports))
           /\ Release([permit EXCEPT ![n] = "none"]) /\ UNCHANGED lastFailure
  <2>1. SemaphoreStep(n) /\ permit'[n] = "none"
    BY <1>4, SemaphoreRelease
  <2>2. Succeeded(attempts[n], ports) \in Results
    BY <1>3, RecordTypes
  <2>3. /\ phase' \in [Nodes -> Phases] /\ phase'[n] = "finished"
        /\ result' \in [Nodes -> Results] /\ result'[n] = Succeeded(attempts[n], ports)
        /\ \A m \in Nodes \ {n} : phase'[m] = phase[m] /\ result'[m] = result[m]
    BY <1>4, <2>2 DEF Types, Finish, Phases
  <2>4. Fits(phase'[n], permit'[n])
    BY <2>1, <2>3 DEF Fits, Attempting
  <2>5. Others(n) /\ lastFailure' \in [Nodes -> Failures]
    BY <1>2, <1>4, <2>3 DEF Others, Types
  <2>6. Concluded(n, code, ports, set)
    BY <1>4, <2>1, <2>3 DEF Concluded
  <2> QED
    BY <1>1, <1>2, <2>1, <2>3, <2>4, <2>5, <2>6
<1>5. CASE code # "ok"
  <2>1. lastFailure' = [lastFailure EXCEPT ![n] = FailureOf(n, code)]
    BY <1>5 DEF Conclude, FailureOf
  <2>2. FailureOf(n, code) \in Failures
    BY <1>5, FailureType
  <2>3. /\ lastFailure' \in [Nodes -> Failures] /\ lastFailure'[n] = FailureOf(n, code)
        /\ \A m \in Nodes \ {n} : lastFailure'[m] = lastFailure[m]
    BY <2>1, <2>2 DEF Types
  <2>4. ASSUME NEW r \in Results, Finish(n, r), Release([permit EXCEPT ![n] = "none"])
        PROVE  /\ SemaphoreStep(n) /\ permit'[n] = "none" /\ Fits(phase'[n], permit'[n])
               /\ phase' \in [Nodes -> Phases] /\ phase'[n] = "finished"
               /\ result' \in [Nodes -> Results] /\ result'[n] = r
               /\ \A m \in Nodes \ {n} : phase'[m] = phase[m] /\ result'[m] = result[m]
    <3>1. SemaphoreStep(n) /\ permit'[n] = "none"
      BY <2>4, SemaphoreRelease
    <3>2. /\ phase' \in [Nodes -> Phases] /\ phase'[n] = "finished"
          /\ result' \in [Nodes -> Results] /\ result'[n] = r
          /\ \A m \in Nodes \ {n} : phase'[m] = phase[m] /\ result'[m] = result[m]
      BY <2>4 DEF Types, Finish, Phases
    <3> QED
      BY <3>1, <3>2 DEF Fits, Attempting
  <2>5. ASSUME NEW p \in {"delay", "acquiring"}, NEW q \in {"none", "asked"},
               (p = "delay" /\ q = "none") \/ (p = "acquiring" /\ q = "asked"),
               phase' = [phase EXCEPT ![n] = p], Release([permit EXCEPT ![n] = q]), UNCHANGED result
        PROVE  /\ SemaphoreStep(n) /\ permit'[n] = q /\ Fits(phase'[n], permit'[n])
               /\ phase' \in [Nodes -> Phases] /\ phase'[n] = p
               /\ result' \in [Nodes -> Results] /\ result'[n] = result[n]
               /\ \A m \in Nodes \ {n} : phase'[m] = phase[m] /\ result'[m] = result[m]
    <3>1. SemaphoreStep(n) /\ permit'[n] = q
      BY <2>5, SemaphoreRelease
    <3>2. /\ phase' \in [Nodes -> Phases] /\ phase'[n] = p
          /\ result' \in [Nodes -> Results]
          /\ \A m \in Nodes \ {n} : phase'[m] = phase[m] /\ result'[m] = result[m]
      BY <2>5 DEF Types, Phases
    <3> QED
      BY <2>5, <3>1, <3>2 DEF Fits, Attempting
  <2>6. CASE ~MayRetry(n, code) /\ Finish(n, Failed(attempts[n], FailureOf(n, code)))
             /\ Release([permit EXCEPT ![n] = "none"])
    <3>1. Failed(attempts[n], FailureOf(n, code)) \in Results
      BY <1>3, <2>2, RecordTypes
    <3>2. /\ SemaphoreStep(n) /\ permit'[n] = "none" /\ Fits(phase'[n], permit'[n])
          /\ phase' \in [Nodes -> Phases] /\ phase'[n] = "finished"
          /\ result' \in [Nodes -> Results] /\ result'[n] = Failed(attempts[n], FailureOf(n, code))
          /\ \A m \in Nodes \ {n} : phase'[m] = phase[m] /\ result'[m] = result[m]
      BY <2>4, <2>6, <3>1
    <3>3. Others(n) /\ Concluded(n, code, ports, set)
      BY <1>2, <1>5, <2>3, <2>6, <3>2 DEF Others, Concluded
    <3> QED
      BY <1>1, <1>2, <2>3, <3>2, <3>3
  <2>7. CASE MayRetry(n, code) /\ set /\ Finish(n, CancelledResult(attempts[n]))
             /\ Release([permit EXCEPT ![n] = "none"])
    <3>1. CancelledResult(attempts[n]) \in Results
      BY <1>3, RecordTypes
    <3>2. /\ SemaphoreStep(n) /\ permit'[n] = "none" /\ Fits(phase'[n], permit'[n])
          /\ phase' \in [Nodes -> Phases] /\ phase'[n] = "finished"
          /\ result' \in [Nodes -> Results] /\ result'[n] = CancelledResult(attempts[n])
          /\ \A m \in Nodes \ {n} : phase'[m] = phase[m] /\ result'[m] = result[m]
      BY <2>4, <2>7, <3>1
    <3>3. Others(n) /\ Concluded(n, code, ports, set)
      BY <1>2, <1>5, <2>3, <2>7, <3>2 DEF Others, Concluded
    <3> QED
      BY <1>1, <1>2, <2>3, <3>2, <3>3
  <2>8. CASE MayRetry(n, code) /\ ~set /\ n \in Delayed /\ phase' = [phase EXCEPT ![n] = "delay"]
             /\ Release([permit EXCEPT ![n] = "none"]) /\ UNCHANGED result
    <3>2. /\ SemaphoreStep(n) /\ permit'[n] = "none" /\ Fits(phase'[n], permit'[n])
          /\ phase' \in [Nodes -> Phases] /\ phase'[n] = "delay"
          /\ result' \in [Nodes -> Results] /\ result'[n] = result[n]
          /\ \A m \in Nodes \ {n} : phase'[m] = phase[m] /\ result'[m] = result[m]
      BY <2>5, <2>8
    <3>3. Others(n) /\ Concluded(n, code, ports, set)
      BY <1>2, <1>5, <2>3, <2>8, <3>2 DEF Others, Concluded
    <3> QED
      BY <1>1, <1>2, <2>3, <3>2, <3>3
  <2>9. CASE MayRetry(n, code) /\ ~set /\ phase' = [phase EXCEPT ![n] = "acquiring"]
             /\ Release([permit EXCEPT ![n] = "asked"]) /\ UNCHANGED result
    <3>2. /\ SemaphoreStep(n) /\ permit'[n] = "asked" /\ Fits(phase'[n], permit'[n])
          /\ phase' \in [Nodes -> Phases] /\ phase'[n] = "acquiring"
          /\ result' \in [Nodes -> Results] /\ result'[n] = result[n]
          /\ \A m \in Nodes \ {n} : phase'[m] = phase[m] /\ result'[m] = result[m]
      BY <2>5, <2>9
    <3>3. Others(n) /\ Concluded(n, code, ports, set)
      BY <1>2, <1>5, <2>3, <2>9, <3>2 DEF Others, Concluded
    <3> QED
      BY <1>1, <1>2, <2>3, <3>2, <3>3
  <2> QED
    BY <1>5, <2>6, <2>7, <2>8, <2>9 DEF Conclude, FailureOf
<1> QED
  BY <1>4, <1>5 DEF Conclude

\* The parts of Relies, for use by name.
LEMMA ReliesFacts ==
    ASSUME NEW n \in Nodes, Relies(n)
    PROVE  /\ Types /\ TaskTypes /\ Semaphore /\ Fits(phase[n], permit[n]) /\ Budget /\ Local(n)
           /\ attempts[n] \in Nat /\ MaxAttempts[n] \in Nat /\ AttemptLimit \in Nat
  BY TypesParts, PyPolicyAssumption DEF Relies, Matches, Types

LEMMA HandlerReturnsMoves ==
    ASSUME NEW n \in Nodes, Relies(n), HandlerReturns(n)
    PROVE  Moves(n)
<1>1. /\ Types /\ TaskTypes /\ Semaphore /\ Fits(phase[n], permit[n]) /\ Budget /\ Local(n)
      /\ attempts[n] \in Nat /\ MaxAttempts[n] \in Nat /\ AttemptLimit \in Nat
  BY ReliesFacts
<1>2. PICK end \in Endings : outcome' = [outcome EXCEPT ![n] = end]
  BY DEF HandlerReturns
<1>3. /\ phase[n] = "running" /\ handler' = [handler EXCEPT ![n] = "ended"]
      /\ mainPc = "await"
      /\ UNCHANGED <<mainPc, graphVars, phase, attempts, lastFailure, result, semaphoreVars,
                     running, observed, totalAttempts, cancelled, run>>
  BY DEF HandlerReturns, LoopFree
<1>4. UNCHANGED <<mainPc, ready, remaining, phase, attempts, lastFailure, result,
                   running, observed, totalAttempts, cancelled, run>>
  BY <1>3 DEF graphVars
<1>5. end \in Outcomes
  BY RecordTypes
<1>6. TaskTypes' /\ Others(n) /\ outcome'[n] = end
  BY <1>1, <1>2, <1>3, <1>4, <1>5 DEF TaskTypes, Others, HandlerStates
<1>7. SemaphoreStep(n) /\ Fits(phase'[n], permit'[n])
  BY <1>1, <1>3, <1>4, SemaphoreIdle
<1>8. Local(n)'
  BY <1>1, <1>3, <1>4, <1>6 DEF Local, Attempting, Tried
<1>9. totalAttempts <= totalAttempts' /\ Budget'
  BY <1>1, <1>4 DEF Budget, TaskTypes
<1> QED
  BY <1>3, <1>4, <1>6, <1>7, <1>8, <1>9 DEF Moves, RunningStep

LEMMA HandlerUnwindsMoves ==
    ASSUME NEW n \in Nodes, Relies(n), HandlerUnwinds(n)
    PROVE  Moves(n)
<1>1. /\ Types /\ TaskTypes /\ Semaphore /\ Fits(phase[n], permit[n]) /\ Budget /\ Local(n)
      /\ attempts[n] \in Nat /\ MaxAttempts[n] \in Nat /\ AttemptLimit \in Nat
  BY ReliesFacts
<1>3. /\ phase[n] = "closing" /\ handler' = [handler EXCEPT ![n] = "ended"]
      /\ mainPc = "await"
      /\ UNCHANGED <<mainPc, graphVars, phase, outcome, attempts, lastFailure, result,
                     semaphoreVars, running, observed, totalAttempts, cancelled, run>>
  BY DEF HandlerUnwinds, LoopFree
<1>4. UNCHANGED <<mainPc, ready, remaining, phase, outcome, attempts, lastFailure, result,
                   running, observed, totalAttempts, cancelled, run>>
  BY <1>3 DEF graphVars
<1>6. TaskTypes' /\ Others(n)
  BY <1>1, <1>3, <1>4 DEF TaskTypes, Others, HandlerStates
<1>7. SemaphoreStep(n) /\ Fits(phase'[n], permit'[n])
  BY <1>1, <1>3, <1>4, SemaphoreIdle
<1>8. Local(n)'
  BY <1>1, <1>3, <1>4 DEF Local, Attempting
<1>9. totalAttempts <= totalAttempts' /\ Budget'
  BY <1>1, <1>4 DEF Budget, TaskTypes
<1> QED
  BY <1>3, <1>4, <1>6, <1>7, <1>8, <1>9 DEF Moves, RunningStep

\* The acquire task moves only the permit.
LEMMA AcquireTaskMoves ==
    ASSUME NEW n \in Nodes, Relies(n), AcquireTask(n)
    PROVE  Moves(n)
<1>1. /\ Types /\ TaskTypes /\ Semaphore /\ Fits(phase[n], permit[n]) /\ Budget /\ Local(n)
      /\ attempts[n] \in Nat /\ MaxAttempts[n] \in Nat /\ AttemptLimit \in Nat
  BY ReliesFacts
<1>2. /\ mainPc = "await"
      /\ UNCHANGED <<mainPc, graphVars, taskVars, running, observed, totalAttempts, cancelled, run>>
  BY DEF AcquireTask, AcquireStarts, AcquireResumes, AcquireUnwinds, LoopFree
<1>3. UNCHANGED <<mainPc, ready, remaining, phase, handler, outcome, attempts, lastFailure, result,
                   running, observed, totalAttempts, cancelled, run>>
  BY <1>2 DEF graphVars, taskVars
<1>4. phase[n] \in Phases
  BY <1>1 DEF TaskTypes
<1>5. SemaphoreStep(n) /\ Fits(phase[n], permit'[n])
  <2>1. CASE AcquireStarts(n)
    <3>1. phase[n] = "acquiring"
      BY <1>1, <1>4, <2>1 DEF AcquireStarts, Fits, Phases, Attempting
    <3>2. SemaphoreStep(n) /\ permit'[n] \in {"held", "queued"}
      BY <1>1, <2>1, SemaphoreTake, SemaphoreWait DEF AcquireStarts
    <3> QED
      BY <3>1, <3>2 DEF Fits, Attempting
  <2>2. CASE AcquireResumes(n)
    <3>1. phase[n] = "acquiring"
      BY <1>1, <1>4, <2>2 DEF AcquireResumes, Fits, Phases, Attempting
    <3>2. /\ permit[n] # "queued" /\ (permit[n] \in Owning <=> "held" \in Owning)
          /\ "held" \in Permits \ {"queued"}
          /\ permit' = [permit EXCEPT ![n] = "held"] /\ UNCHANGED <<value, waiters>>
      BY <2>2 DEF AcquireResumes, Owning, Permits
    <3>3. SemaphoreStep(n) /\ permit'[n] = "held"
      BY <1>1, <3>2, SemaphoreRelabel
    <3> QED
      BY <3>1, <3>3 DEF Fits, Attempting
  <2>3. CASE AcquireUnwinds(n)
    <3>1. phase[n] = "abandoning"
      BY <1>1, <1>4, <2>3 DEF AcquireUnwinds, Fits, Phases, Attempting
    <3>2. SemaphoreStep(n) /\ permit'[n] = "none"
      BY <1>1, <2>3, SemaphoreRelease DEF AcquireUnwinds
    <3> QED
      BY <3>1, <3>2 DEF Fits, Attempting
  <2> QED
    BY <2>1, <2>2, <2>3 DEF AcquireTask
<1>6. TaskTypes' /\ Others(n)
  BY <1>1, <1>3 DEF TaskTypes, Others
<1>7. Local(n)'
  BY <1>1, <1>3 DEF Local, Tried, ResultTrue, FailureTrue
<1>8. totalAttempts <= totalAttempts' /\ Budget'
  BY <1>1, <1>3 DEF Budget, TaskTypes
<1> QED
  BY <1>2, <1>3, <1>5, <1>6, <1>7, <1>8 DEF Moves, RunningStep

LEMMA FinishEffect ==
    ASSUME Types, NEW n \in Nodes, NEW r \in Results, Finish(n, r)
    PROVE  /\ phase' \in [Nodes -> Phases] /\ phase'[n] = "finished"
           /\ result' \in [Nodes -> Results] /\ result'[n] = r
           /\ \A m \in Nodes \ {n} : phase'[m] = phase[m] /\ result'[m] = result[m]
  BY DEF Types, Finish, Phases

LEMMA CancelledTrue ==
    ASSUME NEW n, NEW k \in Nat
    PROVE  /\ CancelledResult(k).status = "failed" /\ CancelledResult(k).attempts = k
           /\ CancelledResult(k).failure = Failure("NODE_CANCELLED", k)
           /\ Failure("NODE_CANCELLED", k).code = "NODE_CANCELLED"
           /\ Failure("NODE_CANCELLED", k).attempt = k
           /\ ~Failure("NODE_CANCELLED", k).retryable
           /\ cancelled => ResultTrue(n, CancelledResult(k))
  BY DEF CancelledResult, Failed, Failure, ResultTrue, FailureTrue, ExecutionCodes

\* A node that ends without having started an attempt in this step.
LEMMA FinishMoves ==
    ASSUME NEW n \in Nodes, Relies(n), NEW r \in Results, Finish(n, r),
           mainPc = "await", phase[n] \in Live \ Attempting,
           SemaphoreStep(n), permit'[n] = "none",
           r.status # "skipped", ResultTrue(n, r),
           UNCHANGED <<mainPc, graphVars, handler, outcome, attempts, lastFailure,
                       running, totalAttempts, cancelled, run>>,
           observed' \in Int,
           observed' = observed \/ (phase[n] = "granted" /\ observed' = Max({observed, running + 1}))
    PROVE  Moves(n)
<1>1. /\ Types /\ TaskTypes /\ Semaphore /\ Fits(phase[n], permit[n]) /\ Budget /\ Local(n)
      /\ attempts[n] \in Nat /\ MaxAttempts[n] \in Nat /\ AttemptLimit \in Nat
  BY ReliesFacts
<1>2. UNCHANGED <<mainPc, ready, remaining, handler, outcome, attempts, lastFailure,
                   running, totalAttempts, cancelled, run>>
  BY DEF graphVars
<1>3. /\ phase' \in [Nodes -> Phases] /\ phase'[n] = "finished"
      /\ result' \in [Nodes -> Results] /\ result'[n] = r
      /\ \A m \in Nodes \ {n} : phase'[m] = phase[m] /\ result'[m] = result[m]
  BY <1>1, FinishEffect
<1>4. TaskTypes' /\ Others(n)
  BY <1>1, <1>2, <1>3 DEF TaskTypes, Others
<1>5. Fits(phase'[n], permit'[n])
  BY <1>3 DEF Fits, Attempting
<1>6. ResultTrue(n, r)'
  BY <1>2 DEF ResultTrue, FailureTrue
<1>7. attempts'[n] <= MaxAttempts[n]
  BY <1>1, <1>2 DEF Local
<1>8. Local(n)'
  BY <1>3, <1>6, <1>7 DEF Local, Attempting, ResultTrue, FailureTrue
<1>9. totalAttempts <= totalAttempts' /\ Budget'
  BY <1>1, <1>2 DEF Budget, TaskTypes
<1>10. RunningStep(n)
  BY <1>2, <1>3 DEF RunningStep, Attempting, Live
<1> QED
  BY <1>2, <1>3, <1>4, <1>5, <1>8, <1>9, <1>10 DEF Moves

\* A node that goes on to another phase without a result.
LEMMA ProceedMoves ==
    ASSUME NEW n \in Nodes, Relies(n), NEW p \in {"acquiring", "abandoning", "granted"},
           phase' = [phase EXCEPT ![n] = p], p = "abandoning" => cancelled,
           mainPc = "await", phase[n] \in {"created", "acquiring", "delay"},
           SemaphoreStep(n), Fits(p, permit'[n]),
           UNCHANGED <<mainPc, graphVars, handler, outcome, attempts, lastFailure, result,
                       running, observed, totalAttempts, cancelled, run>>
    PROVE  Moves(n)
<1>1. /\ Types /\ TaskTypes /\ Semaphore /\ Fits(phase[n], permit[n]) /\ Budget /\ Local(n)
      /\ attempts[n] \in Nat /\ MaxAttempts[n] \in Nat \ {0} /\ AttemptLimit \in Nat
  BY ReliesFacts, PyPolicyAssumption
<1>2. UNCHANGED <<mainPc, ready, remaining, handler, outcome, attempts, lastFailure, result,
                   running, observed, totalAttempts, cancelled, run>>
  BY DEF graphVars
<1>3. phase' \in [Nodes -> Phases] /\ phase'[n] = p /\ \A m \in Nodes \ {n} : phase'[m] = phase[m]
  BY <1>1 DEF TaskTypes, Phases
<1>4. TaskTypes' /\ Others(n)
  BY <1>1, <1>2, <1>3 DEF TaskTypes, Others
<1>5. attempts[n] < MaxAttempts[n] /\ Tried(n)
  BY <1>1 DEF Local, Tried
<1>6. Local(n)'
  BY <1>1, <1>2, <1>3, <1>5 DEF Local, Tried, Attempting
<1>7. totalAttempts <= totalAttempts' /\ Budget'
  BY <1>1, <1>2 DEF Budget, TaskTypes
<1>8. RunningStep(n)
  BY <1>2, <1>3 DEF RunningStep, Attempting
<1> QED
  BY <1>2, <1>3, <1>4, <1>6, <1>7, <1>8 DEF Moves, Live, Phases

\* _execute_node up to its first await, and again after a delay.
LEMMA StartMoves ==
    ASSUME NEW n \in Nodes, Relies(n), Start(n) \/ DelayEnds(n)
    PROVE  Moves(n)
<1>1. /\ Types /\ TaskTypes /\ Semaphore /\ Fits(phase[n], permit[n]) /\ Budget /\ Local(n)
      /\ attempts[n] \in Nat /\ MaxAttempts[n] \in Nat /\ AttemptLimit \in Nat
  BY ReliesFacts
<1>2. /\ mainPc = "await" /\ phase[n] \in {"created", "delay"}
      /\ phase[n] = "created" => attempts[n] = 0
      /\ UNCHANGED <<mainPc, graphVars, handler, outcome, attempts, lastFailure, value, waiters,
                     running, observed, totalAttempts, cancelled, run>>
  BY <1>1 DEF Start, DelayEnds, LoopFree, Local
<1>3. permit[n] = "none" /\ phase[n] \in Live \ Attempting /\ observed \in Int
  BY <1>1, <1>2 DEF Fits, Live, Attempting, Phases, TaskTypes
<1>4. CASE UNCHANGED permit
  <2>1. SemaphoreStep(n) /\ permit'[n] = "none"
    BY <1>1, <1>2, <1>3, <1>4, SemaphoreIdle DEF semaphoreVars
  <2>2. CASE cancelled /\ Finish(n, CancelledResult(attempts[n]))
    <3>1. CancelledResult(attempts[n]) \in Results
      BY <1>1, RecordTypes
    <3>2. CancelledResult(attempts[n]).status # "skipped" /\ ResultTrue(n, CancelledResult(attempts[n]))
      BY <1>1, <2>2, CancelledTrue
    <3> QED
      BY <1>2, <1>3, <2>1, <2>2, <3>1, <3>2, FinishMoves
  <2>3. CASE Finish(n, Failed(0, Failure("EXECUTOR_NOT_FOUND", 0)))
    <3> DEFINE r == Failed(0, Failure("EXECUTOR_NOT_FOUND", 0))
    <3>1. r \in Results
      BY RecordTypes DEF FailureCodes
    <3>2. r.status # "skipped" /\ ResultTrue(n, r)
      BY DEF Failed, Failure, ResultTrue, FailureTrue, ExecutionCodes
    <3> HIDE DEF r
    <3>3. Finish(n, r)
      BY <2>3 DEF r
    <3> QED
      BY <1>2, <1>3, <2>1, <3>1, <3>2, <3>3, FinishMoves
  <2>4. CASE permit' = [permit EXCEPT ![n] = "asked"]
    <3>1. permit'[n] = "asked"
      BY <1>1, <2>4 DEF Types
    <3> QED
      BY <2>1, <3>1
  <2> QED
    BY <1>2, <2>2, <2>3, <2>4 DEF Start, DelayEnds
<1>5. CASE /\ phase' = [phase EXCEPT ![n] = "acquiring"]
           /\ permit' = [permit EXCEPT ![n] = "asked"] /\ UNCHANGED result
  <2>1. "asked" \in Permits \ {"queued"} /\ (permit[n] \in Owning <=> "asked" \in Owning) /\ permit[n] # "queued"
    BY <1>3 DEF Permits, Owning
  <2>2. SemaphoreStep(n) /\ permit'[n] = "asked"
    BY <1>1, <1>2, <1>5, <2>1, SemaphoreRelabel
  <2>3. Fits("acquiring", permit'[n])
    BY <2>2 DEF Fits, Attempting
  <2> QED
    BY <1>2, <1>5, <2>2, <2>3, ProceedMoves
<1> QED
  BY <1>4, <1>5 DEF Start, DelayEnds

\* The race of a permit and the event.
LEMMA ResumeAcquireMoves ==
    ASSUME NEW n \in Nodes, Relies(n), ResumeAcquire(n)
    PROVE  Moves(n)
<1>1. /\ Types /\ TaskTypes /\ Semaphore /\ Fits(phase[n], permit[n]) /\ Budget /\ Local(n)
      /\ attempts[n] \in Nat /\ MaxAttempts[n] \in Nat /\ AttemptLimit \in Nat
  BY ReliesFacts
<1>2. /\ mainPc = "await" /\ phase[n] = "acquiring"
      /\ UNCHANGED <<mainPc, graphVars, handler, outcome, attempts, lastFailure, result,
                     running, observed, totalAttempts, cancelled, run>>
  BY DEF ResumeAcquire, LoopFree
<1>3. CASE cancelled /\ Surrender(n) /\ phase' = [phase EXCEPT ![n] = "abandoning"]
  <2>1. SemaphoreStep(n) /\ permit'[n] \in {"none", "returning"}
    <3>1. CASE permit[n] = "held" /\ Release([permit EXCEPT ![n] = "none"])
      BY <1>1, <3>1, SemaphoreRelease
    <3>2. CASE permit[n] = "asked" /\ permit' = [permit EXCEPT ![n] = "none"] /\ UNCHANGED <<value, waiters>>
      <4>1. "none" \in Permits \ {"queued"} /\ (permit[n] \in Owning <=> "none" \in Owning) /\ permit[n] # "queued"
        BY <3>2 DEF Permits, Owning
      <4> QED
        BY <1>1, <3>2, <4>1, SemaphoreRelabel
    <3>3. CASE permit[n] = "woken" /\ permit' = [permit EXCEPT ![n] = "returning"] /\ UNCHANGED <<value, waiters>>
      <4>1. "returning" \in Permits \ {"queued"} /\ (permit[n] \in Owning <=> "returning" \in Owning) /\ permit[n] # "queued"
        BY <3>3 DEF Permits, Owning
      <4> QED
        BY <1>1, <3>3, <4>1, SemaphoreRelabel
    <3>4. CASE /\ permit[n] = "queued" /\ permit' = [permit EXCEPT ![n] = "none"] /\ UNCHANGED value
               /\ \E i \in DOMAIN waiters : waiters[i] = n /\ waiters' = WithoutWaiter(i)
      BY <1>1, <3>4, SemaphoreLeave
    <3> QED
      BY <1>3, <3>1, <3>2, <3>3, <3>4 DEF Surrender, CancelAcquire
  <2>2. Fits("abandoning", permit'[n])
    BY <2>1 DEF Fits, Attempting
  <2> QED
    BY <1>2, <1>3, <2>1, <2>2, ProceedMoves
<1>4. CASE permit[n] = "held" /\ phase' = [phase EXCEPT ![n] = "granted"] /\ UNCHANGED semaphoreVars
  <2>1. SemaphoreStep(n) /\ permit'[n] = "held"
    BY <1>1, <1>4, SemaphoreIdle
  <2>2. Fits("granted", permit'[n])
    BY <2>1 DEF Fits, Attempting
  <2> QED
    BY <1>2, <1>4, <2>1, <2>2, ProceedMoves
<1> QED
  BY <1>3, <1>4 DEF ResumeAcquire

LEMMA FinishAbandonMoves ==
    ASSUME NEW n \in Nodes, Relies(n), FinishAbandon(n)
    PROVE  Moves(n)
<1>1. /\ Types /\ TaskTypes /\ Semaphore /\ Fits(phase[n], permit[n]) /\ Budget /\ Local(n)
      /\ attempts[n] \in Nat /\ MaxAttempts[n] \in Nat /\ AttemptLimit \in Nat
  BY ReliesFacts
<1>2. /\ mainPc = "await" /\ phase[n] \in Live \ Attempting /\ permit[n] = "none"
      /\ Finish(n, CancelledResult(attempts[n])) /\ observed \in Int /\ cancelled
      /\ UNCHANGED <<mainPc, graphVars, handler, outcome, attempts, lastFailure, semaphoreVars,
                     running, observed, totalAttempts, cancelled, run>>
  BY <1>1 DEF FinishAbandon, LoopFree, Live, Attempting, Phases, TaskTypes, Local
<1>3. SemaphoreStep(n) /\ permit'[n] = "none"
  BY <1>1, <1>2, SemaphoreIdle
<1>4. CancelledResult(attempts[n]) \in Results
  BY <1>1, RecordTypes
<1>5. CancelledResult(attempts[n]).status # "skipped" /\ ResultTrue(n, CancelledResult(attempts[n]))
  BY <1>1, <1>2, CancelledTrue
<1> QED
  BY <1>2, <1>3, <1>4, <1>5, FinishMoves

\* The permit is granted: the event, the budget, or an attempt.
LEMMA ResumeGrantedMoves ==
    ASSUME NEW n \in Nodes, Relies(n), ResumeGranted(n)
    PROVE  Moves(n)
<1>1. /\ Types /\ TaskTypes /\ Semaphore /\ Fits(phase[n], permit[n]) /\ Budget /\ Local(n)
      /\ attempts[n] \in Nat /\ MaxAttempts[n] \in Nat /\ AttemptLimit \in Nat
  BY ReliesFacts
<1>2. /\ mainPc = "await" /\ phase[n] = "granted" /\ observed' = Max({observed, running + 1})
      /\ UNCHANGED <<mainPc, graphVars, outcome, lastFailure, cancelled, run>>
  BY DEF ResumeGranted, LoopFree
<1>3. phase[n] \in Live \ Attempting /\ permit[n] = "held"
  BY <1>1, <1>2 DEF Live, Attempting, Phases, Fits
<1>4. observed' \in Int
  <2>1. observed \in Int /\ running + 1 \in Int
    BY <1>1 DEF TaskTypes
  <2> QED
    BY <1>2, <2>1, MaxTwo
<1>5. CASE /\ StopsGranted /\ Finish(n, CancelledResult(attempts[n]))
           /\ Release([permit EXCEPT ![n] = "none"])
           /\ UNCHANGED <<handler, attempts, running, totalAttempts>>
  <2>1. SemaphoreStep(n) /\ permit'[n] = "none"
    BY <1>1, <1>3, <1>5, SemaphoreRelease
  <2>2. CancelledResult(attempts[n]) \in Results
    BY <1>1, RecordTypes
  <2>3. CancelledResult(attempts[n]).status # "skipped" /\ ResultTrue(n, CancelledResult(attempts[n]))
    BY <1>1, <1>5, CancelledTrue DEF StopsGranted
  <2> QED
    BY <1>2, <1>3, <1>4, <1>5, <2>1, <2>2, <2>3, FinishMoves
<1>6. CASE /\ totalAttempts >= AttemptLimit
           /\ Finish(n, Failed(attempts[n], RefusedFailure(n)))
           /\ Release([permit EXCEPT ![n] = "none"])
           /\ UNCHANGED <<handler, attempts, running, totalAttempts>>
  <2>1. SemaphoreStep(n) /\ permit'[n] = "none"
    BY <1>1, <1>3, <1>6, SemaphoreRelease
  <2>2. totalAttempts = AttemptLimit
    BY <1>1, <1>6 DEF Budget, TaskTypes
  <2>3. Tried(n) /\ lastFailure[n] \in Failures
    BY <1>1, <1>2 DEF Local, TaskTypes
  <2> DEFINE f == RefusedFailure(n)
  <2>4. CASE lastFailure[n] # NoFailure
    <3>1. f = [lastFailure[n] EXCEPT !.retryable = FALSE]
      BY <2>4 DEF RefusedFailure
    <3>2. /\ f \in Failures /\ f.code = lastFailure[n].code /\ f.attempt = lastFailure[n].attempt
          /\ ~f.retryable
      BY <2>3, <3>1 DEF Failures
    <3> HIDE DEF f
    <3>3. f.code \in ExecutionCodes /\ f.attempt = attempts[n]
      BY <2>3, <2>4, <3>2 DEF Tried
    <3>4. Failed(attempts[n], f) \in Results /\ Failed(attempts[n], f).status # "skipped"
      BY <1>1, <3>2, RecordTypes DEF Failed
    <3>5. ResultTrue(n, Failed(attempts[n], f))
      BY <2>2, <3>2, <3>3 DEF Failed, ResultTrue, FailureTrue, ExecutionCodes
    <3>6. Finish(n, Failed(attempts[n], f))
      BY <1>6 DEF f
    <3> QED
      BY <1>2, <1>3, <1>4, <1>6, <2>1, <3>4, <3>5, <3>6, FinishMoves
  <2>5. CASE lastFailure[n] = NoFailure
    <3>1. f = Failure("ATTEMPT_BUDGET_EXHAUSTED", attempts[n])
      BY <2>5 DEF RefusedFailure
    <3>2. attempts[n] = 0
      BY <2>3, <2>5 DEF Tried, NoFailure, ExecutionCodes
    <3>3. /\ f \in Failures /\ f.code = "ATTEMPT_BUDGET_EXHAUSTED" /\ f.attempt = attempts[n] /\ ~f.retryable
      BY <1>1, <3>1, RecordTypes DEF Failure, FailureCodes
    <3> HIDE DEF f
    <3>4. Failed(attempts[n], f) \in Results /\ Failed(attempts[n], f).status # "skipped"
      BY <1>1, <3>3, RecordTypes DEF Failed
    <3>5. ResultTrue(n, Failed(attempts[n], f))
      BY <2>2, <3>2, <3>3 DEF Failed, ResultTrue, FailureTrue, ExecutionCodes
    <3>6. Finish(n, Failed(attempts[n], f))
      BY <1>6 DEF f
    <3> QED
      BY <1>2, <1>3, <1>4, <1>6, <2>1, <3>4, <3>5, <3>6, FinishMoves
  <2> QED
    BY <2>4, <2>5
<1>7. CASE /\ totalAttempts < AttemptLimit /\ totalAttempts' = totalAttempts + 1
           /\ attempts' = [attempts EXCEPT ![n] = @ + 1]
           /\ running' = running + 1
           /\ phase' = [phase EXCEPT ![n] = IF n \in Sync THEN "calling" ELSE "running"]
           /\ handler' = [handler EXCEPT ![n] = "busy"]
           /\ UNCHANGED <<result, semaphoreVars>>
  <2>1. UNCHANGED <<mainPc, ready, remaining, outcome, lastFailure, cancelled, run, result>>
    BY <1>2, <1>7 DEF graphVars
  <2>2. /\ phase' \in [Nodes -> Phases] /\ phase'[n] \in {"calling", "running"}
        /\ attempts' \in [Nodes -> Nat] /\ attempts'[n] = attempts[n] + 1
        /\ handler' \in [Nodes -> HandlerStates] /\ handler'[n] = "busy"
        /\ \A m \in Nodes \ {n} : phase'[m] = phase[m] /\ attempts'[m] = attempts[m] /\ handler'[m] = handler[m]
    BY <1>1, <1>7 DEF TaskTypes, Phases, HandlerStates
  <2>3. TaskTypes' /\ Others(n)
    BY <1>1, <1>4, <1>7, <2>1, <2>2 DEF TaskTypes, Others
  <2>4. SemaphoreStep(n) /\ permit'[n] = "held"
    BY <1>1, <1>3, <1>7, SemaphoreIdle
  <2>5. Fits(phase'[n], permit'[n])
    BY <2>2, <2>4 DEF Fits, Attempting
  <2>6. attempts[n] < MaxAttempts[n]
    BY <1>1, <1>2 DEF Local
  <2>7. attempts'[n] <= MaxAttempts[n] /\ attempts'[n] > 0
    BY <1>1, <2>2, <2>6
  <2>8. Local(n)'
    BY <2>2, <2>7 DEF Local, Attempting
  <2>9. totalAttempts <= totalAttempts' /\ Budget'
    BY <1>1, <1>7 DEF Budget, TaskTypes
  <2>10. RunningStep(n)
    BY <1>2, <1>7, <2>2 DEF RunningStep, Attempting
  <2> QED
    BY <1>2, <1>3, <2>1, <2>2, <2>3, <2>4, <2>5, <2>8, <2>9, <2>10 DEF Moves
<1> QED
  BY <1>5, <1>6, <1>7 DEF ResumeGranted

\* asyncio.wait of _attempt returns.
LEMMA ResumeAttemptMoves ==
    ASSUME NEW n \in Nodes, Relies(n), ResumeAttempt(n)
    PROVE  Moves(n)
<1>1. /\ Types /\ TaskTypes /\ Semaphore /\ Fits(phase[n], permit[n]) /\ Budget /\ Local(n)
      /\ attempts[n] \in Nat /\ MaxAttempts[n] \in Nat /\ AttemptLimit \in Nat
  BY ReliesFacts
<1>2. /\ mainPc = "await" /\ phase[n] = "running" /\ phase' = [phase EXCEPT ![n] = "closing"]
      /\ UNCHANGED <<mainPc, graphVars, handler, attempts, lastFailure, result, semaphoreVars,
                     running, observed, totalAttempts, cancelled, run>>
  BY DEF ResumeAttempt, LoopFree
<1>3. UNCHANGED <<mainPc, ready, remaining, handler, attempts, lastFailure, result,
                   running, observed, totalAttempts, cancelled, run>>
  BY <1>2 DEF graphVars
<1>4. /\ phase' \in [Nodes -> Phases] /\ phase'[n] = "closing"
      /\ \A m \in Nodes \ {n} : phase'[m] = phase[m]
  BY <1>1, <1>2 DEF TaskTypes, Phases
<1>5. /\ outcome' \in [Nodes -> Outcomes] /\ \A m \in Nodes \ {n} : outcome'[m] = outcome[m]
      /\ \/ outcome'[n] \in Endings
         \/ outcome'[n].code = "NODE_TIMEOUT"
         \/ outcome'[n].code = "NODE_CANCELLED" /\ cancelled
  <2>1. outcome \in [Nodes -> Outcomes]
    BY <1>1 DEF TaskTypes
  <2>2. \A c \in {"NODE_CANCELLED", "NODE_TIMEOUT"} : [code |-> c, ports |-> {}] \in Outcomes
    BY DEF Outcomes, ExecutionCodes
  <2>3. CASE cancelled /\ outcome' = [outcome EXCEPT ![n] = [code |-> "NODE_CANCELLED", ports |-> {}]]
    BY <2>1, <2>2, <2>3
  <2>4. CASE outcome' = [outcome EXCEPT ![n] = [code |-> "NODE_TIMEOUT", ports |-> {}]]
    BY <2>1, <2>2, <2>4
  <2>5. CASE handler[n] = "ended" /\ UNCHANGED outcome
    BY <1>1, <1>2, <2>1, <2>5 DEF Local
  <2> QED
    BY <2>3, <2>4, <2>5 DEF ResumeAttempt
<1>6. TaskTypes' /\ Others(n)
  BY <1>1, <1>3, <1>4, <1>5 DEF TaskTypes, Others
<1>7. SemaphoreStep(n) /\ permit'[n] = permit[n]
  BY <1>1, <1>2, SemaphoreIdle
<1>8. Fits(phase'[n], permit'[n])
  BY <1>1, <1>2, <1>4, <1>7 DEF Fits, Attempting
<1>9. attempts[n] <= MaxAttempts[n] /\ attempts[n] > 0
  BY <1>1, <1>2 DEF Local, Attempting
<1>10. Local(n)'
  BY <1>3, <1>4, <1>5, <1>9 DEF Local
<1>11. totalAttempts <= totalAttempts' /\ Budget'
  BY <1>1, <1>3 DEF Budget, TaskTypes
<1>12. RunningStep(n)
  BY <1>2, <1>3, <1>4 DEF RunningStep, Attempting
<1> QED
  BY <1>2, <1>3, <1>4, <1>6, <1>7, <1>8, <1>10, <1>11, <1>12 DEF Moves, Live, Phases

\* An attempt that ends with a code: a result, a delay, or another acquire.
LEMMA ConcludeMoves ==
    ASSUME NEW n \in Nodes, Relies(n), mainPc = "await", phase[n] \in Attempting,
           NEW code \in AttemptCodes \ {"none"}, NEW ports \in SUBSET Ports, NEW set \in BOOLEAN,
           cancelled' = set, cancelled => set, code = "NODE_CANCELLED" => set,
           Conclude(n, code, ports, set),
           UNCHANGED <<mainPc, graphVars, attempts, observed, totalAttempts, run>>
    PROVE  Moves(n) /\ Concluded(n, code, ports, set)
<1>1. /\ Types /\ TaskTypes /\ Semaphore /\ Fits(phase[n], permit[n]) /\ Budget /\ Local(n)
      /\ attempts[n] \in Nat /\ MaxAttempts[n] \in Nat /\ AttemptLimit \in Nat
  BY ReliesFacts
<1>2. UNCHANGED <<mainPc, ready, remaining, attempts, observed, totalAttempts, run>>
  BY DEF graphVars
<1>3. permit[n] = "held"
  BY <1>1 DEF Fits
<1>4. /\ SemaphoreStep(n) /\ Fits(phase'[n], permit'[n])
      /\ phase' \in [Nodes -> Phases] /\ handler' \in [Nodes -> HandlerStates]
      /\ outcome' \in [Nodes -> Outcomes] /\ lastFailure' \in [Nodes -> Failures]
      /\ result' \in [Nodes -> Results] /\ running' = running - 1
      /\ Others(n)
      /\ Concluded(n, code, ports, set)
  BY <1>1, <1>2, <1>3, ConcludeEffect
<1>5. TaskTypes'
  BY <1>1, <1>2, <1>4 DEF TaskTypes
<1>6. totalAttempts <= totalAttempts' /\ Budget'
  BY <1>1, <1>2 DEF Budget, TaskTypes
<1>7. phase'[n] \in {"finished", "delay", "acquiring"}
  BY <1>4 DEF Concluded
<1>8. RunningStep(n)
  BY <1>4, <1>7 DEF RunningStep, Attempting
<1>9. phase[n] \in Live /\ phase'[n] \notin {"idle", "settled"}
  BY <1>7 DEF Live, Attempting, Phases
<1>10. attempts[n] <= MaxAttempts[n] /\ attempts[n] > 0
  BY <1>1 DEF Local
<1> DEFINE f == FailureOf(n, code)
<1>11. f.code = code /\ f.attempt = attempts[n] /\ (f.retryable <=> MayRetry(n, code))
  BY DEF FailureOf
<1> HIDE DEF f
<1>12. MayRetry(n, code) <=> attempts[n] < MaxAttempts[n] /\ code # "NODE_CANCELLED"
  BY DEF MayRetry
<1>13. CASE code = "ok" /\ phase'[n] = "finished" /\ result'[n] = Succeeded(attempts[n], ports)
  <2>1. result'[n].status = "succeeded" /\ result'[n].failure = NoFailure
    BY <1>13 DEF Succeeded
  <2>2. Local(n)'
    BY <1>2, <1>10, <1>13, <2>1 DEF Local, ResultTrue, Attempting
  <2> QED
    BY <1>2, <1>4, <1>5, <1>6, <1>8, <1>9, <2>2 DEF Moves
<1>14. CASE /\ code # "ok" /\ ~MayRetry(n, code) /\ phase'[n] = "finished"
            /\ result'[n] = Failed(attempts[n], f)
  <2>1. result'[n].status = "failed" /\ result'[n].failure = f /\ result'[n].attempts = attempts[n]
    BY <1>14 DEF Failed
  <2>2. code # "NODE_CANCELLED" => attempts[n] = MaxAttempts[n]
    BY <1>1, <1>10, <1>12, <1>14
  <2>3. code \in ExecutionCodes \cup {"NODE_CANCELLED"}
    BY <1>14 DEF AttemptCodes
  <2>4. FailureTrue(n, result[n])'
    BY <1>11, <1>14, <2>1, <2>2, <2>3 DEF FailureTrue, ExecutionCodes
  <2>5. Local(n)'
    BY <1>2, <1>10, <1>14, <2>1, <2>4 DEF Local, ResultTrue, FailureTrue, Attempting
  <2> QED
    BY <1>2, <1>4, <1>5, <1>6, <1>8, <1>9, <2>5 DEF Moves
<1>15. CASE set /\ phase'[n] = "finished" /\ result'[n] = CancelledResult(attempts[n])
  <2>1. /\ result'[n].status = "failed" /\ result'[n].attempts = attempts[n]
        /\ result'[n].failure.code = "NODE_CANCELLED" /\ result'[n].failure.attempt = attempts[n]
        /\ ~result'[n].failure.retryable
    BY <1>1, <1>15, CancelledTrue
  <2>2. FailureTrue(n, result[n])'
    BY <1>15, <2>1 DEF FailureTrue, ExecutionCodes
  <2>3. Local(n)'
    BY <1>2, <1>10, <1>15, <2>1, <2>2 DEF Local, ResultTrue, FailureTrue, Attempting
  <2> QED
    BY <1>2, <1>4, <1>5, <1>6, <1>8, <1>9, <2>3 DEF Moves
<1>16. CASE /\ code # "ok" /\ MayRetry(n, code) /\ lastFailure'[n] = f
            /\ phase'[n] \in {"delay", "acquiring"}
  <2>1. code \in ExecutionCodes
    BY <1>12, <1>16 DEF AttemptCodes
  <2>2. Tried(n)'
    BY <1>2, <1>10, <1>11, <1>16, <2>1 DEF Tried
  <2>3. Local(n)'
    BY <1>2, <1>10, <1>12, <1>16, <2>2 DEF Local, Attempting
  <2> QED
    BY <1>2, <1>4, <1>5, <1>6, <1>8, <1>9, <2>3 DEF Moves
<1> QED
  BY <1>4, <1>13, <1>14, <1>15, <1>16 DEF Concluded, f

LEMMA EndingCodes ==
    ASSUME NEW end \in Endings
    PROVE  /\ end.code \in {"ok", "INVALID_OUTPUT", "raised", "NODE_TIMEOUT", "self-cancelled"}
           /\ end.ports \in SUBSET Ports
  BY DEF Endings

\* A synchronous handler, which may set the event itself.
LEMMA SyncReturnsMoves ==
    ASSUME NEW n \in Nodes, Relies(n), SyncReturns(n)
    PROVE  /\ Moves(n) /\ phase[n] = "calling" /\ UNCHANGED <<attempts, totalAttempts>>
           /\ \E code \in AttemptCodes \ {"none"}, ports \in SUBSET Ports :
                  /\ Concluded(n, code, ports, cancelled')
                  /\ code = "NODE_CANCELLED" => cancelled'
                  /\ code = "ok" => ~cancelled'
<1>1. PICK end \in Endings, s \in BOOLEAN :
          /\ cancelled' = (cancelled \/ s)
          /\ LET code == IF end.code \in {"NODE_TIMEOUT", "INVALID_OUTPUT"} THEN end.code
                         ELSE IF cancelled' THEN "NODE_CANCELLED"
                         ELSE IF end.code = "ok" THEN "ok" ELSE "NODE_EXECUTION_FAILED"
             IN  Conclude(n, code, end.ports, cancelled')
  BY DEF SyncReturns
<1> DEFINE code == IF end.code \in {"NODE_TIMEOUT", "INVALID_OUTPUT"} THEN end.code
                   ELSE IF cancelled' THEN "NODE_CANCELLED"
                   ELSE IF end.code = "ok" THEN "ok" ELSE "NODE_EXECUTION_FAILED"
           ports == end.ports
           set == cancelled'
<1>2. Conclude(n, code, ports, set)
  BY <1>1
<1>3. code \in AttemptCodes \ {"none"} /\ ports \in SUBSET Ports
  BY EndingCodes DEF AttemptCodes, ExecutionCodes
<1>4. cancelled \in BOOLEAN
  BY DEF Relies, Types
<1>5. set \in BOOLEAN /\ (cancelled => set)
  BY <1>1, <1>4
<1>6. (code = "NODE_CANCELLED" => set) /\ (code = "ok" => ~set)
  BY EndingCodes
<1>7. cancelled' = set
  OBVIOUS
<1> HIDE DEF code, ports, set
<1>8. /\ mainPc = "await" /\ phase[n] = "calling"
      /\ UNCHANGED <<mainPc, graphVars, attempts, observed, totalAttempts, run>>
  BY DEF SyncReturns
<1>9. phase[n] \in Attempting
  BY <1>8 DEF Attempting
<1>10. Moves(n) /\ Concluded(n, code, ports, set)
  BY <1>2, <1>3, <1>5, <1>6, <1>7, <1>8, <1>9, ConcludeMoves
<1> QED
  BY <1>3, <1>6, <1>7, <1>8, <1>10

\* The closing gather of an asynchronous attempt ends.
LEMMA CloseAttemptMoves ==
    ASSUME NEW n \in Nodes, Relies(n), CloseAttempt(n)
    PROVE  /\ Moves(n) /\ phase[n] = "closing" /\ UNCHANGED <<attempts, totalAttempts, cancelled>>
           /\ \E code \in AttemptCodes \ {"none"}, ports \in SUBSET Ports :
                  /\ Concluded(n, code, ports, cancelled')
                  /\ code = "NODE_CANCELLED" => cancelled'
<1> DEFINE code == CodeOf(n)
           ports == outcome[n].ports
           set == cancelled
<1>1. /\ Types /\ Local(n) /\ cancelled \in BOOLEAN /\ outcome[n] \in Outcomes
  BY DEF Relies, Types
<1>2. /\ mainPc = "await" /\ phase[n] = "closing" /\ phase[n] \in Attempting
      /\ Conclude(n, code, ports, set)
      /\ UNCHANGED <<mainPc, graphVars, attempts, observed, totalAttempts, cancelled, run>>
  BY DEF CloseAttempt, LoopFree, Attempting
<1>3. /\ outcome[n].code \in {"ok", "INVALID_OUTPUT", "raised", "NODE_TIMEOUT", "self-cancelled", "NODE_CANCELLED"}
      /\ outcome[n].code = "NODE_CANCELLED" => cancelled
  BY <1>1, <1>2, EndingCodes DEF Local
<1>4. code \in AttemptCodes \ {"none"} /\ (code = "NODE_CANCELLED" => set)
  BY <1>1, <1>3 DEF CodeOf, AttemptCodes, ExecutionCodes
<1>5. ports \in SUBSET Ports /\ set \in BOOLEAN /\ cancelled' = set /\ (cancelled => set)
  BY <1>1, <1>2 DEF Outcomes
<1> HIDE DEF code, ports, set
<1>6. Moves(n) /\ Concluded(n, code, ports, set)
  BY <1>2, <1>4, <1>5, ConcludeMoves
<1> QED
  BY <1>2, <1>4, <1>5, <1>6

LEMMA TasksMove ==
    ASSUME NEW n \in Nodes, Relies(n),
           NodeTask(n) \/ AcquireTask(n) \/ HandlerReturns(n) \/ HandlerUnwinds(n)
    PROVE  Moves(n)
<1>1. NodeTask(n) => Moves(n)
  BY StartMoves, ResumeAcquireMoves, FinishAbandonMoves, ResumeGrantedMoves, SyncReturnsMoves,
     ResumeAttemptMoves, CloseAttemptMoves DEF NodeTask
<1> QED
  BY <1>1, AcquireTaskMoves, HandlerReturnsMoves, HandlerUnwindsMoves

-----------------------------------------------------------------------------
(* The main task.                                                          *)

InAttempt == {n \in Nodes : phase[n] \in Attempting}
Unsettled(n) == {e \in Incoming(n) : e.from \notin Settled}

\* The ready list is exact: remaining counts the edges from nodes that have not
\* settled, and a node is ready when none is left and it was not launched.
Counting ==
    /\ \A n \in Nodes : remaining[n] = Cardinality(Unsettled(n))
    /\ ready = {n \in Nodes : phase[n] = "idle" /\ remaining[n] = 0}
    /\ \A n \in Nodes : phase[n] # "idle" => remaining[n] = 0

Measured ==
    /\ running = Cardinality(InAttempt)
    /\ observed <= Concurrency /\ observed >= 0

AllLocal == \A n \in Nodes : Local(n)

\* Only nodes whose dependencies succeeded are launched.
Launched ==
    \A n \in Nodes : phase[n] \notin {"idle", "settled"} \/ attempts[n] > 0 =>
        \A e \in Incoming(n) : result[e.from].status = "succeeded"

\* Nodes are skipped for a cause upstream or a cancellation.
Isolated ==
    \A n \in Settled :
        /\ NotSucceeded(n) # {} => result[n].status = "skipped"
        /\ result[n].status = "skipped" => NotSucceeded(n) # {} \/ cancelled
        /\ result[n].failure.code = "UPSTREAM_FAILED" => NotSucceeded(n) # {}

\* The return value, once there is one.
Reported ==
    /\ mainPc # "done" => run = NoRun
    /\ mainPc = "done" => StatusSound /\ run.status \in {"succeeded", "failed", "cancelled"}

PyInv ==
    /\ Types /\ Semaphore /\ Matches /\ Budget
    /\ Counting /\ Measured /\ AllLocal /\ Launched /\ Isolated /\ RunComplete /\ Reported

LEMMA InAttemptFinite == IsFiniteSet(InAttempt) /\ Cardinality(InAttempt) \in Nat
<1>1. IsFiniteSet(Nodes) /\ InAttempt \in SUBSET Nodes
  BY PyGraphAssumption DEF InAttempt
<1>2. IsFiniteSet(InAttempt)
  BY <1>1, FS_Subset
<1> QED
  BY <1>2, FS_CardinalityType

\* A node that has been launched has only settled upstream nodes.
LEMMA UpstreamSettled ==
    ASSUME Types, Counting, NEW n \in Nodes, remaining[n] = 0
    PROVE  \A e \in Incoming(n) : e.from \in Settled
<1>1. Unsettled(n) \in SUBSET Incoming(n)
  BY DEF Unsettled
<1>2. Unsettled(n) = {}
  BY <1>1, EdgeCounts DEF Counting
<1> QED
  BY <1>2 DEF Unsettled

\* A permit holder about to start an attempt leaves room for it.
LEMMA RoomForAttempt ==
    ASSUME Types, Semaphore, Matches, Measured, NEW n \in Nodes, phase[n] = "granted"
    PROVE  running + 1 <= Concurrency /\ running >= 0
<1>1. n \notin InAttempt /\ InAttempt \cup {n} \in SUBSET PermitOwners
  BY DEF InAttempt, PermitOwners, Matches, Fits, Attempting
<1>2. Cardinality(InAttempt \cup {n}) = Cardinality(InAttempt) + 1
  BY <1>1, InAttemptFinite, FS_AddElement
<1>3. Cardinality(InAttempt \cup {n}) <= Cardinality(PermitOwners)
  BY <1>1, OwnersFinite, FS_Subset
<1>4. value \in Nat /\ value + Cardinality(PermitOwners) = Concurrency /\ running = Cardinality(InAttempt)
  BY DEF Semaphore, Conserved, Measured
<1> QED
  BY <1>2, <1>3, <1>4, OwnersFinite, InAttemptFinite

LEMMA InitHolds == Init => PyInv
<1> SUFFICES ASSUME Init PROVE PyInv
  OBVIOUS
<1>1. Types
  BY InitTypes
<1>2. Semaphore
  <2>1. PermitOwners = {}
    BY DEF Init, PermitOwners
  <2>2. Cardinality(PermitOwners) = 0
    BY <2>1, FS_EmptySet
  <2>3. Conserved
    BY <2>2, PyPolicyAssumption DEF Init, Conserved
  <2>4. Queued
    BY DEF Init, Queued
  <2> QED
    BY <2>3, <2>4 DEF Semaphore
<1>3. Matches /\ Budget
  BY PyPolicyAssumption DEF Init, Matches, Budget, Fits, Attempting
<1>4. Settled = {} /\ \A n \in Nodes : Unsettled(n) = Incoming(n)
  BY DEF Init, Settled, Unsettled
<1>5. Counting
  BY <1>4 DEF Init, Counting, InDegree
<1>6. Measured
  <2>1. InAttempt = {}
    BY DEF Init, InAttempt, Attempting
  <2> QED
    BY <2>1, FS_EmptySet, PyPolicyAssumption DEF Init, Measured
<1>7. AllLocal
  BY PyPolicyAssumption DEF Init, AllLocal, Local, Attempting
<1>8. Launched /\ Isolated /\ RunComplete /\ Reported
  BY <1>4 DEF Init, Launched, Isolated, RunComplete, Reported
<1> QED
  BY <1>1, <1>2, <1>3, <1>5, <1>6, <1>7, <1>8 DEF PyInv

\* Steps of the tasks keep everything.
LEMMA MovesKeep ==
    ASSUME PyInv, NEW n \in Nodes, Moves(n)
    PROVE  PyInv'
<1>1. Types /\ Types'
  BY MovesTypes DEF PyInv
<1>2. /\ mainPc = "await" /\ UNCHANGED <<mainPc, ready, remaining, run>> /\ Others(n)
      /\ SemaphoreStep(n) /\ Fits(phase'[n], permit'[n])
      /\ \/ phase'[n] = phase[n] /\ result'[n] = result[n] /\ attempts'[n] = attempts[n]
         \/ phase[n] \in Live /\ phase'[n] \notin {"idle", "settled"}
      /\ RunningStep(n)
      /\ observed' = observed \/ (phase[n] = "granted" /\ observed' = Max({observed, running + 1}))
      /\ totalAttempts <= totalAttempts' /\ Budget'
      /\ cancelled => cancelled'
      /\ Local(n)'
  BY DEF Moves
<1>3. \A m \in Nodes \ {n} :
          /\ phase'[m] = phase[m] /\ handler'[m] = handler[m] /\ outcome'[m] = outcome[m]
          /\ attempts'[m] = attempts[m] /\ lastFailure'[m] = lastFailure[m] /\ result'[m] = result[m]
  BY <1>2 DEF Others
<1>4. Settled' = Settled /\ \A m \in Nodes : phase'[m] = "idle" <=> phase[m] = "idle"
  BY <1>2, <1>3 DEF Settled, Live
<1>5. \A m \in Settled : result'[m] = result[m]
  BY <1>2, <1>3 DEF Settled, Live
<1>6. Semaphore'
  BY <1>2 DEF SemaphoreStep
<1>7. Matches'
  <2>1. ASSUME NEW m \in Nodes \ {n} PROVE Fits(phase'[m], permit'[m])
    <3>1. Fits(phase[m], permit[m]) /\ phase[m] \in Phases
      BY <1>1 DEF PyInv, Matches, Types
    <3>2. permit'[m] = permit[m] \/ (permit[m] = "queued" /\ permit'[m] = "woken")
      BY <1>2 DEF SemaphoreStep
    <3> QED
      BY <1>3, <3>1, <3>2 DEF Fits, Attempting, Phases
  <2> QED
    BY <1>2, <2>1 DEF Matches
<1>8. Counting'
  <2>1. \A m \in Nodes : Unsettled(m)' = Unsettled(m)
    BY <1>4 DEF Unsettled
  <2> QED
    BY <1>2, <1>4, <2>1 DEF PyInv, Counting
<1>9. Measured'
  <2>1. IsFiniteSet(InAttempt) /\ Cardinality(InAttempt) \in Nat /\ running = Cardinality(InAttempt)
    BY InAttemptFinite DEF PyInv, Measured
  <2>2. running' = Cardinality(InAttempt')
    <3>1. CASE (phase[n] \in Attempting <=> phase'[n] \in Attempting) /\ running' = running
      <4>1. InAttempt' = InAttempt
        BY <1>3, <3>1 DEF InAttempt
      <4> QED
        BY <2>1, <3>1, <4>1
    <3>2. CASE phase[n] \notin Attempting /\ phase'[n] \in Attempting /\ running' = running + 1
      <4>1. InAttempt' = InAttempt \cup {n} /\ n \notin InAttempt
        BY <1>3, <3>2 DEF InAttempt
      <4> QED
        BY <2>1, <3>2, <4>1, FS_AddElement
    <3>3. CASE phase[n] \in Attempting /\ phase'[n] \notin Attempting /\ running' = running - 1
      <4>1. InAttempt' = InAttempt \ {n} /\ n \in InAttempt
        BY <1>3, <3>3 DEF InAttempt
      <4> QED
        BY <2>1, <3>3, <4>1, FS_RemoveElement
    <3> QED
      BY <1>2, <3>1, <3>2, <3>3 DEF RunningStep
  <2>3. observed' <= Concurrency /\ observed' >= 0
    <3>1. observed \in Int /\ running \in Int /\ Concurrency \in Nat /\ observed <= Concurrency /\ observed >= 0
      BY <1>1, PyPolicyAssumption DEF PyInv, Types, Measured
    <3>2. CASE phase[n] = "granted" /\ observed' = Max({observed, running + 1})
      <4>1. running + 1 <= Concurrency /\ running >= 0
        BY <3>2, RoomForAttempt DEF PyInv
      <4>2. running + 1 \in Int
        BY <3>1
      <4>3. Max({observed, running + 1}) \in {observed, running + 1}
        BY <3>1, <4>2, MaxTwo
      <4> QED
        BY <3>1, <3>2, <4>1, <4>3
    <3> QED
      BY <1>2, <3>1, <3>2
  <2> QED
    BY <2>2, <2>3 DEF Measured
<1>10. AllLocal'
  <2>1. ASSUME NEW m \in Nodes \ {n} PROVE Local(m)'
    <3>1. Local(m)
      BY DEF PyInv, AllLocal
    <3>2. totalAttempts = AttemptLimit => totalAttempts' = AttemptLimit
      BY <1>1, <1>2, PyPolicyAssumption DEF Budget, Types
    <3>4. Tried(m) => Tried(m)'
      BY <1>3 DEF Tried
    <3>5. ResultTrue(m, result[m]) => ResultTrue(m, result[m])'
      BY <1>2, <1>3, <3>2 DEF ResultTrue, FailureTrue
    <3> QED
      BY <1>2, <1>3, <3>1, <3>4, <3>5 DEF Local
  <2> QED
    BY <1>2, <2>1 DEF AllLocal
<1>11. Launched'
  <2>1. ASSUME NEW m \in Nodes, phase'[m] \notin {"idle", "settled"} \/ attempts'[m] > 0,
               NEW e \in Incoming(m)
        PROVE  result'[e.from].status = "succeeded"
    <3>1. phase[m] \notin {"idle", "settled"} \/ attempts[m] > 0
      BY <1>2, <1>3, <2>1 DEF Live
    <3>2. result[e.from].status = "succeeded"
      BY <3>1 DEF PyInv, Launched
    <3>3. Local(m) /\ phase[m] \in Phases
      BY <1>1 DEF PyInv, AllLocal, Types
    <3>4. phase[m] # "idle"
      BY <3>1, <3>3 DEF Local
    <3>5. e.from \in Settled
      BY <1>1, <3>4, UpstreamSettled DEF PyInv, Counting
    <3> QED
      BY <1>5, <3>2, <3>5
  <2> QED
    BY <2>1 DEF Launched
<1>12. Isolated'
  <2>1. \A m : NotSucceeded(m)' = NotSucceeded(m)
    BY <1>4, <1>5 DEF NotSucceeded
  <2> QED
    BY <1>2, <1>4, <1>5, <2>1 DEF PyInv, Isolated
<1>13. RunComplete' /\ Reported'
  BY <1>2 DEF PyInv, RunComplete, Reported
<1> QED
  BY <1>1, <1>2, <1>6, <1>7, <1>8, <1>9, <1>10, <1>11, <1>12, <1>13 DEF PyInv

\* settle for the nodes of done, none of which is settled or has an upstream
\* node left: the ready list stays exact.
LEMMA SettleCounts ==
    ASSUME Types, Counting, NEW done \in SUBSET Nodes, NEW results,
           \A n \in done : phase[n] # "settled" /\ remaining[n] = 0,
           Settle(done, results, ready \ done)
    PROVE  /\ Settled' = Settled \cup done
           /\ remaining' \in [Nodes -> Int] /\ phase' \in [Nodes -> Phases] /\ ready' \subseteq Nodes
           /\ Counting'
<1>1. /\ phase' = [n \in Nodes |-> IF n \in done THEN "settled" ELSE phase[n]]
      /\ remaining' = [m \in Nodes |-> remaining[m] - CountDown(done, m)]
      /\ ready' = (ready \ done) \cup {m \in Nodes : remaining[m] > 0 /\ remaining'[m] <= 0}
  BY DEF Settle
<1>2. phase \in [Nodes -> Phases] /\ ready \subseteq Nodes
  BY DEF Types
<1>3. Settled' = Settled \cup done /\ phase' \in [Nodes -> Phases]
  BY <1>1, <1>2 DEF Settled, Phases
<1>4. ASSUME NEW m \in Nodes
      PROVE  /\ remaining[m] \in Nat /\ remaining'[m] \in Nat
             /\ remaining'[m] = Cardinality(Unsettled(m)')
             /\ remaining[m] = 0 => remaining'[m] = 0
  <2> DEFINE down == {e \in Incoming(m) : e.from \in done}
  <2>1. Unsettled(m)' = Unsettled(m) \ down
    BY <1>3 DEF Unsettled
  <2>2. down \subseteq Unsettled(m)
    BY DEF Unsettled, Settled
  <2>3. Unsettled(m) \in SUBSET Incoming(m) /\ Unsettled(m) \ down \in SUBSET Incoming(m) /\ down \in SUBSET Incoming(m)
    BY DEF Unsettled
  <2>4. IsFiniteSet(Unsettled(m)) /\ Cardinality(Unsettled(m)) \in Nat
        /\ (Cardinality(Unsettled(m)) = 0 <=> Unsettled(m) = {})
    BY <2>3, EdgeCounts
  <2>5. Cardinality(Unsettled(m) \ down) \in Nat
        /\ (Cardinality(Unsettled(m) \ down) = 0 <=> Unsettled(m) \ down = {})
    BY <2>3, EdgeCounts
  <2>6. Cardinality(Unsettled(m) \ down) = Cardinality(Unsettled(m)) - Cardinality(Unsettled(m) \cap down)
    BY <2>4, FS_Difference
  <2>7. Unsettled(m) \cap down = down
    BY <2>2
  <2>8. CountDown(done, m) = Cardinality(down)
    BY DEF CountDown
  <2>9. remaining[m] = Cardinality(Unsettled(m)) /\ remaining'[m] = remaining[m] - CountDown(done, m)
    BY <1>1 DEF Counting
  <2> QED
    BY <2>1, <2>4, <2>5, <2>6, <2>7, <2>8, <2>9
<1>5. remaining' \in [Nodes -> Int] /\ ready' \subseteq Nodes
  BY <1>1, <1>2, <1>4
<1>6. \A m \in Nodes : phase[m] # "idle" => remaining[m] = 0
  BY DEF Counting
<1>7. \A m \in Nodes : phase'[m] # "idle" => remaining'[m] = 0
  BY <1>1, <1>4, <1>6
<1>8. ASSUME NEW m \in Nodes
      PROVE  m \in ready' <=> phase'[m] = "idle" /\ remaining'[m] = 0
  <2>1. m \in ready <=> phase[m] = "idle" /\ remaining[m] = 0
    BY DEF Counting
  <2>2. (remaining[m] > 0 /\ remaining'[m] <= 0) <=> (remaining[m] # 0 /\ remaining'[m] = 0)
    BY <1>4
  <2>3. phase'[m] = "idle" <=> m \notin done /\ phase[m] = "idle"
    BY <1>1
  <2>4. m \in ready' <=> (m \in ready /\ m \notin done) \/ (remaining[m] # 0 /\ remaining'[m] = 0)
    BY <1>1, <2>2
  <2> QED
    BY <1>4, <1>6, <2>1, <2>3, <2>4
<1>9. ready' = {m \in Nodes : phase'[m] = "idle" /\ remaining'[m] = 0}
  BY <1>5, <1>8
<1>10. Counting'
  BY <1>4, <1>7, <1>9 DEF Counting
<1> QED
  BY <1>3, <1>5, <1>10

\* Settling with results that are true and name the right cause keeps the rest.
LEMMA SettleKeeps ==
    ASSUME PyInv, NEW done \in SUBSET Nodes, NEW results,
           \A n \in done :
               /\ phase[n] \in {"idle", "finished"} /\ remaining[n] = 0
               /\ results[n] \in Results /\ ResultTrue(n, results[n])
               /\ FailedUpstream(n) # {} => results[n].status = "skipped"
               /\ results[n].status = "skipped" => FailedUpstream(n) # {} \/ cancelled
               /\ results[n].failure.code = "UPSTREAM_FAILED" => FailedUpstream(n) # {},
           Settle(done, results, ready \ done), mainPc # "done",
           mainPc' \in {"launch", "await", "return"},
           mainPc' = "return" => Settled' = Nodes,
           UNCHANGED <<handler, outcome, attempts, lastFailure, semaphoreVars,
                       running, observed, totalAttempts, cancelled, run>>
    PROVE  PyInv'
<1>1. Types /\ TaskTypes /\ Counting /\ Matches
  BY TypesParts DEF PyInv
<1>2. UNCHANGED <<handler, outcome, attempts, lastFailure, permit, value, waiters,
                   running, observed, totalAttempts, cancelled, run>>
  BY DEF semaphoreVars
<1>3. /\ Settled' = Settled \cup done
      /\ remaining' \in [Nodes -> Int] /\ phase' \in [Nodes -> Phases] /\ ready' \subseteq Nodes
      /\ Counting'
  BY <1>1, SettleCounts
<1>4. /\ phase' = [n \in Nodes |-> IF n \in done THEN "settled" ELSE phase[n]]
      /\ result' = [n \in Nodes |-> IF n \in done THEN results[n] ELSE result[n]]
  BY DEF Settle
<1>5. Types'
  <2>1. result' \in [Nodes -> Results]
    BY <1>1, <1>4 DEF TaskTypes
  <2>2. mainPc' \in {"launch", "await", "return", "done"}
    OBVIOUS
  <2> QED
    BY <1>1, <1>2, <1>3, <2>1, <2>2 DEF Types
<1>6. Semaphore' /\ Budget'
  BY <1>2 DEF PyInv, Semaphore, Queued, Conserved, PermitOwners, Budget
<1>7. Matches'
  BY <1>1, <1>2, <1>4 DEF Matches, Fits, Attempting
<1>8. Measured'
  <2>1. InAttempt' = InAttempt
    BY <1>4 DEF InAttempt, Attempting
  <2> QED
    BY <1>2, <2>1 DEF PyInv, Measured
<1>9. AllLocal'
  <2>1. ASSUME NEW n \in Nodes PROVE Local(n)'
    <3>1. Local(n)
      BY DEF PyInv, AllLocal
    <3>2. CASE n \in done
      <4>1. phase'[n] = "settled" /\ result'[n] = results[n]
        BY <1>4, <3>2
      <4>2. ResultTrue(n, result[n])'
        BY <1>2, <3>2, <4>1 DEF ResultTrue, FailureTrue
      <4> QED
        BY <1>2, <3>1, <4>1, <4>2 DEF Local, Attempting
    <3>3. CASE n \notin done
      <4>1. phase'[n] = phase[n] /\ result'[n] = result[n]
        BY <1>4, <3>3
      <4>2. ResultTrue(n, result[n]) <=> ResultTrue(n, result[n])'
        BY <1>2, <4>1 DEF ResultTrue, FailureTrue
      <4>3. Tried(n) <=> Tried(n)'
        BY <1>2 DEF Tried
      <4> QED
        BY <1>2, <3>1, <4>1, <4>2, <4>3 DEF Local
    <3> QED
      BY <3>2, <3>3
  <2> QED
    BY <2>1 DEF AllLocal
<1>10. \A n \in Settled : n \notin done /\ result'[n] = result[n]
  BY <1>4 DEF Settled
<1>11. Launched'
  <2>1. ASSUME NEW m \in Nodes, phase'[m] \notin {"idle", "settled"} \/ attempts'[m] > 0,
               NEW e \in Incoming(m)
        PROVE  result'[e.from].status = "succeeded"
    <3>1. phase[m] \notin {"idle", "settled"} \/ attempts[m] > 0
      BY <1>2, <1>4, <2>1
    <3>2. result[e.from].status = "succeeded"
      BY <3>1 DEF PyInv, Launched
    <3>3. Local(m)
      BY DEF PyInv, AllLocal
    <3>4. attempts[m] \in Nat /\ phase[m] # "idle"
      BY <1>1, <3>1, <3>3 DEF Local, TaskTypes
    <3>5. e.from \in Settled
      BY <1>1, <3>4, UpstreamSettled DEF Counting
    <3> QED
      BY <1>10, <3>2, <3>5
  <2> QED
    BY <2>1 DEF Launched
<1>12. Isolated'
  <2>1. ASSUME NEW n \in Settled'
        PROVE  /\ NotSucceeded(n)' # {} => result'[n].status = "skipped"
               /\ result'[n].status = "skipped" => NotSucceeded(n)' # {} \/ cancelled'
               /\ result'[n].failure.code = "UPSTREAM_FAILED" => NotSucceeded(n)' # {}
    <3>1. n \in Nodes /\ remaining[n] = 0
      BY <1>1, <1>3 DEF Settled, Counting
    <3>2. \A m : EdgesBetween(m, n) # {} => m \in Settled
      BY <1>1, <3>1, UpstreamSettled DEF EdgesBetween, Incoming
    <3>3. NotSucceeded(n)' = NotSucceeded(n)
      BY <1>3, <1>10, <3>2 DEF NotSucceeded
    <3>4. NotSucceeded(n) = FailedUpstream(n)
      BY <3>2 DEF NotSucceeded, FailedUpstream, Settled
    <3>5. CASE n \in done
      <4>1. result'[n] = results[n]
        BY <1>4, <3>5
      <4> QED
        BY <1>2, <3>3, <3>4, <3>5, <4>1
    <3>6. CASE n \in Settled
      BY <1>2, <1>10, <3>3, <3>6 DEF PyInv, Isolated
    <3> QED
      BY <1>3, <3>5, <3>6
  <2> QED
    BY <2>1 DEF Isolated
<1>13. RunComplete' /\ Reported'
  BY <1>2 DEF RunComplete, Reported, PyInv
<1> QED
  BY <1>3, <1>5, <1>6, <1>7, <1>8, <1>9, <1>11, <1>12, <1>13 DEF PyInv

\* A node that is settled by launch_ready itself.
LEMMA LaunchSettlesKeeps ==
    ASSUME PyInv, NEW n \in Nodes, LaunchSkipped(n) \/ LaunchUnbound(n)
    PROVE  PyInv'
<1>1. Types /\ Counting
  BY DEF PyInv
<1>2. PICK r : /\ LaunchSettles(n, r) /\ r \in Results /\ ResultTrue(n, r)
               /\ FailedUpstream(n) # {} => r.status = "skipped"
               /\ r.status = "skipped" => FailedUpstream(n) # {} \/ cancelled
               /\ r.failure.code = "UPSTREAM_FAILED" => FailedUpstream(n) # {}
  <2>1. CASE LaunchSkipped(n)
    <3> DEFINE c == SkipCode
               r == Skipped(c)
    <3>1. /\ c \in {"NODE_CANCELLED", "UPSTREAM_FAILED"}
          /\ c = "NODE_CANCELLED" => cancelled
          /\ c = "UPSTREAM_FAILED" => FailedUpstream(n) # {}
          /\ cancelled \/ FailedUpstream(n) # {}
          /\ LaunchSettles(n, r)
      BY <2>1 DEF LaunchSkipped, SkipCode
    <3>2. c \in FailureCodes
      BY <3>1 DEF FailureCodes
    <3> HIDE DEF c
    <3>3. r \in Results /\ r.status = "skipped" /\ r.attempts = 0 /\ r.failure.code = c
      BY <3>2, RecordTypes DEF Skipped, Failure
    <3>4. ResultTrue(n, r)
      BY <3>1, <3>3 DEF ResultTrue
    <3> QED
      BY <3>1, <3>3, <3>4
  <2>2. CASE LaunchUnbound(n)
    <3> DEFINE r == Failed(0, Failure("INPUT_BINDING_FAILED", 0))
    <3>1. FailedUpstream(n) = {} /\ LaunchSettles(n, r)
      BY <2>2 DEF LaunchUnbound
    <3>2. /\ r \in Results /\ r.status = "failed" /\ r.attempts = 0
          /\ r.failure.code = "INPUT_BINDING_FAILED" /\ r.failure.attempt = 0 /\ ~r.failure.retryable
      BY RecordTypes DEF Failed, Failure, FailureCodes
    <3>3. ResultTrue(n, r)
      BY <3>2 DEF ResultTrue, FailureTrue, ExecutionCodes
    <3> QED
      BY <3>1, <3>2, <3>3
  <2> QED
    BY <2>1, <2>2
<1>3. /\ n \in ready /\ mainPc = "launch"
      /\ Settle({n}, [m \in {n} |-> r], ready \ {n})
      /\ UNCHANGED <<mainPc, handler, outcome, attempts, lastFailure, semaphoreVars,
                     running, observed, totalAttempts, cancelled, run>>
  BY <1>2 DEF LaunchSettles, NextReady
<1>4. phase[n] = "idle" /\ remaining[n] = 0
  BY <1>1, <1>3 DEF Counting
<1>5. [m \in {n} |-> r][n] = r
  OBVIOUS
<1> QED
  BY <1>2, <1>3, <1>4, <1>5, SettleKeeps

LEMMA SettleDoneKeeps ==
    ASSUME PyInv, SettleDone
    PROVE  PyInv'
<1> DEFINE done == {n \in Nodes : phase[n] = "finished"}
<1>1. Types /\ Counting
  BY DEF PyInv
<1>2. /\ Settle(done, result, ready) /\ mainPc = "await"
      /\ mainPc' = IF Settled \cup done = Nodes THEN "return" ELSE "launch"
      /\ UNCHANGED <<handler, outcome, attempts, lastFailure, semaphoreVars,
                     running, observed, totalAttempts, cancelled, run>>
  BY DEF SettleDone, LoopFree
<1>3. ready \ done = ready
  BY <1>1 DEF Counting
<1>4. ASSUME NEW n \in done
      PROVE  /\ phase[n] \in {"idle", "finished"} /\ remaining[n] = 0
             /\ result[n] \in Results /\ ResultTrue(n, result[n])
             /\ FailedUpstream(n) # {} => result[n].status = "skipped"
             /\ result[n].status = "skipped" => FailedUpstream(n) # {} \/ cancelled
             /\ result[n].failure.code = "UPSTREAM_FAILED" => FailedUpstream(n) # {}
  <2>1. n \in Nodes /\ phase[n] = "finished" /\ remaining[n] = 0 /\ result[n] \in Results
    BY <1>1 DEF Counting, Types
  <2>2. ResultTrue(n, result[n]) /\ result[n].status # "skipped"
    BY <2>1 DEF PyInv, AllLocal, Local
  <2>3. FailedUpstream(n) = {}
    BY <2>1 DEF PyInv, Launched, FailedUpstream, EdgesBetween, Incoming
  <2>4. result[n].failure.code # "UPSTREAM_FAILED"
    BY <2>2 DEF ResultTrue, FailureTrue, NoFailure
  <2> QED
    BY <2>1, <2>2, <2>3, <2>4
<1>5. Settled' = Settled \cup done
  BY <1>2 DEF Settle, Settled
<1>6. /\ mainPc # "done" /\ mainPc' \in {"launch", "await", "return"}
      /\ mainPc' = "return" => Settled' = Nodes
  BY <1>2, <1>5
<1>7. done \in SUBSET Nodes
  OBVIOUS
<1> HIDE DEF done
<1> QED
  BY <1>2, <1>3, <1>4, <1>6, <1>7, SettleKeeps

\* Steps that change no node but n, launched, and none otherwise.
LEMMA LaunchNodeKeeps ==
    ASSUME PyInv, NEW n \in Nodes, LaunchNode(n)
    PROVE  PyInv'
<1>1. Types /\ Counting /\ Matches
  BY DEF PyInv
<1>2. /\ n \in ready /\ mainPc = "launch" /\ FailedUpstream(n) = {}
      /\ ready' = ready \ {n} /\ phase' = [phase EXCEPT ![n] = "created"]
      /\ UNCHANGED <<mainPc, remaining, handler, outcome, attempts, lastFailure, result,
                     permit, value, waiters, running, observed, totalAttempts, cancelled, run>>
  BY DEF LaunchNode, NextReady, semaphoreVars
<1>3. phase[n] = "idle" /\ remaining[n] = 0
  BY <1>1, <1>2 DEF Counting
<1>4. /\ phase' \in [Nodes -> Phases] /\ phase'[n] = "created"
      /\ \A m \in Nodes \ {n} : phase'[m] = phase[m]
  BY <1>1, <1>2 DEF Types, Phases
<1>5. Types'
  BY <1>1, <1>2, <1>4 DEF Types
<1>6. Semaphore' /\ Budget'
  BY <1>2 DEF PyInv, Semaphore, Queued, Conserved, PermitOwners, Budget
<1>7. Matches'
  BY <1>1, <1>2, <1>3, <1>4 DEF Matches, Fits, Attempting
<1>8. Settled' = Settled
  BY <1>3, <1>4 DEF Settled
<1>9. Counting'
  <2>1. \A m \in Nodes : Unsettled(m)' = Unsettled(m)
    BY <1>8 DEF Unsettled
  <2> QED
    BY <1>1, <1>2, <1>3, <1>4, <2>1 DEF Counting
<1>10. Measured'
  <2>1. InAttempt' = InAttempt
    BY <1>3, <1>4 DEF InAttempt, Attempting
  <2> QED
    BY <1>2, <2>1 DEF PyInv, Measured
<1>11. AllLocal'
  <2>1. ASSUME NEW m \in Nodes PROVE Local(m)'
    <3>1. Local(m)
      BY DEF PyInv, AllLocal
    <3>2. ResultTrue(m, result[m]) <=> ResultTrue(m, result[m])'
      BY <1>2 DEF ResultTrue, FailureTrue
    <3>3. Tried(m) <=> Tried(m)'
      BY <1>2 DEF Tried
    <3>4. CASE m = n
      BY <1>2, <1>3, <1>4, <3>1, <3>4 DEF Local, Attempting
    <3>5. CASE m # n
      BY <1>2, <1>4, <3>1, <3>2, <3>3, <3>5 DEF Local
    <3> QED
      BY <3>4, <3>5
  <2> QED
    BY <2>1 DEF AllLocal
<1>12. Launched'
  <2>1. \A e \in Incoming(n) : result[e.from].status = "succeeded"
    <3>1. \A e \in Incoming(n) : e.from \in Nodes /\ e \in EdgesBetween(e.from, n)
      BY PyGraphAssumption DEF Incoming, EdgesBetween
    <3> QED
      BY <1>2, <3>1 DEF FailedUpstream
  <2> QED
    BY <1>2, <1>4, <2>1 DEF PyInv, Launched
<1>13. Isolated'
  <2>1. \A m : NotSucceeded(m)' = NotSucceeded(m)
    BY <1>2, <1>8 DEF NotSucceeded
  <2> QED
    BY <1>2, <1>8, <2>1 DEF PyInv, Isolated
<1>14. RunComplete' /\ Reported'
  BY <1>2 DEF PyInv, RunComplete, Reported
<1> QED
  BY <1>5, <1>6, <1>7, <1>9, <1>10, <1>11, <1>12, <1>13, <1>14 DEF PyInv

\* Steps that leave the nodes alone.
LEMMA NodesKept ==
    ASSUME PyInv, cancelled => cancelled',
           UNCHANGED <<ready, remaining, phase, permit, handler, outcome, attempts, lastFailure,
                       result, value, waiters, running, observed, totalAttempts>>
    PROVE  /\ Semaphore' /\ Matches' /\ Budget' /\ Counting' /\ Measured' /\ AllLocal'
           /\ Launched' /\ Isolated' /\ Settled' = Settled
<1>1. Settled' = Settled /\ \A m : NotSucceeded(m)' = NotSucceeded(m)
  BY DEF Settled, NotSucceeded
<1>2. Semaphore' /\ Matches' /\ Budget'
  BY DEF PyInv, Semaphore, Queued, Conserved, PermitOwners, Matches, Budget
<1>3. Counting' /\ Measured'
  BY DEF PyInv, Counting, Unsettled, Settled, Measured, InAttempt
<1>4. AllLocal'
  <2>1. ASSUME NEW m \in Nodes PROVE Local(m)'
    <3>1. Local(m)
      BY DEF PyInv, AllLocal
    <3>2. ResultTrue(m, result[m]) => ResultTrue(m, result[m])'
      BY DEF ResultTrue, FailureTrue
    <3>3. Tried(m) <=> Tried(m)'
      BY DEF Tried
    <3> QED
      BY <3>1, <3>2, <3>3 DEF Local
  <2> QED
    BY <2>1 DEF AllLocal
<1>5. Launched' /\ Isolated'
  BY <1>1 DEF PyInv, Launched, Isolated
<1> QED
  BY <1>1, <1>2, <1>3, <1>4, <1>5

\* A non-empty set of nodes has a member that comes first in the sequence.
LEMMA FirstNode ==
    ASSUME NEW S \in SUBSET Nodes, S # {}
    PROVE  \E n \in S : \A m \in S : ~(Sequence[m] < Sequence[n])
<1> DEFINE T == {Sequence[n] : n \in S}
<1>1. T \subseteq Nat /\ T # {}
  BY PyGraphAssumption
<1> HIDE DEF T
<1>2. PICK x \in T : \A y \in T : ~(<<y, x>> \in OpToRel(<, Nat))
  BY <1>1, WFMin, NatLessThanWellFounded
<1>3. \A y \in T : ~(y < x)
  BY <1>1, <1>2 DEF OpToRel
<1> QED
  BY <1>3 DEF T

\* The break on an empty task set: no node is left behind idle.
LEMMA NothingLeft ==
    ASSUME Types, Counting, ready = {}, Active = {}
    PROVE  Settled = Nodes
<1> DEFINE Idle == {n \in Nodes : phase[n] = "idle"}
<1>1. SUFFICES ASSUME Idle # {} PROVE FALSE
  BY DEF Active, Settled
<1>2. PICK n \in Idle : \A m \in Idle : ~(Sequence[m] < Sequence[n])
  BY <1>1, FirstNode
<1>3. ASSUME NEW e \in Incoming(n) PROVE e.from \in Settled
  <2>1. e.from \in Nodes /\ Sequence[e.from] < Sequence[n]
    BY PyGraphAssumption DEF Incoming
  <2> QED
    BY <1>2, <2>1 DEF Active, Settled
<1>4. Unsettled(n) = {}
  BY <1>3 DEF Unsettled
<1>5. remaining[n] = 0
  BY <1>4, FS_EmptySet DEF Counting
<1> QED
  BY <1>5 DEF Counting

LEMMA LaunchEndsKeeps ==
    ASSUME PyInv, LaunchEnds
    PROVE  PyInv'
<1>1. /\ mainPc = "launch" /\ ready = {}
      /\ mainPc' = IF Active = {} THEN "return" ELSE "await"
      /\ UNCHANGED <<ready, remaining, phase, permit, handler, outcome, attempts, lastFailure,
                     result, value, waiters, running, observed, totalAttempts, cancelled, run>>
  BY DEF LaunchEnds, graphVars, taskVars, semaphoreVars
<1>2. /\ Semaphore' /\ Matches' /\ Budget' /\ Counting' /\ Measured' /\ AllLocal'
      /\ Launched' /\ Isolated' /\ Settled' = Settled
  BY <1>1, NodesKept
<1>3. Types'
  BY <1>1 DEF PyInv, Types
<1>4. RunComplete'
  BY <1>1, <1>2, NothingLeft DEF PyInv, RunComplete
<1>5. Reported'
  BY <1>1 DEF PyInv, Reported
<1> QED
  BY <1>2, <1>3, <1>4, <1>5 DEF PyInv

LEMMA CancelKeeps ==
    ASSUME PyInv, Cancel
    PROVE  PyInv'
<1>1. /\ mainPc = "await" /\ cancelled'
      /\ UNCHANGED <<mainPc, ready, remaining, phase, permit, handler, outcome, attempts, lastFailure,
                     result, value, waiters, running, observed, totalAttempts, run>>
      /\ cancelled' \in BOOLEAN
  BY DEF Cancel, LoopFree, graphVars, taskVars, semaphoreVars
<1>2. /\ Semaphore' /\ Matches' /\ Budget' /\ Counting' /\ Measured' /\ AllLocal'
      /\ Launched' /\ Isolated' /\ Settled' = Settled
  BY <1>1, NodesKept
<1>3. Types'
  BY <1>1 DEF PyInv, Types
<1>4. RunComplete' /\ Reported'
  BY <1>1 DEF PyInv, RunComplete, Reported
<1> QED
  BY <1>2, <1>3, <1>4 DEF PyInv

\* What Return reports is true of the results.
LEMMA ReturnKeeps ==
    ASSUME PyInv, Return
    PROVE  PyInv'
<1> DEFINE fails == NodeFailures \cup {o.node : o \in OutputFailures}
           whole == OutputsComplete
           clean == Clean
<1>1. /\ mainPc = "return" /\ mainPc' = "done"
      /\ run' = [status |-> IF cancelled THEN "cancelled" ELSE IF clean THEN "succeeded" ELSE "failed",
                 output |-> whole, failures |-> fails]
      /\ UNCHANGED <<ready, remaining, phase, permit, handler, outcome, attempts, lastFailure,
                     result, value, waiters, running, observed, totalAttempts, cancelled>>
  BY DEF Return, graphVars, taskVars, semaphoreVars
<1>2. /\ Semaphore' /\ Matches' /\ Budget' /\ Counting' /\ Measured' /\ AllLocal'
      /\ Launched' /\ Isolated' /\ Settled' = Settled
  BY <1>1, NodesKept
<1>3. Settled = Nodes
  BY <1>1 DEF PyInv, RunComplete
<1>4. whole \in BOOLEAN /\ clean \in BOOLEAN /\ fails \in SUBSET Nodes
  BY PyGraphAssumption DEF OutputsComplete, Clean, NodeFailures, OutputFailures
<1>5. clean => whole /\ \A n \in Nodes : result[n].status = "succeeded"
  <2>0. clean => whole
    BY DEF Clean
  <2> SUFFICES ASSUME clean, NEW n \in Nodes PROVE result[n].status = "succeeded"
    BY <2>0
  <2>1. result[n].failure = NoFailure
    BY DEF Clean, NodeFailures
  <2>2. ResultTrue(n, result[n])
    BY <1>3 DEF PyInv, AllLocal, Local, Settled
  <2> QED
    BY <2>1, <2>2 DEF ResultTrue, FailureTrue, NoFailure
<1>6. ~clean => fails # {}
  <2> SUFFICES ASSUME ~clean, fails = {} PROVE FALSE
    OBVIOUS
  <2>1. NodeFailures = {} /\ \A o \in OutputFailures : FALSE
    OBVIOUS
  <2>2. PICK o \in Outputs : ~(Reached(o) /\ HasEndpoint(o.node, o.port))
    BY <1>3, <2>1 DEF Clean, OutputsComplete
  <2>3. ~Reached(o)
    BY <2>1, <2>2 DEF OutputFailures
  <2>4. o.node \in Nodes /\ result[o.node].failure = NoFailure
    BY <2>1, PyGraphAssumption DEF NodeFailures
  <2>5. ResultTrue(o.node, result[o.node])
    BY <1>3, <2>4 DEF PyInv, AllLocal, Local, Settled
  <2> QED
    BY <2>3, <2>4, <2>5 DEF Reached, ResultTrue, FailureTrue, NoFailure
<1>7. cancelled \in BOOLEAN
  BY DEF PyInv, Types
<1> HIDE DEF fails, whole, clean
<1>8. /\ run' \in Runs /\ run'.output = whole /\ run'.failures = fails
      /\ run'.status \in {"succeeded", "failed", "cancelled"}
      /\ run'.status = "cancelled" <=> cancelled
      /\ run'.status = "succeeded" => clean
      /\ run'.status = "failed" => ~clean
  BY <1>1, <1>4, <1>7 DEF Runs
<1>9. Types'
  BY <1>1, <1>8 DEF PyInv, Types
<1>10. StatusSound'
  BY <1>1, <1>5, <1>6, <1>8 DEF StatusSound
<1>11. RunComplete' /\ Reported'
  BY <1>1, <1>2, <1>3, <1>8, <1>10 DEF RunComplete, Reported
<1> QED
  BY <1>2, <1>9, <1>11 DEF PyInv

LEMMA NextKeeps ==
    ASSUME PyInv, [Next]_vars
    PROVE  PyInv'
<1>1. ASSUME UNCHANGED vars PROVE PyInv'
  <2>1. /\ UNCHANGED <<mainPc, run, cancelled>>
        /\ UNCHANGED <<ready, remaining, phase, permit, handler, outcome, attempts, lastFailure,
                       result, value, waiters, running, observed, totalAttempts>>
    BY <1>1 DEF vars
  <2>2. /\ Semaphore' /\ Matches' /\ Budget' /\ Counting' /\ Measured' /\ AllLocal'
        /\ Launched' /\ Isolated' /\ Settled' = Settled
    BY <2>1, NodesKept
  <2>3. Types' /\ RunComplete'
    BY <2>1, <2>2 DEF PyInv, Types, RunComplete
  <2>4. Reported'
    BY <2>1 DEF PyInv, Reported, StatusSound
  <2> QED
    BY <2>2, <2>3, <2>4 DEF PyInv
<1>2. ASSUME NEW n \in Nodes,
             NodeTask(n) \/ AcquireTask(n) \/ HandlerReturns(n) \/ HandlerUnwinds(n)
      PROVE  PyInv'
  <2>1. Relies(n)
    BY DEF PyInv, AllLocal, Relies
  <2>2. Moves(n)
    BY <1>2, <2>1, TasksMove
  <2> QED
    BY <2>2, MovesKeep
<1>3. ASSUME Main PROVE PyInv'
  BY <1>3, LaunchSettlesKeeps, LaunchNodeKeeps, LaunchEndsKeeps, ReturnKeeps DEF Main
<1> QED
  BY <1>1, <1>2, <1>3, SettleDoneKeeps, CancelKeeps DEF Next, Finished

LEMMA InvAlways == Spec => []PyInv
  BY InitHolds, NextKeeps, PTL DEF Spec

-----------------------------------------------------------------------------
(* The theorems.                                                           *)

LEMMA InvConserves == PyInv => PermitsConserved
<1> SUFFICES ASSUME PyInv PROVE PermitsConserved
  OBVIOUS
<1>1. Types /\ Conserved /\ Counting /\ Measured
  BY DEF PyInv, Semaphore
<1>2. remaining \in [Nodes -> Nat]
  <2>1. ASSUME NEW n \in Nodes PROVE remaining[n] \in Nat
    <3>1. Unsettled(n) \in SUBSET Incoming(n)
      BY DEF Unsettled
    <3> QED
      BY <1>1, <3>1, EdgeCounts DEF Counting
  <2> QED
    BY <1>1, <2>1 DEF Types
<1>3. {running, observed, totalAttempts} \subseteq Nat
  BY <1>1, InAttemptFinite DEF Types, Measured
<1>4. value \in Nat
  BY <1>1 DEF Conserved
<1>5. TypeOK
  BY <1>1, <1>2, <1>3, <1>4 DEF Types, TypeOK, Results, Runs, HandlerStates
<1>6. \A n \in Nodes : phase[n] \in {"granted", "calling", "running", "closing"} => permit[n] = "held"
  BY DEF PyInv, Matches, Fits, Attempting
<1>7. running = Cardinality({n \in Nodes : phase[n] \in {"calling", "running", "closing"}})
  BY <1>1 DEF Measured, InAttempt, Attempting
<1>8. mainPc = "done" => value = Concurrency
  <2> SUFFICES ASSUME mainPc = "done" PROVE value = Concurrency
    OBVIOUS
  <2>1. Settled = Nodes
    BY DEF PyInv, RunComplete
  <2>2. PermitOwners = {}
    BY <2>1 DEF PyInv, Matches, Fits, PermitOwners, Settled
  <2>3. Cardinality(PermitOwners) = 0
    BY <2>2, FS_EmptySet
  <2> QED
    BY <1>1, <1>4, <2>3 DEF Conserved
<1> QED
  BY <1>1, <1>5, <1>6, <1>7, <1>8 DEF PermitsConserved, Conserved, Measured

\* asyncio.Semaphore's permits under grant, cancellation and unwinding: none
\* is lost or handed out twice, an attempt only runs under one, the number of
\* running attempts never passes the concurrency, and all permits are back
\* when run returns.
THEOREM PermitsAlwaysConserved == Spec => []PermitsConserved
  BY InvAlways, InvConserves, PTL

LEMMA InvFaithful == PyInv => OutcomeFaithful
<1> SUFFICES ASSUME PyInv PROVE OutcomeFaithful
  OBVIOUS
<1>1. Types /\ Counting
  BY DEF PyInv
<1>2. DependencySafety
  <2> SUFFICES ASSUME NEW n \in Nodes,
                      phase[n] \in Phases \ {"idle", "settled"} \/ attempts[n] > 0,
                      NEW e \in Incoming(n)
               PROVE  phase[e.from] = "settled" /\ result[e.from].status = "succeeded"
    BY DEF DependencySafety
  <2>1. result[e.from].status = "succeeded"
    BY DEF PyInv, Launched
  <2>2. phase[n] # "idle"
    BY <1>1 DEF PyInv, AllLocal, Local, Types
  <2>3. e.from \in Settled
    BY <1>1, <2>2, UpstreamSettled DEF Counting
  <2> QED
    BY <2>1, <2>3 DEF Settled
<1>3. ASSUME NEW n \in Settled PROVE n \in Nodes /\ ResultTrue(n, result[n])
  BY DEF PyInv, AllLocal, Local, Settled
<1>4. FailureIsolation
  BY <1>3 DEF PyInv, Isolated, FailureIsolation, ResultTrue, FailureTrue, NoFailure
<1>5. FailureFaithful
  BY <1>3 DEF FailureFaithful, ResultTrue, FailureTrue
<1>6. RunComplete /\ StatusSound
  BY DEF PyInv, Reported, StatusSound
<1> QED
  BY <1>2, <1>4, <1>5, <1>6 DEF OutcomeFaithful

\* What AsyncScheduler.run reports is complete and true, for every graph and
\* policy: only nodes whose dependencies succeeded were launched, a node is
\* skipped only for a cause upstream or the event, its failure describes its
\* last attempt, and the status of the run agrees with nodes, outputs and event.
THEOREM OutcomeAlwaysFaithful == Spec => []OutcomeFaithful
  BY InvAlways, InvFaithful, PTL

NoNewStart ==
    cancelled => totalAttempts' = totalAttempts
                 /\ \A n \in Nodes : handler'[n] = "busy" => handler[n] = "busy"

LEMMA StepsStartNothing ==
    ASSUME Types, [Next]_vars
    PROVE  NoNewStart
<1>0. handler \in [Nodes -> HandlerStates]
  BY DEF Types
<1>1. ASSUME NEW n \in Nodes, NodeTask(n) PROVE NoNewStart
  <2>1. CASE Start(n) \/ ResumeAcquire(n) \/ FinishAbandon(n) \/ ResumeAttempt(n) \/ DelayEnds(n)
    BY <2>1 DEF Start, ResumeAcquire, FinishAbandon, ResumeAttempt, DelayEnds, NoNewStart
  <2>2. CASE ResumeGranted(n)
    BY <2>2 DEF ResumeGranted, StopsGranted, NoNewStart
  <2>3. CASE SyncReturns(n) \/ CloseAttempt(n)
    <3>1. totalAttempts' = totalAttempts /\ handler' = [handler EXCEPT ![n] = "none"]
      BY <2>3 DEF SyncReturns, CloseAttempt, Conclude
    <3> QED
      BY <1>0, <3>1 DEF NoNewStart
  <2> QED
    BY <1>1, <2>1, <2>2, <2>3 DEF NodeTask
<1>2. ASSUME NEW n \in Nodes, AcquireTask(n) PROVE NoNewStart
  BY <1>2 DEF AcquireTask, AcquireStarts, AcquireResumes, AcquireUnwinds, taskVars, NoNewStart
<1>3. ASSUME NEW n \in Nodes, HandlerReturns(n) \/ HandlerUnwinds(n) PROVE NoNewStart
  <2>1. totalAttempts' = totalAttempts /\ handler' = [handler EXCEPT ![n] = "ended"]
    BY <1>3 DEF HandlerReturns, HandlerUnwinds
  <2> QED
    BY <1>0, <2>1 DEF NoNewStart
<1>4. ASSUME Main \/ SettleDone \/ Cancel \/ UNCHANGED vars PROVE NoNewStart
  <2>1. totalAttempts' = totalAttempts /\ handler' = handler
    BY <1>4 DEF Main, LaunchSkipped, LaunchUnbound, LaunchSettles, LaunchNode, LaunchEnds, Return,
                SettleDone, Cancel, taskVars, vars
  <2> QED
    BY <2>1 DEF NoNewStart
<1> QED
  BY <1>1, <1>2, <1>3, <1>4 DEF Next, Finished

\* Once the caller's event is set no attempt is claimed and no handler called,
\* not even for a task that has been granted a permit already.
THEOREM NoStartAfterCancelAlways == Spec => NoStartAfterCancel
<1>1. PyInv /\ [Next]_vars => [NoNewStart]_vars
  BY StepsStartNothing DEF PyInv
<1>2. [NoNewStart]_vars => [cancelled => totalAttempts' = totalAttempts
                            /\ \A n \in Nodes : handler'[n] = "busy" => handler[n] = "busy"]_vars
  BY DEF NoNewStart
<1> QED
  BY <1>1, <1>2, InvAlways, PTL DEF Spec, NoStartAfterCancel

-----------------------------------------------------------------------------
(* The lifecycle.                                                          *)

Verdict == IF run = NoRun THEN "running" ELSE run.status
NodeStates == [n \in Nodes |-> StateOf(n)]

LEMMA StateOfPhase ==
    ASSUME PyInv, NEW n \in Nodes
    PROVE  /\ phase[n] = "idle" => StateOf(n) = "pending"
           /\ phase[n] \in {"created", "acquiring", "abandoning", "granted"} => StateOf(n) = "scheduled"
           /\ phase[n] \in Attempting => StateOf(n) = "running"
           /\ phase[n] = "delay" => StateOf(n) = "retry-wait"
           /\ phase[n] \in {"finished", "settled"} =>
                  StateOf(n) = result[n].status /\ result[n].status \in Lifecycle!Terminal
           /\ StateOf(n) \in Lifecycle!NodeStates
           /\ phase[n] \in Phases
<1>1. phase[n] \in Phases
  BY DEF PyInv, Types
<1>2. /\ phase[n] = "idle" => StateOf(n) = "pending"
      /\ phase[n] \in {"created", "acquiring", "abandoning", "granted"} => StateOf(n) = "scheduled"
      /\ phase[n] \in Attempting => StateOf(n) = "running"
      /\ phase[n] = "delay" => StateOf(n) = "retry-wait"
      /\ phase[n] \in {"finished", "settled"} => StateOf(n) = result[n].status
  BY DEF StateOf, Attempting
<1>3. phase[n] \in {"finished", "settled"} => result[n].status \in Lifecycle!Terminal
  BY DEF PyInv, AllLocal, Local, ResultTrue, Lifecycle!Terminal
<1> QED
  BY <1>1, <1>2, <1>3 DEF Phases, Attempting, Lifecycle!Terminal, Lifecycle!NodeStates

\* A step that changes node n only.
LEMMA NodeMoves ==
    ASSUME NEW n \in Nodes, \A m \in Nodes \ {n} : phase'[m] = phase[m] /\ result'[m] = result[m]
    PROVE  NodeStates' = [NodeStates EXCEPT ![n] = StateOf(n)']
<1>1. ASSUME NEW m \in Nodes, m # n PROVE StateOf(m)' = StateOf(m)
  BY <1>1 DEF StateOf
<1> QED
  BY <1>1 DEF NodeStates

LEMMA NodeStays ==
    ASSUME NEW n \in Nodes, \A m \in Nodes \ {n} : phase'[m] = phase[m] /\ result'[m] = result[m],
           StateOf(n)' = StateOf(n)
    PROVE  NodeStates' = NodeStates
  BY NodeMoves DEF NodeStates

\* The run is under way, before and after the step.
UnderWay == Verdict = "running" /\ Verdict' = "running"

LEMMA MoveMaps ==
    ASSUME NEW n \in Nodes, NEW from, NEW to, StateOf(n) \in from, UnderWay,
           \A m \in Nodes \ {n} : phase'[m] = phase[m] /\ result'[m] = result[m],
           StateOf(n)' = to
    PROVE  Lifecycle!Move(n, from, to)
<1>1. NodeStates' = [NodeStates EXCEPT ![n] = to]
  BY NodeMoves
<1>2. NodeStates[n] \in from
  BY DEF NodeStates
<1> QED
  BY <1>1, <1>2 DEF Lifecycle!Move, NodeStates, UnderWay, Verdict

LEMMA UnderWayHolds ==
    ASSUME PyInv, PyInv', mainPc # "done", mainPc' # "done"
    PROVE  UnderWay
  BY DEF PyInv, Reported, UnderWay, Verdict

\* All upstream nodes of n are settled and have succeeded.
LEMMA SatisfiedMaps ==
    ASSUME PyInv, NEW n \in Nodes, remaining[n] = 0,
           \A e \in Incoming(n) : result[e.from].status = "succeeded"
    PROVE  Lifecycle!Satisfied(n)
<1>1. ASSUME NEW e \in Edges, e.to = n PROVE NodeStates[e.from] = "succeeded"
  <2>1. e \in Incoming(n) /\ e.from \in Nodes
    BY <1>1, PyGraphAssumption DEF Incoming
  <2>2. e.from \in Settled
    BY <2>1, UpstreamSettled DEF PyInv
  <2>3. StateOf(e.from) = result[e.from].status
    BY <2>1, <2>2, StateOfPhase DEF Settled
  <2> QED
    BY <2>1, <2>3 DEF NodeStates
<1> QED
  BY <1>1 DEF Lifecycle!Satisfied, Lifecycle!Upstream, NodeStates

\* A node that ends without an attempt: the run is cancelled or has no budget.
LEMMA GiveUpMaps ==
    ASSUME PyInv, PyInv', NEW n \in Nodes, Moves(n),
           phase[n] \in {"created", "acquiring", "abandoning", "granted", "delay"},
           phase'[n] = "finished", result'[n].status = "failed",
           cancelled \/ totalAttempts >= AttemptLimit,
           UNCHANGED <<attempts, totalAttempts, cancelled>>
    PROVE  Lifecycle!GiveUp(n)
<1>1. /\ UnderWay /\ run' = run
      /\ \A m \in Nodes \ {n} : phase'[m] = phase[m] /\ result'[m] = result[m]
  BY UnderWayHolds DEF Moves, Others
<1>2. StateOf(n) \in {"scheduled", "retry-wait"}
  BY StateOfPhase
<1>3. StateOf(n)' = "failed"
  BY DEF StateOf
<1>4. Lifecycle!Move(n, {"scheduled", "retry-wait"}, "failed")
  BY <1>1, <1>2, <1>3, MoveMaps
<1>5. totalAttempts \in Nat /\ AttemptLimit \in Nat /\ totalAttempts <= AttemptLimit
  BY PyPolicyAssumption DEF PyInv, Types, Budget
<1>6. cancelled \/ AttemptLimit - totalAttempts = 0
  BY <1>5
<1> QED
  BY <1>1, <1>4, <1>6 DEF Lifecycle!GiveUp

\* A step that changes no phase, attempt or result shows nothing.
LEMMA Unseen ==
    ASSUME NodeStates' = NodeStates, UNCHANGED <<attempts, totalAttempts, cancelled, run>>
    PROVE  UNCHANGED Lifecycle!lifecycle
  BY DEF Lifecycle!lifecycle, NodeStates

LEMMA Quiet ==
    ASSUME PyInv, NEW n \in Nodes,
           AcquireTask(n) \/ HandlerReturns(n) \/ HandlerUnwinds(n) \/ ResumeAcquire(n) \/ ResumeAttempt(n)
    PROVE  UNCHANGED Lifecycle!lifecycle
<1>1. UNCHANGED <<attempts, totalAttempts, cancelled, run, result>>
  BY DEF AcquireTask, AcquireStarts, AcquireResumes, AcquireUnwinds, HandlerReturns, HandlerUnwinds,
         ResumeAcquire, ResumeAttempt, taskVars
<1>2. phase \in [Nodes -> Phases]
  BY DEF PyInv, Types
<1>3. CASE AcquireTask(n) \/ HandlerReturns(n) \/ HandlerUnwinds(n)
  <2>1. phase' = phase
    BY <1>3 DEF AcquireTask, AcquireStarts, AcquireResumes, AcquireUnwinds, HandlerReturns,
                HandlerUnwinds, taskVars
  <2>2. \A m \in Nodes : StateOf(m)' = StateOf(m)
    BY <1>1, <2>1 DEF StateOf
  <2>3. NodeStates' = NodeStates
    BY <2>2 DEF NodeStates
  <2> QED
    BY <1>1, <2>3, Unseen
<1>4. CASE ResumeAcquire(n) \/ ResumeAttempt(n)
  <2>1. /\ \/ phase[n] = "acquiring" /\ phase'[n] \in {"abandoning", "granted"}
           \/ phase[n] = "running" /\ phase'[n] = "closing"
        /\ \A m \in Nodes \ {n} : phase'[m] = phase[m]
    BY <1>2, <1>4 DEF ResumeAcquire, ResumeAttempt
  <2>2. StateOf(n)' = StateOf(n)
    BY <2>1 DEF StateOf
  <2>3. NodeStates' = NodeStates
    BY <1>1, <2>1, <2>2, NodeStays
  <2> QED
    BY <1>1, <2>3, Unseen
<1> QED
  BY <1>3, <1>4

LEMMA StartMaps ==
    ASSUME PyInv, PyInv', NEW n \in Nodes, Start(n), Moves(n)
    PROVE  Lifecycle!GiveUp(n) \/ Lifecycle!Refuse(n) \/ UNCHANGED Lifecycle!lifecycle
<1>1. /\ phase[n] = "created"
      /\ UNCHANGED <<attempts, totalAttempts, cancelled, run>>
      /\ \A m \in Nodes \ {n} : phase'[m] = phase[m] /\ result'[m] = result[m]
  BY DEF Start, Moves, Others
<1>2. phase \in [Nodes -> Phases] /\ result \in [Nodes -> Results] /\ Counting
  BY DEF PyInv, Types
<1>3. UnderWay
  BY UnderWayHolds DEF Moves
<1>4. CASE cancelled /\ Finish(n, CancelledResult(0))
  <2>1. phase'[n] = "finished" /\ result'[n].status = "failed"
    BY <1>2, <1>4 DEF Finish, CancelledResult, Failed
  <2> QED
    BY <1>1, <1>4, <2>1, GiveUpMaps
<1>5. CASE ~cancelled /\ n \notin WithExecutor /\ Finish(n, Failed(0, Failure("EXECUTOR_NOT_FOUND", 0)))
  <2>1. phase'[n] = "finished" /\ result'[n].status = "failed"
    BY <1>2, <1>5 DEF Finish, Failed
  <2>2. StateOf(n) \in {"scheduled"} /\ StateOf(n)' = "failed"
    BY <1>1, <2>1, StateOfPhase DEF StateOf
  <2>3. Lifecycle!Move(n, {"scheduled"}, "failed")
    BY <1>1, <1>3, <2>2, MoveMaps
  <2>4. remaining[n] = 0 /\ \A e \in Incoming(n) : result[e.from].status = "succeeded"
    BY <1>1, <1>2 DEF Counting, PyInv, Launched
  <2>5. Lifecycle!Satisfied(n)
    BY <2>4, SatisfiedMaps
  <2> QED
    BY <1>1, <1>5, <2>3, <2>5 DEF Lifecycle!Refuse
<1>6. CASE phase' = [phase EXCEPT ![n] = "acquiring"] /\ UNCHANGED result
  <2>1. StateOf(n)' = StateOf(n)
    BY <1>1, <1>2, <1>6 DEF StateOf
  <2>2. NodeStates' = NodeStates
    BY <1>1, <2>1, NodeStays
  <2> QED
    BY <1>1, <2>2, Unseen
<1> QED
  BY <1>4, <1>5, <1>6 DEF Start

LEMMA FinishAbandonMaps ==
    ASSUME PyInv, PyInv', NEW n \in Nodes, FinishAbandon(n), Moves(n)
    PROVE  Lifecycle!GiveUp(n)
<1>1. /\ phase[n] = "abandoning" /\ Finish(n, CancelledResult(attempts[n]))
      /\ UNCHANGED <<attempts, totalAttempts, cancelled>>
  BY DEF FinishAbandon
<1>2. phase'[n] = "finished" /\ result'[n].status = "failed"
  BY <1>1 DEF PyInv, Types, Finish, CancelledResult, Failed
<1>3. cancelled
  BY <1>1 DEF PyInv, AllLocal, Local
<1> QED
  BY <1>1, <1>2, <1>3, GiveUpMaps

LEMMA DelayEndsMaps ==
    ASSUME PyInv, PyInv', NEW n \in Nodes, DelayEnds(n), Moves(n)
    PROVE  Lifecycle!GiveUp(n) \/ Lifecycle!Reschedule(n)
<1>1. /\ phase[n] = "delay" /\ UNCHANGED <<attempts, totalAttempts, cancelled, run>>
      /\ \A m \in Nodes \ {n} : phase'[m] = phase[m] /\ result'[m] = result[m]
      /\ phase \in [Nodes -> Phases] /\ result \in [Nodes -> Results]
  BY DEF DelayEnds, Moves, Others, PyInv, Types
<1>2. CASE cancelled /\ Finish(n, CancelledResult(attempts[n]))
  <2>1. phase'[n] = "finished" /\ result'[n].status = "failed"
    BY <1>1, <1>2 DEF Finish, CancelledResult, Failed
  <2> QED
    BY <1>1, <1>2, <2>1, GiveUpMaps
<1>3. CASE ~cancelled /\ phase' = [phase EXCEPT ![n] = "acquiring"]
  <2>1. StateOf(n) \in {"retry-wait"} /\ StateOf(n)' = "scheduled"
    BY <1>1, <1>3, StateOfPhase DEF StateOf
  <2>2. UnderWay
    BY UnderWayHolds DEF Moves
  <2>3. Lifecycle!Move(n, {"retry-wait"}, "scheduled")
    BY <1>1, <2>1, <2>2, MoveMaps
  <2> QED
    BY <1>1, <1>3, <2>3 DEF Lifecycle!Reschedule
<1> QED
  BY <1>2, <1>3 DEF DelayEnds

LEMMA SameCardinality == \A S : Lifecycle!Cardinality(S) = Cardinality(S)
  BY DEF Lifecycle!Cardinality, Cardinality

\* The attempts under way leave room for the one a permit holder starts.
LEMMA RoomMaps ==
    ASSUME PyInv, NEW n \in Nodes, phase[n] = "granted"
    PROVE  Lifecycle!Cardinality(Lifecycle!Running) < Concurrency
<1>1. \A m \in Nodes : StateOf(m) = "running" <=> phase[m] \in Attempting
  BY StateOfPhase DEF Phases, Attempting, Lifecycle!Terminal
<1>2. Lifecycle!Running = InAttempt
  BY <1>1 DEF Lifecycle!Running, InAttempt
<1>3. running + 1 <= Concurrency /\ running = Cardinality(InAttempt)
  BY RoomForAttempt DEF PyInv, Measured
<1>4. Cardinality(InAttempt) \in Nat /\ Concurrency \in Nat
  BY InAttemptFinite, PyPolicyAssumption
<1>5. Lifecycle!Cardinality(Lifecycle!Running) = Cardinality(InAttempt)
  BY <1>2, SameCardinality
<1> QED
  BY <1>3, <1>4, <1>5

LEMMA ResumeGrantedMaps ==
    ASSUME PyInv, PyInv', NEW n \in Nodes, ResumeGranted(n), Moves(n)
    PROVE  Lifecycle!GiveUp(n) \/ Lifecycle!StartAttempt(n)
<1>1. /\ phase[n] = "granted" /\ UNCHANGED <<cancelled, run>>
      /\ \A m \in Nodes \ {n} : phase'[m] = phase[m] /\ result'[m] = result[m]
      /\ phase \in [Nodes -> Phases] /\ result \in [Nodes -> Results] /\ attempts \in [Nodes -> Nat]
  BY DEF ResumeGranted, Moves, Others, PyInv, Types
<1>2. ASSUME NEW r, Finish(n, r), r.status = "failed", cancelled \/ totalAttempts >= AttemptLimit,
             UNCHANGED <<attempts, totalAttempts>>
      PROVE  Lifecycle!GiveUp(n)
  <2>1. phase'[n] = "finished" /\ result'[n].status = "failed"
    BY <1>1, <1>2 DEF Finish
  <2> QED
    BY <1>1, <1>2, <2>1, GiveUpMaps
<1>3. CASE StopsGranted /\ Finish(n, CancelledResult(attempts[n])) /\ UNCHANGED <<attempts, totalAttempts>>
  BY <1>2, <1>3 DEF StopsGranted, CancelledResult, Failed
<1>4. CASE /\ totalAttempts >= AttemptLimit /\ Finish(n, Failed(attempts[n], RefusedFailure(n)))
           /\ UNCHANGED <<attempts, totalAttempts>>
  BY <1>2, <1>4 DEF Failed
<1>5. CASE /\ totalAttempts < AttemptLimit /\ totalAttempts' = totalAttempts + 1
           /\ attempts' = [attempts EXCEPT ![n] = @ + 1]
           /\ phase' = [phase EXCEPT ![n] = IF n \in Sync THEN "calling" ELSE "running"]
           /\ UNCHANGED result
  <2>1. StateOf(n) \in {"scheduled"} /\ StateOf(n)' = "running"
    BY <1>1, <1>5, StateOfPhase DEF StateOf
  <2>2. UnderWay
    BY UnderWayHolds DEF Moves
  <2>3. Lifecycle!Move(n, {"scheduled"}, "running")
    BY <1>1, <2>1, <2>2, MoveMaps
  <2>4. totalAttempts \in Nat /\ AttemptLimit \in Nat
    BY PyPolicyAssumption DEF PyInv, Types
  <2>5. AttemptLimit - totalAttempts > 0 /\ AttemptLimit - totalAttempts' = (AttemptLimit - totalAttempts) - 1
    BY <1>5, <2>4
  <2>6. attempts[n] < MaxAttempts[n]
    BY <1>1 DEF PyInv, AllLocal, Local
  <2>7. Lifecycle!Cardinality(Lifecycle!Running) < Concurrency
    BY <1>1, RoomMaps
  <2>8. attempts' = [attempts EXCEPT ![n] = attempts[n] + 1] /\ cancelled' = cancelled /\ run' = run
    BY <1>1, <1>5
  <2> QED
    BY ONLY <2>3, <2>5, <2>6, <2>7, <2>8 DEF Lifecycle!StartAttempt
<1> QED
  BY <1>3, <1>4, <1>5 DEF ResumeGranted

\* An attempt ends, for the node and for the lifecycle; a synchronous handler
\* may have cancelled the run in the same step.
LEMMA ConcludedMaps ==
    ASSUME PyInv, PyInv', NEW n \in Nodes, Moves(n), phase[n] \in Attempting,
           NEW code \in AttemptCodes \ {"none"}, NEW ports \in SUBSET Ports,
           Concluded(n, code, ports, cancelled'), cancelled = cancelled' \/ code # "ok",
           UNCHANGED <<attempts, totalAttempts>>
    PROVE  Lifecycle!EndAttempt(n) \/ Lifecycle!Cancel
<1>1. /\ run' = run /\ (cancelled => cancelled')
      /\ \A m \in Nodes \ {n} : phase'[m] = phase[m] /\ result'[m] = result[m]
      /\ UnderWay /\ StateOf(n) \in {"running"}
      /\ cancelled \in BOOLEAN /\ cancelled' \in BOOLEAN
  BY UnderWayHolds, StateOfPhase DEF Moves, Others, PyInv, Types
<1>2. \/ StateOf(n)' = "succeeded" /\ code = "ok"
      \/ StateOf(n)' = "failed"
      \/ StateOf(n)' \in {"retry-wait", "scheduled"} /\ attempts[n] < MaxAttempts[n] /\ ~cancelled'
  BY DEF Concluded, StateOf, Succeeded, Failed, CancelledResult, MayRetry
<1>3. CASE cancelled' = cancelled
  <2>1. \/ Lifecycle!Move(n, {"running"}, "succeeded")
        \/ Lifecycle!Move(n, {"running"}, "failed")
        \/ Lifecycle!Move(n, {"running"}, "retry-wait") /\ attempts[n] < MaxAttempts[n]
        \/ Lifecycle!Move(n, {"running"}, "scheduled") /\ attempts[n] < MaxAttempts[n] /\ ~cancelled
    BY <1>1, <1>2, <1>3, MoveMaps
  <2> QED
    BY <1>1, <1>3, <2>1 DEF Lifecycle!EndAttempt
<1>4. CASE cancelled' # cancelled
  <2>1. ~cancelled /\ cancelled' = TRUE /\ StateOf(n)' = "failed"
    BY <1>1, <1>2, <1>4
  <2>2. \A m \in Nodes : NodeStates[m] = StateOf(m) /\ StateOf(m) \in Lifecycle!NodeStates
    BY StateOfPhase DEF NodeStates
  <2>3. NodeStates' = [NodeStates EXCEPT ![n] = "failed"]
    BY <1>1, <2>1, NodeMoves
  <2>4. /\ NodeStates' \in [Nodes -> Lifecycle!NodeStates]
        /\ NodeStates[n] = "running" /\ NodeStates'[n] = "failed"
        /\ \A m \in Nodes \ {n} : NodeStates'[m] = NodeStates[m]
    <3>1. NodeStates = [m \in Nodes |-> NodeStates[m]] /\ "failed" \in Lifecycle!NodeStates
      BY DEF NodeStates, Lifecycle!NodeStates
    <3> QED
      BY <1>1, <2>2, <2>3, <3>1
  <2> QED
    BY <1>1, <2>1, <2>4 DEF Lifecycle!Cancel, NodeStates, UnderWay, Verdict
<1> QED
  BY <1>3, <1>4

LEMMA AttemptEndsMaps ==
    ASSUME PyInv, PyInv', NEW n \in Nodes, SyncReturns(n) \/ CloseAttempt(n)
    PROVE  Lifecycle!EndAttempt(n) \/ Lifecycle!Cancel
<1>1. Relies(n)
  BY DEF PyInv, AllLocal, Relies
<1>2. CASE SyncReturns(n)
  <2>1. /\ Moves(n) /\ phase[n] = "calling" /\ UNCHANGED <<attempts, totalAttempts>>
        /\ \E code \in AttemptCodes \ {"none"}, ports \in SUBSET Ports :
               /\ Concluded(n, code, ports, cancelled')
               /\ code = "NODE_CANCELLED" => cancelled'
               /\ code = "ok" => ~cancelled'
    BY <1>1, <1>2, SyncReturnsMoves
  <2>2. PICK code \in AttemptCodes \ {"none"}, ports \in SUBSET Ports :
            Concluded(n, code, ports, cancelled') /\ (code = "ok" => ~cancelled')
    BY <2>1
  <2>3. phase[n] \in Attempting
    BY <2>1 DEF Attempting
  <2>4. cancelled = cancelled' \/ code # "ok"
    <3>1. cancelled \in BOOLEAN /\ cancelled' \in BOOLEAN /\ (cancelled => cancelled')
      BY <2>1 DEF PyInv, Types, Moves
    <3> QED
      BY <2>2, <3>1
  <2> QED
    BY <2>1, <2>2, <2>3, <2>4, ConcludedMaps
<1>3. CASE CloseAttempt(n)
  <2>1. /\ Moves(n) /\ phase[n] = "closing" /\ UNCHANGED <<attempts, totalAttempts, cancelled>>
        /\ \E code \in AttemptCodes \ {"none"}, ports \in SUBSET Ports :
               /\ Concluded(n, code, ports, cancelled')
               /\ code = "NODE_CANCELLED" => cancelled'
    BY <1>1, <1>3, CloseAttemptMoves
  <2>2. phase[n] \in Attempting
    BY <2>1 DEF Attempting
  <2> QED
    BY <2>1, <2>2, ConcludedMaps
<1> QED
  BY <1>2, <1>3

\* Node n leaves the ready list: it is launched, skipped or refused.
LEMMA LaunchMaps ==
    ASSUME PyInv, PyInv', NEW n \in Nodes, LaunchSkipped(n) \/ LaunchUnbound(n) \/ LaunchNode(n)
    PROVE  Lifecycle!Schedule(n) \/ Lifecycle!Refuse(n) \/ Lifecycle!Skip(n)
<1>1. /\ mainPc = "launch" /\ n \in ready
      /\ UNCHANGED <<mainPc, attempts, totalAttempts, cancelled, run>>
  BY DEF LaunchSkipped, LaunchUnbound, LaunchSettles, LaunchNode, NextReady
<1>2. UnderWay
  BY <1>1, UnderWayHolds
<1>3. /\ phase[n] = "idle" /\ remaining[n] = 0 /\ StateOf(n) = "pending"
      /\ phase \in [Nodes -> Phases] /\ result \in [Nodes -> Results]
  BY <1>1, StateOfPhase DEF PyInv, Counting, Types
<1>4. \A e \in Incoming(n) : e.from \in Nodes /\ e.from \in Settled
  BY <1>3, UpstreamSettled, PyGraphAssumption DEF PyInv, Incoming
<1>5. FailedUpstream(n) = {} => \A e \in Incoming(n) : result[e.from].status = "succeeded"
  BY <1>4 DEF FailedUpstream, EdgesBetween, Incoming
<1>6. FailedUpstream(n) = {} => Lifecycle!Satisfied(n)
  BY <1>3, <1>5, SatisfiedMaps
<1>7. CASE LaunchNode(n)
  <2>1. phase' = [phase EXCEPT ![n] = "created"] /\ result' = result /\ ~cancelled /\ FailedUpstream(n) = {}
    BY <1>7 DEF LaunchNode
  <2>2. StateOf(n)' = "scheduled" /\ \A m \in Nodes \ {n} : phase'[m] = phase[m] /\ result'[m] = result[m]
    BY <1>3, <2>1 DEF StateOf
  <2>3. Lifecycle!Move(n, {"pending"}, "scheduled")
    BY <1>2, <1>3, <2>2, MoveMaps
  <2> QED
    BY <1>1, <1>6, <2>1, <2>3 DEF Lifecycle!Schedule
<1>8. ASSUME NEW r, LaunchSettles(n, r)
      PROVE  Lifecycle!Move(n, {"pending"}, r.status)
  <2>1. Settle({n}, [m \in {n} |-> r], ready \ {n})
    BY <1>8 DEF LaunchSettles
  <2>2. /\ phase'[n] = "settled" /\ result'[n] = r
        /\ \A m \in Nodes \ {n} : phase'[m] = phase[m] /\ result'[m] = result[m]
    BY <2>1 DEF Settle
  <2>3. StateOf(n)' = r.status
    BY <2>2 DEF StateOf
  <2> QED
    BY <1>2, <1>3, <2>2, <2>3, MoveMaps
<1>9. CASE LaunchUnbound(n)
  <2>1. ~cancelled /\ FailedUpstream(n) = {} /\ LaunchSettles(n, Failed(0, Failure("INPUT_BINDING_FAILED", 0)))
    BY <1>9 DEF LaunchUnbound
  <2>2. Lifecycle!Move(n, {"pending"}, "failed")
    BY <1>8, <2>1 DEF Failed
  <2> QED
    BY <1>1, <1>6, <2>1, <2>2 DEF Lifecycle!Refuse
<1>10. CASE LaunchSkipped(n)
  <2>1. (cancelled \/ FailedUpstream(n) # {}) /\ LaunchSettles(n, Skipped(SkipCode))
    BY <1>10 DEF LaunchSkipped
  <2>2. Lifecycle!Move(n, {"pending"}, "skipped")
    BY <1>8, <2>1 DEF Skipped
  <2>3. ASSUME NEW m \in Lifecycle!Upstream(n)
        PROVE  m \in Nodes /\ NodeStates[m] = result[m].status /\ NodeStates[m] \in Lifecycle!Terminal
    <3>1. PICK e \in Incoming(n) : m = e.from
      BY DEF Lifecycle!Upstream, Incoming
    <3>2. m \in Nodes /\ phase[m] = "settled"
      BY <1>4, <3>1 DEF Settled
    <3> QED
      BY <3>2, StateOfPhase DEF NodeStates
  <2>4. FailedUpstream(n) # {} => ~Lifecycle!Satisfied(n)
    <3> SUFFICES ASSUME NEW m \in FailedUpstream(n) PROVE ~Lifecycle!Satisfied(n)
      OBVIOUS
    <3>1. m \in Lifecycle!Upstream(n) /\ result[m].status # "succeeded"
      BY DEF FailedUpstream, EdgesBetween, Lifecycle!Upstream
    <3>2. NodeStates[m] # "succeeded"
      BY <2>3, <3>1
    <3> QED
      BY <3>1, <3>2 DEF Lifecycle!Satisfied, NodeStates
  <2> QED
    BY <1>1, <2>1, <2>2, <2>3, <2>4 DEF Lifecycle!Skip, NodeStates
<1> QED
  BY <1>7, <1>9, <1>10

\* The other steps of the main task and of the caller.
LEMMA SettleDoneMaps ==
    ASSUME PyInv, SettleDone
    PROVE  UNCHANGED Lifecycle!lifecycle
<1> DEFINE done == {n \in Nodes : phase[n] = "finished"}
<1>1. Settle(done, result, ready) /\ UNCHANGED <<attempts, totalAttempts, cancelled, run>>
  BY DEF SettleDone
<1>2. ASSUME NEW n \in Nodes PROVE StateOf(n)' = StateOf(n)
  <2>1. result'[n] = result[n] /\ phase'[n] = IF n \in done THEN "settled" ELSE phase[n]
    BY <1>1 DEF Settle
  <2> QED
    BY <2>1 DEF StateOf
<1>3. NodeStates' = NodeStates
  BY <1>2 DEF NodeStates
<1> QED
  BY <1>1, <1>3, Unseen

LEMMA StatesKept ==
    ASSUME UNCHANGED <<phase, result>>
    PROVE  NodeStates' = NodeStates
<1>1. \A n \in Nodes : StateOf(n)' = StateOf(n)
  BY DEF StateOf
<1> QED
  BY <1>1 DEF NodeStates

LEMMA CancelMaps ==
    ASSUME PyInv, PyInv', Cancel
    PROVE  Lifecycle!Cancel
<1>1. /\ mainPc = "await" /\ ~cancelled /\ cancelled' = TRUE
      /\ UNCHANGED <<mainPc, phase, result, attempts, totalAttempts, run>>
  BY DEF Cancel, LoopFree, taskVars
<1>2. NodeStates' = NodeStates /\ UnderWay
  BY <1>1, StatesKept, UnderWayHolds
<1>3. NodeStates \in [Nodes -> Lifecycle!NodeStates]
  BY StateOfPhase DEF NodeStates
<1> QED
  BY <1>1, <1>2, <1>3 DEF Lifecycle!Cancel, NodeStates, UnderWay, Verdict

LEMMA ReturnMaps ==
    ASSUME PyInv, PyInv', Return
    PROVE  Lifecycle!End
<1>1. /\ mainPc = "return" /\ mainPc' = "done"
      /\ UNCHANGED <<phase, result, attempts, totalAttempts, cancelled>>
  BY DEF Return, taskVars
<1>2. NodeStates' = NodeStates
  BY <1>1, StatesKept
<1>3. /\ \A n \in Nodes : NodeStates[n] \in Lifecycle!Terminal /\ NodeStates[n] = result[n].status
  <2>1. Settled = Nodes
    BY <1>1 DEF PyInv, RunComplete
  <2> QED
    BY <2>1, StateOfPhase DEF NodeStates, Settled
<1>4. Verdict = "running"
  BY <1>1 DEF PyInv, Reported, Verdict
<1>5. /\ StatusSound' /\ run'.status \in {"succeeded", "failed", "cancelled"}
      /\ run' # NoRun
  BY <1>1 DEF PyInv, Reported, NoRun
<1>6. Verdict' = run'.status
  BY <1>5 DEF Verdict
<1>7. /\ Verdict' \in {"succeeded", "failed", "cancelled"}
      /\ Verdict' = "cancelled" <=> cancelled
      /\ Verdict' = "succeeded" => \A n \in Nodes : NodeStates[n] = "succeeded"
  BY <1>1, <1>3, <1>5, <1>6 DEF StatusSound
<1> QED
  BY <1>1, <1>2, <1>3, <1>4, <1>7 DEF Lifecycle!End, NodeStates, Verdict

LEMMA LifecycleInitMaps == Init => Lifecycle!LifecycleInit
<1> SUFFICES ASSUME Init PROVE Lifecycle!LifecycleInit
  OBVIOUS
<1>1. \A n \in Nodes : StateOf(n) = "pending"
  BY DEF Init, StateOf
<1>2. AttemptLimit - totalAttempts = AttemptLimit
  BY PyPolicyAssumption DEF Init
<1> QED
  BY <1>1, <1>2 DEF Init, Lifecycle!LifecycleInit

LEMMA StepMaps == PyInv /\ PyInv' /\ [Next]_vars => [Lifecycle!LifecycleNext]_Lifecycle!lifecycle
<1> SUFFICES ASSUME PyInv, PyInv', [Next]_vars PROVE [Lifecycle!LifecycleNext]_Lifecycle!lifecycle
  OBVIOUS
<1>1. ASSUME NEW n \in Nodes, NodeTask(n) PROVE [Lifecycle!LifecycleNext]_Lifecycle!lifecycle
  <2>1. Moves(n)
    <3>1. Relies(n)
      BY DEF PyInv, AllLocal, Relies
    <3> QED
      BY <1>1, <3>1, TasksMove
  <2> QED
    BY <1>1, <2>1, StartMaps, Quiet, FinishAbandonMaps, ResumeGrantedMaps, AttemptEndsMaps, DelayEndsMaps
    DEF NodeTask, Lifecycle!LifecycleNext
<1>2. ASSUME NEW n \in Nodes, AcquireTask(n) \/ HandlerReturns(n) \/ HandlerUnwinds(n)
      PROVE  UNCHANGED Lifecycle!lifecycle
  BY <1>2, Quiet
<1>3. CASE Main
  <2>1. ASSUME LaunchEnds PROVE UNCHANGED Lifecycle!lifecycle
    <3>1. UNCHANGED <<phase, result, attempts, totalAttempts, cancelled, run>>
      BY <2>1 DEF LaunchEnds, taskVars
    <3> QED
      BY <3>1, StatesKept, Unseen
  <2> QED
    BY <1>3, <2>1, LaunchMaps, ReturnMaps DEF Main, Lifecycle!LifecycleNext
<1>4. CASE UNCHANGED vars
  <2>1. UNCHANGED <<phase, result, attempts, totalAttempts, cancelled, run>>
    BY <1>4 DEF vars
  <2> QED
    BY <2>1, StatesKept, Unseen
<1>5. CASE SettleDone
  BY <1>5, SettleDoneMaps
<1>6. CASE Cancel
  BY <1>6, CancelMaps DEF Lifecycle!LifecycleNext
<1> QED
  BY <1>1, <1>2, <1>3, <1>4, <1>5, <1>6 DEF Next, Finished

\* Every step of AsyncScheduler.run, of a node's task, of the semaphore and of
\* the caller's event is a step of the lifecycle in the semantics document or
\* changes nothing it speaks of.
THEOREM PyImplementsLifecycle == Spec => ImplementsLifecycle
<1>1. Init => Lifecycle!LifecycleInit
  BY LifecycleInitMaps
<1>2. PyInv /\ PyInv' /\ [Next]_vars => [Lifecycle!LifecycleNext]_Lifecycle!lifecycle
  BY StepMaps
<1> QED
  BY <1>1, <1>2, InvAlways, PTL DEF Spec, ImplementsLifecycle, Lifecycle!LifecycleSpec
=============================================================================
