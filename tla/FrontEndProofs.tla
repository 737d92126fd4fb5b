--------------------------- MODULE FrontEndProofs ---------------------------
(***************************************************************************)
(* The front ends keep their promises for every question and every set of  *)
(* requests: the barrier, the router and the command line, each a function *)
(* of its input, and the server of the MCP tools.                          *)
(***************************************************************************)
EXTENDS McpServer, Decisions, TLAPS, FiniteSetTheorems, SequenceTheorems

------------------------------------------------------------------------------
(* What a loop keeps of a list.                                            *)

Rank(I, i) == Cardinality({j \in I : j < i})
At(I, k) == CHOOSE i \in I : Rank(I, i) = k - 1

\* The kept positions have an order, and At gives them in it.
LEMMA Positions ==
  ASSUME NEW n \in Nat, NEW I \in SUBSET (1 .. n)
  PROVE  /\ IsFiniteSet(I) /\ Cardinality(I) \in Nat /\ Cardinality(I) <= n
         /\ \A k \in 1 .. Cardinality(I) : At(I, k) \in I
         /\ \A i \in I : \E k \in 1 .. Cardinality(I) : At(I, k) = i
         /\ \A k, l \in 1 .. Cardinality(I) : k < l => At(I, k) < At(I, l)
         /\ \A k \in 1 .. Cardinality(I) : Rank(I, At(I, k)) = k - 1
<1> DEFINE m == Cardinality(I)
           Below(i) == {j \in I : j < i}
           rank == [i \in I |-> Cardinality(Below(i))]
<1>1. IsFiniteSet(I) /\ m \in Nat /\ m <= n
  <2>1. IsFiniteSet(1 .. n) /\ Cardinality(1 .. n) = n
    BY FS_Interval
  <2>2. IsFiniteSet(I) /\ Cardinality(I) <= n
    BY <2>1, FS_Subset
  <2>3. QED
    BY <2>2, FS_CardinalityType
<1>2. \A i \in I : i \in Int
  OBVIOUS
<1>3. ASSUME NEW i \in I PROVE IsFiniteSet(Below(i)) /\ Cardinality(Below(i)) \in 0 .. (m - 1)
  <2>1. Below(i) \in SUBSET (I \ {i})
    BY <1>2
  <2>2. IsFiniteSet(I \ {i}) /\ Cardinality(I \ {i}) = m - 1
    BY <1>1, FS_RemoveElement
  <2>3. IsFiniteSet(Below(i)) /\ Cardinality(Below(i)) <= m - 1
    BY <2>1, <2>2, FS_Subset
  <2>4. Cardinality(Below(i)) \in Nat
    BY <2>3, FS_CardinalityType
  <2> HIDE DEF Below
  <2>5. QED
    BY <1>1, <2>3, <2>4
<1>4. rank \in [I -> 0 .. (m - 1)] /\ \A i \in I : rank[i] = Rank(I, i)
  <2>1. \A i \in I : rank[i] \in 0 .. (m - 1)
    BY <1>3
  <2>2. \A i \in I : rank[i] = Rank(I, i)
    BY DEF Rank
  <2>3. QED
    BY <2>1, <2>2
<1>5. ASSUME NEW i \in I, NEW j \in I, i < j PROVE rank[i] < rank[j]
  <2>1. Below(i) \in SUBSET Below(j) /\ i \in Below(j) /\ i \notin Below(i)
    <3>1. i \in Int /\ j \in Int /\ ~ (i < i)
      BY <1>2
    <3>2. ASSUME NEW x \in I, x < i PROVE x < j
      <4>1. x \in Int
        BY <1>2
      <4>2. QED
        BY <1>5, <3>1, <3>2, <4>1
    <3>3. QED
      BY <1>5, <3>1, <3>2
  <2>2. /\ IsFiniteSet(Below(j)) /\ Cardinality(Below(i)) \in 0 .. (m - 1)
        /\ Cardinality(Below(j)) \in 0 .. (m - 1)
    BY <1>3
  <2>3. rank[i] = Cardinality(Below(i)) /\ rank[j] = Cardinality(Below(j))
    OBVIOUS
  <2> HIDE DEF Below, rank
  <2>4. Cardinality(Below(i)) <= Cardinality(Below(j)) /\ Cardinality(Below(i)) # Cardinality(Below(j))
    BY <2>1, <2>2, FS_Subset
  <2>5. Cardinality(Below(i)) \in Int /\ Cardinality(Below(j)) \in Int
    BY <1>1, <2>2
  <2>6. QED
    BY <2>3, <2>4, <2>5
<1> HIDE DEF rank, m
<1>6. \A i, j \in I : rank[i] = rank[j] => i = j
  <2> SUFFICES ASSUME NEW i \in I, NEW j \in I, rank[i] = rank[j], i # j PROVE FALSE
    OBVIOUS
  <2>1. i < j \/ j < i
    BY <1>2
  <2>2. rank[i] < rank[j] \/ rank[j] < rank[i]
    BY <1>5, <2>1
  <2>3. rank[i] \in Int /\ rank[j] \in Int
    BY <1>1, <1>4
  <2>4. QED
    BY <2>2, <2>3
<1>7. \A r \in 0 .. (m - 1) : \E i \in I : rank[i] = r
  <2>1. rank \in Injection(I, 0 .. (m - 1))
    BY <1>4, <1>6 DEF Injection, IsInjective
  <2>2. IsFiniteSet(0 .. (m - 1)) /\ Cardinality(0 .. (m - 1)) = m
    BY <1>1, FS_Interval
  <2>3. rank \in Surjection(I, 0 .. (m - 1))
    BY <1>1, <2>1, <2>2, FS_Injection DEF m
  <2>4. QED
    BY <2>3 DEF Surjection
<1>8. ASSUME NEW k \in 1 .. m PROVE At(I, k) \in I /\ rank[At(I, k)] = k - 1
  <2>1. k - 1 \in 0 .. (m - 1)
    BY <1>1
  <2>2. \E i \in I : Rank(I, i) = k - 1
    BY <1>4, <1>7, <2>1
  <2>3. At(I, k) \in I /\ Rank(I, At(I, k)) = k - 1
    BY <2>2 DEF At
  <2>4. QED
    BY <1>4, <2>3
<1>9. ASSUME NEW i \in I PROVE \E k \in 1 .. m : At(I, k) = i
  <2>1. rank[i] + 1 \in 1 .. m /\ rank[i] = (rank[i] + 1) - 1
    BY <1>1, <1>4
  <2>2. At(I, rank[i] + 1) \in I /\ rank[At(I, rank[i] + 1)] = rank[i]
    BY <1>8, <2>1
  <2>3. QED
    BY <1>6, <2>1, <2>2
<1>10. ASSUME NEW k \in 1 .. m, NEW l \in 1 .. m, k < l PROVE At(I, k) < At(I, l)
  <2>1. /\ At(I, k) \in I /\ rank[At(I, k)] = k - 1
        /\ At(I, l) \in I /\ rank[At(I, l)] = l - 1
    BY <1>8
  <2>2. At(I, k) = At(I, l) \/ At(I, k) < At(I, l) \/ At(I, l) < At(I, k)
    <3>1. At(I, k) \in Int /\ At(I, l) \in Int
      BY <1>2, <2>1
    <3>2. \A x, y \in Int : x = y \/ x < y \/ y < x
      OBVIOUS
    <3>3. QED
      BY <3>1, <3>2
  <2>3. At(I, k) # At(I, l)
    BY <1>1, <1>10, <2>1
  <2>4. ~ At(I, l) < At(I, k)
    <3>1. At(I, l) < At(I, k) => rank[At(I, l)] < rank[At(I, k)]
      BY <1>5, <2>1
    <3>2. QED
      BY <1>1, <1>10, <2>1, <3>1
  <2>5. QED
    BY <2>2, <2>3, <2>4
<1>11. \A k \in 1 .. m : Rank(I, At(I, k)) = k - 1
  BY <1>4, <1>8
<1>12. QED
  BY <1>1, <1>8, <1>9, <1>10, <1>11 DEF m

LEMMA KeptFacts ==
  ASSUME NEW list, NEW n \in Nat, NEW I \in SUBSET (1 .. n)
  PROVE  /\ DOMAIN Kept(list, I) = 1 .. Cardinality(I)
         /\ Len(Kept(list, I)) = Cardinality(I)
         /\ Kept(list, I) = [k \in 1 .. Cardinality(I) |-> Kept(list, I)[k]]
         /\ \A k \in 1 .. Cardinality(I) : Kept(list, I)[k] = list[At(I, k)]
<1> DEFINE m == Cardinality(I)
<1>1. m \in Nat
  BY Positions
<1>2. Kept(list, I) = [k \in 1 .. m |-> list[At(I, k)]]
  BY DEF Kept, At, Rank
<1> HIDE DEF m
<1>3. Len([k \in 1 .. m |-> list[At(I, k)]]) = m
  BY <1>1
<1>4. QED
  BY <1>2, <1>3 DEF m

\* A loop that keeps everything copies the list.
LEMMA KeptAll ==
  ASSUME NEW list, NEW n \in Nat
  PROVE  /\ DOMAIN Kept(list, 1 .. n) = 1 .. n /\ Len(Kept(list, 1 .. n)) = n
         /\ \A k \in 1 .. n : Kept(list, 1 .. n)[k] = list[k]
<1> DEFINE I == 1 .. n
<1>1. Cardinality(I) = n
  BY FS_Interval
<1>2. ASSUME NEW i \in I PROVE Rank(I, i) = i - 1
  <2>1. {j \in I : j < i} = 1 .. (i - 1)
    OBVIOUS
  <2>2. Cardinality(1 .. (i - 1)) = i - 1
    BY FS_Interval
  <2>3. QED
    BY <2>1, <2>2 DEF Rank
<1>3. ASSUME NEW k \in I PROVE At(I, k) = k
  <2>1. Rank(I, k) = k - 1
    BY <1>2
  <2>2. At(I, k) \in I /\ Rank(I, At(I, k)) = k - 1
    BY <2>1 DEF At
  <2>3. Rank(I, At(I, k)) = At(I, k) - 1
    BY <1>2, <2>2
  <2>4. QED
    BY <2>2, <2>3
<1>4. I \in SUBSET (1 .. n)
  OBVIOUS
<1>5. QED
  BY <1>1, <1>3, <1>4, KeptFacts

------------------------------------------------------------------------------
(* The inputs of the barrier.                                              *)

LEMMA FieldIssues ==
  /\ \A r, k, c : ownDataProperty(r, k, c) = {} <=> (Present(r, k) => Readable(r, k))
  /\ \A r, S : unknownFields(r, S) = {} <=> DOMAIN r \subseteq S
<1>1. \A r, k, c : ownDataProperty(r, k, c) = {} <=> (Present(r, k) => Readable(r, k))
  BY DEF ownDataProperty, When
<1>2. \A r, S : unknownFields(r, S) = {} <=> DOMAIN r \subseteq S
  BY DEF unknownFields
<1>3. QED
  BY <1>1, <1>2

LEMMA StatusIssues ==
  ASSUME NEW item
  PROVE  statusIssues(item) = {} <=> KnownStatus(item)
<1>1. When(~ Present(item, "status"), "status", "REQUIRED") = {} <=> Present(item, "status")
  BY DEF When
<1>2. When(Readable(item, "status") /\ ~ KnownStatus(item), "status", "INVALID_STATUS") = {}
        <=> (Readable(item, "status") => KnownStatus(item))
  BY DEF When
<1>3. KnownStatus(item) => Readable(item, "status")
  BY DEF KnownStatus
<1>4. Readable(item, "status") => Present(item, "status")
  BY DEF Readable
<1>5. QED
  BY <1>1, <1>2, <1>3, <1>4, FieldIssues DEF statusIssues

LEMMA IdIssues ==
  ASSUME NEW slots, NEW i
  PROVE  idIssues(slots, i) = {} <=>
           /\ SafeId(slots[i])
           /\ \A j \in Items(slots) : j < i /\ SafeId(slots[j]) => slots[j].id # slots[i].id
<1> DEFINE item == slots[i]
           Again == \E j \in Items(slots) : j < i /\ SafeId(slots[j]) /\ slots[j].id = item.id
<1>1. When(~ Present(item, "id"), "id", "REQUIRED") = {} <=> Present(item, "id")
  BY DEF When
<1>2. When(Readable(item, "id") /\ ~ SafeId(item), "id", "UNSAFE_ID") = {}
        <=> (Readable(item, "id") => SafeId(item))
  BY DEF When
<1> HIDE DEF Again
<1>3. When(SafeId(item) /\ Again, "id", "DUPLICATE_ID") = {} <=> (SafeId(item) => ~ Again)
  BY DEF When
<1>4. SafeId(item) => Readable(item, "id")
  BY DEF SafeId
<1>5. Readable(item, "id") => Present(item, "id")
  BY DEF Readable
<1>6. idIssues(slots, i) = ownDataProperty(item, "id", "TYPE")
                             \cup When(~ Present(item, "id"), "id", "REQUIRED")
                             \cup When(Readable(item, "id") /\ ~ SafeId(item), "id", "UNSAFE_ID")
                             \cup When(SafeId(item) /\ Again, "id", "DUPLICATE_ID")
  BY DEF idIssues, Again
<1>7. idIssues(slots, i) = {} <=> SafeId(item) /\ ~ Again
  BY <1>1, <1>2, <1>3, <1>4, <1>5, <1>6, FieldIssues
<1>8. QED
  BY <1>7 DEF Again

LEMMA ValueIssues ==
  ASSUME NEW item, KnownStatus(item)
  PROVE  valueIssues(item) = {} <=>
           \/ item.status # "succeeded" /\ ~ Present(item, "value")
           \/ item.status = "succeeded" /\ Readable(item, "value") /\ item.value # Unportable
<1>1. When(Present(item, "value"), "value", "STATUS_VALUE_MISMATCH") = {} <=> ~ Present(item, "value")
  BY DEF When
<1>2. When(~ Present(item, "value"), "value", "STATUS_VALUE_MISMATCH") = {} <=> Present(item, "value")
  BY DEF When
<1>3. When(Readable(item, "value") /\ item.value = Unportable, "value", "INVALID_JSON") = {}
        <=> (Readable(item, "value") => item.value # Unportable)
  BY DEF When
<1>4. CASE item.status # "succeeded"
  BY <1>1, <1>4 DEF valueIssues
<1>5. CASE item.status = "succeeded"
  <2>1. valueIssues(item) = When(~ Present(item, "value"), "value", "STATUS_VALUE_MISMATCH")
              \cup ownDataProperty(item, "value", "INVALID_JSON")
              \cup When(Readable(item, "value") /\ item.value = Unportable, "value", "INVALID_JSON")
    BY <1>5 DEF valueIssues
  <2>2. Readable(item, "value") => Present(item, "value")
    BY DEF Readable
  <2>3. QED
    BY <1>2, <1>3, <1>5, <2>1, <2>2, FieldIssues
<1>6. QED
  BY <1>4, <1>5

\* An item without an issue is well formed, and the other way round.
LEMMA ItemFine ==
  ASSUME NEW item
  PROVE  /\ DOMAIN item \subseteq ItemFields /\ SafeId(item) /\ KnownStatus(item) /\ valueIssues(item) = {}
         <=> WellFormedItem(item)
<1>1. ASSUME DOMAIN item \subseteq ItemFields, SafeId(item), KnownStatus(item), valueIssues(item) = {}
      PROVE  WellFormedItem(item)
  <2>1. /\ "id" \in DOMAIN item /\ item["id"] # Hidden /\ item.id \in SafeIds
        /\ "status" \in DOMAIN item /\ item["status"] # Hidden /\ item.status \in Statuses
    BY <1>1 DEF SafeId, KnownStatus, Readable, Present
  <2>2. CASE item.status # "succeeded"
    <3>1. "value" \notin DOMAIN item
      BY <1>1, <2>2, ValueIssues DEF Present
    <3>2. DOMAIN item = {"id", "status"}
      BY <1>1, <2>1, <3>1 DEF ItemFields
    <3>3. QED
      BY <2>1, <2>2, <3>2 DEF WellFormedItem, Exactly
  <2>3. CASE item.status = "succeeded"
    <3>1. "value" \in DOMAIN item /\ item["value"] # Hidden /\ item.value # Unportable
      BY <1>1, <2>3, ValueIssues DEF Readable, Present
    <3>2. DOMAIN item = {"id", "status", "value"}
      BY <1>1, <2>1, <3>1 DEF ItemFields
    <3>3. QED
      BY <2>1, <2>3, <3>1, <3>2 DEF WellFormedItem, Exactly
  <2>4. QED
    BY <2>2, <2>3
<1>2. ASSUME WellFormedItem(item)
      PROVE  DOMAIN item \subseteq ItemFields /\ SafeId(item) /\ KnownStatus(item) /\ valueIssues(item) = {}
  <2>1. item.id \in SafeIds /\ item.status \in Statuses
    BY <1>2 DEF WellFormedItem, Statuses
  <2>2. /\ DOMAIN item \subseteq ItemFields
        /\ "id" \in DOMAIN item /\ item["id"] # Hidden
        /\ "status" \in DOMAIN item /\ item["status"] # Hidden
    BY <1>2 DEF WellFormedItem, Exactly, ItemFields
  <2>3. SafeId(item) /\ KnownStatus(item)
    BY <2>1, <2>2 DEF SafeId, KnownStatus, Readable, Present
  <2>4. \/ item.status # "succeeded" /\ ~ Present(item, "value")
        \/ item.status = "succeeded" /\ Readable(item, "value") /\ item.value # Unportable
    BY <1>2 DEF WellFormedItem, Exactly, Readable, Present, Statuses
  <2>5. QED
    BY <2>2, <2>3, <2>4, ValueIssues
<1>3. QED
  BY <1>1, <1>2

WellFormedItems(array) ==
  /\ Dense(array)
  /\ \A i \in DOMAIN array.slots : WellFormedItem(array.slots[i])
  /\ \A i, j \in DOMAIN array.slots : array.slots[i].id = array.slots[j].id => i = j

LEMMA ItemsFine ==
  ASSUME NEW array, IsArray(array)
  PROVE  itemIssues(array) = {} <=> WellFormedItems(array)
<1>1. CASE array = Other
  BY <1>1 DEF itemIssues, WellFormedItems, Dense
<1>2. CASE array # Other
  <2> DEFINE slots == array.slots
             D == DOMAIN slots
             One(i) == IF slots[i] \in {Hidden, Other} THEN {<<"items", "TYPE">>}
                       ELSE unknownFields(slots[i], ItemFields) \cup idIssues(slots, i)
                              \cup statusIssues(slots[i]) \cup valueIssues(slots[i])
  <2>1. \A i \in D : i \in Int
    BY <1>2 DEF IsArray
  <2>2. itemIssues(array) = arrayIssues(array) \cup UNION {One(i) : i \in {j \in D : slots[j] # Hole}}
    BY <1>2 DEF itemIssues
  <2>3. arrayIssues(array) = {} <=> ~ array.extra /\ \A i \in D : slots[i] # Hole
    <3>1. When(array.extra, "items", "UNKNOWN_FIELD") = {} <=> ~ array.extra
      BY DEF When
    <3>2. When(\E i \in D : slots[i] = Hole, "items", "TYPE") = {} <=> ~ \E i \in D : slots[i] = Hole
      BY DEF When
    <3>3. QED
      BY <3>1, <3>2 DEF arrayIssues
  <2>4. ASSUME NEW i \in D, slots[i] # Hole
        PROVE  One(i) = {} <=>
                 /\ slots[i] \notin {Hole, Hidden, Other} /\ WellFormedItem(slots[i])
                 /\ \A j \in Items(slots) : j < i /\ SafeId(slots[j]) => slots[j].id # slots[i].id
    <3>1. CASE slots[i] \in {Hidden, Other}
      BY <3>1
    <3>2. CASE slots[i] \notin {Hidden, Other}
      <4>1. One(i) = unknownFields(slots[i], ItemFields) \cup idIssues(slots, i)
                       \cup statusIssues(slots[i]) \cup valueIssues(slots[i])
        BY <3>2
      <4> HIDE DEF One, slots
      <4>2. One(i) = {} <=> /\ DOMAIN slots[i] \subseteq ItemFields /\ idIssues(slots, i) = {}
                            /\ KnownStatus(slots[i]) /\ valueIssues(slots[i]) = {}
        BY <4>1, FieldIssues, StatusIssues
      <4>3. QED
        BY <2>4, <3>2, <4>2, IdIssues, ItemFine
    <3>3. QED
      BY <3>1, <3>2
  <2> HIDE DEF One
  <2>5. ASSUME itemIssues(array) = {} PROVE WellFormedItems(array)
    <3>1. ~ array.extra /\ \A i \in D : slots[i] # Hole
      BY <2>2, <2>3, <2>5
    <3>2. \A i \in D : One(i) = {}
      BY <2>2, <2>5, <3>1
    <3>3. \A i \in D : slots[i] \notin {Hole, Hidden, Other} /\ WellFormedItem(slots[i])
      BY <2>4, <3>1, <3>2
    <3>4. \A i \in D : i \in Items(slots) /\ SafeId(slots[i])
      BY <3>3, ItemFine DEF Items
    <3>5. ASSUME NEW i \in D, NEW j \in D, slots[i].id = slots[j].id PROVE ~ j < i
      BY <2>4, <3>1, <3>2, <3>4, <3>5
    <3>6. ASSUME NEW i \in D, NEW j \in D, slots[i].id = slots[j].id PROVE i = j
      BY <2>1, <3>5, <3>6
    <3>7. QED
      BY <1>2, <3>1, <3>3, <3>6 DEF WellFormedItems, Dense
  <2>6. ASSUME WellFormedItems(array) PROVE itemIssues(array) = {}
    <3>1. /\ ~ array.extra /\ \A i \in D : slots[i] \notin {Hole, Hidden, Other}
          /\ \A i \in D : WellFormedItem(slots[i])
          /\ \A i, j \in D : slots[i].id = slots[j].id => i = j
      BY <2>6 DEF WellFormedItems, Dense
    <3>2. ASSUME NEW i \in D PROVE One(i) = {}
      <4>1. \A j \in Items(slots) : j < i => slots[j].id # slots[i].id
        BY <2>1, <3>1 DEF Items
      <4>2. QED
        BY <2>4, <3>1, <4>1
    <3>3. QED
      BY <2>2, <2>3, <3>1, <3>2
  <2>7. QED
    BY <2>5, <2>6
<1>3. QED
  BY <1>1, <1>2

WellFormedPolicy(policy) ==
  \/ Exactly(policy, {"kind"}) /\ policy.kind = "all"
  \/ Exactly(policy, {"kind", "minimum"}) /\ policy.kind = "minimum" /\ policy.minimum >= 1
  \/ /\ Exactly(policy, {"kind", "basisPoints"}) /\ policy.kind = "percentage"
     /\ policy.basisPoints \in 1 .. BasisPoints

\* A policy of a kind with a parameter: the parameter is all that is left to check.
LEMMA ParameterFine ==
  ASSUME NEW policy, NEW field, Readable(policy, "kind"), policy.kind \in DOMAIN Parameter,
         field = Parameter[policy.kind], policy # Other
  PROVE  policyIssues(policy) = {} <=>
           /\ DOMAIN policy \subseteq {"kind", field} /\ Readable(policy, field)
           /\ InRange(policy.kind, policy[field])
<1>1. policyFields(policy) = {"kind", field}
  BY DEF policyFields
<1>2. Present(policy, "kind")
  BY DEF Readable
<1>3. When(~ Present(policy, "kind"), "kind", "REQUIRED") = {}
  BY <1>2 DEF When
<1>4. When(Readable(policy, "kind") /\ policy.kind \notin DOMAIN Parameter \cup {"all"},
           "kind", "INVALID_POLICY") = {}
  BY DEF When
<1>5. When(~ Present(policy, field), field, "REQUIRED") = {} <=> Present(policy, field)
  BY DEF When
<1>6. When(Readable(policy, field) /\ ~ InRange(policy.kind, policy[field]), field, "INVALID_POLICY") = {}
        <=> (Readable(policy, field) => InRange(policy.kind, policy[field]))
  BY DEF When
<1>7. policyIssues(policy) =
        unknownFields(policy, policyFields(policy))
          \cup When(~ Present(policy, "kind"), "kind", "REQUIRED")
          \cup ownDataProperty(policy, "kind", "INVALID_POLICY")
          \cup When(Readable(policy, "kind") /\ policy.kind \notin DOMAIN Parameter \cup {"all"},
                    "kind", "INVALID_POLICY")
          \cup (When(~ Present(policy, field), field, "REQUIRED")
                  \cup ownDataProperty(policy, field, "INVALID_POLICY")
                  \cup When(Readable(policy, field) /\ ~ InRange(policy.kind, policy[field]),
                            field, "INVALID_POLICY"))
  BY DEF policyIssues, isPlainRecord
<1>8. QED
  BY <1>1, <1>2, <1>3, <1>4, <1>5, <1>6, <1>7, FieldIssues DEF Readable

\* A policy without a parameter has to be of the kind "all".
LEMMA NoParameterFine ==
  ASSUME NEW policy, ~ Readable(policy, "kind") \/ policy.kind \notin DOMAIN Parameter, policy # Other
  PROVE  policyIssues(policy) = {} <=>
           DOMAIN policy \subseteq {"kind"} /\ Readable(policy, "kind") /\ policy.kind = "all"
<1>1. policyFields(policy) = {"kind"}
  BY DEF policyFields
<1>2. When(~ Present(policy, "kind"), "kind", "REQUIRED") = {} <=> Present(policy, "kind")
  BY DEF When
<1>3. When(Readable(policy, "kind") /\ policy.kind \notin DOMAIN Parameter \cup {"all"},
           "kind", "INVALID_POLICY") = {}
        <=> (Readable(policy, "kind") => policy.kind \in DOMAIN Parameter \cup {"all"})
  BY DEF When
<1>4. policyIssues(policy) =
        unknownFields(policy, policyFields(policy))
          \cup When(~ Present(policy, "kind"), "kind", "REQUIRED")
          \cup ownDataProperty(policy, "kind", "INVALID_POLICY")
          \cup When(Readable(policy, "kind") /\ policy.kind \notin DOMAIN Parameter \cup {"all"},
                    "kind", "INVALID_POLICY")
          \cup {}
  BY DEF policyIssues, isPlainRecord
<1>5. Readable(policy, "kind") => Present(policy, "kind")
  BY DEF Readable
<1>6. QED
  BY <1>1, <1>2, <1>3, <1>4, <1>5, FieldIssues

LEMMA PolicyFine ==
  ASSUME NEW policy, policy = Other \/ Numbers(policy, {"minimum", "basisPoints"})
  PROVE  policyIssues(policy) = {} <=> policy # Other /\ WellFormedPolicy(policy)
<1>1. CASE policy = Other
  BY <1>1 DEF policyIssues, isPlainRecord
<1>2. CASE policy # Other
  <2>1. /\ DOMAIN Parameter = {"minimum", "percentage"}
        /\ Parameter["minimum"] = "minimum" /\ Parameter["percentage"] = "basisPoints"
    BY DEF Parameter
  <2>2. /\ "minimum" \in DOMAIN policy /\ policy["minimum"] # Hidden => policy["minimum"] \in Int
        /\ "basisPoints" \in DOMAIN policy /\ policy["basisPoints"] # Hidden => policy["basisPoints"] \in Int
    BY <1>2 DEF Numbers
  <2>3. CASE Readable(policy, "kind") /\ policy.kind = "minimum"
    <3>1. policyIssues(policy) = {} <=>
            /\ DOMAIN policy \subseteq {"kind", "minimum"} /\ Readable(policy, "minimum")
            /\ InRange(policy.kind, policy["minimum"])
      BY <1>2, <2>1, <2>3, ParameterFine
    <3>2. InRange(policy.kind, policy["minimum"]) <=> policy["minimum"] >= 1
      BY <2>3 DEF InRange
    <3>3. QED
      BY <1>2, <2>3, <3>1, <3>2 DEF WellFormedPolicy, Exactly, Readable, Present
  <2>4. CASE Readable(policy, "kind") /\ policy.kind = "percentage"
    <3>1. policyIssues(policy) = {} <=>
            /\ DOMAIN policy \subseteq {"kind", "basisPoints"} /\ Readable(policy, "basisPoints")
            /\ InRange(policy.kind, policy["basisPoints"])
      BY <1>2, <2>1, <2>4, ParameterFine
    <3>2. Readable(policy, "basisPoints") =>
            (InRange(policy.kind, policy["basisPoints"]) <=> policy["basisPoints"] \in 1 .. BasisPoints)
      <4>1. \A x \in Int : InRange("percentage", x) <=> x \in 1 .. BasisPoints
        BY DEF InRange, BasisPoints
      <4>2. Readable(policy, "basisPoints") => policy["basisPoints"] \in Int
        BY <2>2 DEF Readable, Present
      <4>3. QED
        BY <2>4, <4>1, <4>2
    <3>3. QED
      BY <1>2, <2>4, <3>1, <3>2 DEF WellFormedPolicy, Exactly, Readable, Present
  <2>5. CASE ~ Readable(policy, "kind") \/ policy.kind \notin {"minimum", "percentage"}
    <3>1. policyIssues(policy) = {} <=>
            DOMAIN policy \subseteq {"kind"} /\ Readable(policy, "kind") /\ policy.kind = "all"
      BY <1>2, <2>1, <2>5, NoParameterFine
    <3>2. QED
      BY <1>2, <2>5, <3>1 DEF WellFormedPolicy, Exactly, Readable, Present
  <2>6. QED
    BY <2>3, <2>4, <2>5
<1>3. QED
  BY <1>1, <1>2

------------------------------------------------------------------------------
(* The barrier's reply.                                                   *)

\* What the barrier counts of well-formed items: all of them.
LEMMA ItemsCounted ==
  ASSUME NEW array, IsArray(array), WellFormedItems(array)
  PROVE  /\ DOMAIN validateItems(array) = DOMAIN array.slots
         /\ Len(validateItems(array)) = Len(array.slots)
         /\ \A i \in DOMAIN array.slots : /\ validateItems(array)[i].id = array.slots[i].id
                                          /\ validateItems(array)[i].status = array.slots[i].status
<1> DEFINE slots == array.slots
           n == Len(slots)
           list == [i \in DOMAIN slots |-> [id |-> slots[i].id, status |-> slots[i].status]]
<1>1. n \in Nat /\ DOMAIN slots = 1 .. n /\ array # Other
  BY DEF IsArray, WellFormedItems, Dense
<1>2. \A i \in 1 .. n : /\ slots[i] \notin {Hole, Hidden, Other}
                        /\ SafeId(slots[i]) /\ KnownStatus(slots[i])
  BY <1>1, ItemFine DEF WellFormedItems, Dense
<1>3. {i \in Items(slots) : SafeId(slots[i]) /\ KnownStatus(slots[i])} = 1 .. n
  BY <1>1, <1>2 DEF Items
<1>4. validateItems(array) = Kept(list, 1 .. n)
  BY <1>1, <1>3 DEF validateItems
<1>5. \A i \in 1 .. n : list[i].id = slots[i].id /\ list[i].status = slots[i].status
  BY <1>1
<1> HIDE DEF list, n
<1>6. /\ DOMAIN Kept(list, 1 .. n) = 1 .. n /\ Len(Kept(list, 1 .. n)) = n
      /\ \A k \in 1 .. n : Kept(list, 1 .. n)[k] = list[k]
  BY <1>1, KeptAll
<1>7. QED
  BY <1>1, <1>4, <1>5, <1>6 DEF n

StatusPositions(slots, status) == {i \in DOMAIN slots : slots[i].status = status}

LEMMA IdsListed ==
  ASSUME NEW array, IsArray(array), WellFormedItems(array), NEW status
  PROVE  /\ Lists(IdsWith(validateItems(array), status), array.slots, status)
         /\ Len(IdsWith(validateItems(array), status)) = Cardinality(StatusPositions(array.slots, status))
<1> DEFINE slots == array.slots
           n == Len(slots)
           v == validateItems(array)
           list == [i \in DOMAIN v |-> v[i].id]
           I == {i \in DOMAIN slots : slots[i].status = status}
           ids == IdsWith(v, status)
<1>1. n \in Nat /\ DOMAIN slots = 1 .. n
  BY DEF IsArray, WellFormedItems, Dense
<1>2. DOMAIN v = 1 .. n /\ \A i \in 1 .. n : v[i].id = slots[i].id /\ v[i].status = slots[i].status
  BY <1>1, ItemsCounted
<1>3. I \in SUBSET (1 .. n) /\ {i \in DOMAIN v : v[i].status = status} = I
  BY <1>1, <1>2
<1>4. ids = Kept(list, I)
  BY <1>3 DEF IdsWith
<1>5. \A i \in 1 .. n : list[i] = slots[i].id
  BY <1>2
<1>6. \A i \in I : slots[i].status = status /\ i \in DOMAIN slots
  OBVIOUS
<1>7. I = StatusPositions(slots, status)
  BY DEF StatusPositions
<1> HIDE DEF list, ids, I, n, v, slots
<1> DEFINE m == Cardinality(I)
<1>8. /\ DOMAIN ids = 1 .. m /\ Len(ids) = m
      /\ \A k \in 1 .. m : ids[k] = list[At(I, k)]
  <2>1. /\ DOMAIN Kept(list, I) = 1 .. Cardinality(I) /\ Len(Kept(list, I)) = Cardinality(I)
        /\ \A k \in 1 .. Cardinality(I) : Kept(list, I)[k] = list[At(I, k)]
    <3>1. n \in Nat /\ I \in SUBSET (1 .. n)
      BY <1>1, <1>3
    <3>2. QED
      BY <3>1, KeptFacts
  <2>2. QED
    BY <1>4, <2>1, Zenon
<1>9. /\ m \in Nat /\ \A k \in 1 .. m : At(I, k) \in I
      /\ \A i \in I : \E k \in 1 .. m : At(I, k) = i
      /\ \A k, l \in 1 .. m : k < l => At(I, k) < At(I, l)
  BY <1>1, <1>3, Positions
<1> HIDE DEF m
<1>10. \A k \in 1 .. m : ids[k] = slots[At(I, k)].id
  BY <1>3, <1>5, <1>8, <1>9
<1>11. {ids[k] : k \in DOMAIN ids} = {slots[i].id : i \in I}
  BY <1>8, <1>9, <1>10
<1>12. \A k, l \in DOMAIN ids :
         k < l => \E i, j \in I : i < j /\ ids[k] = slots[i].id /\ ids[l] = slots[j].id
  BY <1>8, <1>9, <1>10
<1>13. Lists(ids, slots, status)
  BY <1>7, <1>11, <1>12 DEF Lists, Elements, StatusPositions
<1>14. QED
  BY <1>7, <1>8, <1>13 DEF ids, v, slots, m

\* The threshold in whole successes: what the products of the code compare.
LEMMA Ceiling ==
  \A x, w \in Nat : w * 10000 >= x <=> w >= (x + 10000 - 1) \div 10000
  OBVIOUS

\* reason opens the barrier exactly when enough items succeeded.
LEMMA ReasonIs ==
  ASSUME NEW policy, WellFormedPolicy(policy), policy = Other \/ Numbers(policy, {"minimum", "basisPoints"}),
         policy # Other, NEW n \in Nat, NEW won \in 0 .. n
  PROVE  /\ reason(n, won, policy).satisfied \in BOOLEAN
         /\ reason(n, won, policy).satisfied <=> n # 0 /\ won >= Needed(policy, n)
         /\ n # 0 => Needed(policy, n) \in Int
<1>1. \A s \in BOOLEAN : \A y, z : Outcome(s, y, z).satisfied = s
  BY DEF Outcome
<1>2. CASE n = 0
  <2>1. reason(n, won, policy) = Outcome(FALSE, "", "NO_ITEMS")
    BY <1>2 DEF reason
  <2>2. QED
    BY <1>1, <1>2, <2>1
<1>3. CASE n # 0 /\ policy.kind = "all"
  <2> DEFINE met == (won = n)
  <2>1. reason(n, won, policy) = Outcome(met, "ALL_SUCCEEDED", "ALL_NOT_SUCCEEDED")
    BY <1>3 DEF reason
  <2>2. Needed(policy, n) = n
    BY <1>3 DEF Needed
  <2>3. met \in BOOLEAN /\ (met <=> won >= n)
    OBVIOUS
  <2> HIDE DEF met
  <2>4. reason(n, won, policy).satisfied = met
    BY <1>1, <2>1, <2>3
  <2>5. QED
    BY <1>3, <2>2, <2>3, <2>4
<1>4. CASE n # 0 /\ policy.kind = "minimum"
  <2>1. policy.minimum \in Int
    BY <1>4 DEF WellFormedPolicy, Exactly, Numbers
  <2>2. Needed(policy, n) = policy.minimum
    BY <1>4 DEF Needed
  <2>3. n > 0 /\ n # 0 /\ policy.kind # "all" /\ policy.kind # "percentage"
    BY <1>4
  <2>4. CASE policy.minimum > n
    <3>1. ~ policy.minimum <= n /\ ~ won >= policy.minimum
      BY <2>1, <2>4
    <3>2. reason(n, won, policy) = Outcome(FALSE, "", "MINIMUM_EXCEEDS_TOTAL")
      BY <1>4, <2>3, <2>4, <3>1, Zenon DEF reason
    <3>3. reason(n, won, policy).satisfied = FALSE
      BY <1>1, <3>2
    <3>4. QED
      BY <2>1, <2>2, <3>1, <3>3
  <2>5. CASE policy.minimum <= n
    <3> DEFINE met == won >= policy.minimum
    <3>1. ~ policy.minimum > n /\ met \in BOOLEAN
      BY <2>1, <2>5
    <3>2. reason(n, won, policy) = Outcome(met, "MINIMUM_MET", "MINIMUM_NOT_MET")
      BY <1>4, <2>3, <2>5, <3>1, Zenon DEF reason
    <3> HIDE DEF met
    <3>3. reason(n, won, policy).satisfied = met
      BY <1>1, <3>1, <3>2
    <3>4. QED
      BY <2>1, <2>2, <2>3, <3>1, <3>3 DEF met
  <2>6. QED
    BY <2>1, <2>4, <2>5
<1>5. CASE n # 0 /\ policy.kind = "percentage"
  <2> DEFINE x == n * policy.basisPoints
             met == percentageMet(n, won, policy.basisPoints)
  <2>1. policy.basisPoints \in 1 .. BasisPoints
    BY <1>5 DEF WellFormedPolicy
  <2>2. n > 0 /\ n # 0 /\ policy.kind # "all" /\ policy.kind # "minimum"
    BY <1>5
  <2>3. reason(n, won, policy) = Outcome(met, "PERCENTAGE_MET", "PERCENTAGE_NOT_MET")
    BY <1>5, <2>2, Zenon DEF reason
  <2>4. Needed(policy, n) = (x + BasisPoints - 1) \div BasisPoints
    BY <1>5 DEF Needed
  <2>5. x \in Nat
    <3>1. policy.basisPoints \in Nat
      <4>1. \A k \in 1 .. BasisPoints : k \in Nat
        BY DEF BasisPoints
      <4>2. QED
        BY <2>1, <4>1
    <3>2. \A k, l \in Nat : k * l \in Nat
      OBVIOUS
    <3>3. QED
      BY <3>1, <3>2
  <2>6. met \in BOOLEAN
    BY DEF percentageMet
  <2>7. met <=> won * BasisPoints >= x
    BY DEF percentageMet
  <2> HIDE DEF x, met
  <2>8. won * 10000 >= x <=> won >= (x + 10000 - 1) \div 10000
    BY <2>5, Ceiling
  <2>9. met <=> won >= Needed(policy, n)
    BY <2>4, <2>7, <2>8 DEF BasisPoints
  <2>10. reason(n, won, policy).satisfied = met
    BY <1>1, <2>3, <2>6
  <2>11. Needed(policy, n) \in Int
    BY <2>4, <2>5 DEF BasisPoints
  <2>12. QED
    BY <2>2, <2>6, <2>9, <2>10, <2>11
<1>6. policy.kind \in {"all", "minimum", "percentage"}
  BY DEF WellFormedPolicy
<1>7. QED
  BY <1>2, <1>3, <1>4, <1>5, <1>6

Won(slots) == StatusPositions(slots, "succeeded")

\* The reply to well-formed inputs.
LEMMA BarrierAnswer ==
  ASSUME NEW array, IsArray(array), WellFormedItems(array), array # Throws,
         NEW policy, WellFormedPolicy(policy), Numbers(policy, {"minimum", "basisPoints"}),
         policy \notin {Other, Throws}
  PROVE  LET reply == evaluateSettledBarrier(array, policy)
         IN  /\ reply.issues = {} /\ reply.total = Len(array.slots)
             /\ Lists(reply.acceptedIds, array.slots, "succeeded")
             /\ Lists(reply.failedIds, array.slots, "failed")
             /\ Lists(reply.missingIds, array.slots, "missing")
             /\ Lists(reply.timedOutIds, array.slots, "timed_out")
             /\ reply.satisfied <=> /\ Len(array.slots) # 0
                                     /\ Cardinality(Won(array.slots)) >= Needed(policy, Len(array.slots))
             /\ Len(array.slots) # 0 => Needed(policy, Len(array.slots)) \in Int
<1> DEFINE v == validateItems(array)
           accepted == IdsWith(v, "succeeded")
           outcome == reason(Len(v), Len(accepted), policy)
           reply == evaluateSettledBarrier(array, policy)
           n == Len(array.slots)
<1>1. itemIssues(array) \cup policyIssues(policy) = {}
  BY ItemsFine, PolicyFine
<1>2. reply = [issues |-> {}, satisfied |-> outcome.satisfied, reasonCode |-> outcome.reasonCode,
                total |-> Len(v), acceptedIds |-> accepted,
                failedIds |-> IdsWith(v, "failed"), missingIds |-> IdsWith(v, "missing"),
                timedOutIds |-> IdsWith(v, "timed_out")]
  BY <1>1 DEF evaluateSettledBarrier
<1>3. /\ reply.issues = {} /\ reply.satisfied = outcome.satisfied /\ reply.total = Len(v)
      /\ reply.acceptedIds = accepted /\ reply.failedIds = IdsWith(v, "failed")
      /\ reply.missingIds = IdsWith(v, "missing") /\ reply.timedOutIds = IdsWith(v, "timed_out")
  BY <1>2
<1>4. Len(v) = n /\ n \in Nat /\ DOMAIN array.slots = 1 .. n
  BY ItemsCounted DEF IsArray, WellFormedItems, Dense
<1>5. Len(accepted) = Cardinality(Won(array.slots))
  BY IdsListed DEF Won
<1>6. Cardinality(Won(array.slots)) \in 0 .. n
  <2>1. Won(array.slots) \in SUBSET (1 .. n)
    BY <1>4 DEF Won, StatusPositions
  <2>2. Cardinality(Won(array.slots)) \in Nat /\ Cardinality(Won(array.slots)) <= n
    BY <1>4, <2>1, Positions
  <2>3. QED
    BY <1>4, <2>2
<1>7. /\ outcome.satisfied <=> n # 0 /\ Cardinality(Won(array.slots)) >= Needed(policy, n)
      /\ n # 0 => Needed(policy, n) \in Int
  BY <1>4, <1>5, <1>6, ReasonIs
<1> HIDE DEF reply, outcome
<1>8. reply.satisfied <=> n # 0 /\ Cardinality(Won(array.slots)) >= Needed(policy, n)
  BY <1>3, <1>7
<1>9. /\ Lists(reply.acceptedIds, array.slots, "succeeded")
      /\ Lists(reply.failedIds, array.slots, "failed")
      /\ Lists(reply.missingIds, array.slots, "missing")
      /\ Lists(reply.timedOutIds, array.slots, "timed_out")
  BY <1>3, IdsListed
<1>10. QED
  BY <1>3, <1>4, <1>7, <1>8, <1>9 DEF reply

\* Another success leaves the items well formed, and no fewer succeed.
LEMMA PromotedFine ==
  ASSUME NEW array, IsArray(array), WellFormedItems(array), NEW i \in DOMAIN array.slots,
         NEW item, item = Success(array.slots[i].id), item \notin {Hidden, Hole, Other},
         NEW promoted, promoted = [array EXCEPT !.slots[i] = item], promoted # Other
  PROVE  /\ IsArray(promoted) /\ WellFormedItems(promoted)
         /\ Len(promoted.slots) = Len(array.slots)
         /\ Cardinality(Won(array.slots)) \in Nat /\ Cardinality(Won(promoted.slots)) \in Nat
         /\ Cardinality(Won(promoted.slots)) >= Cardinality(Won(array.slots))
<1> DEFINE slots == array.slots
           n == Len(slots)
           again == [k \in 1 .. n |-> IF k = i THEN item ELSE slots[k]]
<1>1. /\ n \in Nat /\ DOMAIN slots = 1 .. n /\ array = [slots |-> slots, extra |-> array.extra]
      /\ array.extra = FALSE /\ \A k \in 1 .. n : slots[k] \notin {Hole, Hidden, Other}
      /\ \A k \in 1 .. n : WellFormedItem(slots[k])
      /\ \A k, l \in 1 .. n : slots[k].id = slots[l].id => k = l
  BY DEF IsArray, WellFormedItems, Dense
<1>2. [slots EXCEPT ![i] = item] = again
  BY <1>1
<1>3. promoted = [slots |-> again, extra |-> FALSE]
  BY <1>1, <1>2
<1>4. item.id = slots[i].id /\ item.status = "succeeded" /\ WellFormedItem(item)
  <2>1. /\ item = [id |-> slots[i].id, status |-> "succeeded", value |-> "json"]
        /\ slots[i].id \in SafeIds
    BY <1>1 DEF Success, WellFormedItem
  <2>2. DOMAIN item = {"id", "status", "value"} /\ item["id"] = slots[i].id
        /\ item["status"] = "succeeded" /\ item["value"] = "json"
    BY <2>1
  <2>3. DOMAIN item \subseteq ItemFields
    BY <2>2 DEF ItemFields
  <2>4. "succeeded" # Hidden /\ "json" # Hidden /\ slots[i].id # Hidden
    BY <2>1, ValueAssumption DEF Statuses
  <2>5. "json" # Unportable
    BY DEF Unportable
  <2>6. Exactly(item, {"id", "status", "value"})
    BY <2>2, <2>4 DEF Exactly
  <2>7. QED
    BY <2>1, <2>2, <2>5, <2>6 DEF WellFormedItem
<1>5. /\ promoted.slots = again /\ promoted.extra = FALSE
      /\ DOMAIN again = 1 .. n /\ Len(again) = n
      /\ \A k \in 1 .. n : again[k] = IF k = i THEN item ELSE slots[k]
  <2>1. /\ DOMAIN again = 1 .. n
        /\ \A k \in 1 .. n : again[k] = IF k = i THEN item ELSE slots[k]
    OBVIOUS
  <2>2. Len(again) = n
    BY <1>1
  <2> HIDE DEF again
  <2>3. promoted.slots = again /\ promoted.extra = FALSE
    BY <1>3
  <2>4. QED
    BY <2>1, <2>2, <2>3
<1> HIDE DEF again, n, slots
<1>6. IsArray(promoted)
  <2>1. promoted = [slots |-> promoted.slots, extra |-> promoted.extra]
    BY <1>3, <1>5
  <2>2. QED
    BY <1>1, <1>5, <2>1 DEF IsArray
<1>7. \A k \in 1 .. n : again[k].id = slots[k].id
  BY <1>4, <1>5
<1>8. WellFormedItems(promoted)
  <2>1. \A k \in 1 .. n : again[k] \notin {Hole, Hidden, Other} /\ WellFormedItem(again[k])
    BY <1>1, <1>4, <1>5
  <2>2. Dense(promoted)
    BY <1>5, <2>1 DEF Dense
  <2>3. QED
    <3>1. \A k, l \in 1 .. n : again[k].id = again[l].id => k = l
      BY <1>1, <1>7
    <3>2. QED
      BY <1>5, <2>1, <2>2, <3>1 DEF WellFormedItems
<1>9. Won(slots) \in SUBSET Won(again) /\ Won(again) \in SUBSET (1 .. n) /\ Won(slots) \in SUBSET (1 .. n)
  BY <1>1, <1>4, <1>5 DEF Won, StatusPositions
<1>10. /\ IsFiniteSet(Won(again)) /\ Cardinality(Won(again)) \in Nat
       /\ Cardinality(Won(slots)) \in Nat
  BY <1>1, <1>9, Positions
<1>11. Cardinality(Won(slots)) <= Cardinality(Won(again))
  BY <1>9, <1>10, FS_Subset
<1>12. QED
  BY <1>1, <1>5, <1>6, <1>8, <1>10, <1>11 DEF slots, n

\* The promise of the barrier, for one question.
LEMMA BarrierPromise ==
  ASSUME NEW q, IsBarrierQuestion(q), question = q,
         decision = evaluateSettledBarrier(q.items, q.policy)
  PROVE  BarrierCorrect
<1> DEFINE items == q.items
           policy == q.policy
           slots == items.slots
           won == Cardinality({i \in DOMAIN slots : slots[i].status = "succeeded"})
           Promoted(i) == [items EXCEPT !.slots[i] = Success(slots[i].id)]
<1>1. WellFormedBarrier(items, policy) <=>
        /\ Throws \notin {items, policy} /\ policy # Other
        /\ WellFormedItems(items) /\ WellFormedPolicy(policy)
  BY DEF WellFormedBarrier, WellFormedItems, WellFormedPolicy
<1>2. CASE ~ WellFormedBarrier(items, policy)
  <2>1. \E issues : issues # {} /\ decision = Refused(issues)
    <3>1. CASE Throws \in {items, policy}
      BY <3>1 DEF evaluateSettledBarrier
    <3>2. CASE Throws \notin {items, policy}
      <4>1. IsArray(items) /\ (policy = Other \/ Numbers(policy, {"minimum", "basisPoints"}))
        BY <3>2 DEF IsBarrierQuestion
      <4>2. itemIssues(items) \cup policyIssues(policy) # {}
        BY <1>1, <1>2, <3>2, <4>1, ItemsFine, PolicyFine
      <4>3. decision = Refused(itemIssues(items) \cup policyIssues(policy))
        BY <3>2, <4>2 DEF evaluateSettledBarrier
      <4>4. QED
        BY <4>2, <4>3
    <3>3. QED
      BY <3>1, <3>2
  <2>2. decision.issues # {} /\ DOMAIN decision = {"issues"}
    BY <2>1 DEF Refused
  <2>3. QED
    BY <1>2, <2>2 DEF BarrierCorrect
<1>3. CASE WellFormedBarrier(items, policy)
  <2>1. /\ Throws \notin {items, policy} /\ policy # Other /\ items # Other
        /\ WellFormedItems(items) /\ WellFormedPolicy(policy)
        /\ IsArray(items) /\ Numbers(policy, {"minimum", "basisPoints"})
    BY <1>1, <1>3 DEF IsBarrierQuestion, WellFormedItems, Dense
  <2>2. /\ decision.issues = {} /\ decision.total = Len(slots)
        /\ Lists(decision.acceptedIds, slots, "succeeded")
        /\ Lists(decision.failedIds, slots, "failed")
        /\ Lists(decision.missingIds, slots, "missing")
        /\ Lists(decision.timedOutIds, slots, "timed_out")
        /\ decision.satisfied <=> Len(slots) # 0 /\ Cardinality(Won(slots)) >= Needed(policy, Len(slots))
        /\ Len(slots) # 0 => Needed(policy, Len(slots)) \in Int
    BY <2>1, BarrierAnswer
  <2>3. won = Cardinality(Won(slots))
    BY DEF Won, StatusPositions
  <2>4. Len(slots) = 0 <=> slots = <<>>
    <3>1. Len(slots) \in Nat /\ slots = [i \in 1 .. Len(slots) |-> slots[i]]
      BY <2>1 DEF IsArray
    <3>2. QED
      BY <3>1
  <2>5. ASSUME decision.satisfied, NEW i \in DOMAIN slots
        PROVE  evaluateSettledBarrier(Promoted(i), policy).satisfied
    <3>1. slots[i].id \in SafeIds
      BY <2>1 DEF WellFormedItems, WellFormedItem
    <3> DEFINE item == Success(slots[i].id)
               p == [items EXCEPT !.slots[i] = item]
    <3>2. item \notin {Hidden, Hole, Other} /\ p \notin {Other, Throws}
      BY <2>1, <3>1 DEF IsBarrierQuestion
    <3> HIDE DEF item
    <3>3. /\ IsArray(p) /\ WellFormedItems(p)
          /\ Len(p.slots) = Len(slots)
          /\ Cardinality(Won(slots)) \in Nat /\ Cardinality(Won(p.slots)) \in Nat
          /\ Cardinality(Won(p.slots)) >= Cardinality(Won(slots))
      BY <2>1, <3>2, PromotedFine DEF item
    <3>4. p = Promoted(i)
      BY DEF item
    <3> HIDE DEF p, Promoted
    <3>5. evaluateSettledBarrier(p, policy).satisfied <=>
            Len(p.slots) # 0 /\ Cardinality(Won(p.slots)) >= Needed(policy, Len(p.slots))
      BY <2>1, <3>2, <3>3, BarrierAnswer
    <3>6. /\ Len(slots) # 0 /\ Needed(policy, Len(slots)) \in Int
          /\ Cardinality(Won(slots)) >= Needed(policy, Len(slots))
      BY <2>2, <2>5
    <3>7. Cardinality(Won(p.slots)) >= Needed(policy, Len(slots))
      BY <3>3, <3>6
    <3>8. QED
      BY <3>3, <3>4, <3>5, <3>6, <3>7
  <2>6. QED
    BY <1>3, <2>2, <2>3, <2>4, <2>5 DEF BarrierCorrect
<1>4. QED
  BY <1>2, <1>3

------------------------------------------------------------------------------
(* The inputs of the router.                                               *)

\* What a field without issues has: a readable good value, or, where it may be
\* left out, nothing.
Fits(record, key, optional, good) ==
  IF Present(record, key) THEN record[key] # Hidden /\ record[key] \in good ELSE optional

LEMMA FieldFine ==
  ASSUME NEW record, NEW key, NEW hiddenCode, NEW optional \in BOOLEAN, NEW good, NEW badCode
  PROVE  fieldIssues(record, key, hiddenCode, optional, good, badCode) = {}
           <=> Fits(record, key, optional, good)
<1>1. When(~ optional /\ ~ Present(record, key), key, "REQUIRED") = {} <=> optional \/ Present(record, key)
  BY DEF When
<1>2. When(Readable(record, key) /\ record[key] \notin good, key, badCode) = {}
        <=> (Readable(record, key) => record[key] \in good)
  BY DEF When
<1>3. Readable(record, key) <=> Present(record, key) /\ record[key] # Hidden
  BY DEF Readable
<1>4. fieldIssues(record, key, hiddenCode, optional, good, badCode) =
        ownDataProperty(record, key, hiddenCode)
          \cup When(~ optional /\ ~ Present(record, key), key, "REQUIRED")
          \cup When(Readable(record, key) /\ record[key] \notin good, key, badCode)
  BY DEF fieldIssues
<1>5. QED
  BY <1>1, <1>2, <1>3, <1>4, FieldIssues DEF Fits

LEMMA RouteArrayFine ==
  ASSUME NEW array, IsArray(array), NEW duplicateCode, NEW required \in BOOLEAN, NEW emptyCode
  PROVE  validateRouteArray(array, duplicateCode, required, emptyCode) = {}
           <=> WellFormedRoutes(array) /\ (required => array.slots # <<>>)
<1>1. CASE array = Other
  BY <1>1 DEF validateRouteArray, WellFormedRoutes, Dense
<1>2. CASE array # Other
  <2> DEFINE slots == array.slots
             D == DOMAIN slots
             Bad == \E i \in D : slots[i] \notin SafeIds \cup {Hidden, Hole}
             Twice == \E i, j \in D : j < i /\ slots[i] = slots[j] /\ slots[i] \in SafeIds
             Holes == \E i \in D : slots[i] = Hole
             Hides == \E i \in D : slots[i] = Hidden
  <2>1. \A i \in D : i \in Int
    BY <1>2 DEF IsArray
  <2>2. validateRouteArray(array, duplicateCode, required, emptyCode) =
          (When(array.extra, "items", "UNKNOWN_FIELD") \cup When(Holes, "items", "TYPE"))
            \cup When(required /\ slots = <<>>, "routes", emptyCode)
            \cup When(Hides, "routes", "TYPE") \cup When(Bad, "routes", "UNSAFE_ID")
            \cup When(Twice, "routes", duplicateCode)
    BY <1>2 DEF validateRouteArray, arrayIssues
  <2> HIDE DEF Bad, Twice, Holes, Hides
  <2>3. \A p, c : /\ When(array.extra, p, c) = {} <=> ~ array.extra
                  /\ When(Holes, p, c) = {} <=> ~ Holes
                  /\ When(required /\ slots = <<>>, p, c) = {} <=> ~ (required /\ slots = <<>>)
                  /\ When(Hides, p, c) = {} <=> ~ Hides
                  /\ When(Bad, p, c) = {} <=> ~ Bad
                  /\ When(Twice, p, c) = {} <=> ~ Twice
    BY DEF When
  <2>4. validateRouteArray(array, duplicateCode, required, emptyCode) = {} <=>
          ~ array.extra /\ ~ Holes /\ ~ (required /\ slots = <<>>) /\ ~ Hides /\ ~ Bad /\ ~ Twice
    BY <2>2, <2>3
  <2>5. ~ Holes /\ ~ Hides /\ ~ Bad <=>
          /\ \A i \in D : slots[i] \notin {Hole, Hidden, Other}
          /\ \A i \in D : slots[i] \in SafeIds
    BY ValueAssumption DEF Holes, Hides, Bad
  <2>6. ASSUME \A i \in D : slots[i] \in SafeIds
        PROVE  ~ Twice <=> \A i, j \in D : slots[i] = slots[j] => i = j
    BY <2>1, <2>6 DEF Twice
  <2>7. QED
    BY <1>2, <2>4, <2>5, <2>6 DEF WellFormedRoutes, Dense
<1>3. QED
  BY <1>1, <1>2

LEMMA RouteFieldFine ==
  ASSUME NEW record, NEW key, NEW duplicateCode, NEW required \in BOOLEAN, NEW emptyCode,
         Readable(record, key) => IsArray(record[key])
  PROVE  routeFieldIssues(record, key, duplicateCode, required, emptyCode) = {} <=>
           /\ Readable(record, key) /\ WellFormedRoutes(record[key])
           /\ required => record[key].slots # <<>>
<1>1. When(~ Present(record, key), key, "REQUIRED") = {} <=> Present(record, key)
  BY DEF When
<1>2. Readable(record, key) => Present(record, key)
  BY DEF Readable
<1>3. CASE Readable(record, key)
  <2>1. routeFieldIssues(record, key, duplicateCode, required, emptyCode) =
          ownDataProperty(record, key, "TYPE") \cup When(~ Present(record, key), key, "REQUIRED")
            \cup validateRouteArray(record[key], duplicateCode, required, emptyCode)
    BY <1>3 DEF routeFieldIssues
  <2>2. QED
    BY <1>1, <1>2, <1>3, <2>1, FieldIssues, RouteArrayFine
<1>4. CASE ~ Readable(record, key)
  <2>1. routeFieldIssues(record, key, duplicateCode, required, emptyCode) =
          ownDataProperty(record, key, "TYPE") \cup When(~ Present(record, key), key, "REQUIRED")
    BY <1>4 DEF routeFieldIssues
  <2>2. QED
    BY <1>1, <1>4, <2>1, FieldIssues
<1>5. QED
  BY <1>3, <1>4

LEMMA RequestFine ==
  ASSUME NEW request, request # Other,
         Readable(request, "requestedRoutes") => IsArray(request.requestedRoutes)
  PROVE  validateRequest(request) = {} <=>
           /\ DOMAIN request \subseteq RequestFields
           /\ Readable(request, "requestedRoutes") /\ WellFormedRoutes(request.requestedRoutes)
           /\ Fits(request, "confidenceBasisPoints", TRUE, 0 .. BasisPoints)
<1> DEFINE routes == routeFieldIssues(request, "requestedRoutes", "DUPLICATE_SELECTION", FALSE, "TYPE")
           confidence == fieldIssues(request, "confidenceBasisPoints", "INVALID_CONFIDENCE", TRUE,
                                     0 .. BasisPoints, "INVALID_CONFIDENCE")
<1>1. validateRequest(request) = unknownFields(request, RequestFields) \cup routes \cup confidence
  BY DEF validateRequest, isPlainRecord
<1>2. routes = {} <=> Readable(request, "requestedRoutes") /\ WellFormedRoutes(request.requestedRoutes)
  BY RouteFieldFine
<1>3. confidence = {} <=> Fits(request, "confidenceBasisPoints", TRUE, 0 .. BasisPoints)
  BY FieldFine
<1> HIDE DEF routes, confidence
<1>4. QED
  BY <1>1, <1>2, <1>3, FieldIssues

\* The confidence of a policy whose list of routes has no issue.
LEMMA ConfidenceFine ==
  ASSUME NEW confidence, NEW allowed, allowed \subseteq SafeIds
  PROVE  validateConfidencePolicy(confidence, allowed, TRUE) = {} <=> WellFormedConfidence(confidence, allowed)
<1>1. CASE confidence = Other
  BY <1>1 DEF validateConfidencePolicy, isPlainRecord, WellFormedConfidence
<1>2. CASE confidence # Other
  <2> DEFINE least == fieldIssues(confidence, "minimumBasisPoints", "INVALID_CONFIDENCE", FALSE,
                                  1 .. BasisPoints, "INVALID_CONFIDENCE")
             route == fieldIssues(confidence, "escalationRoute", "INVALID_POLICY", FALSE, SafeIds, "UNSAFE_ID")
             declared == declaredIssues(confidence, "escalationRoute", allowed, TRUE)
  <2>1. validateConfidencePolicy(confidence, allowed, TRUE) =
          unknownFields(confidence, ConfidenceFields) \cup least \cup route \cup declared
    BY <1>2 DEF validateConfidencePolicy, isPlainRecord
  <2>2. least = {} <=> Fits(confidence, "minimumBasisPoints", FALSE, 1 .. BasisPoints)
    BY FieldFine
  <2>3. route = {} <=> Fits(confidence, "escalationRoute", FALSE, SafeIds)
    BY FieldFine
  <2>4. declared = {} <=> (Readable(confidence, "escalationRoute") /\ confidence.escalationRoute \in SafeIds
                             => confidence.escalationRoute \in allowed)
    BY DEF declaredIssues, When, validRouteId
  <2> HIDE DEF least, route, declared
  <2>5. validateConfidencePolicy(confidence, allowed, TRUE) = {} <=>
          /\ DOMAIN confidence \subseteq ConfidenceFields /\ least = {} /\ route = {} /\ declared = {}
    BY <2>1, FieldIssues
  <2>6. WellFormedConfidence(confidence, allowed) <=>
          /\ DOMAIN confidence = ConfidenceFields
          /\ confidence["minimumBasisPoints"] # Hidden /\ confidence["escalationRoute"] # Hidden
          /\ confidence.minimumBasisPoints \in 1 .. BasisPoints
          /\ confidence.escalationRoute \in allowed
    BY <1>2 DEF WellFormedConfidence, Exactly, ConfidenceFields
  <2>7. QED
    BY <2>2, <2>3, <2>4, <2>5, <2>6 DEF Fits, Present, Readable, ConfidenceFields
<1>3. QED
  BY <1>1, <1>2

\* A list of routes without issues: the code's copy of it, and how many it has.
LEMMA RoutesCounted ==
  ASSUME NEW array, IsArray(array), WellFormedRoutes(array)
  PROVE  /\ array # Other /\ Len(array.slots) \in Nat /\ DOMAIN array.slots = 1 .. Len(array.slots)
         /\ array.slots = [i \in 1 .. Len(array.slots) |-> array.slots[i]]
         /\ array.slots = <<>> <=> Len(array.slots) = 0
         /\ Elements(array.slots) = {} <=> Len(array.slots) = 0
         /\ Len(Routes(array)) = Len(array.slots)
         /\ {Routes(array)[i] : i \in DOMAIN Routes(array)} = Elements(array.slots)
         /\ IsFiniteSet(Elements(array.slots)) /\ Cardinality(Elements(array.slots)) = Len(array.slots)
         /\ Elements(array.slots) \subseteq SafeIds
<1> DEFINE slots == array.slots
           n == Len(slots)
<1>1. /\ array # Other /\ n \in Nat /\ slots = [i \in 1 .. n |-> slots[i]]
      /\ \A i \in DOMAIN slots : slots[i] \in SafeIds
      /\ \A i, j \in DOMAIN slots : slots[i] = slots[j] => i = j
  BY DEF IsArray, WellFormedRoutes, Dense
<1> HIDE DEF n
<1>2. DOMAIN slots = 1 .. n
  BY <1>1
<1>3. slots = <<>> <=> n = 0
  BY <1>1
<1>4. Elements(slots) = {} <=> n = 0
  <2>1. 1 .. n = {} <=> n = 0
    BY <1>1
  <2>2. Elements(slots) = {} <=> DOMAIN slots = {}
    BY DEF Elements
  <2>3. QED
    BY <1>2, <2>1, <2>2
<1>5. {i \in DOMAIN slots : validRouteId(slots[i])} = 1 .. n
  BY <1>1, <1>2 DEF validRouteId
<1>6. Routes(array) = Kept(slots, 1 .. n)
  BY <1>1, <1>5 DEF Routes
<1>7. /\ DOMAIN Kept(slots, 1 .. n) = 1 .. n /\ Len(Kept(slots, 1 .. n)) = n
      /\ \A k \in 1 .. n : Kept(slots, 1 .. n)[k] = slots[k]
  BY <1>1, KeptAll
<1>8. {Routes(array)[i] : i \in DOMAIN Routes(array)} = Elements(slots)
  BY <1>2, <1>6, <1>7 DEF Elements
<1>9. IsFiniteSet(Elements(slots)) /\ Cardinality(Elements(slots)) = n
  <2>1. IsFiniteSet(1 .. n) /\ Cardinality(1 .. n) = n
    BY <1>1, FS_Interval
  <2>2. slots \in [1 .. n -> Elements(slots)]
    <3>1. \A i \in 1 .. n : slots[i] \in Elements(slots)
      BY <1>2 DEF Elements
    <3>2. QED
      BY <1>1, <3>1
  <2>3. slots \in Injection(1 .. n, Elements(slots))
    BY <1>1, <1>2, <2>2 DEF Injection, IsInjective
  <2>4. slots \in Surjection(1 .. n, Elements(slots))
    <3>1. \A t \in Elements(slots) : \E i \in 1 .. n : slots[i] = t
      BY <1>2 DEF Elements
    <3>2. QED
      BY <2>2, <3>1 DEF Surjection
  <2>5. slots \in Bijection(1 .. n, Elements(slots))
    BY <2>3, <2>4 DEF Bijection
  <2>6. Cardinality(1 .. n) = Cardinality(Elements(slots)) /\ IsFiniteSet(Elements(slots))
    BY <2>1, <2>5, FS_Bijection DEF ExistsBijection
  <2>7. QED
    BY <2>1, <2>6
<1>10. Elements(slots) \subseteq SafeIds
  BY <1>1 DEF Elements
<1>11. QED
  BY <1>1, <1>2, <1>3, <1>4, <1>6, <1>7, <1>8, <1>9, <1>10 DEF n

Kinds == {"single", "multi"}
Multicast(policy, n) ==
  /\ Present(policy, "maxMulticast") => policy["maxMulticast"] # Hidden
  /\ policy.kind = "single" => ~ Present(policy, "maxMulticast")
  /\ policy.kind = "multi" => /\ Present(policy, "maxMulticast")
                              /\ policy.maxMulticast \in 1 .. n

LEMMA MulticastFine ==
  ASSUME NEW policy, Numbers(policy, {"maxMulticast"}), Readable(policy, "kind"), policy.kind \in Kinds,
         NEW n \in Nat
  PROVE  multicastIssues(policy, n, TRUE) = {} <=> Multicast(policy, n)
<1> DEFINE max == "maxMulticast"
           single == When(policy.kind = "single" /\ Present(policy, max), max, "INVALID_POLICY")
           multi == When(policy.kind = "multi" /\ ~ Present(policy, max), max, "REQUIRED")
           range == When(/\ policy.kind = "multi" /\ Readable(policy, max)
                         /\ policy.maxMulticast < 1 \/ policy.maxMulticast > n,
                         max, "INVALID_POLICY")
<1>1. multicastIssues(policy, n, TRUE) =
        ownDataProperty(policy, max, "INVALID_POLICY") \cup single \cup multi \cup range
  <2>1. \A kind : (Readable(policy, "kind") /\ policy.kind = kind) <=> policy.kind = kind
    OBVIOUS
  <2>2. single = When(Readable(policy, "kind") /\ policy.kind = "single" /\ Present(policy, max),
                      max, "INVALID_POLICY")
    BY DEF When
  <2>3. multi = When(Readable(policy, "kind") /\ policy.kind = "multi" /\ ~ Present(policy, max),
                     max, "REQUIRED")
    BY DEF When
  <2>4. range = When(/\ Readable(policy, "kind") /\ policy.kind = "multi" /\ Readable(policy, max)
                     /\ \/ policy.maxMulticast < 1
                        \/ TRUE /\ policy.maxMulticast > n,
                     max, "INVALID_POLICY")
    BY DEF When
  <2> HIDE DEF single, multi, range
  <2>5. multicastIssues(policy, n, TRUE) =
          ownDataProperty(policy, max, "INVALID_POLICY")
            \cup When(Readable(policy, "kind") /\ policy.kind = "single" /\ Present(policy, max),
                      max, "INVALID_POLICY")
            \cup When(Readable(policy, "kind") /\ policy.kind = "multi" /\ ~ Present(policy, max),
                     max, "REQUIRED")
            \cup When(/\ Readable(policy, "kind") /\ policy.kind = "multi" /\ Readable(policy, max)
                      /\ \/ policy.maxMulticast < 1
                         \/ TRUE /\ policy.maxMulticast > n,
                      max, "INVALID_POLICY")
    BY Zenon DEF multicastIssues
  <2>6. QED
    BY <2>2, <2>3, <2>4, <2>5
<1>2. single = {} <=> ~ (policy.kind = "single" /\ Present(policy, max))
  BY DEF When
<1>3. multi = {} <=> ~ (policy.kind = "multi" /\ ~ Present(policy, max))
  BY DEF When
<1>4. range = {} <=> ~ (/\ policy.kind = "multi" /\ Readable(policy, max)
                        /\ policy.maxMulticast < 1 \/ policy.maxMulticast > n)
  BY DEF When
<1> HIDE DEF single, multi, range
<1>5. multicastIssues(policy, n, TRUE) = {} <=>
        /\ Present(policy, max) => Readable(policy, max)
        /\ single = {} /\ multi = {} /\ range = {}
  BY <1>1, FieldIssues
<1>6. Readable(policy, max) <=> Present(policy, max) /\ policy["maxMulticast"] # Hidden
  BY DEF Readable
<1>7. Readable(policy, max) => policy.maxMulticast \in Int
  BY DEF Numbers, Readable, Present
<1>8. Readable(policy, max) =>
        (policy.maxMulticast \in 1 .. n <=> ~ (policy.maxMulticast < 1 \/ policy.maxMulticast > n))
  <2>1. \A k \in Int : k \in 1 .. n <=> ~ (k < 1 \/ k > n)
    OBVIOUS
  <2>2. QED
    BY <1>7, <2>1
<1>9. QED
  BY <1>2, <1>3, <1>4, <1>5, <1>6, <1>8 DEF Multicast, Kinds

\* A policy of the router without issues.
PolicyGood(policy) ==
  /\ DOMAIN policy \subseteq PolicyFields
  /\ Fits(policy, "kind", FALSE, Kinds)
  /\ Readable(policy, "allowedRoutes") /\ WellFormedRoutes(policy.allowedRoutes)
  /\ policy.allowedRoutes.slots # <<>>
  /\ LET allowed == Elements(policy.allowedRoutes.slots)
     IN /\ Present(policy, "defaultRoute") => policy["defaultRoute"] # Hidden /\ policy["defaultRoute"] \in allowed
        /\ Present(policy, "confidence") => /\ policy["confidence"] # Hidden
                                            /\ WellFormedConfidence(policy["confidence"], allowed)
        /\ Multicast(policy, Cardinality(allowed))

LEMMA RoutePolicyFine ==
  ASSUME NEW policy, policy # Other, Numbers(policy, {"maxMulticast"}),
         Readable(policy, "allowedRoutes") => IsArray(policy.allowedRoutes)
  PROVE  routePolicyIssues(policy) = {} <=> PolicyGood(policy)
<1> DEFINE routes == routeFieldIssues(policy, "allowedRoutes", "DUPLICATE_ID", TRUE, "INVALID_POLICY")
           list == AllowedRoutes(policy)
           members == {list[i] : i \in DOMAIN list}
           unknown == unknownFields(policy, PolicyFields)
           kind == fieldIssues(policy, "kind", "INVALID_POLICY", FALSE, {"single", "multi"}, "INVALID_POLICY")
           default == fieldIssues(policy, "defaultRoute", "INVALID_POLICY", TRUE, SafeIds, "UNSAFE_ID")
           declared(valid) == declaredIssues(policy, "defaultRoute", members, valid)
           hidden == ownDataProperty(policy, "confidence", "INVALID_POLICY")
           confidence(valid) ==
             IF Readable(policy, "confidence")
             THEN validateConfidencePolicy(policy.confidence, members, valid) ELSE {}
           multicast(valid) == multicastIssues(policy, Len(list), valid)
<1>1. routePolicyIssues(policy) =
        unknown \cup kind \cup routes \cup default \cup declared(routes = {}) \cup hidden
          \cup confidence(routes = {}) \cup multicast(routes = {})
  BY Zenon DEF routePolicyIssues, isPlainRecord
<1>2. routes = {} <=> /\ Readable(policy, "allowedRoutes") /\ WellFormedRoutes(policy.allowedRoutes)
                      /\ policy.allowedRoutes.slots # <<>>
  BY RouteFieldFine
<1> HIDE DEF routes
<1>3. CASE routes # {}
  BY <1>1, <1>2, <1>3 DEF PolicyGood
<1>4. CASE routes = {}
  <2> DEFINE slots == policy.allowedRoutes.slots
             allowed == Elements(slots)
             n == Cardinality(allowed)
  <2>1. /\ Readable(policy, "allowedRoutes") /\ WellFormedRoutes(policy.allowedRoutes)
        /\ policy.allowedRoutes.slots # <<>> /\ IsArray(policy.allowedRoutes)
    BY <1>2, <1>4
  <2>2. list = Routes(policy.allowedRoutes)
    BY <2>1 DEF AllowedRoutes, isPlainRecord
  <2>3. members = allowed /\ Len(list) = n /\ n \in Nat /\ allowed \subseteq SafeIds
    <3> DEFINE array == policy.allowedRoutes
    <3>1. /\ Len(array.slots) \in Nat /\ Len(Routes(array)) = Len(array.slots)
          /\ {Routes(array)[i] : i \in DOMAIN Routes(array)} = Elements(array.slots)
          /\ Cardinality(Elements(array.slots)) = Len(array.slots)
          /\ Elements(array.slots) \subseteq SafeIds
      <4> HIDE DEF array
      <4>1. IsArray(array) /\ WellFormedRoutes(array)
        BY <2>1 DEF array
      <4>2. QED
        BY <4>1, RoutesCounted
    <3>2. members = {Routes(array)[i] : i \in DOMAIN Routes(array)}
      BY <2>2
    <3> HIDE DEF list, members
    <3>3. QED
      BY <2>2, <3>1, <3>2
  <2>4. (routes = {}) = TRUE
    BY <1>4
  <2> HIDE DEF list, members, allowed, n
  <2>5. routePolicyIssues(policy) =
          unknown \cup kind \cup default \cup declared(TRUE) \cup hidden \cup confidence(TRUE) \cup multicast(TRUE)
    <3>1. routePolicyIssues(policy) =
            unknown \cup kind \cup {} \cup default \cup declared(TRUE) \cup hidden
              \cup confidence(TRUE) \cup multicast(TRUE)
      BY <1>1, <1>4, <2>4, Zenon
    <3> HIDE DEF unknown, kind, default, declared, hidden, confidence, multicast
    <3>2. QED
      BY <3>1
  <2>6. unknown = {} <=> DOMAIN policy \subseteq PolicyFields
    BY FieldIssues
  <2>7. kind = {} <=> Fits(policy, "kind", FALSE, Kinds)
    BY FieldFine DEF Kinds
  <2>8. default = {} <=> Fits(policy, "defaultRoute", TRUE, SafeIds)
    BY FieldFine
  <2>9. declared(TRUE) = {} <=>
          ~ (Readable(policy, "defaultRoute") /\ policy["defaultRoute"] \in SafeIds
               /\ policy["defaultRoute"] \notin allowed)
    BY <2>3 DEF declaredIssues, When, validRouteId
  <2>10. hidden = {} <=> (Present(policy, "confidence") => Readable(policy, "confidence"))
    BY FieldIssues
  <2>11. confidence(TRUE) = {} <=>
           (Readable(policy, "confidence") => WellFormedConfidence(policy["confidence"], allowed))
    BY <2>3, ConfidenceFine
  <2>12. kind = {} => (multicast(TRUE) = {} <=> Multicast(policy, n))
    <3>1. HAVE kind = {}
    <3>2. Readable(policy, "kind") /\ policy.kind \in Kinds
      BY <2>7, <3>1 DEF Fits, Readable
    <3>3. QED
      BY <2>3, <3>2, MulticastFine
  <2> HIDE DEF unknown, kind, default, declared, hidden, confidence, multicast
  <2>13. routePolicyIssues(policy) = {} <=>
           /\ unknown = {} /\ kind = {} /\ default = {} /\ declared(TRUE) = {}
           /\ hidden = {} /\ confidence(TRUE) = {} /\ multicast(TRUE) = {}
    BY <2>5
  <2>14. (default = {} /\ declared(TRUE) = {}) <=>
           (Present(policy, "defaultRoute") =>
              policy["defaultRoute"] # Hidden /\ policy["defaultRoute"] \in allowed)
    BY <2>3, <2>8, <2>9 DEF Fits, Readable
  <2>15. (hidden = {} /\ confidence(TRUE) = {}) <=>
           (Present(policy, "confidence") =>
              policy["confidence"] # Hidden /\ WellFormedConfidence(policy["confidence"], allowed))
    BY <2>10, <2>11 DEF Readable
  <2>16. PolicyGood(policy) <=>
           /\ DOMAIN policy \subseteq PolicyFields /\ Fits(policy, "kind", FALSE, Kinds)
           /\ Present(policy, "defaultRoute") =>
                policy["defaultRoute"] # Hidden /\ policy["defaultRoute"] \in allowed
           /\ Present(policy, "confidence") =>
                policy["confidence"] # Hidden /\ WellFormedConfidence(policy["confidence"], allowed)
           /\ Multicast(policy, n)
    BY <2>1, Zenon DEF PolicyGood, allowed, n
  <2>17. QED
    BY <2>6, <2>7, <2>12, <2>13, <2>14, <2>15, <2>16
<1>5. QED
  BY <1>3, <1>4

\* What Exactly says of a record with names that it must and may have.
Named(record, must, may) == \E optional \in SUBSET may : Exactly(record, must \cup optional)

LEMMA NamesFine ==
  ASSUME NEW record, NEW must, NEW may
  PROVE  Named(record, must, may) <=>
           /\ must \subseteq DOMAIN record /\ DOMAIN record \subseteq must \cup may
           /\ \A name \in DOMAIN record : record[name] # Hidden
<1>1. ASSUME NEW optional \in SUBSET may, Exactly(record, must \cup optional)
      PROVE  /\ must \subseteq DOMAIN record /\ DOMAIN record \subseteq must \cup may
             /\ \A name \in DOMAIN record : record[name] # Hidden
  BY <1>1 DEF Exactly
<1>2. ASSUME must \subseteq DOMAIN record, DOMAIN record \subseteq must \cup may,
             \A name \in DOMAIN record : record[name] # Hidden
      PROVE  Named(record, must, may)
  <2>1. DOMAIN record = must \cup (DOMAIN record \cap may)
    BY <1>2
  <2>2. Exactly(record, must \cup (DOMAIN record \cap may))
    BY <1>2, <2>1 DEF Exactly
  <2>3. QED
    BY <2>2 DEF Named
<1>3. QED
  BY <1>1, <1>2 DEF Named

\* A request without issues.
RequestGood(request) ==
  /\ DOMAIN request \subseteq RequestFields
  /\ Readable(request, "requestedRoutes") /\ WellFormedRoutes(request.requestedRoutes)
  /\ Fits(request, "confidenceBasisPoints", TRUE, 0 .. BasisPoints)

LEMMA WellFormedParts ==
  ASSUME NEW request, NEW policy, {request, policy} \cap {Throws, Other} = {},
         Readable(policy, "allowedRoutes") => IsArray(policy.allowedRoutes)
  PROVE  WellFormedRouting(request, policy) <=>
           /\ RequestGood(request) /\ PolicyGood(policy)
           /\ Present(request, "confidenceBasisPoints") <=> Present(policy, "confidence")
<1> DEFINE allowed == Elements(policy.allowedRoutes.slots)
           requestNames == \E optional \in SUBSET {"confidenceBasisPoints"} :
                             Exactly(request, {"requestedRoutes"} \cup optional)
           policyNames == \E optional \in SUBSET {"defaultRoute", "confidence"} :
                            Exactly(policy, RequiredNames(policy) \cup optional)
           agree == Present(request, "confidenceBasisPoints") <=> Present(policy, "confidence")
           values == /\ allowed # {}
                     /\ policy.kind = "multi" => policy.maxMulticast \in 1 .. Cardinality(allowed)
                     /\ "defaultRoute" \in DOMAIN policy => policy.defaultRoute \in allowed
                     /\ "confidence" \in DOMAIN policy =>
                          /\ WellFormedConfidence(policy.confidence, allowed)
                          /\ request.confidenceBasisPoints \in 0 .. BasisPoints
<1>1. WellFormedRouting(request, policy) <=>
        /\ "requestedRoutes" \in DOMAIN request /\ {"kind", "allowedRoutes"} \subseteq DOMAIN policy
        /\ policy.kind \in Kinds
        /\ requestNames /\ policyNames
        /\ WellFormedRoutes(request.requestedRoutes) /\ WellFormedRoutes(policy.allowedRoutes)
        /\ agree /\ values
  <2>1. (("confidenceBasisPoints" \in DOMAIN request) = ("confidence" \in DOMAIN policy)) <=> agree
    BY DEF Present
  <2>2. {"requestedRoutes"} \subseteq DOMAIN request <=> "requestedRoutes" \in DOMAIN request
    OBVIOUS
  <2> HIDE DEF agree, requestNames, policyNames
  <2>3. QED
    BY <2>1, <2>2, Zenon DEF WellFormedRouting, Kinds, requestNames, policyNames
<1>2. requestNames <=>
        /\ "requestedRoutes" \in DOMAIN request /\ DOMAIN request \subseteq RequestFields
        /\ \A name \in DOMAIN request : request[name] # Hidden
  <2>1. requestNames <=>
          /\ {"requestedRoutes"} \subseteq DOMAIN request
          /\ DOMAIN request \subseteq {"requestedRoutes"} \cup {"confidenceBasisPoints"}
          /\ \A name \in DOMAIN request : request[name] # Hidden
    <3>1. requestNames <=> Named(request, {"requestedRoutes"}, {"confidenceBasisPoints"})
      BY DEF Named
    <3> HIDE DEF requestNames
    <3>2. QED
      BY <3>1, NamesFine
  <2> HIDE DEF requestNames
  <2>2. QED
    BY <2>1 DEF RequestFields
<1>3. policy.kind \in Kinds =>
        (policyNames <=>
          /\ {"kind", "allowedRoutes"} \subseteq DOMAIN policy /\ DOMAIN policy \subseteq PolicyFields
          /\ policy.kind = "multi" <=> "maxMulticast" \in DOMAIN policy
          /\ \A name \in DOMAIN policy : policy[name] # Hidden)
  <2>1. policyNames <=>
          /\ RequiredNames(policy) \subseteq DOMAIN policy
          /\ DOMAIN policy \subseteq RequiredNames(policy) \cup {"defaultRoute", "confidence"}
          /\ \A name \in DOMAIN policy : policy[name] # Hidden
    <3>1. policyNames <=> Named(policy, RequiredNames(policy), {"defaultRoute", "confidence"})
      BY DEF Named
    <3> HIDE DEF policyNames
    <3>2. QED
      BY <3>1, NamesFine
  <2> HIDE DEF policyNames
  <2>2. CASE policy.kind = "multi"
    <3>1. RequiredNames(policy) = {"kind", "allowedRoutes", "maxMulticast"}
      BY <2>2 DEF RequiredNames
    <3>2. QED
      BY <2>1, <2>2, <3>1 DEF PolicyFields
  <2>3. CASE policy.kind # "multi"
    <3>1. RequiredNames(policy) = {"kind", "allowedRoutes"}
      BY <2>3 DEF RequiredNames
    <3>2. QED
      BY <2>1, <2>3, <3>1 DEF PolicyFields
  <2>4. QED
    BY <2>2, <2>3
<1> HIDE DEF requestNames, policyNames
<1>4. RequestGood(request) <=>
        /\ "requestedRoutes" \in DOMAIN request /\ DOMAIN request \subseteq RequestFields
        /\ \A name \in DOMAIN request : request[name] # Hidden
        /\ WellFormedRoutes(request.requestedRoutes)
        /\ Present(request, "confidenceBasisPoints") => request.confidenceBasisPoints \in 0 .. BasisPoints
  BY DEF RequestGood, Fits, Readable, Present, RequestFields
<1>5. PolicyGood(policy) <=>
        /\ {"kind", "allowedRoutes"} \subseteq DOMAIN policy /\ DOMAIN policy \subseteq PolicyFields
        /\ policy.kind \in Kinds
        /\ policy.kind = "multi" <=> "maxMulticast" \in DOMAIN policy
        /\ \A name \in DOMAIN policy : policy[name] # Hidden
        /\ WellFormedRoutes(policy.allowedRoutes) /\ policy.allowedRoutes.slots # <<>>
        /\ policy.kind = "multi" => policy.maxMulticast \in 1 .. Cardinality(allowed)
        /\ Present(policy, "defaultRoute") => policy.defaultRoute \in allowed
        /\ Present(policy, "confidence") => WellFormedConfidence(policy.confidence, allowed)
  BY DEF PolicyGood, Fits, Readable, Present, PolicyFields, Multicast, Kinds
<1>6. Readable(policy, "allowedRoutes") /\ WellFormedRoutes(policy.allowedRoutes) =>
        (policy.allowedRoutes.slots # <<>> <=> allowed # {})
  <2>1. HAVE Readable(policy, "allowedRoutes") /\ WellFormedRoutes(policy.allowedRoutes)
  <2>2. QED
    BY <2>1, RoutesCounted
<1> HIDE DEF allowed
<1>7. ("kind" \in DOMAIN policy /\ "allowedRoutes" \in DOMAIN policy
        /\ \A name \in DOMAIN policy : policy[name] # Hidden) => Readable(policy, "allowedRoutes")
  BY DEF Readable, Present
<1>8. QED
  BY <1>1, <1>2, <1>3, <1>4, <1>5, <1>6, <1>7 DEF Present

LEMMA RoutingFine ==
  ASSUME NEW request, NEW policy, Throws \notin {request, policy},
         request = Other \/ (Readable(request, "requestedRoutes") => IsArray(request.requestedRoutes)),
         \/ policy = Other
         \/ /\ Numbers(policy, {"maxMulticast"})
            /\ Readable(policy, "allowedRoutes") => IsArray(policy.allowedRoutes)
  PROVE  validateRequest(request) \cup routePolicyIssues(policy) \cup confidenceIssues(request, policy) = {}
           <=> WellFormedRouting(request, policy)
<1>1. CASE request = Other
  <2>1. validateRequest(request) # {}
    BY <1>1 DEF validateRequest, isPlainRecord
  <2>2. ~ WellFormedRouting(request, policy)
    BY <1>1 DEF WellFormedRouting
  <2>3. QED
    BY <2>1, <2>2
<1>2. CASE policy = Other
  <2>1. routePolicyIssues(policy) # {}
    BY <1>2 DEF routePolicyIssues, isPlainRecord
  <2>2. ~ WellFormedRouting(request, policy)
    BY <1>2 DEF WellFormedRouting
  <2>3. QED
    BY <2>1, <2>2
<1>3. CASE request # Other /\ policy # Other
  <2>1. validateRequest(request) = {} <=> RequestGood(request)
    BY <1>3, RequestFine DEF RequestGood
  <2>2. routePolicyIssues(policy) = {} <=> PolicyGood(policy)
    BY <1>3, RoutePolicyFine
  <2>3. confidenceIssues(request, policy) = {} <=>
          (Present(request, "confidenceBasisPoints") <=> Present(policy, "confidence"))
    BY <1>3 DEF confidenceIssues, isPlainRecord, When, Present
  <2>4. {request, policy} \cap {Throws, Other} = {}
    BY <1>3
  <2>5. WellFormedRouting(request, policy) <=>
           /\ RequestGood(request) /\ PolicyGood(policy)
           /\ Present(request, "confidenceBasisPoints") <=> Present(policy, "confidence")
    BY <1>3, <2>4, WellFormedParts
  <2>6. QED
    BY <2>1, <2>2, <2>3, <2>5
<1>4. QED
  BY <1>1, <1>2, <1>3

\* What is kept of a list are the entries at the positions, each once when the
\* list has no entry twice.
LEMMA KeptElements ==
  ASSUME NEW list, NEW n \in Nat, DOMAIN list = 1 .. n, NEW I \in SUBSET (1 .. n)
  PROVE  /\ Elements(Kept(list, I)) = {list[i] : i \in I}
         /\ Kept(list, I) = <<>> <=> I = {}
         /\ (\A i, j \in 1 .. n : list[i] = list[j] => i = j)
              => Cardinality(Elements(Kept(list, I))) = Len(Kept(list, I))
<1> DEFINE kept == Kept(list, I)
           m == Cardinality(I)
<1>1. /\ IsFiniteSet(I) /\ m \in Nat
      /\ \A k \in 1 .. m : At(I, k) \in I
      /\ \A i \in I : \E k \in 1 .. m : At(I, k) = i
      /\ \A k, l \in 1 .. m : k < l => At(I, k) < At(I, l)
  BY Positions
<1>2. /\ DOMAIN kept = 1 .. m /\ Len(kept) = m /\ kept = [k \in 1 .. m |-> kept[k]]
      /\ \A k \in 1 .. m : kept[k] = list[At(I, k)]
  BY KeptFacts
<1> HIDE DEF kept, m
<1>3. Elements(kept) = {list[i] : i \in I}
  <2>1. \A t : t \in Elements(kept) <=> \E k \in 1 .. m : t = list[At(I, k)]
    BY <1>2 DEF Elements
  <2>2. \A t : (\E k \in 1 .. m : t = list[At(I, k)]) <=> \E i \in I : t = list[i]
    BY <1>1
  <2>3. QED
    BY <2>1, <2>2
<1>4. kept = <<>> <=> I = {}
  <2>1. m = 0 <=> I = {}
    BY <1>1, FS_EmptySet DEF m
  <2>2. kept = <<>> <=> m = 0
    BY <1>1, <1>2
  <2>3. QED
    BY <2>1, <2>2
<1>5. ASSUME \A i, j \in 1 .. n : list[i] = list[j] => i = j
      PROVE  Cardinality(Elements(kept)) = Len(kept)
  <2>1. \A k, l \in 1 .. m : At(I, k) = At(I, l) => k = l
    <3>1. \A k \in 1 .. m : At(I, k) \in Int
      <4>1. \A i \in I : i \in Int
        OBVIOUS
      <4>2. QED
        BY <1>1, <4>1
    <3>2. TAKE k, l \in 1 .. m
    <3>3. k \in Int /\ l \in Int /\ (k < l \/ k = l \/ l < k)
      BY <1>1
    <3>4. (k < l => At(I, k) < At(I, l)) /\ (l < k => At(I, l) < At(I, k))
      BY <1>1
    <3>5. At(I, k) \in Int /\ At(I, l) \in Int
      BY <3>1
    <3>6. QED
      BY <3>3, <3>4, <3>5
  <2>2. \A k, l \in 1 .. m : kept[k] = kept[l] => k = l
    <3>1. TAKE k, l \in 1 .. m
    <3>2. kept[k] = list[At(I, k)] /\ kept[l] = list[At(I, l)] /\ At(I, k) \in 1 .. n /\ At(I, l) \in 1 .. n
      BY <1>1, <1>2
    <3>3. QED
      BY <1>5, <2>1, <3>2
  <2>3. kept \in [1 .. m -> Elements(kept)]
    <3>1. \A k \in 1 .. m : kept[k] \in Elements(kept)
      BY <1>2 DEF Elements
    <3>2. QED
      BY <1>2, <3>1
  <2>4. kept \in Injection(1 .. m, Elements(kept))
    BY <2>2, <2>3 DEF Injection, IsInjective
  <2>5. kept \in Surjection(1 .. m, Elements(kept))
    <3>1. \A t \in Elements(kept) : \E k \in 1 .. m : kept[k] = t
      BY <1>2 DEF Elements
    <3>2. QED
      BY <2>3, <3>1 DEF Surjection
  <2>6. ExistsBijection(1 .. m, Elements(kept))
    BY <2>4, <2>5 DEF Bijection, ExistsBijection
  <2>7. IsFiniteSet(1 .. m) /\ Cardinality(1 .. m) = m
    BY <1>1, FS_Interval
  <2>8. QED
    BY <1>2, <2>6, <2>7, FS_Bijection
<1>6. QED
  BY <1>2, <1>3, <1>4, <1>5 DEF kept

\* The routes of a request that the policy does not have.
Unknown(requested, allowed) ==
  Kept(requested, {i \in DOMAIN requested : \A j \in DOMAIN allowed : allowed[j] # requested[i]})

\* What the code selects and reports of two lists without duplicates.
LEMMA Selected ==
  ASSUME NEW requested, NEW n \in Nat, DOMAIN requested = 1 .. n,
         NEW allowed, NEW m \in Nat, DOMAIN allowed = 1 .. m,
         \A i, j \in 1 .. m : allowed[i] = allowed[j] => i = j
  PROVE  /\ Elements(Unknown(requested, allowed)) = Elements(requested) \ Elements(allowed)
         /\ Unknown(requested, allowed) = <<>> <=> Elements(requested) \subseteq Elements(allowed)
         /\ Elements(Chosen(requested, allowed)) = Elements(requested) \cap Elements(allowed)
         /\ Cardinality(Elements(Chosen(requested, allowed))) = Len(Chosen(requested, allowed))
<1> DEFINE U == {i \in DOMAIN requested : \A j \in DOMAIN allowed : allowed[j] # requested[i]}
           C == {i \in DOMAIN allowed : \E j \in DOMAIN requested : requested[j] = allowed[i]}
<1>1. U \in SUBSET (1 .. n) /\ C \in SUBSET (1 .. m)
  OBVIOUS
<1>2. {requested[i] : i \in U} = Elements(requested) \ Elements(allowed)
  BY DEF Elements
<1>3. U = {} <=> Elements(requested) \subseteq Elements(allowed)
  <2> HIDE DEF U
  <2>1. U = {} => {requested[i] : i \in U} = {}
    OBVIOUS
  <2>2. ASSUME NEW i \in U PROVE requested[i] \in {requested[j] : j \in U}
    OBVIOUS
  <2>3. QED
    BY <1>2, <2>1, <2>2
<1>4. {allowed[i] : i \in C} = Elements(requested) \cap Elements(allowed)
  BY DEF Elements
<1>5. Unknown(requested, allowed) = Kept(requested, U) /\ Chosen(requested, allowed) = Kept(allowed, C)
  BY DEF Unknown, Chosen
<1> HIDE DEF U, C
<1>6. Elements(Kept(requested, U)) = {requested[i] : i \in U} /\ (Kept(requested, U) = <<>> <=> U = {})
  BY <1>1, KeptElements
<1>7. /\ Elements(Kept(allowed, C)) = {allowed[i] : i \in C}
      /\ Cardinality(Elements(Kept(allowed, C))) = Len(Kept(allowed, C))
  BY <1>1, KeptElements
<1>8. QED
  BY <1>2, <1>3, <1>4, <1>5, <1>6, <1>7

Low(request, policy) ==
  /\ Present(policy, "confidence")
  /\ request.confidenceBasisPoints < policy.confidence.minimumBasisPoints

Over(request, policy) ==
  \/ policy.kind = "single" /\ Len(request.requestedRoutes.slots) > 1
  \/ policy.kind = "multi" /\ Len(request.requestedRoutes.slots) > policy.maxMulticast

\* The code's returns, each under what leads to it.
LEMMA Returns ==
  ASSUME NEW request, NEW policy
  PROVE  LET reply == selectRoutes(request, policy)
             requested == request.requestedRoutes.slots
             allowed == policy.allowedRoutes.slots
             unknown == Unknown(requested, allowed)
             hasDefault == Present(policy, "defaultRoute")
             open == ~ Low(request, policy) /\ requested # <<>>
         IN /\ Low(request, policy) =>
                 reply = result("ESCALATION_SELECTED_LOW_CONFIDENCE", request,
                                 <<policy.confidence.escalationRoute>>, unknown, FALSE, TRUE)
            /\ ~ Low(request, policy) /\ requested = <<>> /\ hasDefault =>
                 reply = result("DEFAULT_SELECTED_NO_REQUEST", request, <<policy.defaultRoute>>, <<>>, TRUE, FALSE)
            /\ ~ Low(request, policy) /\ requested = <<>> /\ ~ hasDefault =>
                 reply = result("NO_REQUESTED_ROUTE", request, <<>>, <<>>, FALSE, FALSE)
            /\ open /\ Over(request, policy) /\ policy.kind = "single" =>
                 reply = result("MULTIPLE_ROUTES_FOR_SINGLE", request, <<>>, unknown, FALSE, FALSE)
            /\ open /\ Over(request, policy) /\ policy.kind = "multi" =>
                 reply = result("MULTICAST_LIMIT_EXCEEDED", request, <<>>, unknown, FALSE, FALSE)
            /\ open /\ ~ Over(request, policy) /\ unknown # <<>> /\ hasDefault =>
                 reply = result("DEFAULT_SELECTED_UNKNOWN_ROUTE", request, <<policy.defaultRoute>>, unknown,
                                 TRUE, FALSE)
            /\ open /\ ~ Over(request, policy) /\ unknown # <<>> /\ ~ hasDefault =>
                 reply = result("UNKNOWN_ROUTE", request, <<>>, unknown, FALSE, FALSE)
            /\ open /\ ~ Over(request, policy) /\ unknown = <<>> =>
                 reply = result("REQUESTED_ROUTES_SELECTED", request, Chosen(requested, allowed), <<>>,
                                 FALSE, FALSE)
<1> DEFINE reply == selectRoutes(request, policy)
           requested == request.requestedRoutes.slots
           allowed == policy.allowedRoutes.slots
           unknown == Unknown(requested, allowed)
           hasDefault == Present(policy, "defaultRoute")
           long == policy.kind = "single" /\ Len(requested) > 1
           many == policy.kind = "multi" /\ Len(requested) > policy.maxMulticast
<1>1. reply =
        IF Low(request, policy)
        THEN result("ESCALATION_SELECTED_LOW_CONFIDENCE", request,
                    <<policy.confidence.escalationRoute>>, unknown, FALSE, TRUE)
        ELSE IF requested = <<>>
        THEN IF hasDefault
             THEN result("DEFAULT_SELECTED_NO_REQUEST", request, <<policy.defaultRoute>>, <<>>, TRUE, FALSE)
             ELSE result("NO_REQUESTED_ROUTE", request, <<>>, <<>>, FALSE, FALSE)
        ELSE IF long
        THEN result("MULTIPLE_ROUTES_FOR_SINGLE", request, <<>>, unknown, FALSE, FALSE)
        ELSE IF many
        THEN result("MULTICAST_LIMIT_EXCEEDED", request, <<>>, unknown, FALSE, FALSE)
        ELSE IF unknown # <<>>
        THEN IF hasDefault
             THEN result("DEFAULT_SELECTED_UNKNOWN_ROUTE", request, <<policy.defaultRoute>>, unknown, TRUE, FALSE)
             ELSE result("UNKNOWN_ROUTE", request, <<>>, unknown, FALSE, FALSE)
        ELSE result("REQUESTED_ROUTES_SELECTED", request, Chosen(requested, allowed), <<>>, FALSE, FALSE)
  BY Zenon DEF selectRoutes, Low, Unknown
<1>2. Over(request, policy) <=> long \/ many
  BY DEF Over
<1>3. /\ long => policy.kind = "single"
      /\ many => policy.kind = "multi"
  OBVIOUS
<1>4. "single" # "multi"
  OBVIOUS
<1> HIDE DEF reply, requested, allowed, unknown, hasDefault, long, many
<1>5. /\ Low(request, policy) =>
           reply = result("ESCALATION_SELECTED_LOW_CONFIDENCE", request,
                           <<policy.confidence.escalationRoute>>, unknown, FALSE, TRUE)
      /\ ~ Low(request, policy) /\ requested = <<>> /\ hasDefault =>
           reply = result("DEFAULT_SELECTED_NO_REQUEST", request, <<policy.defaultRoute>>, <<>>, TRUE, FALSE)
      /\ ~ Low(request, policy) /\ requested = <<>> /\ ~ hasDefault =>
           reply = result("NO_REQUESTED_ROUTE", request, <<>>, <<>>, FALSE, FALSE)
  BY <1>1, Zenon
<1>6. /\ ~ Low(request, policy) /\ requested # <<>> /\ Over(request, policy) /\ policy.kind = "single" =>
           reply = result("MULTIPLE_ROUTES_FOR_SINGLE", request, <<>>, unknown, FALSE, FALSE)
      /\ ~ Low(request, policy) /\ requested # <<>> /\ Over(request, policy) /\ policy.kind = "multi" =>
           reply = result("MULTICAST_LIMIT_EXCEEDED", request, <<>>, unknown, FALSE, FALSE)
  <2>1. /\ policy.kind = "single" => ~ many
        /\ policy.kind = "multi" => ~ long
    BY <1>3, <1>4
  <2>2. QED
    BY <1>1, <1>2, <2>1, Zenon
<1>7. ~ Low(request, policy) /\ requested # <<>> /\ ~ Over(request, policy) =>
        /\ unknown # <<>> /\ hasDefault =>
             reply = result("DEFAULT_SELECTED_UNKNOWN_ROUTE", request, <<policy.defaultRoute>>, unknown,
                             TRUE, FALSE)
        /\ unknown # <<>> /\ ~ hasDefault =>
             reply = result("UNKNOWN_ROUTE", request, <<>>, unknown, FALSE, FALSE)
        /\ unknown = <<>> =>
             reply = result("REQUESTED_ROUTES_SELECTED", request, Chosen(requested, allowed), <<>>,
                             FALSE, FALSE)
  BY <1>1, <1>2, Zenon
<1>8. QED
  BY <1>5, <1>6, <1>7, Zenon DEF reply, requested, allowed, unknown, hasDefault

\* The request in the reverse order is as good, and has the same routes.
LEMMA ReversedFine ==
  ASSUME NEW request, RequestGood(request), IsArray(request.requestedRoutes),
         {Reversed(request), Reversed(request).requestedRoutes} \cap {Hidden, Other, Throws} = {}
  PROVE  LET again == Reversed(request)
             slots == request.requestedRoutes.slots
         IN /\ again \notin {Other, Throws} /\ RequestGood(again) /\ IsArray(again.requestedRoutes)
            /\ DOMAIN again = DOMAIN request
            /\ Len(again.requestedRoutes.slots) = Len(slots)
            /\ Elements(again.requestedRoutes.slots) = Elements(slots)
            /\ "confidenceBasisPoints" \in DOMAIN request =>
                 again["confidenceBasisPoints"] = request["confidenceBasisPoints"]
<1> DEFINE again == Reversed(request)
           array == request.requestedRoutes
           slots == array.slots
           n == Len(slots)
           back == [i \in 1 .. n |-> slots[n + 1 - i]]
<1>1. /\ array # Other /\ n \in Nat /\ slots = [i \in 1 .. n |-> slots[i]]
      /\ array = [slots |-> slots, extra |-> array.extra] /\ array.extra = FALSE
      /\ \A i \in 1 .. n : slots[i] \in SafeIds /\ slots[i] \notin {Hole, Hidden, Other}
      /\ \A i, j \in 1 .. n : slots[i] = slots[j] => i = j
      /\ DOMAIN slots = 1 .. n /\ "requestedRoutes" \in DOMAIN request
  BY DEF IsArray, RequestGood, WellFormedRoutes, Dense, Readable, Present
<1>2. again = [request EXCEPT !.requestedRoutes.slots = back]
  BY <1>1 DEF Reversed
<1>3. DOMAIN again = DOMAIN request
  BY <1>2
<1>4. again.requestedRoutes = [array EXCEPT !.slots = back]
  BY <1>1, <1>2
<1>5. again.requestedRoutes = [slots |-> back, extra |-> FALSE]
  <2>1. [array EXCEPT !.slots = back] = [slots |-> back, extra |-> array.extra]
    <3>1. PICK b : b = back
      OBVIOUS
    <3>2. PICK t, e : array = [slots |-> t, extra |-> e]
      BY <1>1
    <3>3. [array EXCEPT !.slots = b] = [slots |-> b, extra |-> array.extra]
      BY <3>2
    <3>4. QED
      BY <3>1, <3>3, Zenon
  <2>2. QED
    BY <1>1, <1>4, <2>1
<1>6. \A name \in DOMAIN request : name # "requestedRoutes" => again[name] = request[name]
  BY <1>2
<1>7. /\ again.requestedRoutes.slots = back /\ again.requestedRoutes.extra = FALSE
      /\ DOMAIN back = 1 .. n /\ Len(back) = n
      /\ \A i \in 1 .. n : back[i] = slots[n + 1 - i]
  BY <1>1, <1>5
<1>8. \A i \in 1 .. n : n + 1 - i \in 1 .. n /\ n + 1 - (n + 1 - i) = i
  BY <1>1
<1> HIDE DEF again, back, n, slots
<1>9. Elements(back) = Elements(slots)
  <2>1. \A i \in 1 .. n : slots[i] = back[n + 1 - i] /\ n + 1 - i \in 1 .. n
    BY <1>7, <1>8
  <2>2. \A t : (\E i \in 1 .. n : t = back[i]) <=> (\E i \in 1 .. n : t = slots[i])
    BY <1>7, <1>8, <2>1
  <2>3. DOMAIN back = 1 .. n /\ DOMAIN slots = 1 .. n
    BY <1>1, <1>7
  <2>4. \A t : t \in Elements(back) <=> \E i \in 1 .. n : t = back[i]
    BY <2>3 DEF Elements
  <2>5. \A t : t \in Elements(slots) <=> \E i \in 1 .. n : t = slots[i]
    BY <2>3 DEF Elements
  <2> HIDE DEF back
  <2>6. \A t : t \in Elements(back) <=> t \in Elements(slots)
    BY <2>2, <2>4, <2>5, Zenon
  <2>7. QED
    BY <2>6
<1>10. IsArray(again.requestedRoutes)
  <2>1. back = [i \in 1 .. n |-> back[i]]
    BY DEF back
  <2>2. again.requestedRoutes = [slots |-> again.requestedRoutes.slots, extra |-> again.requestedRoutes.extra]
    BY <1>5, <1>7
  <2>3. /\ again.requestedRoutes.extra \in BOOLEAN
        /\ Len(again.requestedRoutes.slots) = n /\ n \in Nat
        /\ again.requestedRoutes.slots = [i \in 1 .. n |-> again.requestedRoutes.slots[i]]
    BY <1>1, <1>7, <2>1
  <2>4. QED
    BY <2>2, <2>3, Zenon DEF IsArray
<1>11. WellFormedRoutes(again.requestedRoutes)
  <2>1. \A i \in 1 .. n : back[i] \in SafeIds /\ back[i] \notin {Hole, Hidden, Other}
    <3>1. TAKE i \in 1 .. n
    <3>2. n + 1 - i \in 1 .. n /\ back[i] = slots[n + 1 - i]
      BY <1>7, <1>8
    <3>3. QED
      BY <1>1, <3>2
  <2>2. \A i, j \in 1 .. n : back[i] = back[j] => i = j
    <3>1. TAKE i, j \in 1 .. n
    <3>2. HAVE back[i] = back[j]
    <3>3. n + 1 - i = n + 1 - j
      <4>1. /\ back[i] = slots[n + 1 - i] /\ back[j] = slots[n + 1 - j]
            /\ n + 1 - i \in 1 .. n /\ n + 1 - j \in 1 .. n
        BY <1>7, <1>8
      <4>2. QED
        BY <1>1, <3>2, <4>1
    <3>4. QED
      BY <1>1, <3>3
  <2>3. again.requestedRoutes # Other
    BY DEF again
  <2>4. QED
    BY <1>7, <2>1, <2>2, <2>3 DEF WellFormedRoutes, Dense
<1>12. RequestGood(again)
  <2>1. Readable(again, "requestedRoutes")
    <3>1. again["requestedRoutes"] # Hidden
      BY DEF again
    <3>2. QED
      BY <1>1, <1>3, <3>1 DEF Readable, Present
  <2>2. Fits(again, "confidenceBasisPoints", TRUE, 0 .. BasisPoints)
    <3>1. "confidenceBasisPoints" \in DOMAIN request =>
            again["confidenceBasisPoints"] = request["confidenceBasisPoints"]
      BY <1>6
    <3>2. QED
      BY <1>3, <3>1 DEF RequestGood, Fits, Present
  <2>3. QED
    BY <1>3, <1>11, <2>1, <2>2 DEF RequestGood
<1>13. "confidenceBasisPoints" \in DOMAIN request =>
         again["confidenceBasisPoints"] = request["confidenceBasisPoints"]
  BY <1>6
<1>14. again \notin {Other, Throws}
  BY DEF again
<1>15. QED
  BY <1>3, <1>7, <1>9, <1>10, <1>12, <1>13, <1>14 DEF again, slots, n

\* The reply reports these routes, and how they were found.
Reports(reply, selected, unknown) ==
  /\ reply.issues = {} /\ (reply.routed <=> selected # <<>>)
  /\ reply.selectedRoutes = selected /\ reply.unknownRoutes = unknown

LEMMA EscalatedResult ==
  ASSUME NEW code, NEW request, NEW selected, NEW unknown, NEW reply,
         reply = result(code, request, selected, unknown, FALSE, TRUE)
  PROVE  /\ Reports(reply, selected, unknown) /\ reply.reasonCode = code
         /\ ~ reply.usedDefault /\ reply.escalated
BY DEF result, Reports

LEMMA DefaultResult ==
  ASSUME NEW code, NEW request, NEW selected, NEW unknown, NEW reply,
         reply = result(code, request, selected, unknown, TRUE, FALSE)
  PROVE  /\ Reports(reply, selected, unknown) /\ reply.reasonCode = code
         /\ reply.usedDefault /\ ~ reply.escalated
BY DEF result, Reports

LEMMA PlainResult ==
  ASSUME NEW code, NEW request, NEW selected, NEW unknown, NEW reply,
         reply = result(code, request, selected, unknown, FALSE, FALSE)
  PROVE  /\ Reports(reply, selected, unknown) /\ reply.reasonCode = code
         /\ ~ reply.usedDefault /\ ~ reply.escalated
BY DEF result, Reports

LEMMA Singleton ==
  /\ \A x : Elements(<<x>>) = {x} /\ Cardinality(Elements(<<x>>)) = 1 /\ Len(<<x>>) = 1 /\ <<x>> # <<>>
  /\ Elements(<<>>) = {} /\ Cardinality(Elements(<<>>)) = 0 /\ Len(<<>>) = 0
<1>1. \A x : Elements(<<x>>) = {x} /\ Len(<<x>>) = 1 /\ <<x>> # <<>>
  BY DEF Elements
<1>2. Elements(<<>>) = {} /\ Len(<<>>) = 0
  BY DEF Elements
<1>3. Cardinality({}) = 0
  BY FS_EmptySet
<1>4. \A x : Cardinality({x}) = 1
  BY FS_Singleton
<1>5. QED
  BY <1>1, <1>2, <1>3, <1>4

Limit(policy) == IF policy.kind = "single" THEN 1 ELSE policy.maxMulticast

\* What RouterCorrect says of an reply, the order of the request aside.
Routed(reply, request, policy) ==
  LET requested == request.requestedRoutes.slots
      allowed == Elements(policy.allowedRoutes.slots)
      fits == Elements(requested) \subseteq allowed /\ Len(requested) \in 1 .. Limit(policy)
      selected == reply.selectedRoutes
  IN /\ reply.issues = {}
     /\ reply.routed <=> selected # <<>>
     /\ reply.escalated <=> Low(request, policy)
     /\ Low(request, policy) => selected = <<policy.confidence.escalationRoute>> /\ ~ reply.usedDefault
     /\ reply.usedDefault => selected = <<policy.defaultRoute>> /\ ~ fits
     /\ ~ Low(request, policy) /\ ~ reply.usedDefault =>
          Elements(selected) = IF fits THEN Elements(requested) ELSE {}
     /\ Cardinality(Elements(selected)) = Len(selected) /\ Len(selected) <= Limit(policy)
     /\ Elements(reply.unknownRoutes) \subseteq Elements(requested) \ allowed

\* The facts about the lists and the limit that the cases below share.
LEMMA RoutingFacts ==
  ASSUME NEW request, NEW policy, RequestGood(request), PolicyGood(policy),
         IsArray(request.requestedRoutes), IsArray(policy.allowedRoutes)
  PROVE  LET requested == request.requestedRoutes.slots
             allowed == policy.allowedRoutes.slots
         IN /\ Len(requested) \in Nat /\ (requested = <<>> <=> Len(requested) = 0)
            /\ policy.kind \in Kinds /\ Limit(policy) \in Nat /\ Limit(policy) >= 1
            /\ Over(request, policy) <=> Len(requested) > Limit(policy)
            /\ Cardinality(Elements(requested)) = Len(requested)
            /\ Elements(Unknown(requested, allowed)) = Elements(requested) \ Elements(allowed)
            /\ Unknown(requested, allowed) = <<>> <=> Elements(requested) \subseteq Elements(allowed)
            /\ Elements(Chosen(requested, allowed)) = Elements(requested) \cap Elements(allowed)
            /\ Cardinality(Elements(Chosen(requested, allowed))) = Len(Chosen(requested, allowed))
<1> DEFINE wanted == request.requestedRoutes
           offered == policy.allowedRoutes
           requested == wanted.slots
           allowed == offered.slots
<1>1. WellFormedRoutes(wanted) /\ WellFormedRoutes(offered)
  BY DEF RequestGood, PolicyGood
<1>2. /\ Len(requested) \in Nat /\ (requested = <<>> <=> Len(requested) = 0)
      /\ DOMAIN requested = 1 .. Len(requested) /\ Cardinality(Elements(requested)) = Len(requested)
  <2> HIDE DEF wanted
  <2>1. IsArray(wanted) /\ WellFormedRoutes(wanted)
    BY <1>1 DEF wanted
  <2>2. QED
    BY <2>1, RoutesCounted
<1>3. /\ Len(allowed) \in Nat /\ DOMAIN allowed = 1 .. Len(allowed)
      /\ Cardinality(Elements(allowed)) = Len(allowed)
  <2> HIDE DEF offered
  <2>1. IsArray(offered) /\ WellFormedRoutes(offered)
    BY <1>1 DEF offered
  <2>2. QED
    BY <2>1, RoutesCounted
<1>4. \A i, j \in 1 .. Len(allowed) : allowed[i] = allowed[j] => i = j
  BY <1>1, <1>3 DEF WellFormedRoutes
<1>5. policy.kind \in Kinds /\ Multicast(policy, Len(allowed))
  BY <1>3 DEF PolicyGood, Fits
<1> HIDE DEF requested, allowed, wanted, offered
<1>6. /\ Elements(Unknown(requested, allowed)) = Elements(requested) \ Elements(allowed)
      /\ Unknown(requested, allowed) = <<>> <=> Elements(requested) \subseteq Elements(allowed)
      /\ Elements(Chosen(requested, allowed)) = Elements(requested) \cap Elements(allowed)
      /\ Cardinality(Elements(Chosen(requested, allowed))) = Len(Chosen(requested, allowed))
  BY <1>2, <1>3, <1>4, Selected
<1>7. Limit(policy) \in Nat /\ Limit(policy) >= 1
  <2>1. policy.kind = "multi" => policy.maxMulticast \in Nat /\ policy.maxMulticast >= 1
    BY <1>3, <1>5 DEF Multicast
  <2>2. QED
    BY <1>5, <2>1 DEF Limit, Kinds
<1>8. Over(request, policy) <=> Len(requested) > Limit(policy)
  BY <1>5 DEF Over, Limit, Kinds, requested, wanted
<1>9. QED
  BY <1>2, <1>5, <1>6, <1>7, <1>8 DEF requested, allowed, wanted, offered

\* What the reply promises, return by return.
LEMMA RouteAnswer ==
  ASSUME NEW request, NEW policy, RequestGood(request), PolicyGood(policy),
         IsArray(request.requestedRoutes), IsArray(policy.allowedRoutes)
  PROVE  Routed(selectRoutes(request, policy), request, policy)
<1> DEFINE reply == selectRoutes(request, policy)
           requested == request.requestedRoutes.slots
           list == policy.allowedRoutes.slots
           allowed == Elements(list)
           unknown == Unknown(requested, list)
           chosen == Chosen(requested, list)
           limit == Limit(policy)
           low == Low(request, policy)
           over == Over(request, policy)
           known == Elements(requested) \subseteq allowed
           fits == known /\ Len(requested) \in 1 .. limit
           hasDefault == Present(policy, "defaultRoute")
<1>1. /\ Len(requested) \in Nat /\ (requested = <<>> <=> Len(requested) = 0)
      /\ policy.kind \in Kinds /\ limit \in Nat /\ limit >= 1 /\ (over <=> Len(requested) > limit)
      /\ Cardinality(Elements(requested)) = Len(requested)
      /\ Elements(unknown) = Elements(requested) \ allowed /\ (unknown = <<>> <=> known)
      /\ Elements(chosen) = Elements(requested) \cap allowed
      /\ Cardinality(Elements(chosen)) = Len(chosen)
  BY RoutingFacts
<1>2. Routed(reply, request, policy) <=>
        LET selected == reply.selectedRoutes
        IN /\ reply.issues = {}
           /\ reply.routed <=> selected # <<>>
           /\ reply.escalated <=> low
           /\ low => selected = <<policy.confidence.escalationRoute>> /\ ~ reply.usedDefault
           /\ reply.usedDefault => selected = <<policy.defaultRoute>> /\ ~ fits
           /\ ~ low /\ ~ reply.usedDefault =>
                Elements(selected) = IF fits THEN Elements(requested) ELSE {}
           /\ Cardinality(Elements(selected)) = Len(selected) /\ Len(selected) <= limit
           /\ Elements(reply.unknownRoutes) \subseteq Elements(requested) \ allowed
  BY DEF Routed
<1>3. /\ low =>
           reply = result("ESCALATION_SELECTED_LOW_CONFIDENCE", request,
                           <<policy.confidence.escalationRoute>>, unknown, FALSE, TRUE)
      /\ ~ low /\ requested = <<>> /\ hasDefault =>
           reply = result("DEFAULT_SELECTED_NO_REQUEST", request, <<policy.defaultRoute>>, <<>>, TRUE, FALSE)
      /\ ~ low /\ requested = <<>> /\ ~ hasDefault =>
           reply = result("NO_REQUESTED_ROUTE", request, <<>>, <<>>, FALSE, FALSE)
      /\ ~ low /\ requested # <<>> /\ over /\ policy.kind = "single" =>
           reply = result("MULTIPLE_ROUTES_FOR_SINGLE", request, <<>>, unknown, FALSE, FALSE)
      /\ ~ low /\ requested # <<>> /\ over /\ policy.kind = "multi" =>
           reply = result("MULTICAST_LIMIT_EXCEEDED", request, <<>>, unknown, FALSE, FALSE)
      /\ ~ low /\ requested # <<>> /\ ~ over /\ unknown # <<>> /\ hasDefault =>
           reply = result("DEFAULT_SELECTED_UNKNOWN_ROUTE", request, <<policy.defaultRoute>>, unknown,
                           TRUE, FALSE)
      /\ ~ low /\ requested # <<>> /\ ~ over /\ unknown # <<>> /\ ~ hasDefault =>
           reply = result("UNKNOWN_ROUTE", request, <<>>, unknown, FALSE, FALSE)
      /\ ~ low /\ requested # <<>> /\ ~ over /\ unknown = <<>> =>
           reply = result("REQUESTED_ROUTES_SELECTED", request, chosen, <<>>, FALSE, FALSE)
  BY Returns, ZenonT(30)
<1>4. low \in BOOLEAN /\ fits \in BOOLEAN
  BY DEF Low
<1> HIDE DEF reply, requested, list, allowed, unknown, chosen, limit, low, over, known, hasDefault
<1> SUFFICES Routed(reply, request, policy)
  BY DEF reply
<1>5. fits <=> known /\ requested # <<>> /\ ~ over
  BY <1>1
<1>6. Elements(<<>>) \subseteq Elements(requested) \ allowed
  BY Singleton
<1> HIDE DEF fits
\* The reply is one route that the policy names, none, or the request.
<1>7. ASSUME NEW selected, NEW reported, Reports(reply, selected, reported),
             reported \in {<<>>, unknown}, reply.escalated <=> low,
             \/ low /\ ~ reply.usedDefault /\ selected = <<policy.confidence.escalationRoute>>
             \/ ~ low /\ reply.usedDefault /\ selected = <<policy.defaultRoute>> /\ ~ fits
             \/ ~ low /\ ~ reply.usedDefault /\ selected = <<>> /\ ~ fits
             \/ ~ low /\ ~ reply.usedDefault /\ selected = chosen /\ fits
      PROVE  Routed(reply, request, policy)
  <2>0. /\ reply.issues = {} /\ (reply.routed <=> selected # <<>>)
        /\ reply.selectedRoutes = selected /\ reply.unknownRoutes = reported
    BY <1>7 DEF Reports
  <2>1. Elements(reply.unknownRoutes) \subseteq Elements(requested) \ allowed
    BY <1>1, <1>6, <1>7, <2>0
  <2>2. fits => Elements(chosen) = Elements(requested) /\ Len(chosen) <= limit
    <3>1. HAVE fits
    <3>2. Elements(chosen) = Elements(requested)
      BY <1>1, <1>5, <3>1 DEF known
    <3>3. Len(chosen) = Len(requested)
      BY <1>1, <3>2
    <3>4. Len(requested) <= limit
      BY <1>1, <1>5, <3>1
    <3>5. QED
      BY <3>2, <3>3, <3>4
  <2>3. /\ \A x : Cardinality(Elements(<<x>>)) = Len(<<x>>) /\ Len(<<x>>) <= limit
        /\ Cardinality(Elements(<<>>)) = Len(<<>>) /\ Len(<<>>) <= limit /\ Elements(<<>>) = {}
    BY <1>1, Singleton
  <2>4. Cardinality(Elements(selected)) = Len(selected) /\ Len(selected) <= limit
    BY <1>1, <1>7, <2>2, <2>3, Zenon
  <2>5. ~ low /\ ~ reply.usedDefault => Elements(selected) = IF fits THEN Elements(requested) ELSE {}
    BY <1>7, <2>0, <2>2, <2>3, Zenon
  <2>6. /\ low => selected = <<policy.confidence.escalationRoute>> /\ ~ reply.usedDefault
        /\ reply.usedDefault => selected = <<policy.defaultRoute>> /\ ~ fits
    BY <1>7, <2>0, Zenon
  <2>7. QED
    BY <1>2, <1>7, <2>0, <2>1, <2>4, <2>5, <2>6, Zenon
<1>8. CASE low
  <2>1. reply = result("ESCALATION_SELECTED_LOW_CONFIDENCE", request,
                        <<policy.confidence.escalationRoute>>, unknown, FALSE, TRUE)
    BY <1>3, <1>8
  <2>2. /\ Reports(reply, <<policy.confidence.escalationRoute>>, unknown)
        /\ ~ reply.usedDefault /\ reply.escalated
    BY <2>1, EscalatedResult, Zenon
  <2>3. QED
    BY <1>7, <1>8, <2>2, Zenon
<1>9. CASE ~ low /\ requested = <<>>
  <2>1. ~ fits
    BY <1>5, <1>9
  <2>2. CASE hasDefault
    <3>1. reply = result("DEFAULT_SELECTED_NO_REQUEST", request, <<policy.defaultRoute>>, <<>>, TRUE, FALSE)
      BY <1>3, <1>9, <2>2
    <3>2. /\ Reports(reply, <<policy.defaultRoute>>, <<>>)
          /\ reply.usedDefault /\ ~ reply.escalated
      BY <3>1, DefaultResult, Zenon
    <3>3. QED
      BY <1>7, <1>9, <2>1, <3>2, Zenon
  <2>3. CASE ~ hasDefault
    <3>1. reply = result("NO_REQUESTED_ROUTE", request, <<>>, <<>>, FALSE, FALSE)
      BY <1>3, <1>9, <2>3
    <3>2. /\ Reports(reply, <<>>, <<>>)
          /\ ~ reply.usedDefault /\ ~ reply.escalated
      BY <3>1, PlainResult, Zenon
    <3>3. QED
      BY <1>7, <1>9, <2>1, <3>2, Zenon
  <2>4. QED
    BY <2>2, <2>3
<1>10. CASE ~ low /\ requested # <<>> /\ over
  <2>1. ~ fits
    BY <1>5, <1>10
  <2>2. \/ reply = result("MULTIPLE_ROUTES_FOR_SINGLE", request, <<>>, unknown, FALSE, FALSE)
        \/ reply = result("MULTICAST_LIMIT_EXCEEDED", request, <<>>, unknown, FALSE, FALSE)
    BY <1>1, <1>3, <1>10 DEF Kinds
  <2>3. PICK code : reply = result(code, request, <<>>, unknown, FALSE, FALSE)
    BY <2>2
  <2>4. /\ Reports(reply, <<>>, unknown)
        /\ ~ reply.usedDefault /\ ~ reply.escalated
    BY <2>3, PlainResult, Zenon
  <2>5. QED
    BY <1>7, <1>10, <2>1, <2>4, Zenon
<1>11. CASE ~ low /\ requested # <<>> /\ ~ over /\ unknown # <<>>
  <2>1. ~ fits
    BY <1>1, <1>5, <1>11
  <2>2. CASE hasDefault
    <3>1. reply = result("DEFAULT_SELECTED_UNKNOWN_ROUTE", request, <<policy.defaultRoute>>, unknown, TRUE, FALSE)
      BY <1>3, <1>11, <2>2
    <3>2. /\ Reports(reply, <<policy.defaultRoute>>, unknown)
          /\ reply.usedDefault /\ ~ reply.escalated
      BY <3>1, DefaultResult, Zenon
    <3>3. QED
      BY <1>7, <1>11, <2>1, <3>2, Zenon
  <2>3. CASE ~ hasDefault
    <3>1. reply = result("UNKNOWN_ROUTE", request, <<>>, unknown, FALSE, FALSE)
      BY <1>3, <1>11, <2>3
    <3>2. /\ Reports(reply, <<>>, unknown)
          /\ ~ reply.usedDefault /\ ~ reply.escalated
      BY <3>1, PlainResult, Zenon
    <3>3. QED
      BY <1>7, <1>11, <2>1, <3>2, Zenon
  <2>4. QED
    BY <2>2, <2>3
<1>12. CASE ~ low /\ requested # <<>> /\ ~ over /\ unknown = <<>>
  <2>1. reply = result("REQUESTED_ROUTES_SELECTED", request, chosen, <<>>, FALSE, FALSE)
    BY <1>3, <1>12
  <2>2. fits
    BY <1>1, <1>5, <1>12
  <2>3. /\ Reports(reply, chosen, <<>>)
        /\ ~ reply.usedDefault /\ ~ reply.escalated
    BY <2>1, PlainResult, Zenon
  <2>4. QED
    BY <1>7, <1>12, <2>2, <2>3, Zenon
<1>13. QED
  BY <1>8, <1>9, <1>10, <1>11, <1>12

\* Two requests for the same routes get the same routes, for the same reason.
LEMMA SameRoutes ==
  ASSUME NEW r, NEW s, NEW policy, RequestGood(r), RequestGood(s), PolicyGood(policy),
         IsArray(r.requestedRoutes), IsArray(s.requestedRoutes), IsArray(policy.allowedRoutes),
         Low(r, policy) <=> Low(s, policy),
         Len(r.requestedRoutes.slots) = Len(s.requestedRoutes.slots),
         Elements(r.requestedRoutes.slots) = Elements(s.requestedRoutes.slots)
  PROVE  /\ selectRoutes(r, policy).selectedRoutes = selectRoutes(s, policy).selectedRoutes
         /\ selectRoutes(r, policy).reasonCode = selectRoutes(s, policy).reasonCode
<1> DEFINE requested(q) == q.requestedRoutes.slots
           list == policy.allowedRoutes.slots
           unknown(q) == Unknown(requested(q), list)
           hasDefault == Present(policy, "defaultRoute")
           reply(q) == selectRoutes(q, policy)
           Same(code, selected) ==
             \A q \in {r, s} : reply(q).selectedRoutes = selected /\ reply(q).reasonCode = code
<1>1. Chosen(requested(r), list) = Chosen(requested(s), list)
  <2>1. \A q : {i \in DOMAIN list : \E j \in DOMAIN requested(q) : requested(q)[j] = list[i]}
                 = {i \in DOMAIN list : list[i] \in Elements(requested(q))}
    BY DEF Elements
  <2>2. \A q : Chosen(requested(q), list) = Kept(list, {i \in DOMAIN list : list[i] \in Elements(requested(q))})
    BY <2>1 DEF Chosen
  <2>3. QED
    BY <2>2
<1>2. /\ policy.kind \in Kinds
      /\ requested(r) = <<>> <=> requested(s) = <<>>
      /\ Over(r, policy) <=> Over(s, policy)
      /\ unknown(r) = <<>> <=> unknown(s) = <<>>
  <2>1. \A q \in {r, s} : /\ requested(q) = <<>> <=> Len(requested(q)) = 0
                          /\ policy.kind \in Kinds
                          /\ Over(q, policy) <=> Len(requested(q)) > Limit(policy)
                          /\ unknown(q) = <<>> <=> Elements(requested(q)) \subseteq Elements(list)
    BY RoutingFacts
  <2> HIDE DEF unknown, list
  <2>2. QED
    BY <2>1
<1>3. \A q \in {r, s} :
        /\ Low(q, policy) =>
             reply(q) = result("ESCALATION_SELECTED_LOW_CONFIDENCE", q,
                                <<policy.confidence.escalationRoute>>, unknown(q), FALSE, TRUE)
        /\ ~ Low(q, policy) /\ requested(q) = <<>> /\ hasDefault =>
             reply(q) = result("DEFAULT_SELECTED_NO_REQUEST", q, <<policy.defaultRoute>>, <<>>, TRUE, FALSE)
        /\ ~ Low(q, policy) /\ requested(q) = <<>> /\ ~ hasDefault =>
             reply(q) = result("NO_REQUESTED_ROUTE", q, <<>>, <<>>, FALSE, FALSE)
        /\ ~ Low(q, policy) /\ requested(q) # <<>> /\ Over(q, policy) /\ policy.kind = "single" =>
             reply(q) = result("MULTIPLE_ROUTES_FOR_SINGLE", q, <<>>, unknown(q), FALSE, FALSE)
        /\ ~ Low(q, policy) /\ requested(q) # <<>> /\ Over(q, policy) /\ policy.kind = "multi" =>
             reply(q) = result("MULTICAST_LIMIT_EXCEEDED", q, <<>>, unknown(q), FALSE, FALSE)
        /\ ~ Low(q, policy) /\ requested(q) # <<>> /\ ~ Over(q, policy) /\ unknown(q) # <<>> /\ hasDefault =>
             reply(q) = result("DEFAULT_SELECTED_UNKNOWN_ROUTE", q, <<policy.defaultRoute>>, unknown(q),
                                TRUE, FALSE)
        /\ ~ Low(q, policy) /\ requested(q) # <<>> /\ ~ Over(q, policy) /\ unknown(q) # <<>> /\ ~ hasDefault =>
             reply(q) = result("UNKNOWN_ROUTE", q, <<>>, unknown(q), FALSE, FALSE)
        /\ ~ Low(q, policy) /\ requested(q) # <<>> /\ ~ Over(q, policy) /\ unknown(q) = <<>> =>
             reply(q) = result("REQUESTED_ROUTES_SELECTED", q, Chosen(requested(q), list), <<>>, FALSE, FALSE)
  <2>1. TAKE q \in {r, s}
  <2>2. QED
    BY Returns, ZenonT(30)
<1>4. SUFFICES \E code, selected : Same(code, selected)
  OBVIOUS
<1> HIDE DEF requested, list, unknown, hasDefault, reply
<1>5. CASE Low(r, policy)
  <2>1. \A q \in {r, s} : reply(q) = result("ESCALATION_SELECTED_LOW_CONFIDENCE", q, <<policy.confidence.escalationRoute>>, unknown(q), FALSE, TRUE)
    BY <1>3, <1>5
  <2>2. Same("ESCALATION_SELECTED_LOW_CONFIDENCE", <<policy.confidence.escalationRoute>>)
    BY <2>1 DEF result
  <2>3. QED
    BY <2>2
<1>6. CASE ~ Low(r, policy) /\ requested(r) = <<>>
  <2>1. CASE hasDefault
    <3>1. \A q \in {r, s} : reply(q) = result("DEFAULT_SELECTED_NO_REQUEST", q, <<policy.defaultRoute>>, <<>>, TRUE, FALSE)
      BY <1>2, <1>3, <1>6, <2>1
    <3>2. Same("DEFAULT_SELECTED_NO_REQUEST", <<policy.defaultRoute>>)
      BY <3>1 DEF result
    <3>3. QED
      BY <3>2
  <2>2. CASE ~ hasDefault
    <3>1. \A q \in {r, s} : reply(q) = result("NO_REQUESTED_ROUTE", q, <<>>, <<>>, FALSE, FALSE)
      BY <1>2, <1>3, <1>6, <2>2
    <3>2. Same("NO_REQUESTED_ROUTE", <<>>)
      BY <3>1 DEF result
    <3>3. QED
      BY <3>2
  <2>3. QED
    BY <2>1, <2>2
<1>7. CASE ~ Low(r, policy) /\ requested(r) # <<>> /\ Over(r, policy)
  <2>1. CASE policy.kind = "single"
    <3>1. \A q \in {r, s} : reply(q) = result("MULTIPLE_ROUTES_FOR_SINGLE", q, <<>>, unknown(q), FALSE, FALSE)
      BY <1>2, <1>3, <1>7, <2>1
    <3>2. Same("MULTIPLE_ROUTES_FOR_SINGLE", <<>>)
      BY <3>1 DEF result
    <3>3. QED
      BY <3>2
  <2>2. CASE policy.kind = "multi"
    <3>1. \A q \in {r, s} : reply(q) = result("MULTICAST_LIMIT_EXCEEDED", q, <<>>, unknown(q), FALSE, FALSE)
      BY <1>2, <1>3, <1>7, <2>2
    <3>2. Same("MULTICAST_LIMIT_EXCEEDED", <<>>)
      BY <3>1 DEF result
    <3>3. QED
      BY <3>2
  <2>3. QED
    BY <1>2, <2>1, <2>2 DEF Kinds
<1>8. CASE ~ Low(r, policy) /\ requested(r) # <<>> /\ ~ Over(r, policy) /\ unknown(r) # <<>>
  <2>1. CASE hasDefault
    <3>1. \A q \in {r, s} : reply(q) = result("DEFAULT_SELECTED_UNKNOWN_ROUTE", q, <<policy.defaultRoute>>, unknown(q), TRUE, FALSE)
      BY <1>2, <1>3, <1>8, <2>1
    <3>2. Same("DEFAULT_SELECTED_UNKNOWN_ROUTE", <<policy.defaultRoute>>)
      BY <3>1 DEF result
    <3>3. QED
      BY <3>2
  <2>2. CASE ~ hasDefault
    <3>1. \A q \in {r, s} : reply(q) = result("UNKNOWN_ROUTE", q, <<>>, unknown(q), FALSE, FALSE)
      BY <1>2, <1>3, <1>8, <2>2
    <3>2. Same("UNKNOWN_ROUTE", <<>>)
      BY <3>1 DEF result
    <3>3. QED
      BY <3>2
  <2>3. QED
    BY <2>1, <2>2
<1>9. CASE ~ Low(r, policy) /\ requested(r) # <<>> /\ ~ Over(r, policy) /\ unknown(r) = <<>>
  <2>1. \A q \in {r, s} : reply(q) = result("REQUESTED_ROUTES_SELECTED", q, Chosen(requested(r), list), <<>>, FALSE, FALSE)
    BY <1>1, <1>2, <1>3, <1>9
  <2>2. Same("REQUESTED_ROUTES_SELECTED", Chosen(requested(r), list))
    BY <2>1 DEF result
  <2>3. QED
    BY <2>2
<1>10. QED
  BY <1>5, <1>6, <1>7, <1>8, <1>9

\* The promise of the router, for one question.
LEMMA RouterPromise ==
  ASSUME NEW q, IsRouterQuestion(q), question = q,
         decision = evaluateRouteSelection(q.request, q.policy)
  PROVE  RouterCorrect
<1> DEFINE request == q.request
           policy == q.policy
           issues == validateRequest(request) \cup routePolicyIssues(policy) \cup confidenceIssues(request, policy)
           again == Reversed(request)
<1>1. /\ request \in {Other, Throws} \/ (Readable(request, "requestedRoutes") => IsArray(request.requestedRoutes))
      /\ \/ policy \in {Other, Throws}
         \/ /\ Numbers(policy, {"maxMulticast"})
            /\ Readable(policy, "allowedRoutes") => IsArray(policy.allowedRoutes)
  BY DEF IsRouterQuestion
<1>2. Throws \notin {request, policy} => (issues = {} <=> WellFormedRouting(request, policy))
  BY <1>1, RoutingFine
<1>3. CASE ~ WellFormedRouting(request, policy)
  <2>1. \E found : found # {} /\ decision = Refused(found)
    <3>1. CASE Throws \in {request, policy}
      BY <3>1 DEF evaluateRouteSelection
    <3>2. CASE Throws \notin {request, policy}
      <4>1. issues # {}
        BY <1>2, <1>3, <3>2
      <4>2. decision = Refused(issues)
        BY <3>2, <4>1, Zenon DEF evaluateRouteSelection
      <4>3. QED
        BY <4>1, <4>2
    <3>3. QED
      BY <3>1, <3>2
  <2>2. decision.issues # {} /\ DOMAIN decision = {"issues"}
    BY <2>1 DEF Refused
  <2>3. QED
    BY <1>3, <2>2, Zenon DEF RouterCorrect
<1>4. CASE WellFormedRouting(request, policy)
  <2>1. {request, policy} \cap {Throws, Other} = {}
    BY <1>4 DEF WellFormedRouting
  <2>2. /\ RequestGood(request) /\ PolicyGood(policy)
        /\ Present(request, "confidenceBasisPoints") <=> Present(policy, "confidence")
    BY <1>1, <1>4, <2>1, WellFormedParts
  <2>3. IsArray(request.requestedRoutes) /\ IsArray(policy.allowedRoutes) /\ request.requestedRoutes # Other
    BY <1>1, <2>1, <2>2 DEF RequestGood, PolicyGood, WellFormedRoutes, Dense
  <2>4. {again, again.requestedRoutes} \cap {Hidden, Other, Throws} = {}
    BY <2>1, <2>2, <2>3 DEF IsRouterQuestion, RequestGood
  <2>5. decision = selectRoutes(request, policy)
    <3>1. Throws \notin {request, policy} /\ issues = {}
      BY <1>2, <1>4, <2>1
    <3>2. QED
      BY <3>1, Zenon DEF evaluateRouteSelection
  <2>6. Routed(decision, request, policy)
    BY <2>2, <2>3, <2>5, RouteAnswer
  <2> HIDE DEF again
  <2>7. /\ again \notin {Other, Throws} /\ RequestGood(again) /\ IsArray(again.requestedRoutes)
        /\ DOMAIN again = DOMAIN request
        /\ Len(again.requestedRoutes.slots) = Len(request.requestedRoutes.slots)
        /\ Elements(again.requestedRoutes.slots) = Elements(request.requestedRoutes.slots)
        /\ "confidenceBasisPoints" \in DOMAIN request =>
             again["confidenceBasisPoints"] = request["confidenceBasisPoints"]
    <3>1. {Reversed(request), Reversed(request).requestedRoutes} \cap {Hidden, Other, Throws} = {}
      BY <2>4 DEF again
    <3>2. QED
      BY <2>2, <2>3, <3>1, ReversedFine, ZenonT(30) DEF again
  <2>8. Low(request, policy) <=> Low(again, policy)
    BY <2>2, <2>7 DEF Low, Present
  <2>9. evaluateRouteSelection(again, policy) = selectRoutes(again, policy)
    <3>1. {again, policy} \cap {Throws, Other} = {}
      BY <2>1, <2>7
    <3>2. Present(again, "confidenceBasisPoints") <=> Present(policy, "confidence")
      BY <2>2, <2>7 DEF Present
    <3>3. Readable(policy, "allowedRoutes") => IsArray(policy.allowedRoutes)
      BY <2>3
    <3>4. WellFormedRouting(again, policy)
      BY <2>2, <2>7, <3>1, <3>2, <3>3, WellFormedParts
    <3>5. Throws \notin {again, policy} /\ (policy = Other \/ Numbers(policy, {"maxMulticast"}))
      BY <1>1, <2>1, <3>1
    <3>6. validateRequest(again) \cup routePolicyIssues(policy) \cup confidenceIssues(again, policy) = {}
      BY <2>7, <3>3, <3>4, <3>5, RoutingFine
    <3>7. QED
      BY <3>5, <3>6, Zenon DEF evaluateRouteSelection
  <2>10. /\ selectRoutes(request, policy).selectedRoutes = selectRoutes(again, policy).selectedRoutes
         /\ selectRoutes(request, policy).reasonCode = selectRoutes(again, policy).reasonCode
    BY <2>2, <2>3, <2>7, <2>8, SameRoutes
  <2>11. /\ evaluateRouteSelection(again, policy).selectedRoutes = decision.selectedRoutes
         /\ evaluateRouteSelection(again, policy).reasonCode = decision.reasonCode
    BY <2>5, <2>9, <2>10
  <2>12. QED
    BY <1>4, <2>6, <2>11, ZenonT(30) DEF RouterCorrect, Routed, Low, Limit, Present, again
<1>5. QED
  BY <1>3, <1>4

------------------------------------------------------------------------------
(* The command line: a vector with and without its --json.                 *)

\* f leads from the positions that are kept of B to those kept of A, in order.
Moves(f, B, J, A, I) ==
  /\ f \in [J -> I]
  /\ \A i \in I : \E j \in J : f[j] = i
  /\ \A j, l \in J : j < l => f[j] < f[l]
  /\ \A j \in J : B[j] = A[f[j]]

\* Two loops keep the same when the entries that one of them keeps are those
\* of the other, in the same order.
LEMMA KeptMoved ==
  ASSUME NEW A, NEW n \in Nat, NEW I \in SUBSET (1 .. n),
         NEW B, NEW m \in Nat, NEW J \in SUBSET (1 .. m), NEW f, Moves(f, B, J, A, I)
  PROVE  Kept(B, J) = Kept(A, I) /\ Cardinality(J) = Cardinality(I)
<1>0. /\ f \in [J -> I]
      /\ \A i \in I : \E j \in J : f[j] = i
      /\ \A j, l \in J : j < l => f[j] < f[l]
      /\ \A j \in J : B[j] = A[f[j]]
  BY DEF Moves
<1>1. \A j \in J : j \in Int
  OBVIOUS
<1>2. \A i \in I : i \in Int
  OBVIOUS
<1>3. \A j, l \in J : (f[j] < f[l] <=> j < l) /\ (f[j] = f[l] => j = l)
  <2>1. TAKE j, l \in J
  <2>2. j \in Int /\ l \in Int /\ f[j] \in Int /\ f[l] \in Int
    BY <1>0, <1>1, <1>2
  <2>3. (j < l => f[j] < f[l]) /\ (l < j => f[l] < f[j])
    BY <1>0
  <2>4. QED
    BY <2>2, <2>3
<1>4. /\ IsFiniteSet(J) /\ Cardinality(J) \in Nat
      /\ \A k \in 1 .. Cardinality(J) : At(J, k) \in J /\ Rank(J, At(J, k)) = k - 1
  BY Positions
<1>5. /\ Cardinality(I) \in Nat
      /\ \A i \in I : \E k \in 1 .. Cardinality(I) : At(I, k) = i
      /\ \A k \in 1 .. Cardinality(I) : Rank(I, At(I, k)) = k - 1
  BY Positions
<1>6. Cardinality(J) = Cardinality(I)
  <2>1. f \in Bijection(J, I)
    BY <1>0, <1>3 DEF Bijection, Injection, IsInjective, Surjection
  <2>2. QED
    BY <1>4, <2>1, FS_Bijection DEF ExistsBijection
<1>7. ASSUME NEW j \in J PROVE Rank(I, f[j]) = Rank(J, j)
  <2> DEFINE S == {l \in J : l < j}
             T == {i \in I : i < f[j]}
             g == [l \in S |-> f[l]]
  <2>1. IsFiniteSet(S)
    BY <1>4, FS_Subset
  <2>2. \A l \in S : g[l] \in T
    BY <1>0, <1>3
  <2>3. \A i \in T : \E l \in S : g[l] = i
    <3>1. TAKE i \in T
    <3>2. PICK l \in J : f[l] = i
      BY <1>0
    <3>3. l < j
      BY <1>3, <3>2
    <3>4. QED
      BY <3>2, <3>3
  <2>4. \A k, l \in S : g[k] = g[l] => k = l
    BY <1>3
  <2>5. g \in [S -> T]
    BY <2>2
  <2> HIDE DEF S, T, g
  <2>6. ExistsBijection(S, T)
    BY <2>3, <2>4, <2>5 DEF Bijection, Injection, IsInjective, Surjection, ExistsBijection
  <2>7. Cardinality(T) = Cardinality(S)
    BY <2>1, <2>6, FS_Bijection
  <2>8. QED
    BY <2>7 DEF S, T, Rank
<1>8. ASSUME NEW k \in 1 .. Cardinality(J) PROVE At(I, k) = f[At(J, k)]
  <2>1. At(J, k) \in J /\ Rank(J, At(J, k)) = k - 1
    BY <1>4
  <2>2. f[At(J, k)] \in I /\ Rank(I, f[At(J, k)]) = k - 1
    BY <1>0, <1>7, <2>1
  <2>3. PICK l \in 1 .. Cardinality(I) : At(I, l) = f[At(J, k)]
    BY <1>5, <2>2
  <2>4. l - 1 = k - 1
    BY <1>5, <2>2, <2>3
  <2>5. l = k
    BY <1>4, <1>5, <2>4
  <2>6. QED
    BY <2>3, <2>5
<1>9. /\ Kept(B, J) = [k \in 1 .. Cardinality(J) |-> Kept(B, J)[k]]
      /\ \A k \in 1 .. Cardinality(J) : Kept(B, J)[k] = B[At(J, k)]
  BY KeptFacts
<1>10. /\ Kept(A, I) = [k \in 1 .. Cardinality(I) |-> Kept(A, I)[k]]
       /\ \A k \in 1 .. Cardinality(I) : Kept(A, I)[k] = A[At(I, k)]
  BY KeptFacts
<1>11. \A k \in 1 .. Cardinality(J) : Kept(B, J)[k] = Kept(A, I)[k]
  <2>1. TAKE k \in 1 .. Cardinality(J)
  <2>2. At(J, k) \in J /\ At(I, k) = f[At(J, k)]
    BY <1>4, <1>8
  <2>3. QED
    BY <1>0, <1>6, <1>9, <1>10, <2>2
<1>12. QED
  BY <1>6, <1>9, <1>10, <1>11

LEMMA Interval ==
  ASSUME NEW n \in Nat
  PROVE  IsFiniteSet(1 .. n) /\ Cardinality(1 .. n) = n
BY FS_Interval

\* The first n entries without the one at p: those behind it move up.
Moved(p, k) == IF k < p THEN k ELSE k + 1
Without(list, n, p) == [k \in 1 .. (n - 1) |-> list[Moved(p, k)]]

LEMMA Moving ==
  ASSUME NEW n \in Nat, NEW p \in 1 .. n
  PROVE  /\ n - 1 \in Nat
         /\ \A k \in 1 .. (n - 1) : Moved(p, k) \in 1 .. n /\ Moved(p, k) # p
         /\ \A i \in 1 .. n : i # p => \E k \in 1 .. (n - 1) : Moved(p, k) = i
         /\ \A k, l \in 1 .. (n - 1) : (Moved(p, k) < Moved(p, l) <=> k < l) /\ (Moved(p, k) = Moved(p, l) => k = l)
<1>1. n - 1 \in Nat /\ \A k \in 1 .. (n - 1) : Moved(p, k) \in 1 .. n /\ Moved(p, k) # p
  BY DEF Moved
<1>2. ASSUME NEW i \in 1 .. n, i # p PROVE \E k \in 1 .. (n - 1) : Moved(p, k) = i
  <2>1. CASE i < p
    <3>1. i \in 1 .. (n - 1) /\ Moved(p, i) = i
      BY <2>1 DEF Moved
    <3>2. QED
      BY <3>1
  <2>2. CASE ~ i < p
    <3>1. i - 1 \in 1 .. (n - 1) /\ Moved(p, i - 1) = i
      BY <1>2, <2>2 DEF Moved
    <3>2. QED
      BY <3>1
  <2>3. QED
    BY <2>1, <2>2
<1>3. \A k, l \in 1 .. (n - 1) : (Moved(p, k) < Moved(p, l) <=> k < l) /\ (Moved(p, k) = Moved(p, l) => k = l)
  BY DEF Moved
<1>4. QED
  BY <1>1, <1>2, <1>3

\* The positions that come to lie in I.
Before(I, n, p) == {k \in 1 .. (n - 1) : Moved(p, k) \in I}

\* What a loop keeps of the list and of the list without one entry is the same,
\* when it keeps the same entries and not that one.
LEMMA KeptWithout ==
  ASSUME NEW list, NEW n \in Nat, NEW p \in 1 .. n,
         NEW I \in SUBSET (1 .. n), p \notin I
  PROVE  /\ Kept(Without(list, n, p), Before(I, n, p)) = Kept(list, I)
         /\ Cardinality(Before(I, n, p)) = Cardinality(I)
<1> DEFINE J == {k \in 1 .. (n - 1) : Moved(p, k) \in I}
           f == [k \in J |-> Moved(p, k)]
           B == Without(list, n, p)
           m == n - 1
<1>1. m \in Nat /\ J \in SUBSET (1 .. m)
  BY Moving
<1>2. f \in [J -> I]
  OBVIOUS
<1>3. \A i \in I : \E j \in J : f[j] = i
  <2>1. TAKE i \in I
  <2>2. PICK k \in 1 .. (n - 1) : Moved(p, k) = i
    BY Moving
  <2>3. QED
    BY <2>2
<1>4. \A j, l \in J : j < l => f[j] < f[l]
  BY Moving
<1>5. \A j \in J : B[j] = list[f[j]]
  BY DEF Without
<1> HIDE DEF f, B, m, J
<1>6. Moves(f, B, J, list, I)
  BY <1>2, <1>3, <1>4, <1>5 DEF Moves
<1>7. Kept(B, J) = Kept(list, I) /\ Cardinality(J) = Cardinality(I)
  BY <1>1, <1>6, KeptMoved
<1>8. QED
  BY <1>7 DEF B, J, Before

\* A loop that drops one entry.
LEMMA KeptOthers ==
  ASSUME NEW list, NEW n \in Nat, NEW p \in 1 .. n
  PROVE  Kept(list, (1 .. n) \ {p}) = Without(list, n, p)
<1> DEFINE B == Without(list, n, p)
           I == (1 .. n) \ {p}
           m == n - 1
           J == Before(I, n, p)
<1>1. m \in Nat /\ J = 1 .. m
  BY Moving DEF Before
<1>2. I \in SUBSET (1 .. n) /\ p \notin I
  OBVIOUS
<1> HIDE DEF I
<1>3. Kept(B, J) = Kept(list, I)
  BY <1>2, KeptWithout
<1>4. B = [k \in 1 .. m |-> B[k]]
  BY DEF Without
<1> HIDE DEF B, m, J
<1>5. DOMAIN Kept(B, 1 .. m) = 1 .. m /\ \A k \in 1 .. m : Kept(B, 1 .. m)[k] = B[k]
  BY <1>1, KeptAll
<1>6. Kept(B, 1 .. m) = [k \in 1 .. m |-> Kept(B, 1 .. m)[k]]
  <2>1. /\ Kept(B, 1 .. m) = [k \in 1 .. Cardinality(1 .. m) |-> Kept(B, 1 .. m)[k]]
        /\ DOMAIN Kept(B, 1 .. m) = 1 .. Cardinality(1 .. m)
    <3> DEFINE K == 1 .. m
    <3>1. K \in SUBSET (1 .. m)
      OBVIOUS
    <3> HIDE DEF K
    <3>2. /\ Kept(B, K) = [k \in 1 .. Cardinality(K) |-> Kept(B, K)[k]]
          /\ DOMAIN Kept(B, K) = 1 .. Cardinality(K)
      BY <1>1, <3>1, KeptFacts
    <3>3. QED
      BY <3>2 DEF K
  <2>2. QED
    BY <1>5, <2>1
<1>7. Kept(B, 1 .. m) = B
  BY <1>4, <1>5, <1>6
<1>8. QED
  BY <1>1, <1>3, <1>7 DEF B, I

------------------------------------------------------------------------------
(* The arguments without --json.                                           *)

\* A single --json at p that is not the value of --format.
Single(argv, n, p) ==
  /\ n \in Nat /\ Len(argv) = n /\ DOMAIN argv = 1 .. n
  /\ p \in 1 .. n /\ argv[p] = "--json" /\ \A i \in 1 .. n : argv[i] = "--json" => i = p
  /\ ~ (p > 1 /\ argv[p - 1] = "--format")

LEMMA WithoutFacts ==
  ASSUME NEW argv, NEW n, NEW p, Single(argv, n, p), NEW B, B = Without(argv, n, p)
  PROVE  /\ n - 1 \in Nat /\ DOMAIN B = 1 .. (n - 1) /\ Len(B) = n - 1
         /\ \A k \in 1 .. (n - 1) : /\ Moved(p, k) \in 1 .. n /\ B[k] = argv[Moved(p, k)]
                                    /\ B[k] # "--json"
         /\ \A i \in 1 .. n : argv[i] # "--json" => \E k \in 1 .. (n - 1) : Moved(p, k) = i
<1>1. n \in Nat /\ p \in 1 .. n /\ argv[p] = "--json" /\ \A i \in 1 .. n : argv[i] = "--json" => i = p
  BY DEF Single
<1>2. /\ n - 1 \in Nat
      /\ \A k \in 1 .. (n - 1) : Moved(p, k) \in 1 .. n /\ Moved(p, k) # p
      /\ \A i \in 1 .. n : i # p => \E k \in 1 .. (n - 1) : Moved(p, k) = i
  BY <1>1, Moving
<1>3. DOMAIN B = 1 .. (n - 1) /\ Len(B) = n - 1 /\ \A k \in 1 .. (n - 1) : B[k] = argv[Moved(p, k)]
  BY <1>2 DEF Without
<1>4. QED
  BY <1>1, <1>2, <1>3

\* A set of positions that is chosen by what lies there.
LEMMA SameCount ==
  ASSUME NEW argv, NEW n, NEW p, Single(argv, n, p), NEW S, "--json" \notin S,
         NEW B, B = Without(argv, n, p)
  PROVE  /\ {k \in DOMAIN B : B[k] \in S} = Before({i \in DOMAIN argv : argv[i] \in S}, n, p)
         /\ Cardinality({k \in DOMAIN B : B[k] \in S}) = Cardinality({i \in DOMAIN argv : argv[i] \in S})
         /\ {k \in DOMAIN B : B[k] \in S} = {} <=> {i \in DOMAIN argv : argv[i] \in S} = {}
<1> DEFINE I == {i \in DOMAIN argv : argv[i] \in S}
           J == {k \in DOMAIN B : B[k] \in S}
<1>1. n \in Nat /\ DOMAIN argv = 1 .. n /\ p \in 1 .. n /\ argv[p] = "--json"
  BY DEF Single
<1>2. /\ DOMAIN B = 1 .. (n - 1)
      /\ \A k \in 1 .. (n - 1) : Moved(p, k) \in 1 .. n /\ B[k] = argv[Moved(p, k)]
      /\ \A i \in 1 .. n : argv[i] # "--json" => \E k \in 1 .. (n - 1) : Moved(p, k) = i
  BY WithoutFacts
<1>3. J = Before(I, n, p)
  BY <1>1, <1>2 DEF Before
<1>4. I \in SUBSET (1 .. n) /\ p \notin I
  BY <1>1
<1>5. J = {} <=> I = {}
  BY <1>1, <1>2
<1> HIDE DEF I, J
<1>6. Cardinality(Before(I, n, p)) = Cardinality(I)
  BY <1>1, <1>4, KeptWithout
<1>7. QED
  BY <1>3, <1>5, <1>6 DEF I, J

LEMMA SameFlags ==
  ASSUME NEW argv, NEW n, NEW p, Single(argv, n, p), NEW B, B = Without(argv, n, p)
  PROVE  /\ \A S : "--json" \notin S => (Has(B, S) <=> Has(argv, S))
         /\ Count(B, "--dry-run") = Count(argv, "--dry-run")
         /\ Count(B, "--json") = 0 /\ Count(argv, "--json") = 1
         /\ Has(argv, {"--json"}) /\ ~ Has(B, {"--json"})
<1>1. n \in Nat /\ DOMAIN argv = 1 .. n /\ p \in 1 .. n /\ argv[p] = "--json"
      /\ \A i \in 1 .. n : argv[i] = "--json" => i = p
  BY DEF Single
<1>2. DOMAIN B = 1 .. (n - 1) /\ \A k \in 1 .. (n - 1) : B[k] # "--json"
  BY WithoutFacts
<1>3. ASSUME NEW S, "--json" \notin S PROVE Has(B, S) <=> Has(argv, S)
  <2>1. /\ \A k \in 1 .. (n - 1) : Moved(p, k) \in 1 .. n /\ B[k] = argv[Moved(p, k)]
        /\ \A i \in 1 .. n : argv[i] # "--json" => \E k \in 1 .. (n - 1) : Moved(p, k) = i
    BY WithoutFacts
  <2>2. QED
    BY <1>1, <1>2, <1>3, <2>1 DEF Has
<1>4. Count(B, "--dry-run") = Count(argv, "--dry-run")
  <2>1. "--json" \notin {"--dry-run"}
    OBVIOUS
  <2>2. Cardinality({k \in DOMAIN B : B[k] \in {"--dry-run"}})
          = Cardinality({i \in DOMAIN argv : argv[i] \in {"--dry-run"}})
    <3> DEFINE S == {"--dry-run"}
    <3>1. "--json" \notin S
      BY <2>1
    <3> HIDE DEF S
    <3>2. Cardinality({k \in DOMAIN B : B[k] \in S}) = Cardinality({i \in DOMAIN argv : argv[i] \in S})
      BY <3>1, SameCount
    <3>3. QED
      BY <3>2 DEF S
  <2>3. /\ {k \in DOMAIN B : B[k] \in {"--dry-run"}} = {k \in DOMAIN B : B[k] = "--dry-run"}
        /\ {i \in DOMAIN argv : argv[i] \in {"--dry-run"}} = {i \in DOMAIN argv : argv[i] = "--dry-run"}
    OBVIOUS
  <2>4. QED
    BY <2>2, <2>3 DEF Count
<1>5. Count(B, "--json") = 0
  <2>1. {k \in DOMAIN B : B[k] = "--json"} = {}
    BY <1>2
  <2>2. Cardinality({}) = 0
    BY FS_EmptySet
  <2>3. QED
    BY <2>1, <2>2, Zenon DEF Count
<1>6. Count(argv, "--json") = 1
  <2>1. {i \in DOMAIN argv : argv[i] = "--json"} = {p}
    BY <1>1
  <2>2. QED
    BY <2>1, FS_Singleton DEF Count
<1>7. Has(argv, {"--json"}) /\ ~ Has(B, {"--json"})
  BY <1>1, <1>2 DEF Has
<1>8. QED
  BY <1>3, <1>4, <1>5, <1>6, <1>7

\* What lies beside an argument that is not --json.
LEMMA SameNeighbours ==
  ASSUME NEW argv, NEW n, NEW p, Single(argv, n, p), NEW B, B = Without(argv, n, p),
         NEW k \in 1 .. (n - 1), NEW i, i = Moved(p, k)
  PROVE  /\ IsValue(B, k) <=> IsValue(argv, i)
         /\ B[k] = "--format" => /\ k = n - 1 <=> i = n
                                 /\ k # n - 1 => B[k + 1] = argv[i + 1]
<1>1. /\ n \in Nat /\ DOMAIN argv = 1 .. n /\ p \in 1 .. n /\ argv[p] = "--json"
      /\ ~ (p > 1 /\ argv[p - 1] = "--format")
  BY DEF Single
<1>2. /\ DOMAIN B = 1 .. (n - 1)
      /\ \A l \in 1 .. (n - 1) : Moved(p, l) \in 1 .. n /\ B[l] = argv[Moved(p, l)]
  BY WithoutFacts
<1>3. "--json" # "--format"
  OBVIOUS
<1>4. CASE k < p
  <2>1. i = k /\ B[k] = argv[k]
    BY <1>2, <1>4 DEF Moved
  <2>2. k > 1 => B[k - 1] = argv[k - 1]
    <3>1. HAVE k > 1
    <3>2. k - 1 \in 1 .. (n - 1) /\ Moved(p, k - 1) = k - 1
      BY <1>1, <1>4, <3>1 DEF Moved
    <3>3. QED
      BY <1>2, <3>2
  <2>3. B[k] = "--format" => k # p - 1
    <3>1. HAVE B[k] = "--format"
    <3>2. argv[k] = "--format"
      BY <2>1, <3>1
    <3>3. k = p - 1 => p > 1
      BY <1>1
    <3>4. QED
      BY <1>1, <3>2, <3>3
  <2>4. k # p - 1 => k # n - 1 /\ i # n /\ k + 1 \in 1 .. (n - 1) /\ Moved(p, k + 1) = k + 1
    BY <1>1, <1>4, <2>1 DEF Moved
  <2>5. QED
    BY <1>2, <2>1, <2>2, <2>3, <2>4 DEF IsValue
<1>5. CASE k = p
  <2>1. i = k + 1
    BY <1>1, <1>5 DEF Moved
  <2>2. ~ IsValue(argv, i)
    <3>1. i - 1 = p
      BY <1>1, <1>5, <2>1
    <3>2. QED
      BY <1>1, <1>3, <3>1 DEF IsValue
  <2>3. ~ IsValue(B, k)
    <3>1. k > 1 => B[k - 1] = argv[p - 1]
      <4>1. HAVE k > 1
      <4>2. k - 1 \in 1 .. (n - 1) /\ Moved(p, k - 1) = p - 1
        BY <1>1, <1>5, <4>1 DEF Moved
      <4>3. QED
        BY <1>2, <4>2
    <3>2. QED
      BY <1>1, <1>5, <3>1 DEF IsValue
  <2>4. (k = n - 1 <=> i = n) /\ (k # n - 1 => k + 1 \in 1 .. (n - 1) /\ Moved(p, k + 1) = i + 1)
    BY <1>1, <1>5, <2>1 DEF Moved
  <2>5. QED
    BY <1>2, <2>2, <2>3, <2>4
<1>6. CASE k > p
  <2>1. i = k + 1 /\ k > 1 /\ i > 1 /\ i - 1 = k
    BY <1>1, <1>6 DEF Moved
  <2>2. B[k - 1] = argv[k]
    <3>1. k - 1 \in 1 .. (n - 1) /\ Moved(p, k - 1) = k
      BY <1>1, <1>6 DEF Moved
    <3>2. QED
      BY <1>2, <3>1
  <2>3. (k = n - 1 <=> i = n) /\ (k # n - 1 => k + 1 \in 1 .. (n - 1) /\ Moved(p, k + 1) = i + 1)
    BY <1>1, <1>6, <2>1 DEF Moved
  <2>4. QED
    BY <1>2, <2>1, <2>2, <2>3 DEF IsValue
<1>7. QED
  BY <1>1, <1>4, <1>5, <1>6

LEMMA SameFormats ==
  ASSUME NEW argv, NEW n, NEW p, Single(argv, n, p), NEW B, B = Without(argv, n, p)
  PROVE  /\ FormatAt(B) = {} <=> FormatAt(argv) = {}
         /\ Cardinality(FormatAt(B)) = Cardinality(FormatAt(argv))
         /\ FormatUnvalued(B) <=> FormatUnvalued(argv)
         /\ ~ FormatUnvalued(argv) => Formats(B) = Formats(argv)
<1> DEFINE S == {"--format"} \cup DOMAIN FormatOf
<1>1. n \in Nat /\ Len(argv) = n /\ DOMAIN argv = 1 .. n
  BY DEF Single
<1>2. /\ n - 1 \in Nat /\ DOMAIN B = 1 .. (n - 1) /\ Len(B) = n - 1
      /\ \A k \in 1 .. (n - 1) : Moved(p, k) \in 1 .. n /\ B[k] = argv[Moved(p, k)]
      /\ \A i \in 1 .. n : argv[i] # "--json" => \E k \in 1 .. (n - 1) : Moved(p, k) = i
  BY WithoutFacts
<1>3. "--json" \notin S
  BY DEF FormatOf
<1>4. FormatAt(B) = {k \in DOMAIN B : B[k] \in S} /\ FormatAt(argv) = {i \in DOMAIN argv : argv[i] \in S}
  BY DEF FormatAt
<1> HIDE DEF S
<1>5. /\ FormatAt(B) = {} <=> FormatAt(argv) = {}
      /\ Cardinality(FormatAt(B)) = Cardinality(FormatAt(argv))
  BY <1>3, <1>4, SameCount
<1>6. \A k \in 1 .. (n - 1) : B[k] = "--format" =>
        /\ k = n - 1 <=> Moved(p, k) = n
        /\ k # n - 1 => B[k + 1] = argv[Moved(p, k) + 1]
  BY SameNeighbours
<1>7. FormatUnvalued(B) <=> FormatUnvalued(argv)
  <2> DEFINE Bare(i) == argv[i] = "--format" /\ (i = n \/ argv[i + 1] \in Dashed)
             BareB(k) == B[k] = "--format" /\ (k = n - 1 \/ B[k + 1] \in Dashed)
  <2>1. \A k \in 1 .. (n - 1) : BareB(k) <=> Bare(Moved(p, k))
    BY <1>2, <1>6
  <2>2. \A i \in 1 .. n : Bare(i) => argv[i] # "--json"
    OBVIOUS
  <2>3. FormatUnvalued(argv) <=> \E i \in 1 .. n : Bare(i)
    BY <1>1 DEF FormatUnvalued
  <2>4. FormatUnvalued(B) <=> \E k \in 1 .. (n - 1) : BareB(k)
    BY <1>2 DEF FormatUnvalued
  <2> HIDE DEF Bare, BareB
  <2>5. QED
    BY <1>2, <2>1, <2>2, <2>3, <2>4
<1>8. ASSUME ~ FormatUnvalued(argv) PROVE Formats(B) = Formats(argv)
  <2> DEFINE Value(i) == IF argv[i] = "--format" THEN argv[i + 1] ELSE FormatOf[argv[i]]
             ValueB(k) == IF B[k] = "--format" THEN B[k + 1] ELSE FormatOf[B[k]]
  <2>1. \A k \in 1 .. (n - 1) : ValueB(k) = Value(Moved(p, k))
    <3>1. TAKE k \in 1 .. (n - 1)
    <3>2. CASE B[k] = "--format"
      <4>1. argv[Moved(p, k)] = "--format" /\ Moved(p, k) \in 1 .. n
        BY <1>2, <3>2
      <4>2. Moved(p, k) # n
        BY <1>1, <1>8, <4>1 DEF FormatUnvalued
      <4>3. B[k + 1] = argv[Moved(p, k) + 1]
        BY <1>6, <3>2, <4>2
      <4>4. QED
        BY <3>2, <4>1, <4>3
    <3>3. CASE B[k] # "--format"
      BY <1>2, <3>3
    <3>4. QED
      BY <3>2, <3>3
  <2>2. Formats(B) = {ValueB(k) : k \in FormatAt(B)} /\ Formats(argv) = {Value(i) : i \in FormatAt(argv)}
    BY DEF Formats
  <2>3. /\ \A k : k \in FormatAt(B) <=> k \in 1 .. (n - 1) /\ B[k] \in S
        /\ \A i : i \in FormatAt(argv) <=> i \in 1 .. n /\ argv[i] \in S
    BY <1>1, <1>2, <1>4
  <2> HIDE DEF Value, ValueB
  <2>4. \A x : (\E k \in FormatAt(B) : x = ValueB(k)) <=> (\E i \in FormatAt(argv) : x = Value(i))
    <3>1. \A k \in FormatAt(B) : Moved(p, k) \in FormatAt(argv)
      BY <1>2, <2>3
    <3>2. \A i \in FormatAt(argv) : \E k \in FormatAt(B) : Moved(p, k) = i
      BY <1>2, <1>3, <2>3
    <3>3. \A k \in FormatAt(B) : ValueB(k) = Value(Moved(p, k))
      BY <2>1, <2>3
    <3>4. QED
      BY <3>1, <3>2, <3>3
  <2>5. QED
    BY <2>2, <2>4
<1>9. QED
  BY <1>5, <1>7, <1>8

LEMMA SamePositionals ==
  ASSUME NEW argv, NEW n, NEW p, Single(argv, n, p), NEW B, B = Without(argv, n, p)
  PROVE  Positionals(B) = Positionals(argv)
<1> DEFINE Plain(x) == x \notin {"--json", "--dry-run", "--format"} /\ x \notin DOMAIN FormatOf
           I == {i \in DOMAIN argv : Plain(argv[i]) /\ ~ IsValue(argv, i)}
           J == {k \in DOMAIN B : Plain(B[k]) /\ ~ IsValue(B, k)}
<1>1. n \in Nat /\ p \in 1 .. n /\ DOMAIN argv = 1 .. n /\ argv[p] = "--json"
  BY DEF Single
<1>2. /\ DOMAIN B = 1 .. (n - 1)
      /\ \A k \in 1 .. (n - 1) : Moved(p, k) \in 1 .. n /\ B[k] = argv[Moved(p, k)]
  BY WithoutFacts
<1>3. \A k \in 1 .. (n - 1) : IsValue(B, k) <=> IsValue(argv, Moved(p, k))
  BY SameNeighbours
<1>4. Positionals(B) = Kept(B, J) /\ Positionals(argv) = Kept(argv, I)
  BY Zenon DEF Positionals
<1>5. I \in SUBSET (1 .. n) /\ p \notin I
  BY <1>1
<1> HIDE DEF Plain
<1>6. J = Before(I, n, p)
  BY <1>1, <1>2, <1>3 DEF Before
<1> HIDE DEF I, J
<1>7. Kept(Without(argv, n, p), Before(I, n, p)) = Kept(argv, I)
  BY <1>1, <1>5, KeptWithout
<1>8. QED
  BY <1>4, <1>6, <1>7

------------------------------------------------------------------------------
(* The parsed arguments.                                                   *)

Name(argv) == Positionals(argv)[1]
Operands(argv) == Tail(Positionals(argv))
Helps(argv) == Has(argv, {"--help", "-h"})
Versions(argv) == Has(argv, {"--version", "-v"})

Accepted(argv) ==
  /\ Count(argv, "--json") <= 1 /\ Count(argv, "--dry-run") <= 1
  /\ ~ FormatUnvalued(argv) /\ Cardinality(FormatAt(argv)) <= 1
  /\ Positionals(argv) # <<>> /\ Name(argv) \in Commands
  /\ Has(argv, {"--dry-run"}) => Name(argv) = "init"
  /\ FormatAt(argv) # {} => Name(argv) = "visualize"
  /\ Name(argv) = "visualize" => Formats(argv) \subseteq {"mermaid", "dot"}
  /\ OperandsFit(Name(argv), Operands(argv))

LEMMA Parsed ==
  ASSUME NEW argv, NEW parsed, parsed = parseArguments(argv)
  PROVE  /\ Helps(argv) => parsed = [kind |-> "help"]
         /\ ~ Helps(argv) /\ Versions(argv) => parsed = [kind |-> "version"]
         /\ ~ Helps(argv) /\ ~ Versions(argv) /\ ~ Accepted(argv) => parsed = [kind |-> "GECLI_USAGE"]
         /\ ~ Helps(argv) /\ ~ Versions(argv) /\ Accepted(argv) =>
              /\ parsed.kind = "command" /\ parsed.command = Name(argv)
              /\ parsed.json <=> requestedJson(argv)
<1> DEFINE file == IF Operands(argv) # <<>> THEN Operands(argv)[1]
                   ELSE IF Name(argv) = "init" THEN "." ELSE "null"
           format == IF Name(argv) # "visualize" THEN "null"
                     ELSE IF Formats(argv) = {} THEN "mermaid"
                     ELSE CHOOSE format \in Formats(argv) : TRUE
           full == [kind |-> "command", command |-> Name(argv), json |-> requestedJson(argv),
                    dryRun |-> Has(argv, {"--dry-run"}), file |-> file, format |-> format]
<1>1. parsed = IF Helps(argv) THEN [kind |-> "help"]
               ELSE IF Versions(argv) THEN [kind |-> "version"]
               ELSE IF ~ Accepted(argv) THEN [kind |-> "GECLI_USAGE"] ELSE full
  BY Zenon DEF parseArguments, Helps, Versions, Accepted, Name, Operands
<1> HIDE DEF file, format
<1>2. full.kind = "command" /\ full.command = Name(argv) /\ full.json = requestedJson(argv)
  OBVIOUS
<1> HIDE DEF full
<1>3. ~ Helps(argv) /\ ~ Versions(argv) /\ Accepted(argv) => parsed = full
  BY <1>1, Zenon
<1>4. QED
  BY <1>1, <1>2, <1>3, Zenon

\* The arguments are accepted with and without their --json, as the same command.
LEMMA SameParsed ==
  ASSUME NEW argv, NEW n, NEW p, Single(argv, n, p), NEW B, B = Without(argv, n, p)
  PROVE  /\ Helps(B) <=> Helps(argv)
         /\ Versions(B) <=> Versions(argv)
         /\ Accepted(B) <=> Accepted(argv)
         /\ Name(B) = Name(argv)
<1>1. /\ \A S : "--json" \notin S => (Has(B, S) <=> Has(argv, S))
      /\ Count(B, "--dry-run") = Count(argv, "--dry-run")
      /\ Count(B, "--json") = 0 /\ Count(argv, "--json") = 1
  BY SameFlags
<1>2. /\ Has(B, {"--help", "-h"}) <=> Has(argv, {"--help", "-h"})
      /\ Has(B, {"--version", "-v"}) <=> Has(argv, {"--version", "-v"})
      /\ Has(B, {"--dry-run"}) <=> Has(argv, {"--dry-run"})
  BY <1>1
<1>3. /\ FormatAt(B) = {} <=> FormatAt(argv) = {}
      /\ Cardinality(FormatAt(B)) = Cardinality(FormatAt(argv))
      /\ FormatUnvalued(B) <=> FormatUnvalued(argv)
      /\ ~ FormatUnvalued(argv) => Formats(B) = Formats(argv)
  BY SameFormats
<1>4. Positionals(B) = Positionals(argv) /\ Name(B) = Name(argv) /\ Operands(B) = Operands(argv)
  BY SamePositionals DEF Name, Operands
<1>5. Count(B, "--json") <= 1 /\ Count(argv, "--json") <= 1
  BY <1>1
<1>6. Accepted(B) <=> Accepted(argv)
  BY <1>1, <1>2, <1>3, <1>4, <1>5, Zenon DEF Accepted
<1>7. QED
  BY <1>2, <1>4, <1>6 DEF Helps, Versions

------------------------------------------------------------------------------
(* The output.                                                             *)

Failures == {2, 70}

LEMMA Codes ==
  /\ EXIT_CODES.success = 0 /\ EXIT_CODES.invalidGraph = 1 /\ EXIT_CODES.input = 2
  /\ EXIT_CODES.unhealthy = 3 /\ EXIT_CODES.internal = 70
BY DEF EXIT_CODES

\* What is written with this exit code, with and without --json.
Told(output, json, code) ==
  /\ output.exit = code /\ output.stdout + output.stderr = 1
  /\ json => /\ output.stdout = 1 /\ output.envelope # NoEnvelope
             /\ output.envelope.exitCode = code /\ output.envelope.ok = (code = 0)
             /\ output.envelope.error # "null" <=> code \in Failures
             /\ output.envelope.data = "null" <=> code \in Failures
  /\ ~ json => /\ output.envelope = NoEnvelope
               /\ output.stderr = 1 <=> code \in Failures \cup {1}

LEMMA EnvelopeTold ==
  ASSUME NEW name, NEW code, NEW data, NEW error,
         error # "null" <=> code \in Failures, data = "null" <=> code \in Failures
  PROVE  Told(writeEnvelope(name, code, data, error), TRUE, code)
<1> DEFINE envelope == [command |-> name, ok |-> code = EXIT_CODES.success, exitCode |-> code,
                        data |-> data, error |-> error]
           output == [exit |-> code, stdout |-> 1, stderr |-> 0, envelope |-> envelope]
<1>1. writeEnvelope(name, code, data, error) = output
  BY DEF writeEnvelope
<1>2. /\ envelope.exitCode = code /\ envelope.ok = (code = 0)
      /\ envelope.error = error /\ envelope.data = data
  BY Codes
<1>3. envelope # NoEnvelope
  <2>1. "error" \in DOMAIN envelope /\ "error" \notin DOMAIN NoEnvelope
    BY DEF NoEnvelope
  <2>2. QED
    BY <2>1
<1> HIDE DEF envelope
<1>4. output.exit = code /\ output.stdout = 1 /\ output.stderr = 0 /\ output.envelope = envelope
  OBVIOUS
<1>5. 1 + 0 = 1
  OBVIOUS
<1> HIDE DEF output
<1>6. QED
  BY <1>1, <1>2, <1>3, <1>4, <1>5, Zenon DEF Told

LEMMA TextTold ==
  ASSUME NEW code
  PROVE  /\ code \in Failures \cup {1} => Told(writeStderr(code), FALSE, code)
         /\ code \notin Failures \cup {1} => Told(writeStdout(code), FALSE, code)
<1>1. /\ writeStderr(code).exit = code /\ writeStderr(code).stdout = 0 /\ writeStderr(code).stderr = 1
      /\ writeStderr(code).envelope = NoEnvelope
  BY DEF writeStderr
<1>2. /\ writeStdout(code).exit = code /\ writeStdout(code).stdout = 1 /\ writeStdout(code).stderr = 0
      /\ writeStdout(code).envelope = NoEnvelope
  BY DEF writeStdout
<1>3. 1 + 0 = 1 /\ 0 + 1 = 1 /\ 0 # 1
  OBVIOUS
<1>4. QED
  BY <1>1, <1>2, <1>3, Zenon DEF Told

LEMMA EitherTold ==
  ASSUME NEW json, NEW code, NEW output,
         json => Told(output, TRUE, code), ~ json => Told(output, FALSE, code)
  PROVE  Told(output, json, code)
BY Zenon DEF Told

LEMMA ErrorTold ==
  ASSUME NEW code, code # "null", NEW name, NEW json
  PROVE  /\ Told(emitCliError(code, name, json), json, 2)
         /\ Told(emitInternalError(name, json), json, 70)
<1>1. 2 \in Failures /\ 70 \in Failures /\ "GECLI_INTERNAL" # "null"
  BY DEF Failures
<1>2. Told(writeEnvelope(name, 2, "null", code), TRUE, 2)
  BY <1>1, EnvelopeTold, Zenon
<1>3. Told(writeEnvelope(name, 70, "null", "GECLI_INTERNAL"), TRUE, 70)
  BY <1>1, EnvelopeTold, Zenon
<1>4. Told(writeStderr(2), FALSE, 2) /\ Told(writeStderr(70), FALSE, 70)
  <2>1. 2 \in Failures \cup {1} /\ 70 \in Failures \cup {1}
    BY <1>1
  <2>2. QED
    BY <2>1, TextTold, Zenon
<1>5. /\ json => emitCliError(code, name, json) = writeEnvelope(name, 2, "null", code)
      /\ ~ json => emitCliError(code, name, json) = writeStderr(2)
      /\ json => emitInternalError(name, json) = writeEnvelope(name, 70, "null", "GECLI_INTERNAL")
      /\ ~ json => emitInternalError(name, json) = writeStderr(70)
  BY Codes, Zenon DEF emitCliError, emitInternalError
<1>6. QED
  BY <1>2, <1>3, <1>4, <1>5, EitherTold, Zenon

LEMMA ReportTold ==
  ASSUME NEW parsed, NEW code, code \in {0, 1, 3}, NEW data, data # "null"
  PROVE  /\ code # 1 => Told(report(parsed, code, data, TRUE), parsed.json, code)
         /\ code = 1 => Told(report(parsed, code, data, FALSE), parsed.json, code)
<1>1. code \notin Failures /\ (code \in Failures \cup {1} <=> code = 1)
  BY DEF Failures
<1>2. Told(writeEnvelope(parsed.command, code, data, "null"), TRUE, code)
  BY <1>1, EnvelopeTold, Zenon
<1>3. /\ code # 1 => Told(writeStdout(code), FALSE, code)
      /\ code = 1 => Told(writeStderr(code), FALSE, code)
  BY <1>1, TextTold, Zenon
<1>4. \A out : parsed.json => report(parsed, code, data, out) = writeEnvelope(parsed.command, code, data, "null")
  BY Zenon DEF report
<1>5. ~ parsed.json => /\ report(parsed, code, data, TRUE) = writeStdout(code)
                       /\ report(parsed, code, data, FALSE) = writeStderr(code)
  BY Zenon DEF report
<1>6. code # 1 => Told(report(parsed, code, data, TRUE), parsed.json, code)
  BY <1>2, <1>3, <1>4, <1>5, EitherTold, Zenon
<1>7. code = 1 => Told(report(parsed, code, data, FALSE), parsed.json, code)
  BY <1>2, <1>3, <1>4, <1>5, EitherTold, Zenon
<1>8. QED
  BY <1>6, <1>7

\* The installation is as it should be.
Good(world) ==
  /\ world.node >= 20 /\ world.schema = "supported" /\ world.fixture = "graph"
  /\ world.core = "canonical" /\ world.runtime = "runs"

\* A remedy that is named or not.
LEMMA Remedy ==
  ASSUME NEW S, NEW needed, NEW remedy \in S, NEW named, named = IF needed THEN <<remedy>> ELSE <<>>
  PROVE  named \in Seq(S) /\ (needed => Len(named) = 1) /\ (~ needed => Len(named) = 0)
<1>1. <<remedy>> \in Seq(S) /\ Len(<<remedy>>) = 1
  OBVIOUS
<1>2. <<>> \in Seq(S) /\ Len(<<>>) = 0
  OBVIOUS
<1>3. CASE needed
  BY <1>1, <1>3, Zenon
<1>4. CASE ~ needed
  BY <1>2, <1>4, Zenon
<1>5. QED
  BY <1>3, <1>4, Zenon

LEMMA DoctorTells ==
  ASSUME NEW world
  PROVE  /\ runDoctor(world).healthy <=> Good(world)
         /\ Len(runDoctor(world).remediations) \in (IF Good(world) THEN {0} ELSE 1 .. 3)
<1> DEFINE c == checks(world)
           node == nodeVersionCheck(world)
           schema == schemaCheck(world)
           fixture == fixtureCheck(world)
           core == coreCheck(world)
           runtime == runtimeCheck(world)
<1>1. Good(world) <=> node /\ schema /\ fixture /\ core /\ runtime
  BY DEF Good, nodeVersionCheck, schemaCheck, fixtureCheck, coreCheck, coreExports, runtimeCheck
<1>2. /\ node \in BOOLEAN /\ schema \in BOOLEAN /\ fixture \in BOOLEAN /\ core \in BOOLEAN
      /\ runtime \in BOOLEAN
  BY DEF nodeVersionCheck, schemaCheck, fixtureCheck, coreCheck, coreExports, runtimeCheck
<1>3. c = <<node, schema, fixture, core, runtime>>
  BY Zenon DEF checks
<1> HIDE DEF node, schema, fixture, core, runtime
<1>4. /\ DOMAIN c = 1 .. 5
      /\ c[1] = node /\ c[2] = schema /\ c[3] = fixture /\ c[4] = core /\ c[5] = runtime
  BY <1>3
<1> HIDE DEF c
<1>5. (\A i \in DOMAIN c : c[i]) <=> Good(world)
  <2>1. (\A i \in DOMAIN c : c[i]) <=> c[1] /\ c[2] /\ c[3] /\ c[4] /\ c[5]
    <3>1. \A i : i \in DOMAIN c <=> i = 1 \/ i = 2 \/ i = 3 \/ i = 4 \/ i = 5
      BY <1>4
    <3>2. QED
      BY <3>1, Zenon
  <2>2. QED
    BY <1>1, <1>4, <2>1, Zenon
<1>6. runDoctor(world) = [healthy |-> \A i \in DOMAIN c : c[i], remediations |-> remediations(c)]
  BY Zenon DEF runDoctor, c
<1>7. /\ runDoctor(world).healthy = (\A i \in DOMAIN c : c[i])
      /\ runDoctor(world).remediations = remediations(c)
  BY <1>6
<1>8. Len(remediations(c)) \in (IF Good(world) THEN {0} ELSE 1 .. 3)
  <2> DEFINE first == IF ~ c[1] THEN <<"node">> ELSE <<>>
             second == IF ~ c[2] \/ ~ c[3] THEN <<"assets">> ELSE <<>>
             third == IF ~ c[4] \/ ~ c[5] THEN <<"dependencies">> ELSE <<>>
  <2>1. remediations(c) = first \o second \o third
    BY Zenon DEF remediations
  <2> DEFINE S == {"node", "assets", "dependencies"}
  <2>2. "node" \in S /\ "assets" \in S /\ "dependencies" \in S
    OBVIOUS
  <2>4. first \in Seq(S) /\ (~ c[1] => Len(first) = 1) /\ (~ ~ c[1] => Len(first) = 0)
    BY <2>2, Remedy, Zenon
  <2>5. second \in Seq(S) /\ (~ c[2] \/ ~ c[3] => Len(second) = 1) /\ (~ (~ c[2] \/ ~ c[3]) => Len(second) = 0)
    BY <2>2, Remedy, Zenon
  <2>6. third \in Seq(S) /\ (~ c[4] \/ ~ c[5] => Len(third) = 1) /\ (~ (~ c[4] \/ ~ c[5]) => Len(third) = 0)
    BY <2>2, Remedy, Zenon
  <2>7. Good(world) <=> ~ (~ c[1]) /\ ~ (~ c[2] \/ ~ c[3]) /\ ~ (~ c[4] \/ ~ c[5])
    BY <1>1, <1>4, Zenon
  <2> HIDE DEF first, second, third, S
  <2>8. Len(remediations(c)) = Len(first) + Len(second) + Len(third)
    BY <2>1, <2>4, <2>5, <2>6
  <2>9. /\ Len(first) = 0 \/ Len(first) = 1
        /\ Len(second) = 0 \/ Len(second) = 1
        /\ Len(third) = 0 \/ Len(third) = 1
        /\ Good(world) => Len(first) = 0 /\ Len(second) = 0 /\ Len(third) = 0
        /\ ~ Good(world) => Len(first) = 1 \/ Len(second) = 1 \/ Len(third) = 1
    BY <2>4, <2>5, <2>6, <2>7, Zenon
  <2>10. CASE Good(world)
    <3>1. Len(remediations(c)) = 0
      BY <2>8, <2>9, <2>10
    <3>2. Len(remediations(c)) \in {0}
      BY <3>1
    <3>3. QED
      BY <2>10, <3>2, Zenon
  <2>11. CASE ~ Good(world)
    <3>1. PICK k, l, m : k = Len(first) /\ l = Len(second) /\ m = Len(third)
      OBVIOUS
    <3>2. k \in {0, 1} /\ l \in {0, 1} /\ m \in {0, 1} /\ (k = 1 \/ l = 1 \/ m = 1)
      BY <2>9, <2>11, <3>1
    <3>3. k + l + m \in 1 .. 3
      BY <3>2
    <3>4. Len(remediations(c)) \in 1 .. 3
      BY <2>8, <3>1, <3>3, Zenon
    <3>5. QED
      BY <2>11, <3>4, Zenon
  <2>12. QED
    BY <2>10, <2>11
<1>9. QED
  BY <1>5, <1>7, <1>8, Zenon

------------------------------------------------------------------------------
(* One invocation.                                                         *)

\* The exit code of a command whose arguments are accepted.
ExitOf(name, world) ==
  CASE name = "init" /\ world.init = "ready" -> 0
    [] name = "init" /\ world.init = "refused" -> 2
    [] name = "init" /\ world.init = "throws" -> 70
    [] name = "doctor" /\ Good(world) -> 0
    [] name = "doctor" /\ ~ Good(world) -> 3
    [] name \notin {"init", "doctor"} /\ world.source \in {"unreadable", "notJson"} -> 2
    [] name \notin {"init", "doctor"} /\ world.source = "throws" -> 70
    [] name \notin {"init", "doctor"} /\ world.source = "valid" -> 0
    [] name \notin {"init", "doctor"} /\ world.source = "invalid" -> 1

LEMMA InitTold ==
  ASSUME NEW parsed, parsed.command = "init", NEW world, world.init \in {"ready", "refused", "throws"}
  PROVE  Told(runInit(parsed, world), parsed.json, ExitOf("init", world))
<1>1. "init" # "null" /\ "GEINIT" # "null" /\ "init" # "doctor"
  OBVIOUS
<1>2. /\ "ready" # "refused" /\ "ready" # "throws" /\ "refused" # "throws"
  OBVIOUS
<1>3. CASE world.init = "ready"
  <2>1. runInit(parsed, world) = report(parsed, 0, "init", TRUE)
    BY <1>2, <1>3, Codes, Zenon DEF runInit
  <2>2. ExitOf("init", world) = 0
    BY <1>1, <1>2, <1>3, Zenon DEF ExitOf
  <2>3. 0 \in {0, 1, 3} /\ 0 # 1
    OBVIOUS
  <2>4. Told(report(parsed, 0, "init", TRUE), parsed.json, 0)
    BY <1>1, <2>3, ReportTold, Zenon
  <2>5. QED
    BY <2>1, <2>2, <2>4, Zenon
<1>4. CASE world.init = "refused"
  <2>1. runInit(parsed, world) = emitCliError("GEINIT", parsed.command, parsed.json)
    BY <1>2, <1>4, Zenon DEF runInit
  <2>2. ExitOf("init", world) = 2
    BY <1>1, <1>2, <1>4, Zenon DEF ExitOf
  <2>3. QED
    BY <1>1, <2>1, <2>2, ErrorTold, Zenon
<1>5. CASE world.init = "throws"
  <2>1. runInit(parsed, world) = emitInternalError(parsed.command, parsed.json)
    BY <1>2, <1>5, Zenon DEF runInit
  <2>2. ExitOf("init", world) = 70
    BY <1>1, <1>2, <1>5, Zenon DEF ExitOf
  <2>3. Told(emitInternalError(parsed.command, parsed.json), parsed.json, 70)
    BY <1>1, ErrorTold
  <2>4. QED
    BY <2>1, <2>2, <2>3, Zenon
<1>6. QED
  BY <1>3, <1>4, <1>5

LEMMA DoctorTold ==
  ASSUME NEW parsed, parsed.command = "doctor", NEW world
  PROVE  Told(runDoctorCommand(parsed, world), parsed.json, ExitOf("doctor", world))
<1>1. "init" # "doctor" /\ "doctor" # "null" /\ 0 \in {0, 1, 3} /\ 3 \in {0, 1, 3} /\ 0 # 1 /\ 3 # 1
  OBVIOUS
<1>2. runDoctor(world).healthy <=> Good(world)
  BY DoctorTells
<1>3. CASE Good(world)
  <2>1. runDoctorCommand(parsed, world) = report(parsed, 0, "doctor", TRUE)
    BY <1>2, <1>3, Codes, Zenon DEF runDoctorCommand
  <2>2. ExitOf("doctor", world) = 0
    BY <1>1, <1>3, Zenon DEF ExitOf
  <2>3. QED
    BY <1>1, <2>1, <2>2, ReportTold, Zenon
<1>4. CASE ~ Good(world)
  <2>1. runDoctorCommand(parsed, world) = report(parsed, 3, "doctor", TRUE)
    BY <1>2, <1>4, Codes, Zenon DEF runDoctorCommand
  <2>2. ExitOf("doctor", world) = 3
    BY <1>1, <1>4, Zenon DEF ExitOf
  <2>3. QED
    BY <1>1, <2>1, <2>2, ReportTold, Zenon
<1>5. QED
  BY <1>3, <1>4

LEMMA GraphTold ==
  ASSUME NEW parsed, parsed.command \in Commands \ {"init", "doctor"}, NEW world,
         world.source \in {"unreadable", "notJson", "throws", "invalid", "valid"}
  PROVE  Told(runGraphCommand(parsed, world), parsed.json, ExitOf(parsed.command, world))
<1>1. /\ parsed.command # "null" /\ parsed.command # "init" /\ parsed.command # "doctor"
      /\ "compile" # "null" /\ "validate" # "null"
      /\ "GECLI_INPUT_READ" # "null" /\ "GECLI_INPUT_JSON" # "null"
  BY DEF Commands
<1>2. /\ "unreadable" # "notJson" /\ "unreadable" # "throws" /\ "unreadable" # "invalid"
      /\ "unreadable" # "valid" /\ "notJson" # "throws" /\ "notJson" # "invalid" /\ "notJson" # "valid"
      /\ "throws" # "invalid" /\ "throws" # "valid" /\ "invalid" # "valid"
  OBVIOUS
<1>3. 0 \in {0, 1, 3} /\ 1 \in {0, 1, 3} /\ 0 # 1
  OBVIOUS
<1>4. CASE world.source = "unreadable"
  <2>1. runGraphCommand(parsed, world) = emitCliError("GECLI_INPUT_READ", parsed.command, parsed.json)
    BY <1>2, <1>4, Zenon DEF runGraphCommand
  <2>2. ExitOf(parsed.command, world) = 2
    BY <1>1, <1>2, <1>4, Zenon DEF ExitOf
  <2>3. QED
    BY <1>1, <2>1, <2>2, ErrorTold, Zenon
<1>5. CASE world.source = "notJson"
  <2>1. runGraphCommand(parsed, world) = emitCliError("GECLI_INPUT_JSON", parsed.command, parsed.json)
    BY <1>2, <1>5, Zenon DEF runGraphCommand
  <2>2. ExitOf(parsed.command, world) = 2
    BY <1>1, <1>2, <1>5, Zenon DEF ExitOf
  <2>3. QED
    BY <1>1, <2>1, <2>2, ErrorTold, Zenon
<1>6. CASE world.source = "throws"
  <2>1. runGraphCommand(parsed, world) = emitInternalError(parsed.command, parsed.json)
    BY <1>2, <1>6, Zenon DEF runGraphCommand
  <2>2. ExitOf(parsed.command, world) = 70
    BY <1>1, <1>2, <1>6, Zenon DEF ExitOf
  <2>3. Told(emitInternalError(parsed.command, parsed.json), parsed.json, 70)
    BY <1>1, ErrorTold
  <2>4. QED
    BY <2>1, <2>2, <2>3, Zenon
<1>7. CASE world.source = "valid"
  <2>1. runGraphCommand(parsed, world) = report(parsed, 0, parsed.command, TRUE)
    BY <1>2, <1>7, Codes, Zenon DEF runGraphCommand
  <2>2. ExitOf(parsed.command, world) = 0
    BY <1>1, <1>2, <1>7, Zenon DEF ExitOf
  <2>3. QED
    BY <1>1, <1>3, <2>1, <2>2, ReportTold, Zenon
<1>8. CASE world.source = "invalid"
  <2> DEFINE data == IF parsed.command = "compile" THEN "compile" ELSE "validate"
  <2>1. runGraphCommand(parsed, world) = report(parsed, 1, data, FALSE)
    BY <1>2, <1>8, Codes, Zenon DEF runGraphCommand
  <2>2. ExitOf(parsed.command, world) = 1
    BY <1>1, <1>2, <1>8, Zenon DEF ExitOf
  <2>3. data # "null"
    BY <1>1, Zenon
  <2> HIDE DEF data
  <2>4. QED
    BY <1>3, <2>1, <2>2, <2>3, ReportTold, Zenon
<1>9. QED
  BY <1>4, <1>5, <1>6, <1>7, <1>8

\* Arguments that are refused, answered by a text, or a command.
LEMMA RunTold ==
  ASSUME NEW argv, NEW world, NEW output, output = run(argv, world),
         world.source \in {"unreadable", "notJson", "throws", "invalid", "valid"},
         world.init \in {"ready", "refused", "throws"}
  PROVE  /\ Helps(argv) \/ Versions(argv) => Told(output, FALSE, 0)
         /\ ~ Helps(argv) /\ ~ Versions(argv) /\ ~ Accepted(argv) => Told(output, requestedJson(argv), 2)
         /\ ~ Helps(argv) /\ ~ Versions(argv) /\ Accepted(argv) =>
              /\ Name(argv) \in Commands
              /\ Told(output, requestedJson(argv), ExitOf(Name(argv), world))
<1> DEFINE parsed == parseArguments(argv)
<1>1. /\ Helps(argv) => parsed = [kind |-> "help"]
      /\ ~ Helps(argv) /\ Versions(argv) => parsed = [kind |-> "version"]
      /\ ~ Helps(argv) /\ ~ Versions(argv) /\ ~ Accepted(argv) => parsed = [kind |-> "GECLI_USAGE"]
      /\ ~ Helps(argv) /\ ~ Versions(argv) /\ Accepted(argv) =>
           /\ parsed.kind = "command" /\ parsed.command = Name(argv)
           /\ parsed.json <=> requestedJson(argv)
  BY Parsed, Zenon
<1>2. /\ "help" # "GECLI_USAGE" /\ "version" # "GECLI_USAGE" /\ "command" # "GECLI_USAGE"
      /\ "help" # "command" /\ "version" # "command" /\ "command" \notin {"help", "version"}
      /\ "GECLI_USAGE" \notin {"help", "version"} /\ "help" \in {"help", "version"}
      /\ "version" \in {"help", "version"} /\ "GECLI_USAGE" # "null" /\ "init" # "doctor"
      /\ "init" \in {"init", "doctor"} /\ "doctor" \in {"init", "doctor"}
  OBVIOUS
<1>3. output = CASE parsed.kind = "GECLI_USAGE" ->
                      emitCliError("GECLI_USAGE", inferCommand(argv), requestedJson(argv))
                 [] parsed.kind \in {"help", "version"} -> writeStdout(0)
                 [] parsed.kind = "command" /\ parsed.command = "init" -> runInit(parsed, world)
                 [] parsed.kind = "command" /\ parsed.command = "doctor" -> runDoctorCommand(parsed, world)
                 [] parsed.kind = "command" /\ parsed.command \notin {"init", "doctor"} ->
                      runGraphCommand(parsed, world)
  BY Codes, Zenon DEF run
<1> HIDE DEF parsed
<1>4. CASE Helps(argv) \/ Versions(argv)
  <2>1. parsed = [kind |-> "help"] \/ parsed = [kind |-> "version"]
    BY <1>1, <1>4
  <2>2. parsed.kind = "help" \/ parsed.kind = "version"
    BY <2>1
  <2>3. /\ parsed.kind # "GECLI_USAGE" /\ parsed.kind \in {"help", "version"}
        /\ parsed.kind # "command"
    BY <1>2, <2>2, Zenon
  <2>4. output = writeStdout(0)
    BY <1>3, <2>3, Zenon
  <2>5. 0 \notin Failures \cup {1}
    BY DEF Failures
  <2>6. Told(writeStdout(0), FALSE, 0)
    BY <2>5, TextTold, Zenon
  <2>7. QED
    BY <1>4, <2>4, <2>6, Zenon
<1>5. CASE ~ Helps(argv) /\ ~ Versions(argv) /\ ~ Accepted(argv)
  <2>1. parsed.kind = "GECLI_USAGE"
    BY <1>1, <1>5
  <2>2. parsed.kind \notin {"help", "version"} /\ parsed.kind # "command"
    BY <2>1
  <2>3. output = emitCliError("GECLI_USAGE", inferCommand(argv), requestedJson(argv))
    BY <1>3, <2>1, <2>2, Zenon
  <2>4. Told(emitCliError("GECLI_USAGE", inferCommand(argv), requestedJson(argv)), requestedJson(argv), 2)
    BY <1>2, ErrorTold, Zenon
  <2>5. QED
    BY <1>5, <2>3, <2>4, Zenon
<1>6. CASE ~ Helps(argv) /\ ~ Versions(argv) /\ Accepted(argv)
  <2>1. parsed.kind = "command" /\ parsed.command = Name(argv) /\ (parsed.json <=> requestedJson(argv))
    BY <1>1, <1>6, Zenon
  <2>2. Name(argv) \in Commands
    BY <1>6 DEF Accepted
  <2>3. parsed.kind # "GECLI_USAGE" /\ parsed.kind \notin {"help", "version"}
    BY <1>2, <2>1, Zenon
  <2>4. Told(output, parsed.json, ExitOf(Name(argv), world))
    <3>1. CASE Name(argv) = "init"
      <4>1. output = runInit(parsed, world)
        BY <1>2, <1>3, <2>1, <2>3, <3>1, Zenon
      <4>2. Told(runInit(parsed, world), parsed.json, ExitOf("init", world))
        BY <2>1, <3>1, InitTold
      <4>3. QED
        BY <3>1, <4>1, <4>2, Zenon
    <3>2. CASE Name(argv) = "doctor"
      <4>1. output = runDoctorCommand(parsed, world)
        BY <1>2, <1>3, <2>1, <2>3, <3>2, Zenon
      <4>2. Told(runDoctorCommand(parsed, world), parsed.json, ExitOf("doctor", world))
        BY <2>1, <3>2, DoctorTold, Zenon
      <4>3. QED
        BY <3>2, <4>1, <4>2, Zenon
    <3>3. CASE Name(argv) \notin {"init", "doctor"}
      <4>1. parsed.command \in Commands \ {"init", "doctor"}
        BY <2>1, <2>2, <3>3
      <4>2. parsed.command # "init" /\ parsed.command # "doctor" /\ parsed.command \notin {"init", "doctor"}
        BY <4>1
      <4>3. output = runGraphCommand(parsed, world)
        BY <1>3, <2>1, <2>3, <4>2, Zenon
      <4>4. Told(runGraphCommand(parsed, world), parsed.json, ExitOf(parsed.command, world))
        BY <4>1, GraphTold
      <4>5. QED
        BY <2>1, <4>3, <4>4, Zenon
    <3>4. QED
      BY <3>1, <3>2, <3>3
  <2>5. Told(output, requestedJson(argv), ExitOf(Name(argv), world))
    BY <2>1, <2>4, Zenon DEF Told
  <2>6. QED
    BY <1>6, <2>2, <2>5, Zenon
<1>7. QED
  BY <1>4, <1>5, <1>6, Zenon

LEMMA ExitFacts ==
  ASSUME NEW name, NEW world, name \in Commands,
         world.source \in {"unreadable", "notJson", "throws", "invalid", "valid"},
         world.init \in {"ready", "refused", "throws"}, NEW code, code = ExitOf(name, world)
  PROVE  /\ code = 1 => world.source = "invalid"
         /\ code = 3 => ~ Good(world)
         /\ name = "doctor" /\ code = 0 => Good(world)
<1>1. name = "init" \/ name = "doctor" \/ name \notin {"init", "doctor"}
  OBVIOUS
<1>2. 0 # 1 /\ 0 # 3 /\ 1 # 3 /\ 2 # 1 /\ 2 # 3 /\ 2 # 0 /\ 70 # 1 /\ 70 # 3 /\ 70 # 0
  OBVIOUS
<1>3. CASE name = "init"
  <2>1. /\ world.init = "ready" => code = 0
        /\ world.init = "refused" => code = 2
        /\ world.init = "throws" => code = 70
    <3>1. "init" # "doctor" /\ "ready" # "refused" /\ "ready" # "throws" /\ "refused" # "throws"
      OBVIOUS
    <3>2. QED
      BY <1>3, <3>1, Zenon DEF ExitOf
  <2>2. name # "doctor"
    BY <1>3
  <2>3. world.init = "ready" \/ world.init = "refused" \/ world.init = "throws"
    OBVIOUS
  <2>4. QED
    BY <1>2, <2>1, <2>2, <2>3, Zenon
<1>4. CASE name = "doctor"
  <2>1. (Good(world) => code = 0) /\ (~ Good(world) => code = 3)
    <3>1. "doctor" # "init"
      OBVIOUS
    <3>2. QED
      BY <1>4, <3>1, Zenon DEF ExitOf
  <2>2. QED
    BY <1>2, <2>1, Zenon
<1>5. CASE name \notin {"init", "doctor"}
  <2>1. name # "init" /\ name # "doctor"
    BY <1>5
  <2>2. /\ world.source = "unreadable" => code = 2
        /\ world.source = "notJson" => code = 2
        /\ world.source = "throws" => code = 70
        /\ world.source = "valid" => code = 0
    <3>1. /\ "unreadable" # "notJson" /\ "unreadable" # "throws" /\ "unreadable" # "invalid"
          /\ "unreadable" # "valid" /\ "notJson" # "throws" /\ "notJson" # "invalid" /\ "notJson" # "valid"
          /\ "throws" # "invalid" /\ "throws" # "valid" /\ "invalid" # "valid"
      OBVIOUS
    <3>2. QED
      BY <2>1, <3>1, Zenon DEF ExitOf
  <2>3. world.source = "invalid" => code = 1
    <3>1. /\ "unreadable" # "invalid" /\ "notJson" # "invalid" /\ "throws" # "invalid" /\ "valid" # "invalid"
      OBVIOUS
    <3>2. QED
      BY <2>1, <3>1, Zenon DEF ExitOf
  <2>4. \/ world.source = "unreadable" \/ world.source = "notJson" \/ world.source = "throws"
        \/ world.source = "valid" \/ world.source = "invalid"
    OBVIOUS
  <2>5. QED
    BY <1>2, <2>1, <2>2, <2>3, <2>4, Zenon
<1>6. QED
  BY <1>1, <1>3, <1>4, <1>5

\* A --json that is given twice, and one right behind --format.
Repeated(argv) == \E i, j \in DOMAIN argv : i # j /\ argv[i] = "--json" /\ argv[j] = "--json"
Displaced(argv) == \E i \in DOMAIN argv : argv[i] = "--json" /\ i > 1 /\ argv[i - 1] = "--format"

\* A --json that is repeated or behind --format is refused.
LEMMA JsonRefused ==
  ASSUME NEW argv, NEW n \in Nat, Len(argv) = n, DOMAIN argv = 1 .. n, Repeated(argv) \/ Displaced(argv)
  PROVE  ~ Accepted(argv)
<1>1. CASE Repeated(argv)
  <2> DEFINE J == {i \in DOMAIN argv : argv[i] = "--json"}
  <2>1. PICK i, j \in DOMAIN argv : i # j /\ argv[i] = "--json" /\ argv[j] = "--json"
    BY <1>1 DEF Repeated
  <2>2. i \in J /\ j \in J /\ i # j
    BY <2>1
  <2>3. J \in SUBSET (1 .. n)
    OBVIOUS
  <2> HIDE DEF J
  <2>4. IsFiniteSet(J) /\ Cardinality(J) \in Nat
    BY <2>3, Positions
  <2>5. Cardinality(J) # 0
    BY <2>2, <2>4, FS_EmptySet
  <2>6. Cardinality(J) # 1
    BY <2>2, <2>4, FS_Singleton
  <2>7. ~ (Cardinality(J) <= 1)
    BY <2>4, <2>5, <2>6
  <2>8. Count(argv, "--json") = Cardinality(J)
    BY DEF Count, J
  <2>9. QED
    BY <2>7, <2>8, Zenon DEF Accepted
<1>2. CASE Displaced(argv)
  <2>1. PICK i \in 1 .. n : argv[i] = "--json" /\ i > 1 /\ argv[i - 1] = "--format"
    BY <1>2 DEF Displaced
  <2>2. i - 1 \in DOMAIN argv /\ i - 1 # Len(argv) /\ argv[(i - 1) + 1] = "--json"
    BY <2>1
  <2>3. "--json" \in Dashed
    BY DashedAssumption
  <2>4. FormatUnvalued(argv)
    BY <2>1, <2>2, <2>3 DEF FormatUnvalued
  <2>5. QED
    BY <2>4, Zenon DEF Accepted
<1>3. QED
  BY <1>1, <1>2

\* Otherwise the arguments without their --json are parsed the same.
LEMMA SameWithout ==
  ASSUME NEW argv, NEW n \in Nat, Len(argv) = n, argv = [i \in 1 .. n |-> argv[i]],
         NEW plain, plain = Kept(argv, {i \in DOMAIN argv : argv[i] # "--json"}),
         ~ Repeated(argv), ~ Displaced(argv)
  PROVE  /\ Helps(plain) <=> Helps(argv)
         /\ Versions(plain) <=> Versions(argv)
         /\ Accepted(plain) <=> Accepted(argv)
         /\ Name(plain) = Name(argv)
<1> DEFINE D == {i \in DOMAIN argv : argv[i] # "--json"}
<1>1. DOMAIN argv = 1 .. n
  OBVIOUS
<1>2. D \in SUBSET (1 .. n) /\ \A i \in 1 .. n : i \in D <=> argv[i] # "--json"
  BY <1>1
<1>3. plain = Kept(argv, D)
  OBVIOUS
<1> HIDE DEF D
<1>4. CASE \E p \in 1 .. n : argv[p] = "--json"
  <2>1. PICK p \in 1 .. n : argv[p] = "--json"
    BY <1>4
  <2>2. \A i \in 1 .. n : argv[i] = "--json" => i = p
    BY <1>1, <2>1 DEF Repeated
  <2>3. D = (1 .. n) \ {p}
    BY <1>2, <2>1, <2>2
  <2>4. plain = Without(argv, n, p)
    BY <1>3, <2>3, KeptOthers
  <2>5. ~ (p > 1 /\ argv[p - 1] = "--format")
    BY <1>1, <2>1 DEF Displaced
  <2>6. Single(argv, n, p)
    BY <1>1, <2>1, <2>2, <2>5 DEF Single
  <2>7. QED
    BY <2>4, <2>6, SameParsed
<1>5. CASE ~ \E p \in 1 .. n : argv[p] = "--json"
  <2>1. D = 1 .. n
    BY <1>2, <1>5
  <2>2. /\ DOMAIN Kept(argv, 1 .. n) = 1 .. n
        /\ \A k \in 1 .. n : Kept(argv, 1 .. n)[k] = argv[k]
    BY KeptAll
  <2>3. DOMAIN plain = 1 .. n /\ \A k \in 1 .. n : plain[k] = argv[k]
    BY <1>3, <2>1, <2>2
  <2>4. plain = argv
    <3>1. D \in SUBSET (1 .. n)
      BY <1>2
    <3>2. /\ DOMAIN Kept(argv, D) = 1 .. Cardinality(D)
          /\ Kept(argv, D) = [k \in 1 .. Cardinality(D) |-> Kept(argv, D)[k]]
      BY <3>1, KeptFacts
    <3>3. plain = [k \in 1 .. n |-> plain[k]]
      BY <1>3, <2>3, <3>2
    <3>4. QED
      BY <2>3, <3>3
  <2>5. QED
    BY <2>4
<1>6. QED
  BY <1>4, <1>5

\* Help and version are asked for with and without --json.
LEMMA SameInfo ==
  ASSUME NEW argv, NEW n \in Nat, DOMAIN argv = 1 .. n,
         NEW plain, plain = Kept(argv, {i \in DOMAIN argv : argv[i] # "--json"})
  PROVE  Helps(plain) \/ Versions(plain) <=> Helps(argv) \/ Versions(argv)
<1> DEFINE D == {i \in DOMAIN argv : argv[i] # "--json"}
<1>1. D \in SUBSET (1 .. n) /\ plain = Kept(argv, D)
  OBVIOUS
<1>2. D = {i \in 1 .. n : argv[i] # "--json"}
  OBVIOUS
<1> HIDE DEF D
<1>3. Elements(plain) = {argv[i] : i \in D}
  <2>1. Elements(Kept(argv, D)) = {argv[i] : i \in D}
    BY <1>1, KeptElements, Zenon
  <2>2. QED
    BY <1>1, <2>1, Zenon
<1>4. ASSUME NEW S, "--json" \notin S PROVE Has(plain, S) <=> Has(argv, S)
  <2>1. Has(plain, S) <=> \E x \in Elements(plain) : x \in S
    BY DEF Has, Elements
  <2>2. QED
    BY <1>2, <1>3, <1>4, <2>1 DEF Has
<1>5. "--json" \notin {"--help", "-h"} /\ "--json" \notin {"--version", "-v"}
  OBVIOUS
<1>6. QED
  BY <1>4, <1>5, Zenon DEF Helps, Versions

\* An invocation, and what is left of its arguments without --json.
Invoked(argv, world, plain) ==
  /\ Len(argv) \in Nat /\ argv = [i \in 1 .. Len(argv) |-> argv[i]]
  /\ world.source \in {"unreadable", "notJson", "throws", "invalid", "valid"}
  /\ world.init \in {"ready", "refused", "throws"}
  /\ plain = Kept(argv, {i \in DOMAIN argv : argv[i] # "--json"})

\* The arguments without their --json exit the same, unless --json is repeated
\* or stands where a format is expected and is refused for that.
LEMMA SameExit ==
  ASSUME NEW argv, NEW world, NEW plain, Invoked(argv, world, plain)
  PROVE  run(plain, world).exit # run(argv, world).exit =>
           run(argv, world).exit = 2 /\ (Repeated(argv) \/ Displaced(argv))
<1> DEFINE Code(v) == IF Helps(v) \/ Versions(v) THEN 0
                      ELSE IF Accepted(v) THEN ExitOf(Name(v), world) ELSE 2
           n == Len(argv)
<1>1. /\ n \in Nat /\ argv = [i \in 1 .. n |-> argv[i]] /\ DOMAIN argv = 1 .. n
      /\ plain = Kept(argv, {i \in DOMAIN argv : argv[i] # "--json"})
      /\ world.source \in {"unreadable", "notJson", "throws", "invalid", "valid"}
      /\ world.init \in {"ready", "refused", "throws"}
  <2>1. n \in Nat /\ argv = [i \in 1 .. n |-> argv[i]]
    BY DEF Invoked
  <2>2. DOMAIN argv = 1 .. n
    BY <2>1
  <2>3. QED
    BY <2>1, <2>2 DEF Invoked
<1> HIDE DEF n
<1>2. ASSUME NEW v PROVE run(v, world).exit = Code(v)
  <2>1. PICK output : output = run(v, world)
    OBVIOUS
  <2>2. /\ Helps(v) \/ Versions(v) => Told(output, FALSE, 0)
        /\ ~ Helps(v) /\ ~ Versions(v) /\ ~ Accepted(v) => Told(output, requestedJson(v), 2)
        /\ ~ Helps(v) /\ ~ Versions(v) /\ Accepted(v) =>
             Told(output, requestedJson(v), ExitOf(Name(v), world))
    BY <1>1, <2>1, RunTold
  <2>3. QED
    BY <2>1, <2>2, Zenon DEF Told
<1>3. Helps(plain) \/ Versions(plain) <=> Helps(argv) \/ Versions(argv)
  BY <1>1, SameInfo
<1>4. CASE Helps(argv) \/ Versions(argv)
  <2>1. Code(plain) = 0 /\ Code(argv) = 0
    BY <1>3, <1>4, Zenon
  <2>2. QED
    BY <1>2, <2>1, Zenon
<1>5. CASE ~ (Helps(argv) \/ Versions(argv)) /\ (Repeated(argv) \/ Displaced(argv))
  <2>1. ~ Accepted(argv)
    BY <1>1, <1>5, JsonRefused DEF n
  <2>2. Code(argv) = 2
    BY <1>5, <2>1, Zenon
  <2>3. QED
    BY <1>2, <1>5, <2>2, Zenon
<1>6. CASE ~ Repeated(argv) /\ ~ Displaced(argv)
  <2>1. /\ Helps(plain) <=> Helps(argv)
        /\ Versions(plain) <=> Versions(argv)
        /\ Accepted(plain) <=> Accepted(argv)
        /\ Name(plain) = Name(argv)
    BY <1>1, <1>6, SameWithout DEF n
  <2>2. Code(plain) = Code(argv)
    BY <2>1, Zenon
  <2>3. QED
    BY <1>2, <2>2, Zenon
<1>7. QED
  BY <1>4, <1>5, <1>6, Zenon

\* A command line that is one argument, "doctor", is the command doctor.
LEMMA DoctorAlone ==
  ASSUME NEW argv, Len(argv) = 1, DOMAIN argv = 1 .. 1, "doctor" \in Elements(argv)
  PROVE  ~ Helps(argv) /\ ~ Versions(argv) /\ (Accepted(argv) => Name(argv) = "doctor")
<1>1. \A i \in DOMAIN argv : argv[i] = "doctor"
  BY DEF Elements
<1>2. ~ Helps(argv) /\ ~ Versions(argv)
  BY <1>1 DEF Helps, Versions, Has
<1>3. ASSUME Accepted(argv) PROVE Name(argv) = "doctor"
  <2>1. PICK I \in SUBSET (1 .. 1) : Positionals(argv) = Kept(argv, I)
    BY DEF Positionals
  <2>2. Kept(argv, I) # <<>>
    BY <1>3, <2>1 DEF Accepted
  <2>3. /\ Elements(Kept(argv, I)) = {argv[i] : i \in I}
        /\ Kept(argv, I) = <<>> <=> I = {}
    BY KeptElements
  <2>4. DOMAIN Kept(argv, I) = 1 .. Cardinality(I)
    BY KeptFacts
  <2>5. IsFiniteSet(I) /\ Cardinality(I) \in Nat
    BY Positions
  <2>6. Cardinality(I) # 0
    BY <2>2, <2>3, <2>5, FS_EmptySet
  <2>7. 1 \in DOMAIN Kept(argv, I)
    BY <2>4, <2>5, <2>6
  <2>8. Kept(argv, I)[1] \in Elements(Kept(argv, I))
    BY <2>7 DEF Elements
  <2>9. QED
    BY <1>1, <2>1, <2>3, <2>8 DEF Name
<1>4. QED
  BY <1>2, <1>3

LEMMA CliPromise ==
  ASSUME NEW q, IsCliQuestion(q), question = q, decision = run(q.argv, q.world)
  PROVE  CliCorrect
<1> DEFINE argv == q.argv
           world == q.world
           n == Len(argv)
           json == "--json" \in Elements(argv)
           info == Elements(argv) \cap {"--help", "-h", "--version", "-v"} # {}
           plain == Kept(argv, {i \in DOMAIN argv : argv[i] # "--json"})
<1>1. /\ n \in Nat /\ DOMAIN argv = 1 .. n /\ argv = [i \in 1 .. n |-> argv[i]]
      /\ world.source \in {"unreadable", "notJson", "throws", "invalid", "valid"}
      /\ world.init \in {"ready", "refused", "throws"}
  <2>1. n \in Nat /\ argv = [i \in 1 .. n |-> argv[i]]
    BY DEF IsCliQuestion
  <2>2. DOMAIN argv = 1 .. n
    BY <2>1
  <2>3. QED
    BY <2>1, <2>2 DEF IsCliQuestion
<1>2. requestedJson(argv) <=> json
  BY DEF requestedJson, Has, Elements
<1>3. Helps(argv) \/ Versions(argv) <=> info
  BY DEF Helps, Versions, Has, Elements
<1>4. /\ Helps(argv) \/ Versions(argv) => Told(decision, FALSE, 0)
      /\ ~ Helps(argv) /\ ~ Versions(argv) /\ ~ Accepted(argv) => Told(decision, requestedJson(argv), 2)
      /\ ~ Helps(argv) /\ ~ Versions(argv) /\ Accepted(argv) =>
           /\ Name(argv) \in Commands
           /\ Told(decision, requestedJson(argv), ExitOf(Name(argv), world))
  <2>1. PICK output : output = decision
    OBVIOUS
  <2>2. output = run(argv, world)
    BY <2>1
  <2>3. QED
    BY <1>1, <2>1, <2>2, RunTold
<1>5. Good(world) <=>
        /\ world.node >= 20 /\ world.schema = "supported" /\ world.fixture = "graph"
        /\ world.core = "canonical" /\ world.runtime = "runs"
  BY DEF Good
<1>6. /\ runDoctor(world).healthy <=> Good(world)
      /\ Len(runDoctor(world).remediations) \in (IF Good(world) THEN {0} ELSE 1 .. 3)
  BY DoctorTells
<1>7. n = 1 /\ "doctor" \in Elements(argv) =>
        ~ Helps(argv) /\ ~ Versions(argv) /\ (Accepted(argv) => Name(argv) = "doctor")
  BY <1>1, DoctorAlone
<1>8. run(plain, world).exit # decision.exit => decision.exit = 2 /\ (Repeated(argv) \/ Displaced(argv))
  <2>1. Invoked(argv, world, plain)
    BY <1>1, Zenon DEF Invoked
  <2>2. run(plain, world).exit # run(argv, world).exit =>
          run(argv, world).exit = 2 /\ (Repeated(argv) \/ Displaced(argv))
    <3> HIDE DEF argv, world, plain
    <3>1. QED
      BY <2>1, SameExit
  <2>3. QED
    BY <2>2, Zenon
<1>9. /\ decision.stdout + decision.stderr = 1
      /\ json /\ ~ info =>
           /\ decision.stdout = 1 /\ decision.envelope # NoEnvelope
           /\ decision.envelope.exitCode = decision.exit /\ decision.envelope.ok = (decision.exit = 0)
           /\ decision.envelope.error # "null" <=> decision.exit \in Failures
           /\ decision.envelope.data = "null" <=> decision.exit \in Failures
      /\ ~ json =>
           /\ decision.envelope = NoEnvelope
           /\ decision.stderr = 1 <=> decision.exit \in Failures \cup {1}
      /\ info => decision.exit = 0
  <2>1. CASE info
    <3>1. Told(decision, FALSE, 0)
      BY <1>3, <1>4, <2>1
    <3>2. QED
      BY <2>1, <3>1, Zenon DEF Told
  <2>2. CASE ~ info
    <3>1. PICK code : Told(decision, requestedJson(argv), code)
      BY <1>3, <1>4, <2>2
    <3>2. QED
      BY <1>2, <2>2, <3>1, Zenon DEF Told
  <2>3. QED
    BY <2>1, <2>2, Zenon
<1>10. /\ decision.exit = 1 => world.source = "invalid"
       /\ decision.exit = 3 => ~ Good(world)
       /\ "doctor" \in Elements(argv) /\ decision.exit = 0 /\ n = 1 => Good(world)
  <2>1. 0 # 1 /\ 0 # 3 /\ 2 # 1 /\ 2 # 3 /\ 2 # 0
    OBVIOUS
  <2>2. CASE Helps(argv) \/ Versions(argv)
    <3>1. decision.exit = 0
      BY <1>4, <2>2 DEF Told
    <3>2. QED
      BY <1>7, <2>1, <2>2, <3>1, Zenon
  <2>3. CASE ~ Helps(argv) /\ ~ Versions(argv) /\ ~ Accepted(argv)
    <3>1. decision.exit = 2
      BY <1>4, <2>3 DEF Told
    <3>2. QED
      BY <2>1, <3>1, Zenon
  <2>4. CASE ~ Helps(argv) /\ ~ Versions(argv) /\ Accepted(argv)
    <3>1. Name(argv) \in Commands /\ decision.exit = ExitOf(Name(argv), world)
      BY <1>4, <2>4 DEF Told
    <3>2. PICK code : code = ExitOf(Name(argv), world)
      OBVIOUS
    <3>3. /\ code = 1 => world.source = "invalid"
          /\ code = 3 => ~ Good(world)
          /\ Name(argv) = "doctor" /\ code = 0 => Good(world)
      BY <1>1, <3>1, <3>2, ExitFacts
    <3>4. QED
      BY <1>7, <2>4, <3>1, <3>2, <3>3, Zenon
  <2>5. QED
    BY <2>2, <2>3, <2>4, Zenon
<1>11. Failures = {EXIT_CODES.input, EXIT_CODES.internal}
  BY Codes DEF Failures
<1>12. decision.exit \in Failures \cup {1} <=> decision.exit \in Failures \/ decision.exit = 1
  OBVIOUS
<1> DEFINE isError == decision.exit \in {EXIT_CODES.input, EXIT_CODES.internal}
           envelope == decision.envelope
           good == /\ world.node >= 20 /\ world.schema = "supported" /\ world.fixture = "graph"
                   /\ world.core = "canonical" /\ world.runtime = "runs"
           doctor == runDoctor(world)
           remedies == Len(doctor.remediations) \in (IF good THEN {0} ELSE 1 .. 3)
           repeated == \E i, j \in DOMAIN argv : i # j /\ argv[i] = "--json" /\ argv[j] = "--json"
           displaced == \E i \in DOMAIN argv : argv[i] = "--json" /\ i > 1 /\ argv[i - 1] = "--format"
           sum == decision.stdout + decision.stderr
<1>13. isError <=> decision.exit \in Failures
  BY <1>11, Zenon
<1>14. good <=> Good(world)
  BY <1>5, Zenon
<1>15. remedies
  <2>1. CASE Good(world)
    BY <1>6, <1>14, <2>1, Zenon
  <2>2. CASE ~ Good(world)
    BY <1>6, <1>14, <2>2, Zenon
  <2>3. QED
    BY <2>1, <2>2
<1> HIDE DEF json, info, plain, isError, good, doctor, remedies, repeated, displaced, sum
<1>16. json /\ ~ info =>
         /\ decision.stdout = 1 /\ envelope # NoEnvelope
         /\ envelope.exitCode = decision.exit /\ envelope.ok = (decision.exit = 0)
         /\ (envelope.error # "null") = isError /\ (envelope.data = "null") = isError
  <2>1. SUFFICES ASSUME json, ~ info
                 PROVE  /\ decision.stdout = 1 /\ envelope # NoEnvelope
                        /\ envelope.exitCode = decision.exit /\ envelope.ok = (decision.exit = 0)
                        /\ (envelope.error # "null") = isError /\ (envelope.data = "null") = isError
    OBVIOUS
  <2>2. /\ envelope.error # "null" <=> decision.exit \in Failures
        /\ envelope.data = "null" <=> decision.exit \in Failures
    BY <1>9, <2>1, Zenon
  <2>3. (envelope.error # "null") = isError
    <3>1. envelope.error # "null" <=> isError
      BY <1>13, <2>2, Zenon
    <3>2. QED
      BY <3>1 DEF isError
  <2>4. (envelope.data = "null") = isError
    <3>1. envelope.data = "null" <=> isError
      BY <1>13, <2>2, Zenon
    <3>2. QED
      BY <3>1 DEF isError
  <2>5. QED
    BY <1>9, <2>1, <2>3, <2>4, Zenon
<1>17. ~ json =>
         envelope = NoEnvelope /\ (decision.stderr = 1) = (isError \/ decision.exit = 1)
  BY <1>9, <1>12, <1>13, Zenon DEF isError
<1>18. /\ run(plain, world).exit # decision.exit =>
            decision.exit = EXIT_CODES.input /\ (repeated \/ displaced)
       /\ info => decision.exit = 0
       /\ decision.exit = 1 => world.source = "invalid"
       /\ decision.exit = 3 => ~ good
       /\ "doctor" \in Elements(argv) /\ decision.exit = 0 /\ Len(argv) = 1 => good
       /\ doctor.healthy <=> good
       /\ sum = 1
  BY <1>6, <1>8, <1>9, <1>10, <1>14, Codes, Zenon DEF doctor, repeated, displaced, Repeated, Displaced, sum
<1>19. QED
  BY <1>15, <1>16, <1>17, <1>18, ZenonT(60) DEF CliCorrect, json, info, plain, isError, good, doctor, remedies, repeated, displaced, sum

------------------------------------------------------------------------------
\* Which question is open, and that its decision is the code's reply to it.
DecisionInv ==
  /\ question.part = "barrier" => IsBarrierQuestion(question)
  /\ question.part = "router" => IsRouterQuestion(question)
  /\ question.part = "cli" => IsCliQuestion(question)
  /\ Answered("barrier") => decision = evaluateSettledBarrier(question.items, question.policy)
  /\ Answered("router") => decision = evaluateRouteSelection(question.request, question.policy)
  /\ Answered("cli") => decision = run(question.argv, question.world)

LEMMA DecisionsAlwaysAnswered == DecisionsSpec => []DecisionInv
<1>1. DecisionsInit \/ DecisionsRest => DecisionInv
  <2>1. SUFFICES ASSUME DecisionsInit \/ DecisionsRest PROVE DecisionInv
    OBVIOUS
  <2>2. decision = Undecided
    BY <2>1 DEF DecisionsInit, DecisionsRest
  <2>3. /\ question.part = "barrier" => IsBarrierQuestion(question)
        /\ question.part = "router" => IsRouterQuestion(question)
        /\ question.part = "cli" => IsCliQuestion(question)
    <3>1. CASE question \in BarrierQuestions
      BY <3>1, QuestionAssumption DEF IsBarrierQuestion
    <3>2. CASE question \in RouterQuestions
      BY <3>2, QuestionAssumption DEF IsRouterQuestion
    <3>3. CASE question \in CliQuestions
      BY <3>3, QuestionAssumption DEF IsCliQuestion
    <3>4. CASE question = AtRest
      BY <3>4 DEF AtRest
    <3>5. QED
      BY <2>1, <3>1, <3>2, <3>3, <3>4 DEF DecisionsInit, DecisionsRest
  <2>4. QED
    BY <2>2, <2>3 DEF DecisionInv, Answered
<1>2. DecisionInv /\ [DecisionsNext]_decisionVars => DecisionInv'
  <2>1. SUFFICES ASSUME DecisionInv, [DecisionsNext]_decisionVars PROVE DecisionInv'
    OBVIOUS
  <2>2. CASE DecideBarrier
    BY <2>1, <2>2 DEF DecisionInv, DecideBarrier, Asked, Answered
  <2>3. CASE DecideRoute
    BY <2>1, <2>3 DEF DecisionInv, DecideRoute, Asked, Answered
  <2>4. CASE DecideCommand
    BY <2>1, <2>4 DEF DecisionInv, DecideCommand, Asked, Answered
  <2>5. CASE UNCHANGED decisionVars
    BY <2>1, <2>5 DEF DecisionInv, decisionVars, Answered
  <2>6. QED
    BY <2>1, <2>2, <2>3, <2>4, <2>5 DEF DecisionsNext
<1>3. QED
  BY <1>1, <1>2, PTL DEF DecisionsSpec

(* evaluateSettledBarrier (barrier.ts) keeps its promise for every list of *)
(* items and every policy: it refuses exactly what is not well formed,     *)
(* lists every id once under its status and in order, and opens the        *)
(* barrier exactly when there are items and enough of them succeeded, a    *)
(* share exactly at the threshold included; one more success never closes  *)
(* an open barrier.                                                        *)
THEOREM BarrierAlwaysCorrect == DecisionsSpec => []BarrierCorrect
<1>1. DecisionInv => BarrierCorrect
  <2>1. SUFFICES ASSUME DecisionInv PROVE BarrierCorrect
    OBVIOUS
  <2>2. CASE Answered("barrier")
    <3>1. /\ IsBarrierQuestion(question)
          /\ decision = evaluateSettledBarrier(question.items, question.policy)
      BY <2>1, <2>2 DEF DecisionInv, Answered
    <3>2. PICK q : q = question
      OBVIOUS
    <3>3. QED
      BY <3>1, <3>2, BarrierPromise
  <2>3. CASE ~ Answered("barrier")
    BY <2>3, Zenon DEF BarrierCorrect
  <2>4. QED
    BY <2>2, <2>3
<1>2. QED
  BY <1>1, DecisionsAlwaysAnswered, PTL

(* evaluateRouteSelection (router.ts) keeps its promise for every request  *)
(* and every policy: it refuses exactly what is not well formed, and of    *)
(* the rest it routes all or nothing, within the policy's limit, to the    *)
(* default route alone, or, exactly on low confidence, to the escalation   *)
(* route alone; the order of the request changes nothing.                  *)
THEOREM RouterAlwaysCorrect == DecisionsSpec => []RouterCorrect
<1>1. DecisionInv => RouterCorrect
  <2>1. SUFFICES ASSUME DecisionInv PROVE RouterCorrect
    OBVIOUS
  <2>2. CASE Answered("router")
    <3>1. /\ IsRouterQuestion(question)
          /\ decision = evaluateRouteSelection(question.request, question.policy)
      BY <2>1, <2>2 DEF DecisionInv, Answered
    <3>2. PICK q : q = question
      OBVIOUS
    <3>3. QED
      BY <3>1, <3>2, RouterPromise
  <2>3. CASE ~ Answered("router")
    BY <2>3, Zenon DEF RouterCorrect
  <2>4. QED
    BY <2>2, <2>3
<1>2. QED
  BY <1>1, DecisionsAlwaysAnswered, PTL

(* One invocation of the command line (cli.ts) keeps its promise for every *)
(* argument vector and every outcome of the file, the compiler, init and   *)
(* the probes of doctor: with --json one envelope on stdout that agrees    *)
(* with the exit code, also for arguments that are refused; otherwise one  *)
(* text on the stream of its kind; without their --json the arguments exit *)
(* the same, unless --json is repeated or stands right behind --format,    *)
(* which is refused; exit codes 1 and 3 mean an invalid graph and an       *)
(* unhealthy installation.  What help and version write with --json is not *)
(* part of it.                                                             *)
THEOREM CliAlwaysCorrect == DecisionsSpec => []CliCorrect
<1>1. DecisionInv => CliCorrect
  <2>1. SUFFICES ASSUME DecisionInv PROVE CliCorrect
    OBVIOUS
  <2>2. CASE Answered("cli")
    <3>1. IsCliQuestion(question) /\ decision = run(question.argv, question.world)
      BY <2>1, <2>2 DEF DecisionInv, Answered
    <3>2. PICK q : q = question
      OBVIOUS
    <3>3. QED
      BY <3>1, <3>2, CliPromise
  <2>3. CASE ~ Answered("cli")
    BY <2>3, Zenon DEF CliCorrect
  <2>4. QED
    BY <2>2, <2>3
<1>2. QED
  BY <1>1, DecisionsAlwaysAnswered, PTL

------------------------------------------------------------------------------
(* The server of the MCP tools.                                            *)

States == {"absent", "running", "posted", "threw", "died", "mute", "gone", "terminated"}
CutOff == {"MCP_TOOL_TIMEOUT", "MCP_REQUEST_CANCELLED"}
Issues == CutOff \cup {"pending", "none", "MCP_INTERNAL_ERROR", "MCP_INPUT_TOO_LARGE", "MCP_GRAPH_TOO_LARGE"}
Answers == [isError : BOOLEAN, issue : Issues, valid : BOOLEAN, planned : BOOLEAN]
Compiles(r) == asked[r].tool \in {"graph_validate", "graph_plan"}
AsksSchema(r) == asked[r].tool = "graph_get_schema"

Types ==
  /\ asked \in [Requests -> Calls \cup {NoCall}]
  /\ aborted \in [Requests -> BOOLEAN]
  /\ worker \in [Requests -> States]
  /\ timer \in [Requests -> BOOLEAN]
  /\ listener \in [Requests -> BOOLEAN]
  /\ settled \in [Requests -> BOOLEAN]
  /\ answer \in [Requests -> Answers]
  /\ schemaCache \in {"none", "loading", "loaded", "failed"}
  /\ serving \in BOOLEAN

\* A request that no bounded compilation runs for.
Unbounded(r) == worker[r] = "absent" /\ ~ timer[r] /\ ~ listener[r]

\* A request that waits has no answer.  One that was answered after its worker
\* started is either answered by it or was cut off, and then the worker may
\* still have an event due.
Request(r) ==
  /\ asked[r].tool = "none" => Unbounded(r) /\ ~ settled[r]
  /\ AsksSchema(r) => /\ Unbounded(r) /\ schemaCache # "none"
                      /\ settled[r] => schemaCache \in {"loaded", "failed"} /\ answer[r] = schemaAnswer(schemaCache)
  /\ ~ settled[r] => answer[r] = NoAnswer
  /\ settled[r] => answer[r].issue # "pending" /\ ~ timer[r] /\ ~ listener[r] /\ worker[r] # "running"
  /\ worker[r] # "absent" => Compiles(r) /\ asked[r].graph \in {"valid", "invalid"}
  /\ Compiles(r) /\ ~ settled[r] => timer[r] /\ listener[r] /\ worker[r] \notin {"absent", "terminated"}
  /\ Compiles(r) /\ answer[r].issue = "none" => worker[r] = "gone"
  /\ settled[r] /\ worker[r] \in {"posted", "threw", "died", "mute", "terminated"} => answer[r].issue \in CutOff
  /\ answer[r].planned => answer[r].valid /\ answer[r].issue = "none"
  /\ answer[r].issue \in {"MCP_INPUT_TOO_LARGE", "MCP_GRAPH_TOO_LARGE"} => worker[r] = "absent"
  /\ answer[r].issue = "MCP_REQUEST_CANCELLED" => aborted[r]

\* The file is read by the first call, and the server ends only of the error
\* of a worker that was cut off.
Schema == schemaReads = IF schemaCache = "none" THEN 0 ELSE 1
Ended(r) == worker[r] = "gone" /\ settled[r] /\ answer[r].issue \in CutOff
Alive == serving \/ \E r \in Requests : Ended(r)

ServerInv == Types /\ (\A r \in Requests : Request(r)) /\ Schema /\ Alive

-----------------------------------------------------------------------------

LEMMA CallKinds ==
    ASSUME NEW call \in Calls
    PROVE  /\ call.tool \in {"graph_validate", "graph_plan", "graph_get_schema"}
           /\ call.tool # "graph_get_schema" => call.graph \in GraphKinds
           /\ call # NoCall
<1>1. \/ call \in [tool : {"graph_validate", "graph_plan"}, graph : GraphKinds, badTimeout : BOOLEAN]
      \/ call \in [tool : {"graph_get_schema"}, graph : {"none"}, badTimeout : {FALSE}]
  BY CallsAssumption
<1>2. NoCall.tool = "none"
  BY DEF NoCall
<1> QED
  BY <1>1, <1>2

\* Only a request whose compilation is bounded has its timer or listener.
LEMMA ArmedFacts ==
    ASSUME Types, NEW r \in Requests, Request(r), timer[r] \/ listener[r]
    PROVE  ~ settled[r] /\ worker[r] # "absent"
<1>1. asked[r].tool = "none" \/ AsksSchema(r) \/ Compiles(r)
  BY CallKinds DEF Types, NoCall, AsksSchema, Compiles
<1> QED
  BY <1>1 DEF Request, Unbounded

LEMMA AnswerFacts ==
    /\ NoAnswer \in Answers /\ NoAnswer.issue = "pending" /\ NoAnswer.planned = FALSE
    /\ \A code \in Issues : /\ issueAnswer(code) \in Answers /\ issueAnswer(code).issue = code
                            /\ issueAnswer(code).planned = FALSE
    /\ \A call : /\ compiledAnswer(call) \in Answers /\ compiledAnswer(call).issue = "none"
                 /\ compiledAnswer(call).planned => compiledAnswer(call).valid
    /\ \A cache : /\ schemaAnswer(cache) \in Answers /\ schemaAnswer(cache).planned = FALSE
                  /\ schemaAnswer(cache).issue \in {"none", "MCP_INTERNAL_ERROR"}
<1>1. NoAnswer \in Answers /\ NoAnswer.issue = "pending" /\ NoAnswer.planned = FALSE
  BY DEF NoAnswer, Answers, Issues
<1>2. \A code \in Issues : /\ issueAnswer(code) \in Answers /\ issueAnswer(code).issue = code
                           /\ issueAnswer(code).planned = FALSE
  BY DEF issueAnswer, Answers
<1>3. ASSUME NEW call
      PROVE  /\ compiledAnswer(call) \in Answers /\ compiledAnswer(call).issue = "none"
             /\ compiledAnswer(call).planned => compiledAnswer(call).valid
  <2> DEFINE valid == call.graph = "valid"
             planned == call.tool = "graph_plan" /\ call.graph = "valid"
  <2>1. compiledAnswer(call) = [isError |-> FALSE, issue |-> "none", valid |-> valid, planned |-> planned]
    BY DEF compiledAnswer
  <2>2. valid \in BOOLEAN /\ planned \in BOOLEAN /\ (planned => valid)
    OBVIOUS
  <2> HIDE DEF valid, planned
  <2>3. "none" \in Issues
    BY DEF Issues
  <2> QED
    BY <2>1, <2>2, <2>3 DEF Answers
<1>4. ASSUME NEW cache
      PROVE  /\ schemaAnswer(cache) \in Answers /\ schemaAnswer(cache).planned = FALSE
             /\ schemaAnswer(cache).issue \in {"none", "MCP_INTERNAL_ERROR"}
  <2>1. "none" \in Issues /\ "MCP_INTERNAL_ERROR" \in Issues
    BY DEF Issues
  <2>2. CASE cache = "loaded"
    <3>1. schemaAnswer(cache) = [NoAnswer EXCEPT !.issue = "none"]
      BY <2>2 DEF schemaAnswer
    <3> QED
      BY <2>1, <3>1 DEF NoAnswer, Answers
  <2>3. CASE cache # "loaded"
    <3>1. schemaAnswer(cache) = issueAnswer("MCP_INTERNAL_ERROR")
      BY <2>3 DEF schemaAnswer
    <3> QED
      BY <1>2, <2>1, <3>1
  <2> QED
    BY <2>2, <2>3
<1> QED
  BY <1>1, <1>2, <1>3, <1>4

LEMMA ServerInvInit == McpInit => ServerInv
<1> SUFFICES ASSUME McpInit PROVE ServerInv
  OBVIOUS
<1>1. Types
  BY AnswerFacts DEF McpInit, Types, States
<1>2. ASSUME NEW r \in Requests PROVE Request(r)
  <2>1. /\ asked[r].tool = "none" /\ worker[r] = "absent" /\ timer[r] = FALSE /\ listener[r] = FALSE
        /\ settled[r] = FALSE /\ answer[r] = NoAnswer
    BY DEF McpInit, NoCall
  <2> QED
    BY <2>1, AnswerFacts DEF Request, Unbounded, Compiles, AsksSchema
<1>3. Schema /\ Alive
  BY DEF McpInit, Schema, Alive
<1> QED
  BY <1>1, <1>2, <1>3 DEF ServerInv

\* A step of one request that leaves the schema alone keeps the others.
LEMMA OthersKeep ==
    ASSUME NEW r \in Requests, \A q \in Requests : Request(q), UNCHANGED schemaVars,
           \A q \in Requests \ {r} :
               /\ asked'[q] = asked[q] /\ aborted'[q] = aborted[q] /\ worker'[q] = worker[q]
               /\ timer'[q] = timer[q] /\ listener'[q] = listener[q]
               /\ settled'[q] = settled[q] /\ answer'[q] = answer[q],
           Request(r)'
    PROVE  \A q \in Requests : Request(q)'
<1>1. ASSUME NEW q \in Requests \ {r} PROVE Request(q)'
  <2>1. Request(q) /\ schemaCache' = schemaCache
    BY DEF schemaVars
  <2> QED
    BY <2>1 DEF Request, Unbounded, AsksSchema, Compiles
<1> QED
  BY <1>1

\* The first outcome of a request, which its worker has or which cuts it off.
LEMMA FinishKeeps ==
    ASSUME ServerInv, NEW r \in Requests, ~ settled[r], worker[r] # "absent",
           NEW outcome \in Answers, NEW terminate \in BOOLEAN, NEW state \in States \ {"absent"},
           finish(r, outcome, terminate, state),
           terminate \/ state # "running",
           outcome.issue = "none" => state = "gone",
           state # "gone" => outcome.issue \in CutOff,
           outcome.issue \in CutOff \cup {"none", "MCP_INTERNAL_ERROR"},
           outcome.planned => outcome.valid /\ outcome.issue = "none",
           aborted' \in [Requests -> BOOLEAN],
           \A q \in Requests : aborted[q] => aborted'[q],
           \A q \in Requests \ {r} : aborted'[q] = aborted[q],
           outcome.issue = "MCP_REQUEST_CANCELLED" => aborted'[r]
    PROVE  ServerInv'
<1> USE DEF ServerInv
<1> DEFINE end == IF terminate /\ state = "running" THEN "terminated" ELSE state
<1>1. /\ worker' = [worker EXCEPT ![r] = end]
      /\ settled' = [settled EXCEPT ![r] = TRUE]
      /\ timer' = [timer EXCEPT ![r] = FALSE]
      /\ listener' = [listener EXCEPT ![r] = FALSE]
      /\ answer' = [answer EXCEPT ![r] = outcome]
      /\ UNCHANGED <<asked, serving, schemaVars>>
  BY DEF finish, StopWorker
<1>2. /\ end \in States /\ end # "absent" /\ end # "running"
      /\ outcome.issue = "none" => end = "gone"
      /\ end # "gone" => outcome.issue \in CutOff
  BY DEF States, CutOff
<1> HIDE DEF end
<1>3. Types'
  BY <1>1, <1>2 DEF Types, schemaVars
<1>4. /\ worker'[r] = end /\ settled'[r] = TRUE /\ timer'[r] = FALSE /\ listener'[r] = FALSE
      /\ answer'[r] = outcome /\ asked'[r] = asked[r]
  BY <1>1 DEF Types
<1>5. Compiles(r) /\ asked[r].graph \in {"valid", "invalid"}
  BY DEF Request
<1>6. Request(r)'
  BY <1>2, <1>4, <1>5 DEF Request, Unbounded, Compiles, AsksSchema, CutOff
<1>7. \A q \in Requests : Request(q)'
  BY <1>1, <1>6, OthersKeep DEF Types
<1>8. Schema'
  BY <1>1 DEF Schema, schemaVars
<1>9. Alive'
  <2>1. ASSUME NEW q \in Requests, Ended(q) PROVE Ended(q)'
    <3>1. q # r
      BY <2>1 DEF Ended
    <3>2. worker'[q] = worker[q] /\ settled'[q] = settled[q] /\ answer'[q] = answer[q]
      BY <1>1, <3>1 DEF Types
    <3> QED
      BY <2>1, <3>2 DEF Ended
  <2>2. serving' = serving
    BY <1>1
  <2> QED
    BY <2>1, <2>2 DEF Alive
<1> QED
  BY <1>3, <1>7, <1>8, <1>9

LEMMA AskKeeps ==
    ASSUME ServerInv, NEW r \in Requests, NEW call \in Calls, Ask(r, call)
    PROVE  ServerInv'
<1> USE DEF ServerInv
<1> DEFINE issue == startIssue(call, aborted[r])
<1>1. /\ serving /\ asked[r] = NoCall /\ call.tool \in {"graph_validate", "graph_plan"}
      /\ asked' = [asked EXCEPT ![r] = call]
      /\ UNCHANGED <<aborted, serving, schemaVars>>
  BY CallKinds DEF Ask
<1>2. call.graph \in GraphKinds
  BY <1>1, CallKinds
<1>3. /\ issue \in {"none", "MCP_INTERNAL_ERROR", "MCP_INPUT_TOO_LARGE", "MCP_GRAPH_TOO_LARGE", "MCP_REQUEST_CANCELLED"}
      /\ issue = "none" => call.graph \in {"valid", "invalid"}
      /\ issue = "MCP_REQUEST_CANCELLED" => aborted[r]
  <2>1. inputLimitIssue(call.graph) \in {"none", "MCP_INTERNAL_ERROR", "MCP_INPUT_TOO_LARGE", "MCP_GRAPH_TOO_LARGE"}
    BY <1>2 DEF inputLimitIssue, GraphKinds
  <2>2. inputLimitIssue(call.graph) = "none" => call.graph \in {"valid", "invalid", "uncloneable"}
    BY <1>2 DEF inputLimitIssue, GraphKinds
  <2> QED
    BY <2>1, <2>2 DEF startIssue
<1>4. Unbounded(r) /\ ~ settled[r] /\ answer[r] = NoAnswer
  BY <1>1 DEF Request, NoCall
<1>5. \/ /\ issue # "none"
         /\ settled' = [settled EXCEPT ![r] = TRUE]
         /\ answer' = [answer EXCEPT ![r] = issueAnswer(issue)]
         /\ UNCHANGED <<worker, timer, listener>>
      \/ /\ issue = "none"
         /\ worker' = [worker EXCEPT ![r] = "running"]
         /\ timer' = [timer EXCEPT ![r] = TRUE]
         /\ listener' = [listener EXCEPT ![r] = TRUE]
         /\ UNCHANGED <<settled, answer>>
  BY DEF Ask
<1> HIDE DEF issue
<1>6. issue \in Issues /\ issueAnswer(issue) \in Answers /\ issueAnswer(issue).issue = issue
      /\ issueAnswer(issue).planned = FALSE
  <2>1. issue \in Issues
    BY <1>3 DEF Issues, CutOff
  <2> QED
    BY <2>1, AnswerFacts
<1>7. Types'
  BY <1>1, <1>5, <1>6 DEF Types, States, schemaVars
<1>8. Request(r)'
  <2>1. asked'[r] = call /\ aborted'[r] = aborted[r]
    BY <1>1 DEF Types
  <2>2. CASE issue # "none"
    <3>1. settled'[r] = TRUE /\ answer'[r] = issueAnswer(issue) /\ worker'[r] = worker[r]
          /\ timer'[r] = timer[r] /\ listener'[r] = listener[r]
      BY <1>5, <2>2 DEF Types
    <3> QED
      BY <1>1, <1>3, <1>4, <1>6, <2>1, <2>2, <3>1 DEF Request, Unbounded, Compiles, AsksSchema
  <2>3. CASE issue = "none"
    <3>1. settled'[r] = settled[r] /\ answer'[r] = NoAnswer /\ worker'[r] = "running"
          /\ timer'[r] = TRUE /\ listener'[r] = TRUE
      BY <1>4, <1>5, <2>3 DEF Types
    <3> QED
      BY <1>1, <1>3, <1>4, <2>1, <2>3, <3>1, AnswerFacts DEF Request, Unbounded, Compiles, AsksSchema
  <2> QED
    BY <2>2, <2>3
<1>9. \A q \in Requests \ {r} :
               /\ asked'[q] = asked[q] /\ aborted'[q] = aborted[q] /\ worker'[q] = worker[q]
               /\ timer'[q] = timer[q] /\ listener'[q] = listener[q]
               /\ settled'[q] = settled[q] /\ answer'[q] = answer[q]
  BY <1>1, <1>5 DEF Types
<1>10. \A q \in Requests : Request(q)'
  BY <1>1, <1>8, <1>9, OthersKeep
<1> QED
  BY <1>1, <1>7, <1>10 DEF Schema, schemaVars, Alive

\* A step of the worker of r, or its last event.
LEMMA WorkerKeeps ==
    ASSUME ServerInv, NEW r \in Requests, NEW state \in States \ {"absent", "running", "terminated"},
           worker[r] \notin {"absent", "terminated"},
           worker' = [worker EXCEPT ![r] = state],
           settled[r] => state = "gone", serving' \in BOOLEAN,
           UNCHANGED <<asked, aborted, timer, listener, settled, answer, schemaVars>>
    PROVE  Types' /\ (\A q \in Requests : Request(q)') /\ Schema'
<1> USE DEF ServerInv
<1>1. worker'[r] = state /\ \A q \in Requests \ {r} : worker'[q] = worker[q]
  BY DEF Types
<1>2. Request(r)'
  <2>1. Request(r)
    OBVIOUS
  <2>2. Compiles(r) /\ asked[r].graph \in {"valid", "invalid"}
    BY <2>1 DEF Request
  <2>3. worker[r] # "gone" /\ settled[r] => answer[r].issue \in CutOff
    BY <2>1 DEF Request, Types, States
  <2> QED
    BY <1>1, <2>1, <2>2, <2>3, AnswerFacts DEF Request, Unbounded, Compiles, AsksSchema, schemaVars
<1>3. Types'
  BY DEF Types, schemaVars
<1>4. \A q \in Requests : Request(q)'
  BY <1>1, <1>2, OthersKeep
<1> QED
  BY <1>3, <1>4 DEF Schema, schemaVars

LEMMA WorkerEndsKeeps == ASSUME ServerInv, NEW r \in Requests, WorkerEnds(r) PROVE ServerInv'
<1> USE DEF ServerInv
<1>1. PICK end \in {"posted", "threw", "died", "mute"} : worker' = [worker EXCEPT ![r] = end]
  BY DEF WorkerEnds
<1>2. worker[r] = "running" /\ serving /\ UNCHANGED <<asked, aborted, timer, listener, settled, answer, serving, schemaVars>>
  BY DEF WorkerEnds
<1>3. ~ settled[r]
  BY <1>2 DEF Request
<1>4. end \in States \ {"absent", "running", "terminated"} /\ serving' \in BOOLEAN
  BY <1>2 DEF States, Types
<1>5. Types' /\ (\A q \in Requests : Request(q)') /\ Schema'
  BY <1>1, <1>2, <1>3, <1>4, WorkerKeeps
<1> QED
  BY <1>2, <1>5 DEF Alive

LEMMA UnheardKeeps == ASSUME ServerInv, NEW r \in Requests, Unheard(r) PROVE ServerInv'
<1> USE DEF ServerInv
<1>1. /\ settled[r] /\ worker[r] \in {"posted", "threw", "died", "mute"} /\ serving
      /\ worker' = [worker EXCEPT ![r] = "gone"]
      /\ UNCHANGED <<asked, aborted, timer, listener, settled, answer, schemaVars>>
  BY DEF Unheard
<1>2. serving' \in BOOLEAN
  BY DEF Unheard
<1>3. "gone" \in States \ {"absent", "running", "terminated"}
  BY DEF States
<1>4. Types' /\ (\A q \in Requests : Request(q)') /\ Schema'
  BY <1>1, <1>2, <1>3, WorkerKeeps
<1>5. Ended(r)'
  <2>1. answer[r].issue \in CutOff
    BY <1>1 DEF Request
  <2>2. worker'[r] = "gone" /\ settled'[r] = settled[r] /\ answer'[r] = answer[r]
    BY <1>1 DEF Types
  <2> QED
    BY <1>1, <2>1, <2>2 DEF Ended
<1> QED
  BY <1>4, <1>5 DEF Alive

LEMMA OutcomesKeep ==
    ASSUME ServerInv, NEW r \in Requests,
           Timeout(r) \/ OnMessage(r) \/ OnError(r) \/ OnExit(r)
    PROVE  ServerInv'
<1> USE DEF ServerInv
<1>1. /\ "MCP_TOOL_TIMEOUT" \in Issues /\ "MCP_INTERNAL_ERROR" \in Issues /\ "gone" \in States
      /\ \A x \in {"MCP_TOOL_TIMEOUT", "MCP_INTERNAL_ERROR"} : x # "none" /\ x # "MCP_REQUEST_CANCELLED"
      /\ "MCP_TOOL_TIMEOUT" \in CutOff
  BY DEF Issues, CutOff, States
<1>2. worker[r] \in States /\ aborted \in [Requests -> BOOLEAN]
  BY DEF Types
<1>3. CASE Timeout(r)
  <2>1. timer[r] /\ finish(r, issueAnswer("MCP_TOOL_TIMEOUT"), TRUE, worker[r]) /\ aborted' = aborted
    BY <1>3 DEF Timeout, TimerDue
  <2>2. ~ settled[r] /\ worker[r] # "absent"
    BY <2>1, ArmedFacts
  <2>3. issueAnswer("MCP_TOOL_TIMEOUT") \in Answers /\ issueAnswer("MCP_TOOL_TIMEOUT").issue = "MCP_TOOL_TIMEOUT"
        /\ issueAnswer("MCP_TOOL_TIMEOUT").planned = FALSE
    BY <1>1, AnswerFacts
  <2> QED
    BY <1>1, <1>2, <2>1, <2>2, <2>3, FinishKeeps
<1>4. CASE OnMessage(r)
  <2>1. worker[r] = "posted" /\ ~ settled[r] /\ finish(r, compiledAnswer(asked[r]), FALSE, "gone") /\ aborted' = aborted
    BY <1>4 DEF OnMessage
  <2>2. /\ compiledAnswer(asked[r]) \in Answers /\ compiledAnswer(asked[r]).issue = "none"
        /\ compiledAnswer(asked[r]).planned => compiledAnswer(asked[r]).valid
    BY AnswerFacts
  <2> QED
    BY <1>1, <1>2, <2>1, <2>2, FinishKeeps
<1>5. issueAnswer("MCP_INTERNAL_ERROR") \in Answers /\ issueAnswer("MCP_INTERNAL_ERROR").issue = "MCP_INTERNAL_ERROR"
      /\ issueAnswer("MCP_INTERNAL_ERROR").planned = FALSE
  BY <1>1, AnswerFacts
<1>6. CASE OnError(r)
  <2>1. worker[r] = "threw" /\ ~ settled[r] /\ finish(r, issueAnswer("MCP_INTERNAL_ERROR"), TRUE, "gone") /\ aborted' = aborted
    BY <1>6 DEF OnError
  <2> QED
    BY <1>1, <1>2, <1>5, <2>1, FinishKeeps
<1>7. CASE OnExit(r) /\ worker[r] = "died"
  <2>1. ~ settled[r] /\ finish(r, issueAnswer("MCP_INTERNAL_ERROR"), FALSE, "gone") /\ aborted' = aborted
    BY <1>7 DEF OnExit
  <2> QED
    BY <1>1, <1>2, <1>5, <1>7, <2>1, FinishKeeps
<1>8. CASE OnExit(r) /\ worker[r] # "died"
  <2>1. /\ worker[r] = "mute" /\ worker' = [worker EXCEPT ![r] = "gone"]
        /\ UNCHANGED <<asked, aborted, timer, listener, settled, answer, serving, schemaVars>>
    BY <1>8 DEF OnExit
  <2>2. serving' \in BOOLEAN /\ serving
    BY <1>8, <2>1 DEF Types, OnExit
  <2>3. Types' /\ (\A q \in Requests : Request(q)') /\ Schema'
    BY <1>1, <2>1, <2>2, WorkerKeeps
  <2> QED
    BY <2>1, <2>2, <2>3 DEF Alive
<1> QED
  BY <1>3, <1>4, <1>6, <1>7, <1>8

LEMMA AbortKeeps == ASSUME ServerInv, NEW r \in Requests, Abort(r) PROVE ServerInv'
<1> USE DEF ServerInv
<1>1. serving /\ aborted' = [aborted EXCEPT ![r] = TRUE]
  BY DEF Abort
<1>2. /\ aborted' \in [Requests -> BOOLEAN] /\ aborted'[r] = TRUE
      /\ \A q \in Requests : aborted[q] => aborted'[q]
      /\ \A q \in Requests \ {r} : aborted'[q] = aborted[q]
  BY <1>1 DEF Types
<1>3. CASE listener[r]
  <2>1. finish(r, issueAnswer("MCP_REQUEST_CANCELLED"), TRUE, worker[r])
    BY <1>3 DEF Abort
  <2>2. ~ settled[r] /\ worker[r] # "absent" /\ worker[r] \in States
    BY <1>3, ArmedFacts DEF Types
  <2>3. "MCP_REQUEST_CANCELLED" \in Issues /\ "MCP_REQUEST_CANCELLED" \in CutOff
    BY DEF Issues, CutOff
  <2>4. issueAnswer("MCP_REQUEST_CANCELLED") \in Answers
        /\ issueAnswer("MCP_REQUEST_CANCELLED").issue = "MCP_REQUEST_CANCELLED"
        /\ issueAnswer("MCP_REQUEST_CANCELLED").planned = FALSE
    BY <2>3, AnswerFacts
  <2> QED
    BY <1>2, <2>1, <2>2, <2>3, <2>4, FinishKeeps
<1>4. CASE ~ listener[r]
  <2>1. UNCHANGED <<asked, worker, timer, listener, settled, answer, serving, schemaVars>>
    BY <1>4 DEF Abort
  <2>2. Types'
    BY <1>2, <2>1 DEF Types, schemaVars
  <2>3. \A q \in Requests : Request(q)'
    BY <1>2, <2>1 DEF Request, Unbounded, Compiles, AsksSchema, schemaVars
  <2> QED
    BY <1>1, <2>1, <2>2, <2>3 DEF Schema, schemaVars, Alive
<1> QED
  BY <1>3, <1>4

LEMMA AskSchemaKeeps ==
    ASSUME ServerInv, NEW r \in Requests, NEW call \in Calls, AskSchema(r, call)
    PROVE  ServerInv'
<1> USE DEF ServerInv
<1>1. /\ serving /\ asked[r] = NoCall /\ call.tool = "graph_get_schema" /\ asked' = [asked EXCEPT ![r] = call]
      /\ UNCHANGED <<aborted, worker, timer, listener, settled, answer, serving>>
  BY DEF AskSchema
<1>2. /\ schemaCache' = IF schemaCache = "none" THEN "loading" ELSE schemaCache
      /\ schemaReads' = IF schemaCache = "none" THEN schemaReads + 1 ELSE schemaReads
  BY DEF AskSchema
<1>3. Types'
  BY <1>1, <1>2 DEF Types
<1>4. Schema'
  BY <1>2 DEF Schema
<1>5. Request(r)'
  <2>1. asked'[r] = call
    BY <1>1 DEF Types
  <2>2. Request(r) /\ asked[r].tool = "none"
    BY <1>1 DEF NoCall
  <2>3. schemaCache' # "none"
    BY <1>2
  <2> QED
    BY <1>1, <2>1, <2>2, <2>3 DEF Request, Unbounded, Compiles, AsksSchema
<1>6. ASSUME NEW q \in Requests \ {r} PROVE Request(q)'
  <2>1. asked'[q] = asked[q]
    BY <1>1 DEF Types
  <2>2. Request(q)
    OBVIOUS
  <2>3. schemaCache # "none" => schemaCache' = schemaCache
    BY <1>2
  <2> QED
    BY <1>1, <2>1, <2>2, <2>3 DEF Request, Unbounded, Compiles, AsksSchema
<1> QED
  BY <1>1, <1>3, <1>4, <1>5, <1>6 DEF Alive, Ended

LEMMA ReadSchemaKeeps == ASSUME ServerInv, readBundledSchema PROVE ServerInv'
<1> USE DEF ServerInv
<1>1. /\ schemaCache = "loading" /\ schemaCache' \in {"loaded", "failed"}
      /\ UNCHANGED <<asked, aborted, worker, timer, listener, settled, answer, schemaReads, serving>>
  BY DEF readBundledSchema
<1>2. Types' /\ Schema'
  BY <1>1 DEF Types, Schema
<1>3. ASSUME NEW q \in Requests PROVE Request(q)'
  <2>1. Request(q)
    OBVIOUS
  <2>2. AsksSchema(q) => ~ settled[q]
    BY <1>1, <2>1 DEF Request
  <2> QED
    BY <1>1, <2>1, <2>2 DEF Request, Unbounded, Compiles, AsksSchema
<1> QED
  BY <1>1, <1>2, <1>3 DEF Alive, Ended

LEMMA AnswerSchemaKeeps == ASSUME ServerInv, NEW r \in Requests, AnswerSchema(r) PROVE ServerInv'
<1> USE DEF ServerInv
<1>1. /\ serving /\ AsksSchema(r) /\ ~ settled[r] /\ schemaCache \in {"loaded", "failed"}
      /\ settled' = [settled EXCEPT ![r] = TRUE]
      /\ answer' = [answer EXCEPT ![r] = schemaAnswer(schemaCache)]
      /\ UNCHANGED <<asked, aborted, worker, timer, listener, serving, schemaVars>>
  BY DEF AnswerSchema, AsksSchema
<1>2. /\ schemaAnswer(schemaCache) \in Answers /\ schemaAnswer(schemaCache).planned = FALSE
      /\ schemaAnswer(schemaCache).issue \in {"none", "MCP_INTERNAL_ERROR"}
  BY AnswerFacts
<1>3. Types'
  BY <1>1, <1>2 DEF Types, schemaVars
<1>4. Request(r)'
  <2>1. settled'[r] = TRUE /\ answer'[r] = schemaAnswer(schemaCache)
    BY <1>1 DEF Types
  <2>2. Request(r)
    OBVIOUS
  <2>3. schemaCache' = schemaCache
    BY <1>1 DEF schemaVars
  <2> QED
    BY <1>1, <1>2, <2>1, <2>2, <2>3 DEF Request, Unbounded, Compiles, AsksSchema, CutOff
<1>5. \A q \in Requests : Request(q)'
  BY <1>1, <1>4, OthersKeep DEF Types
<1> QED
  BY <1>1, <1>3, <1>5 DEF Schema, schemaVars, Alive

LEMMA ServerInvStep == ServerInv /\ [McpNext]_mcpVars => ServerInv'
<1> SUFFICES ASSUME ServerInv, [McpNext]_mcpVars PROVE ServerInv'
  OBVIOUS
<1>1. ASSUME NEW r \in Requests, Events(r) PROVE ServerInv'
  BY <1>1, OutcomesKeep, UnheardKeeps, AnswerSchemaKeeps DEF Events
<1>2. ASSUME UNCHANGED mcpVars PROVE ServerInv'
  BY <1>2 DEF mcpVars, ServerInv, Types, Request, Unbounded, Compiles, AsksSchema, Schema, Alive, Ended
<1> QED
  BY <1>1, <1>2, AskKeeps, AskSchemaKeeps, AbortKeeps, WorkerEndsKeeps, ReadSchemaKeeps DEF McpNext

LEMMA InvIsSound == ServerInv => RequestsSound
<1> SUFFICES ASSUME ServerInv PROVE RequestsSound
  OBVIOUS
<1> USE DEF ServerInv
<1>1. ASSUME NEW r \in Requests
      PROVE  /\ settled[r] => ~ timer[r] /\ ~ listener[r] /\ worker[r] # "running"
             /\ Compiles(r) /\ ~ settled[r] => timer[r] /\ listener[r] /\ worker[r] # "terminated"
             /\ settled[r] <=> answer[r].issue # "pending"
             /\ Compiles(r) /\ answer[r].issue = "none" => worker[r] = "gone" /\ asked[r].graph \in {"valid", "invalid"}
             /\ answer[r].planned => answer[r].valid /\ answer[r].issue = "none"
             /\ worker[r] = "terminated" => answer[r].issue \in {"MCP_TOOL_TIMEOUT", "MCP_REQUEST_CANCELLED"}
             /\ answer[r].issue \in {"MCP_INPUT_TOO_LARGE", "MCP_GRAPH_TOO_LARGE"} => worker[r] = "absent"
             /\ answer[r].issue = "MCP_REQUEST_CANCELLED" => aborted[r]
  <2>1. Request(r)
    OBVIOUS
  <2> QED
    BY <2>1, AnswerFacts DEF Request, CutOff
<1>2. schemaReads <= 1
  BY DEF Schema
<1>3. ASSUME NEW q \in Requests, NEW r \in Requests,
             AsksSchema(q), AsksSchema(r), settled[q], settled[r]
      PROVE  answer[q] = answer[r]
  BY <1>3 DEF Request
<1>4. serving \/ \E r \in Requests :
          worker[r] = "gone" /\ answer[r].issue \in {"MCP_TOOL_TIMEOUT", "MCP_REQUEST_CANCELLED"}
  BY DEF Alive, Ended, CutOff
<1> QED
  BY <1>1, <1>2, <1>3, <1>4 DEF RequestsSound, Compiles, AsksSchema

\* For every number of requests and every set of calls: compileGraphBounded
\* answers each request once, whatever order the worker's events, the timer
\* and the caller's abort come in, leaves no timer, listener or computing
\* worker behind, reports a compilation only when the worker posted it, and
\* the schema is read once and the same for all.
THEOREM RequestsAlwaysSound == McpSpec => []RequestsSound
<1>1. McpInit => ServerInv
  BY ServerInvInit
<1>2. ServerInv /\ [McpNext]_mcpVars => ServerInv'
  BY ServerInvStep
<1>3. ServerInv => RequestsSound
  BY InvIsSound
<1> QED
  BY <1>1, <1>2, <1>3, PTL DEF McpSpec
=============================================================================
