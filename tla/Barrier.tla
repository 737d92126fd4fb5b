------------------------------ MODULE Barrier ------------------------------
(***************************************************************************)
(* evaluateSettledBarrier (packages/primitives/src/barrier.ts): a pure     *)
(* decision over untrusted items and an untrusted policy.  The two inputs  *)
(* are validated completely, every disagreement being collected as an      *)
(* issue; only when there is none are the items counted.                   *)
(*                                                                         *)
(* A JavaScript object is a function from the names of its own properties  *)
(* (a name outside the schema stands for any such name and for symbols) to *)
(* their values, Hidden when the property is an accessor or not            *)
(* enumerable.  An array is [slots, extra]: a slot is a value, Hidden, or  *)
(* Hole when the array is sparse there; extra says that the array has own  *)
(* names besides its indices.  Other is a value of a kind the code does    *)
(* not expect, Throws one whose inspection throws (a hostile proxy).  A    *)
(* number that is not a safe integer is -1, which every range excludes.    *)
(***************************************************************************)
EXTENDS Loops

CONSTANTS SafeIds, Hidden, Hole, Other, Throws

\* barrier.ts:15-16
ItemFields == {"id", "status", "value"}
Statuses == {"succeeded", "failed", "missing", "timed_out"}

ASSUME ValueAssumption ==
  (SafeIds \cup Statuses \cup {"json"}) \cap {Hidden, Hole, Other, Throws} = {}

BasisPoints == 10000

\* A value of the "value" field that is not portable JSON (appendJsonIssues).
Unportable == "unportable"

isPlainRecord(value) == value # Other

\* A name the record does not have, an unreadable one, or a data property.
Present(record, key) == key \in DOMAIN record
Readable(record, key) == Present(record, key) /\ record[key] # Hidden

When(condition, path, code) == IF condition THEN {<<path, code>>} ELSE {}

ownDataProperty(record, key, code) ==
  When(Present(record, key) /\ ~ Readable(record, key), key, code)

unknownFields(record, allowed) ==
  {<<key, "UNKNOWN_FIELD">> : key \in DOMAIN record \ allowed}

\* An index without an own property ends the scan of the indices early.
arrayIssues(array) ==
  When(array.extra, "items", "UNKNOWN_FIELD")
    \cup When(\E i \in DOMAIN array.slots : array.slots[i] = Hole, "items", "TYPE")

SafeId(item) == Readable(item, "id") /\ item.id \in SafeIds
KnownStatus(item) == Readable(item, "status") /\ item.status \in Statuses

\* The slots whose entry is a readable plain object: the others are skipped.
Items(slots) == {i \in DOMAIN slots : slots[i] \notin {Hole, Hidden, Other}}

idIssues(slots, i) ==
  LET item == slots[i]
  IN ownDataProperty(item, "id", "TYPE")
       \cup When(~ Present(item, "id"), "id", "REQUIRED")
       \cup When(Readable(item, "id") /\ ~ SafeId(item), "id", "UNSAFE_ID")
       \cup When(/\ SafeId(item)
                 /\ \E j \in Items(slots) : j < i /\ SafeId(slots[j]) /\ slots[j].id = item.id,
                 "id", "DUPLICATE_ID")

statusIssues(item) ==
  ownDataProperty(item, "status", "TYPE")
    \cup When(~ Present(item, "status"), "status", "REQUIRED")
    \cup When(Readable(item, "status") /\ ~ KnownStatus(item), "status", "INVALID_STATUS")

\* The value is looked at only under a status that is known.
valueIssues(item) ==
  IF ~ KnownStatus(item) THEN {}
  ELSE IF item.status # "succeeded"
       THEN When(Present(item, "value"), "value", "STATUS_VALUE_MISMATCH")
       ELSE When(~ Present(item, "value"), "value", "STATUS_VALUE_MISMATCH")
              \cup ownDataProperty(item, "value", "INVALID_JSON")
              \cup When(Readable(item, "value") /\ item.value = Unportable,
                        "value", "INVALID_JSON")

itemIssues(array) ==
  IF array = Other THEN {<<"items", "TYPE">>}
  ELSE arrayIssues(array)
    \cup UNION {IF array.slots[i] \in {Hidden, Other} THEN {<<"items", "TYPE">>}
                ELSE unknownFields(array.slots[i], ItemFields) \cup idIssues(array.slots, i)
                       \cup statusIssues(array.slots[i]) \cup valueIssues(array.slots[i])
                  : i \in {j \in DOMAIN array.slots : array.slots[j] # Hole}}

\* The items that have both an id and a status, in the order of their slots.
validateItems(array) ==
  IF array = Other THEN <<>>
  ELSE Kept([i \in DOMAIN array.slots |-> [id |-> array.slots[i].id, status |-> array.slots[i].status]],
            {i \in Items(array.slots) : SafeId(array.slots[i]) /\ KnownStatus(array.slots[i])})

\* The parameter of each kind of policy that has one.
Parameter == [minimum |-> "minimum", percentage |-> "basisPoints"]

InRange(kind, number) == number >= 1 /\ (kind = "percentage" => number <= BasisPoints)

\* A kind that is hidden is an issue itself, so it does not matter which
\* parameter the code would still allow beside it.
policyFields(policy) ==
  IF Readable(policy, "kind") /\ policy.kind \in DOMAIN Parameter
  THEN {"kind", Parameter[policy.kind]} ELSE {"kind"}

policyIssues(policy) ==
  IF ~ isPlainRecord(policy) THEN {<<"policy", "TYPE">>}
  ELSE unknownFields(policy, policyFields(policy))
    \cup When(~ Present(policy, "kind"), "kind", "REQUIRED")
    \cup ownDataProperty(policy, "kind", "INVALID_POLICY")
    \cup When(Readable(policy, "kind") /\ policy.kind \notin DOMAIN Parameter \cup {"all"},
              "kind", "INVALID_POLICY")
    \cup (IF ~ Readable(policy, "kind") \/ policy.kind \notin DOMAIN Parameter THEN {}
          ELSE LET field == Parameter[policy.kind]
               IN When(~ Present(policy, field), field, "REQUIRED")
                    \cup ownDataProperty(policy, field, "INVALID_POLICY")
                    \cup When(Readable(policy, field) /\ ~ InRange(policy.kind, policy[field]),
                              field, "INVALID_POLICY"))

\* Mutation: a share exactly at the threshold is not enough.
MoreThanPercentage(total, succeeded, basisPoints) ==
  succeeded * BasisPoints > total * basisPoints

percentageMet(total, succeeded, basisPoints) ==
  succeeded * BasisPoints >= total * basisPoints

Outcome(satisfied, yes, no) ==
  [satisfied |-> satisfied, reasonCode |-> IF satisfied THEN yes ELSE no]

reason(total, succeeded, policy) ==
  CASE total = 0 -> Outcome(FALSE, "", "NO_ITEMS")
    [] total > 0 /\ policy.kind = "all" ->
         Outcome(succeeded = total, "ALL_SUCCEEDED", "ALL_NOT_SUCCEEDED")
    [] total > 0 /\ policy.kind = "minimum" /\ policy.minimum > total ->
         Outcome(FALSE, "", "MINIMUM_EXCEEDS_TOTAL")
    [] total > 0 /\ policy.kind = "minimum" /\ policy.minimum <= total ->
         Outcome(succeeded >= policy.minimum, "MINIMUM_MET", "MINIMUM_NOT_MET")
    [] total > 0 /\ policy.kind = "percentage" ->
         Outcome(percentageMet(total, succeeded, policy.basisPoints),
                 "PERCENTAGE_MET", "PERCENTAGE_NOT_MET")

IdsWith(items, status) ==
  Kept([i \in DOMAIN items |-> items[i].id], {i \in DOMAIN items : items[i].status = status})

Refused(issues) == [issues |-> issues]

\* evaluate and its wrapper, which turns an input that throws when it is looked
\* at into a refusal.
evaluateSettledBarrier(items, policy) ==
  IF Throws \in {items, policy} THEN Refused({<<"#", "TYPE">>})
  ELSE LET issues == itemIssues(items) \cup policyIssues(policy)
           valid == validateItems(items)
           accepted == IdsWith(valid, "succeeded")
           outcome == reason(Len(valid), Len(accepted), policy)
       IN IF issues # {} THEN Refused(issues)
          ELSE [issues |-> {}, satisfied |-> outcome.satisfied, reasonCode |-> outcome.reasonCode,
                total |-> Len(valid), acceptedIds |-> accepted,
                failedIds |-> IdsWith(valid, "failed"), missingIds |-> IdsWith(valid, "missing"),
                timedOutIds |-> IdsWith(valid, "timed_out")]
=============================================================================
