------------------------------- MODULE Router -------------------------------
(***************************************************************************)
(* evaluateRouteSelection (packages/primitives/src/router.ts): which routes *)
(* an untrusted request selects under an untrusted policy.  Both are       *)
(* validated completely before anything is selected.  Values are encoded   *)
(* as in module Barrier, whose helpers for plain objects the code repeats. *)
(***************************************************************************)
EXTENDS Barrier

RequestFields == {"requestedRoutes", "confidenceBasisPoints"}
PolicyFields == {"kind", "allowedRoutes", "defaultRoute", "confidence", "maxMulticast"}
ConfidenceFields == {"minimumBasisPoints", "escalationRoute"}

\* The issues of a field that must be there (one that may be left out passes
\* TRUE as optional): unreadable, missing, or a value that is not good.
fieldIssues(record, key, hiddenCode, optional, good, badCode) ==
  ownDataProperty(record, key, hiddenCode)
    \cup When(~ optional /\ ~ Present(record, key), key, "REQUIRED")
    \cup When(Readable(record, key) /\ record[key] \notin good, key, badCode)

validRouteId(value) == value \in SafeIds

\* The entries that are routes, in order; duplicates included.
Routes(array) ==
  IF array = Other THEN <<>>
  ELSE Kept(array.slots, {i \in DOMAIN array.slots : validRouteId(array.slots[i])})

validateRouteArray(array, duplicateCode, requireNonEmpty, emptyCode) ==
  IF array = Other THEN {<<"routes", "TYPE">>}
  ELSE arrayIssues(array)
    \cup When(requireNonEmpty /\ array.slots = <<>>, "routes", emptyCode)
    \cup When(\E i \in DOMAIN array.slots : array.slots[i] = Hidden, "routes", "TYPE")
    \cup When(\E i \in DOMAIN array.slots : array.slots[i] \notin SafeIds \cup {Hidden, Hole},
              "routes", "UNSAFE_ID")
    \cup When(\E i, j \in DOMAIN array.slots :
                 j < i /\ array.slots[i] = array.slots[j] /\ array.slots[i] \in SafeIds,
              "routes", duplicateCode)

\* The issues of the field that holds a route array.
routeFieldIssues(record, key, duplicateCode, requireNonEmpty, emptyCode) ==
  ownDataProperty(record, key, "TYPE")
    \cup When(~ Present(record, key), key, "REQUIRED")
    \cup (IF Readable(record, key)
          THEN validateRouteArray(record[key], duplicateCode, requireNonEmpty, emptyCode)
          ELSE {})

validateRequest(request) ==
  IF ~ isPlainRecord(request) THEN {<<"request", "TYPE">>}
  ELSE unknownFields(request, RequestFields)
    \cup routeFieldIssues(request, "requestedRoutes", "DUPLICATE_SELECTION", FALSE, "TYPE")
    \cup fieldIssues(request, "confidenceBasisPoints", "INVALID_CONFIDENCE", TRUE,
                     0 .. BasisPoints, "INVALID_CONFIDENCE")

\* A route the policy names beside its list must be in the list, which is asked
\* only when the list itself has no issue.
declaredIssues(record, key, allowed, allowedValid) ==
  When(Readable(record, key) /\ validRouteId(record[key]) /\ allowedValid /\ record[key] \notin allowed,
       key, "INVALID_POLICY")

validateConfidencePolicy(confidence, allowed, allowedValid) ==
  IF ~ isPlainRecord(confidence) THEN {<<"confidence", "INVALID_POLICY">>}
  ELSE unknownFields(confidence, ConfidenceFields)
    \cup fieldIssues(confidence, "minimumBasisPoints", "INVALID_CONFIDENCE", FALSE,
                     1 .. BasisPoints, "INVALID_CONFIDENCE")
    \cup fieldIssues(confidence, "escalationRoute", "INVALID_POLICY", FALSE,
                     SafeIds, "UNSAFE_ID")
    \cup declaredIssues(confidence, "escalationRoute", allowed, allowedValid)

multicastIssues(policy, allowedLength, allowedValid) ==
  LET kindIs(kind) == Readable(policy, "kind") /\ policy.kind = kind
      max == "maxMulticast"
  IN ownDataProperty(policy, max, "INVALID_POLICY")
       \cup When(kindIs("single") /\ Present(policy, max), max, "INVALID_POLICY")
       \cup When(kindIs("multi") /\ ~ Present(policy, max), max, "REQUIRED")
       \cup When(/\ kindIs("multi") /\ Readable(policy, max)
                 /\ \/ policy.maxMulticast < 1
                    \/ allowedValid /\ policy.maxMulticast > allowedLength,
                 max, "INVALID_POLICY")

AllowedRoutes(policy) ==
  IF isPlainRecord(policy) /\ Readable(policy, "allowedRoutes")
  THEN Routes(policy.allowedRoutes) ELSE <<>>

routePolicyIssues(policy) ==
  IF ~ isPlainRecord(policy) THEN {<<"policy", "TYPE">>}
  ELSE LET routeIssues ==
             routeFieldIssues(policy, "allowedRoutes", "DUPLICATE_ID", TRUE, "INVALID_POLICY")
           allowed == {AllowedRoutes(policy)[i] : i \in DOMAIN AllowedRoutes(policy)}
           allowedValid == routeIssues = {}
       IN unknownFields(policy, PolicyFields)
            \cup fieldIssues(policy, "kind", "INVALID_POLICY", FALSE,
                             {"single", "multi"}, "INVALID_POLICY")
            \cup routeIssues
            \cup fieldIssues(policy, "defaultRoute", "INVALID_POLICY", TRUE,
                             SafeIds, "UNSAFE_ID")
            \cup declaredIssues(policy, "defaultRoute", allowed, allowedValid)
            \cup ownDataProperty(policy, "confidence", "INVALID_POLICY")
            \cup (IF Readable(policy, "confidence")
                  THEN validateConfidencePolicy(policy.confidence, allowed, allowedValid) ELSE {})
            \cup multicastIssues(policy, Len(AllowedRoutes(policy)), allowedValid)

\* A confidence without a policy for it, or a policy without a confidence, is
\* refused: neither is ever ignored.
confidenceIssues(request, policy) ==
  LET offered == isPlainRecord(request) /\ Present(request, "confidenceBasisPoints")
      wanted == isPlainRecord(policy) /\ Present(policy, "confidence")
  IN When(offered # wanted, "confidenceBasisPoints", "CONFIDENCE_CONFIGURATION")

result(reasonCode, request, selected, unknown, usedDefault, escalated) ==
  [issues |-> {}, routed |-> selected # <<>>, reasonCode |-> reasonCode,
   requestedRoutes |-> request.requestedRoutes.slots, selectedRoutes |-> selected,
   unknownRoutes |-> unknown, usedDefault |-> usedDefault, escalated |-> escalated]

\* Mutation: the routes in the order of the request.
ChosenAsRequested(requested, allowed) ==
  Kept(requested, {i \in DOMAIN requested : \E j \in DOMAIN allowed : allowed[j] = requested[i]})

\* The requested routes in the order in which the policy declares them.
Chosen(requested, allowed) ==
  Kept(allowed, {i \in DOMAIN allowed : \E j \in DOMAIN requested : requested[j] = allowed[i]})

\* The decision on valid inputs, in the order of the code's returns.
selectRoutes(request, policy) ==
  LET requested == request.requestedRoutes.slots
      allowed == policy.allowedRoutes.slots
      unknown == Kept(requested, {i \in DOMAIN requested :
                                    \A j \in DOMAIN allowed : allowed[j] # requested[i]})
      chosen == Chosen(requested, allowed)
      hasDefault == Present(policy, "defaultRoute")
      Default(reasonCode, list) ==
        result(reasonCode, request, <<policy.defaultRoute>>, list, TRUE, FALSE)
      None(reasonCode, list) == result(reasonCode, request, <<>>, list, FALSE, FALSE)
  IN IF /\ Present(policy, "confidence")
        /\ request.confidenceBasisPoints < policy.confidence.minimumBasisPoints
     THEN result("ESCALATION_SELECTED_LOW_CONFIDENCE", request,
                 <<policy.confidence.escalationRoute>>, unknown, FALSE, TRUE)
     ELSE IF requested = <<>>
     THEN IF hasDefault THEN Default("DEFAULT_SELECTED_NO_REQUEST", <<>>)
          ELSE None("NO_REQUESTED_ROUTE", <<>>)
     ELSE IF policy.kind = "single" /\ Len(requested) > 1
     THEN None("MULTIPLE_ROUTES_FOR_SINGLE", unknown)
     ELSE IF policy.kind = "multi" /\ Len(requested) > policy.maxMulticast
     THEN None("MULTICAST_LIMIT_EXCEEDED", unknown)
     ELSE IF unknown # <<>>
     THEN IF hasDefault THEN Default("DEFAULT_SELECTED_UNKNOWN_ROUTE", unknown)
          ELSE None("UNKNOWN_ROUTE", unknown)
     ELSE result("REQUESTED_ROUTES_SELECTED", request, chosen, <<>>, FALSE, FALSE)

evaluateRouteSelection(request, policy) ==
  IF Throws \in {request, policy} THEN Refused({<<"#", "TYPE">>})
  ELSE LET issues == validateRequest(request) \cup routePolicyIssues(policy)
                       \cup confidenceIssues(request, policy)
       IN IF issues # {} THEN Refused(issues) ELSE selectRoutes(request, policy)
=============================================================================
