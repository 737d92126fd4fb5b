----------------------------- MODULE MCFrontEnds -----------------------------
(***************************************************************************)
(* Questions for the barrier, the router and the command line, and calls   *)
(* of the MCP tools.  A behaviour is either one decision, with the server  *)
(* at rest, or a server with its requests.                                 *)
(***************************************************************************)
EXTENDS McpServer, Decisions, TLC

CONSTANTS a, b, c

UpTo(values, n) == UNION {[1 .. k -> values] : k \in 0 .. n}
Array(slots) == [slots |-> slots, extra |-> FALSE]

\* The record without one of its names, with one of them changed, or as it is.
Variants(record, changes) ==
  {record} \cup {[name \in DOMAIN record \ {dropped} |-> record[name]] : dropped \in DOMAIN record}
    \cup {(name :> change) @@ record : name \in DOMAIN record, change \in changes}
    \cup {("unknown" :> Other) @@ record}

Malformed(arrays) == {Other} \cup {[array EXCEPT !.extra = TRUE] : array \in arrays}

------------------------------------------------------------------------------
Won(id) == [id |-> id, status |-> "succeeded", value |-> "json"]
Lost(id, status) == [id |-> id, status |-> status]
GoodItems == {Won(id) : id \in SafeIds}
               \cup {Lost(id, status) : id \in SafeIds, status \in {"failed", "missing", "timed_out"}}
OddItems == Variants(Won(a), {Hidden, Other, Unportable}) \cup Variants(Lost(a, "failed"), {Hidden, Other})
              \cup {[Lost(a, "failed") EXCEPT !.status = "running"], Hidden, Hole, Other}
              \cup {("value" :> "json") @@ Lost(a, "missing")}

GoodPolicies == {[kind |-> "all"]} \cup {[kind |-> "minimum", minimum |-> k] : k \in 1 .. 4}
  \cup {[kind |-> "percentage", basisPoints |-> k]
          : k \in {1, 3333, 3334, 5000, 5001, 6666, 6667, 10000}}
OddPolicies == UNION {Variants(policy, {Hidden}) : policy \in GoodPolicies}
  \cup {[kind |-> "minimum", minimum |-> k] : k \in {-1, 0}}
  \cup {[kind |-> "percentage", basisPoints |-> k] : k \in {-1, 0, 10001}}
  \cup {[kind |-> "most"], [kind |-> "all", minimum |-> 1], Other, Throws}

BarrierOf(arrays, policies) ==
  {[part |-> "barrier", items |-> items, policy |-> policy] : items \in arrays, policy \in policies}

MCBarrierQuestions ==
  LET good == {Array(slots) : slots \in UpTo(GoodItems, 3)}
      odd == {Array(slots) : slots \in UpTo(OddItems \cup {Won(b)}, 2)}
      some == {Array(<<>>), Array(<<Won(a), Lost(b, "failed")>>)}
  IN BarrierOf(good, GoodPolicies) \cup BarrierOf(some, OddPolicies)
       \cup BarrierOf(odd \cup Malformed(some) \cup {Throws}, {[kind |-> "all"], [kind |-> "most"]})

------------------------------------------------------------------------------
RouteLists == {Array(slots) : slots \in UpTo(SafeIds, 3)}
OddLists == {Array(slots) : slots \in UpTo({a, b, Hidden, Hole, Other}, 2)} \cup Malformed({Array(<<a>>)})

With(record, name, values) == {record} \cup {(name :> value) @@ record : value \in values}

Confidences == {[minimumBasisPoints |-> 5000, escalationRoute |-> route] : route \in {b, c}}
OddConfidences ==
  UNION {Variants(confidence, {Hidden, Other}) : confidence \in Confidences}
    \cup {[minimumBasisPoints |-> k, escalationRoute |-> b] : k \in {-1, 0, 10001}} \cup {Other, Hidden}

Request(routes) == [requestedRoutes |-> routes]
Policies ==
  LET base == {[kind |-> "single", allowedRoutes |-> Array(routes)] : routes \in {<<b, a>>, <<a, b, c>>}}
      multi == {[policy EXCEPT !.kind = "multi"] @@ ("maxMulticast" :> k) : policy \in base, k \in 1 .. 2}
  IN UNION {With(policy, "defaultRoute", {a}) : policy \in base \cup multi}

RouterOf(requests, policies) ==
  {[part |-> "router", request |-> request, policy |-> policy] : request \in requests, policy \in policies}

MCRouterQuestions ==
  LET asked1 == {Request(list) : list \in RouteLists}
      sure == {("confidenceBasisPoints" :> k) @@ Request(Array(slots))
                 : k \in {-1, 0, 4999, 5000, 5001, 10000, 10001}, slots \in UpTo({a, c}, 2)}
      weighed == UNION {With(policy, "confidence", Confidences) : policy \in Policies}
      plain == [kind |-> "multi", allowedRoutes |-> Array(<<a, b>>), maxMulticast |-> 2]
      one == Request(Array(<<b>>))
      odd == UNION {Variants(policy, {Hidden}) : policy \in Policies}
               \cup {[plain EXCEPT !.allowedRoutes = list] : list \in OddLists \cup RouteLists}
               \cup {[plain EXCEPT !.maxMulticast = k] : k \in {-1, 0, 3}}
               \cup {("defaultRoute" :> route) @@ plain : route \in {c, Hidden, Other}}
               \cup {[plain EXCEPT !.kind = "any"], Other, Throws}
  IN RouterOf(asked1, Policies) \cup RouterOf(sure, weighed) \cup RouterOf({one}, odd)
       \cup RouterOf({("confidenceBasisPoints" :> 5000) @@ one},
                     {("confidence" :> confidence) @@ plain : confidence \in OddConfidences})
       \cup RouterOf({Request(list) : list \in OddLists} \cup Variants(one, {Hidden})
                       \cup {Other, Throws, ("confidenceBasisPoints" :> Hidden) @@ one}, {plain})

------------------------------------------------------------------------------
MCDashed == {"-", "-x", "--json", "--dry-run", "--format", "--format=mermaid",
             "--format=dot", "--format=png", "--help", "-h", "--version", "-v"}

Everything == Commands \cup MCDashed \cup {"graph.json", "dot", ""}
Drawing == {"visualize", "--format", "dot", "graph.json", "--json"}
Preparing == {"init", "--dry-run", "--json", "graph.json", "-x"}
Arguments == UpTo(Everything, 3) \cup UpTo(Drawing, 5) \cup UpTo(Preparing, 4)

Healthy == [node |-> 20, schema |-> "supported", fixture |-> "graph", core |-> "canonical", runtime |-> "runs"]
Fine == Healthy @@ [source |-> "valid", init |-> "ready"]

Worlds(parsed) ==
  IF parsed.kind # "command" THEN {Fine}
  ELSE IF parsed.command = "init" THEN {[Fine EXCEPT !.init = init] : init \in {"ready", "refused", "throws"}}
  ELSE IF parsed.command = "doctor"
  THEN {[node |-> node, schema |-> schema, fixture |-> fixture, core |-> core, runtime |-> runtime,
         source |-> "valid", init |-> "ready"]
          : node \in {18, 20}, schema \in {"fails", "other", "supported"},
            fixture \in {"fails", "other", "graph"},
            core \in {"fails", "noCompiler", "throws", "otherHash", "canonical"},
            runtime \in {"fails", "other", "runs"}}
  ELSE {[Fine EXCEPT !.source = source]
          : source \in {"unreadable", "notJson", "throws", "invalid", "valid"}}

MCCliQuestions ==
  UNION {{[part |-> "cli", argv |-> argv, world |-> world] : world \in Worlds(parseArguments(argv))}
           : argv \in Arguments}

------------------------------------------------------------------------------
Compilations ==
  {[tool |-> tool, graph |-> graph, badTimeout |-> bad]
     : tool \in {"graph_validate", "graph_plan"}, bad \in BOOLEAN,
       graph \in {"cyclic", "undefined", "manyBytes", "manyParts", "uncloneable", "valid", "invalid"}}
MCCalls == Compilations \cup {[tool |-> "graph_get_schema", graph |-> "none", badTimeout |-> FALSE]}

Init ==
  /\ McpInit
  /\ \/ DecisionsRest
     \/ DecisionsInit /\ \A r \in Requests : ~ aborted[r]

Next ==
  \/ question = AtRest /\ McpNext /\ UNCHANGED decisionVars
  \/ DecisionsNext /\ UNCHANGED mcpVars

Spec == Init /\ [][Next]_<<mcpVars, decisionVars>> /\ McpFairness
=============================================================================
