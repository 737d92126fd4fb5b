------------------------------ MODULE Patterns ------------------------------
(***************************************************************************)
(* The pattern builders of packages/patterns: diamond, routedBranches,     *)
(* verifiedFanout and loopUntilDry check their options, build a graph      *)
(* document and have compileGraph accept it.  The module composes with     *)
(* Compiler: a call parses, its document runs through the compiler's       *)
(* steps, and the verdict decides what the call returns.                   *)
(*                                                                         *)
(* The options of a call are a record.  form stands for what snapshot and  *)
(* field checks see: an option that is not portable JSON, an option the    *)
(* pattern does not have, or neither.  Keys are their ranks in code point  *)
(* order, 0 a key safeKey refuses; BadId is a node without a usable id and *)
(* NotObject one that is no plain object; a round or an entry that is not  *)
(* a plain object has entry "other" and one with an additional field       *)
(* "extra".  array and records say that the list is an array and that      *)
(* schemas, policies and metadata are objects.  core is the form the       *)
(* document has for compileGraph, which depends on schemas and node bodies *)
(* only.                                                                   *)
(***************************************************************************)
EXTENDS Compiler

CONSTANTS
    Calls,              \* the calls of builders that are made
    NoCall,             \* compileGraph is called directly
    BadId, NotObject,   \* nodes parseNode refuses: for their id, for no object
    MaxPatternItems     \* MAX_PATTERN_ITEMS

BadNodes == {BadId, NotObject}

\* The options of a call: an entry of a loop has the nodes find and checkDry,
\* an entry of the other patterns one node.
IsCall(o) ==
    /\ o \in [pattern : {"diamond", "routed-branches", "verified-fanout", "loop-until-dry"},
             form : {"ok", "unportable", "unknown"}, array : BOOLEAN, records : BOOLEAN,
             items : Seq([entry : {"ok", "other", "extra"}, key : Nat, nodes : Seq(Ids \cup BadNodes)]),
             head : Ids \cup BadNodes, tail : Ids \cup BadNodes, maxRounds : Nat,
             outputKey : {"ok", "unsafe"}, metadata : {"ok", "badName", "otherLabel"},
             core : {"graph", "unportable", "invalid"},
             maxFanOut : Nat \cup {NoLimit}, maxDepth : Nat \cup {NoLimit}]
    /\ \A i \in DOMAIN o.items :
          Len(o.items[i].nodes) = IF o.pattern = "loop-until-dry" THEN 2 ELSE 1

ASSUME PatternAssumption == MaxPatternItems \in Nat \ {0} /\ \A o \in Calls : IsCall(o)

VARIABLES
    call,               \* the pattern call, or NoCall
    outcome             \* "parse", "compile", "graph" or the error code thrown

patternVars == <<call, outcome>>

\* The code of the first check that fails, in the order of the code.
FirstError(checks) ==
    LET failing == {i \in DOMAIN checks : checks[i][1]}
    IN  IF failing = {} THEN "none"
        ELSE checks[CHOOSE i \in failing : \A j \in failing : i <= j][2]

\* snapshotOptions
optionChecks(o) == <<
    <<o.form = "unportable", "GE_PATTERN_INVALID_INPUT">>,
    <<o.form = "unknown", "GE_PATTERN_UNKNOWN_FIELD">> >>

\* The first node that is refused counts, and of a node the object before its id.
parseNodes(nodes) ==
    <<\E k \in DOMAIN nodes : nodes[k] \in BadNodes,
      IF \E k \in DOMAIN nodes : nodes[k] = NotObject /\ \A l \in 1..(k - 1) : nodes[l] # BadId
      THEN "GE_PATTERN_INVALID_INPUT" ELSE "GE_PATTERN_INVALID_IDENTIFIER">>

parseNode(node) == <<parseNodes(<<node>>)>>

\* One entry of a keyed list: its shape, its key, and the nodes it holds.
entryChecks(items, i) == <<
    <<items[i].entry = "other", "GE_PATTERN_INVALID_INPUT">>,
    <<items[i].entry = "extra", "GE_PATTERN_UNKNOWN_FIELD">>,
    <<items[i].key = 0, "GE_PATTERN_INVALID_IDENTIFIER">>,
    <<\E j \in 1..(i - 1) : items[j].key = items[i].key, "GE_PATTERN_DUPLICATE_KEY">>,
    parseNodes(items[i].nodes) >>

listChecks(isArray, items) == <<
    <<~ isArray, "GE_PATTERN_INVALID_INPUT">>,
    <<items = << >>, "GE_PATTERN_EMPTY_COLLECTION">>,
    <<Len(items) > MaxPatternItems, "GE_PATTERN_TOO_MANY_ITEMS">>,
    <<\E i \in DOMAIN items : FirstError(entryChecks(items, i)) # "none",
      FirstError([i \in DOMAIN items |-> LET error == FirstError(entryChecks(items, i))
                                         IN  <<error # "none", error>>])>> >>

\* Mutation: the entries keep the order the caller gave them.
CallerOrder(items) == items

\* parseKeyedNodes returns the entries sorted by key; keys are distinct.
SortedByKey(items) ==
    [k \in DOMAIN items |->
        items[CHOOSE i \in DOMAIN items :
                 Cardinality({j \in DOMAIN items : items[j].key < items[i].key}) = k - 1]]

\* The nodes of the rounds, find before checkDry, in the order of the rounds.
RoundNodes(items) ==
    [k \in 1..(2 * Len(items)) |-> items[(k + 1) \div 2].nodes[2 - (k % 2)]]

assertUniqueNodeIds(nodes) == <<
    <<\E i, j \in DOMAIN nodes : i < j /\ nodes[i] = nodes[j], "GE_PATTERN_DUPLICATE_NODE_ID">> >>

\* What buildGraph checks before it compiles.
buildChecks(o) == <<
    <<o.outputKey = "unsafe", "GE_PATTERN_INVALID_IDENTIFIER">>,
    <<~ o.records, "GE_PATTERN_INVALID_INPUT">>,
    <<o.metadata = "badName", "GE_PATTERN_INVALID_IDENTIFIER">>,
    <<o.metadata = "otherLabel", "GE_PATTERN_RESERVED_LABEL_CONFLICT">> >>

FanNodes(o) ==
    LET sorted == SortedByKey(o.items)
    IN  <<o.head>> \o [k \in DOMAIN sorted |-> sorted[k].nodes[1]] \o <<o.tail>>

\* diamond, routedBranches and verifiedFanout check in the same order.
FanError(o) ==
    LET first == FirstError(optionChecks(o) \o parseNode(o.head) \o listChecks(o.array, o.items)
                              \o parseNode(o.tail))
    IN  IF first # "none" THEN first
        ELSE FirstError(assertUniqueNodeIds(FanNodes(o)) \o buildChecks(o))

LoopNodes(o) == RoundNodes(o.items) \o <<o.tail>>

LoopError(o) ==
    LET first == FirstError(optionChecks(o)
                   \o << <<o.maxRounds \notin 1..MaxPatternItems, "GE_PATTERN_INVALID_MAX_ROUNDS">> >>
                   \o listChecks(o.array, o.items)
                   \o << <<Len(o.items) # o.maxRounds, "GE_PATTERN_ROUND_COUNT_MISMATCH">> >>
                   \o parseNode(o.tail))
    IN  IF first # "none" THEN first
        ELSE FirstError(assertUniqueNodeIds(LoopNodes(o)) \o buildChecks(o))

Edge(index, from, to, port) == [id |-> index, from |-> from, to |-> to, port |-> port]

\* An edge to every worker, then an edge from every worker to the port of the
\* last node that its key names.
FanEdges(o) ==
    LET sorted == SortedByKey(o.items)
        n == Len(sorted)
    IN  [k \in 1..(2 * n) |->
            IF k <= n THEN Edge(k, o.head, sorted[k].nodes[1], 0)
            ELSE Edge(k, sorted[k - n].nodes[1], o.tail, sorted[k - n].key)]

\* The route key in the RouteEquals condition of the edge to each branch; the
\* conditions of a loop follow from the position of the round and its key.
RouteConditions(o) ==
    LET sorted == SortedByKey(o.items)
    IN  IF o.pattern = "routed-branches" THEN [k \in DOMAIN sorted |-> sorted[k].key] ELSE << >>

\* A round's edges inside the loop: find to checkDry, and on to the next find.
RoundEdge(items, i, k) ==
    CASE k = 1 -> Edge(3 * i - 2, items[i].nodes[1], items[i].nodes[2], "items")
      [] k = 3 -> Edge(3 * i, items[i].nodes[2], items[i + 1].nodes[1], "previousVerdict")

\* Three edges a round, two in the last: to checkDry, to the port of finalize
\* that the round's key names, and to the next round.
LoopEdges(o) ==
    [e \in 1..(3 * Len(o.items) - 1) |->
        LET i == (e + 2) \div 3
            k == e - 3 * (i - 1)
        IN  IF k = 2 THEN Edge(e, o.items[i].nodes[2], o.tail, o.items[i].key)
            ELSE RoundEdge(o.items, i, k)]

IsLoop(o) == o.pattern = "loop-until-dry"
PatternError(o) == IF IsLoop(o) THEN LoopError(o) ELSE FanError(o)
PatternEdges(o) == IF IsLoop(o) THEN LoopEdges(o) ELSE FanEdges(o)
PatternNodes(o) == IF IsLoop(o) THEN LoopNodes(o) ELSE FanNodes(o)

\* buildGraph: the document as compileGraph reads it, without the ports and
\* conditions of the edges.
buildGraph(o) ==
    [form |-> o.core, nodes |-> PatternNodes(o),
     edges |-> [k \in DOMAIN PatternEdges(o) |->
                  [id |-> PatternEdges(o)[k].id, from |-> PatternEdges(o)[k].from,
                   to |-> PatternEdges(o)[k].to]],
     entrypoints |-> {PatternNodes(o)[1]}, outputs |-> {o.tail},
     maxFanOut |-> o.maxFanOut, maxDepth |-> o.maxDepth]

NoDocument ==
    [form |-> "invalid", nodes |-> << >>, edges |-> << >>, entrypoints |-> {},
     outputs |-> {}, maxFanOut |-> NoLimit, maxDepth |-> NoLimit]

-----------------------------------------------------------------------------

\* compileGraph is called with a document, or a builder with its options.
PatternInit ==
    /\ Init
    /\ \/ call = NoCall /\ outcome = "compile"
       \/ doc = NoDocument /\ call \in Calls /\ outcome = "parse"

\* The builder throws before compileGraph is reached.
Reject ==
    /\ outcome = "parse"
    /\ PatternError(call) # "none"
    /\ outcome' = PatternError(call)
    /\ UNCHANGED <<vars, call>>

Build ==
    /\ outcome = "parse"
    /\ PatternError(call) = "none"
    /\ doc' = buildGraph(call)
    /\ outcome' = "compile"
    /\ UNCHANGED <<pc, diagnostics, inDegree, currentLayer, layers, reachable, queue, call>>

Compile == outcome = "compile" /\ Next /\ UNCHANGED patternVars

\* buildGraph gets the verdict.
Conclude ==
    /\ outcome = "compile" /\ call # NoCall /\ pc = "done"
    /\ outcome' = IF valid THEN "graph" ELSE "GE_PATTERN_CORE_REJECTED"
    /\ UNCHANGED <<vars, call>>

Returned == outcome \notin {"parse", "compile"} /\ UNCHANGED <<vars, patternVars>>

PatternNext == Reject \/ Build \/ Compile \/ Conclude \/ Returned

\* A call of compileGraph or of a builder is synchronous: it runs to its end.
PatternSpec == PatternInit /\ [][PatternNext]_<<vars, patternVars>>
                 /\ WF_<<vars, patternVars>>(PatternNext)

-----------------------------------------------------------------------------
(* Properties.                                                             *)

\* Options of the documented shape, stated without the order of the checks.
WellFormed(o) ==
    /\ o.form = "ok" /\ o.array /\ o.records
    /\ o.outputKey # "unsafe" /\ o.metadata = "ok"
    /\ Len(o.items) \in 1..MaxPatternItems
    /\ IsLoop(o) => o.maxRounds = Len(o.items)
    /\ \A i \in DOMAIN o.items : o.items[i].entry = "ok" /\ o.items[i].key > 0
    /\ \A i, j \in DOMAIN o.items : o.items[i].key = o.items[j].key => i = j
    /\ LET named == (IF IsLoop(o) THEN << >> ELSE <<o.head>>) \o <<o.tail>>
           held == UNION {{o.items[i].nodes[k] : k \in DOMAIN o.items[i].nodes} : i \in DOMAIN o.items}
           all == held \cup {named[k] : k \in DOMAIN named}
       IN  /\ BadNodes \cap all = {}
           /\ Cardinality(all) = Len(named) + Len(o.items) * (IF IsLoop(o) THEN 2 ELSE 1)

\* The shape the builder promises: head, then all workers at once, then tail;
\* or one step of one round after the other.
PromisedLayers(o) ==
    IF IsLoop(o) THEN [k \in DOMAIN LoopNodes(o) |-> {LoopNodes(o)[k]}]
    ELSE <<{o.head}, {o.items[i].nodes[1] : i \in DOMAIN o.items}, {o.tail}>>

PortsDistinct(o) ==
    LET edges == PatternEdges(o)
    IN  \A i, j \in DOMAIN edges :
            edges[i].to = edges[j].to /\ edges[i].port = edges[j].port => i = j

\* The order in which a caller lists workers, branches or lenses is not seen,
\* neither in the nodes and edges nor in the ports and route conditions.
OrderIrrelevant(o) ==
    \A p \in [DOMAIN o.items -> DOMAIN o.items] :
        (\A i, j \in DOMAIN o.items : p[i] = p[j] => i = j)
            => LET again == [o EXCEPT !.items = [i \in DOMAIN o.items |-> o.items[p[i]]]]
               IN  /\ buildGraph(again) = buildGraph(o)
                   /\ PatternEdges(again) = PatternEdges(o)
                   /\ RouteConditions(again) = RouteConditions(o)

\* A builder returns a graph exactly for options of the documented shape that
\* the caller's own policies and schemas do not rule out: no graph the package
\* builds is refused by the core for its structure.  The graph compiles to the
\* promised layers, no two results meet at one input port, and the fan
\* patterns give the same document, ports and route conditions included, for
\* every order of their entries.
PatternsSound ==
    call # NoCall /\ outcome \notin {"parse", "compile"} =>
        /\ outcome \in {"graph", "GE_PATTERN_CORE_REJECTED"} <=> WellFormed(call)
        /\ outcome = "GE_PATTERN_CORE_REJECTED" =>
              \/ call.core # "graph"
              \/ \A d \in diagnostics : d.code \in {"GE1101_MAX_FAN_OUT", "GE1102_MAX_DEPTH"}
        /\ outcome = "graph" =>
              /\ valid
              /\ layers = PromisedLayers(call)
              /\ PortsDistinct(call)
              /\ IsLoop(call) \/ OrderIrrelevant(call)

\* Every call of compileGraph and of a builder returns or throws: the layer
\* loop and the reachability loop make progress on every document.
CallsEnd == <>(IF call = NoCall THEN pc = "done" ELSE outcome \notin {"parse", "compile"})
=============================================================================
