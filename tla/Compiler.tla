------------------------------ MODULE Compiler ------------------------------
(***************************************************************************)
(* compileGraph of packages/core/src/compiler.ts: structural checks of a   *)
(* graph document, Kahn layering, reachability from the entrypoints and    *)
(* the fan-out and depth policies.  The function is sequential; its two    *)
(* unbounded loops (one layer at a time, one queue entry at a time) are    *)
(* steps, everything between them is one step.                             *)
(*                                                                         *)
(* Identifiers are model values.  Diagnostics are records of a code and    *)
(* what the diagnostic names; their texts and paths are left out.  Inside  *)
(* a layer the code sorts by declaration order, so a layer is a set and    *)
(* its order is given by Declared.                                         *)
(***************************************************************************)
EXTENDS Integers, Sequences, FiniteSets

CONSTANTS
    Ids,            \* identifiers that can appear in a document
    Documents,      \* the documents compileGraph may be given
    NoLimit         \* a policy that is absent

(***************************************************************************)
(* A document that passed captureCanonicalJson and the schema: a sequence  *)
(* of node identifiers, a sequence of edges, unique entrypoints, the nodes *)
(* named by the outputs, and two optional policies.  form says whether the *)
(* document gets that far.                                                 *)
(***************************************************************************)
IsDocument(d) ==
    /\ d.form \in {"graph", "unportable", "invalid"}
    /\ d.nodes \in Seq(Ids)
    /\ d.edges \in Seq([id : Nat, from : Ids, to : Ids])
    /\ d.entrypoints \in SUBSET Ids
    /\ d.outputs \in SUBSET Ids
    /\ d.maxFanOut \in Nat \cup {NoLimit}
    /\ d.maxDepth \in Nat \cup {NoLimit}

ASSUME DocumentAssumption == IsFiniteSet(Ids) /\ \A d \in Documents : IsDocument(d)

VARIABLES
    pc,             \* where compileGraph is
    doc,            \* its argument
    diagnostics,    \* the diagnostics found so far
    inDegree,       \* incoming edges from nodes not yet processed
    currentLayer,   \* the layer about to be pushed
    layers,         \* topologicalLayers
    reachable,      \* nodes reached from the entrypoints
    queue           \* entries of the reachability queue not yet visited

vars == <<pc, doc, diagnostics, inDegree, currentLayer, layers, reachable, queue>>

Diagnostic(code, what) == [code |-> code, what |-> what]

\* nodesById: the declared identifiers, repeated ones once
NodesOf(d) == {d.nodes[i] : i \in DOMAIN d.nodes}
Nodes == NodesOf(doc)

\* positions of edges; parallel edges are distinct
EdgesInto(d, n) == {i \in DOMAIN d.edges : d.edges[i].to = n}
EdgesFrom(d, n) == {i \in DOMAIN d.edges : d.edges[i].from = n}
EdgeExists(m, n) == \E i \in DOMAIN doc.edges : doc.edges[i].from = m /\ doc.edges[i].to = n
Processed == UNION {layers[k] : k \in DOMAIN layers}

-----------------------------------------------------------------------------

Init ==
    /\ doc \in Documents
    /\ pc = "capture"
    /\ diagnostics = {}
    /\ inDegree = [n \in Ids |-> 0]
    /\ currentLayer = {}
    /\ layers = << >>
    /\ reachable = {}
    /\ queue = {}

\* captureCanonicalJson or the schema refuses the document.
Refuse ==
    /\ pc = "capture"
    /\ doc.form # "graph"
    /\ diagnostics' = {Diagnostic("GE1007_INVALID_GRAPH", doc.form)}
    /\ pc' = "done"
    /\ UNCHANGED <<doc, inDegree, currentLayer, layers, reachable, queue>>

DuplicateNodes(d) ==
    {Diagnostic("GE1001_DUPLICATE_NODE", <<i, d.nodes[i]>>) :
        i \in {j \in DOMAIN d.nodes : \E k \in 1..(j - 1) : d.nodes[k] = d.nodes[j]}}

DuplicateEdges(d) ==
    {Diagnostic("GE1002_DUPLICATE_EDGE", i) :
        i \in {j \in DOMAIN d.edges : \E k \in 1..(j - 1) : d.edges[k].id = d.edges[j].id}}

\* Mutation: a dangling edge end is only looked for at the source.
MissingSourcesOnly(d) ==
    {Diagnostic("GE1003_MISSING_SOURCE", i) :
        i \in {j \in DOMAIN d.edges : d.edges[j].from \notin NodesOf(d)}}

MissingEnds(d) ==
    {Diagnostic("GE1003_MISSING_SOURCE", i) :
        i \in {j \in DOMAIN d.edges : d.edges[j].from \notin NodesOf(d)}}
    \cup
    {Diagnostic("GE1004_MISSING_TARGET", i) :
        i \in {j \in DOMAIN d.edges : d.edges[j].to \notin NodesOf(d)}}

MissingReferences(d) ==
    {Diagnostic("GE1008_MISSING_ENTRYPOINT", n) : n \in d.entrypoints \ NodesOf(d)} \cup
    {Diagnostic("GE1009_MISSING_OUTPUT", n) : n \in d.outputs \ NodesOf(d)}

StructuralDiagnostics(d) ==
    DuplicateNodes(d) \cup DuplicateEdges(d) \cup MissingEnds(d) \cup MissingReferences(d)

\* Mutation: count the distinct sources instead of the edges.
InDegreeOfSources(n) == Cardinality({doc.edges[i].from : i \in EdgesInto(doc, n)})

\* The initial in-degree: parallel edges count one by one.
InDegree(n) == Cardinality(EdgesInto(doc, n))

\* Index nodes and edges; identity and reference errors end the compilation,
\* otherwise the in-degrees and the first layer are computed.
Index ==
    /\ pc = "capture"
    /\ doc.form = "graph"
    /\ diagnostics' = StructuralDiagnostics(doc)
    /\ \/ /\ diagnostics' # {}
          /\ pc' = "done"
          /\ UNCHANGED <<inDegree, currentLayer>>
       \/ /\ diagnostics' = {}
          /\ pc' = "layers"
          /\ inDegree' = [n \in Ids |-> InDegree(n)]
          /\ currentLayer' = {n \in Nodes : inDegree'[n] = 0}
    /\ UNCHANGED <<doc, layers, reachable, queue>>

\* How far the nodes of the current layer bring inDegree[n] down.
CountDown(n) == Cardinality({i \in EdgesInto(doc, n) : doc.edges[i].from \in currentLayer})

\* Mutation: a node enters the next layer with its first dependency.
FreedByAny(n, left) == inDegree[n] > 0 /\ left < inDegree[n]

\* n enters nextLayer: a decrement takes its degree to zero.
Freed(n, left) == inDegree[n] > 0 /\ left <= 0

\* One iteration of the layer loop.
PushLayer ==
    /\ pc = "layers"
    /\ currentLayer # {}
    /\ layers' = Append(layers, currentLayer)
    /\ inDegree' = [n \in Ids |-> inDegree[n] - CountDown(n)]
    /\ currentLayer' = {n \in Nodes : Freed(n, inDegree'[n])}
    /\ UNCHANGED <<pc, doc, diagnostics, reachable, queue>>

\* The loop ends with nodes left over: they are reported and nothing else is.
FindCycle ==
    /\ pc = "layers"
    /\ currentLayer = {}
    /\ Processed # Nodes
    /\ diagnostics' = {Diagnostic("GE1005_CYCLE", Nodes \ Processed)}
    /\ pc' = "done"
    /\ UNCHANGED <<doc, inDegree, currentLayer, layers, reachable, queue>>

\* Entrypoints with incoming edges; the reachability queue is filled.
CheckEntrypoints ==
    /\ pc = "layers"
    /\ currentLayer = {}
    /\ Processed = Nodes
    /\ diagnostics' = {Diagnostic("GE1010_ENTRYPOINT_HAS_INCOMING", n) :
                          n \in {m \in doc.entrypoints : EdgesInto(doc, m) # {}}}
    /\ queue' = doc.entrypoints
    /\ pc' = "reach"
    /\ UNCHANGED <<doc, inDegree, currentLayer, layers, reachable>>

\* Mutation: the queue is not extended, only entrypoints and what follows
\* them directly are reached.
DirectTargets(n) == IF n \in doc.entrypoints
                    THEN {doc.edges[i].to : i \in EdgesFrom(doc, n)} ELSE {}

Targets(n) == {doc.edges[i].to : i \in EdgesFrom(doc, n)}

\* Mutation: the loop does not advance its index.
UnvisitedStuck(n) == queue

\* The entries behind n.
Unvisited(n) == queue \ {n}

\* One iteration of the reachability loop.  The order of the queue does not
\* matter to the set it reaches, so any entry may be next.
Visit(n) ==
    /\ pc = "reach"
    /\ n \in queue
    /\ reachable' = reachable \cup {n}
    /\ queue' = Unvisited(n) \cup (Targets(n) \ reachable')
    /\ UNCHANGED <<pc, doc, diagnostics, inDegree, currentLayer, layers>>

Exceeds(count, limit) == limit # NoLimit /\ count > limit

PolicyDiagnostics ==
    {Diagnostic("GE1101_MAX_FAN_OUT", n) :
        n \in {m \in Nodes : Exceeds(Cardinality(EdgesFrom(doc, m)), doc.maxFanOut)}} \cup
    {Diagnostic("GE1102_MAX_DEPTH", k) :
        k \in {j \in {Len(layers)} : Exceeds(j, doc.maxDepth)}}

\* Unreachable nodes, then the policies.
CheckPolicies ==
    /\ pc = "reach"
    /\ queue = {}
    /\ diagnostics' = diagnostics \cup PolicyDiagnostics \cup
           {Diagnostic("GE1006_UNREACHABLE_NODE", n) : n \in Nodes \ reachable}
    /\ pc' = "done"
    /\ UNCHANGED <<doc, inDegree, currentLayer, layers, reachable, queue>>

\* compileGraph has returned.
Compiled == pc = "done" /\ UNCHANGED vars

Next ==
    \/ Refuse \/ Index
    \/ PushLayer \/ FindCycle \/ CheckEntrypoints
    \/ \E n \in Ids : Visit(n)
    \/ CheckPolicies
    \/ Compiled

Spec == Init /\ [][Next]_vars
FairSpec == Spec /\ WF_vars(Next)

-----------------------------------------------------------------------------
(* The result.                                                             *)

valid == pc = "done" /\ diagnostics = {}
Reported(code) == {d.what : d \in {f \in diagnostics : f.code = code}}

\* Position of a node in the flattened layers, from zero: what runGraph uses
\* as its sequence.  Earlier is the layer order, ties by declaration order.
LayerOf(n) == CHOOSE k \in DOMAIN layers : n \in layers[k]
Declared(n) == CHOOSE i \in DOMAIN doc.nodes : doc.nodes[i] = n
Earlier(m, n) == \/ LayerOf(m) < LayerOf(n)
                 \/ LayerOf(m) = LayerOf(n) /\ Declared(m) < Declared(n)
SequenceOf(n) == Cardinality({m \in Nodes : Earlier(m, n)})

-----------------------------------------------------------------------------
(* Properties.                                                             *)

\* Types, and the in-degree counters never pass below zero.
TypeOK ==
    /\ pc \in {"capture", "layers", "reach", "done"}
    /\ inDegree \in [Ids -> Nat]
    /\ currentLayer \subseteq Ids
    /\ layers \in Seq(SUBSET Ids)
    /\ reachable \subseteq Ids
    /\ queue \subseteq Ids

\* The loop invariant of the layering: a layered node has all its upstream
\* nodes in earlier layers, and beyond the first layer one of them in the
\* layer just before, so a node is layered as early as it can be.
LayersTight ==
    \A k \in DOMAIN layers : \A n \in layers[k] :
        /\ \A m \in Ids : EdgeExists(m, n) => \E j \in 1..(k - 1) : m \in layers[j]
        /\ k > 1 => \E m \in layers[k - 1] : EdgeExists(m, n)

\* No node is in two layers, and no layer is empty.
LayersDisjoint ==
    \A k \in DOMAIN layers :
        /\ layers[k] # {}
        /\ layers[k] \cap currentLayer = {}
        /\ \A j \in DOMAIN layers : j # k => layers[j] \cap layers[k] = {}

\* The layering is exact: both halves of the loop invariant.
LayersExact == LayersTight /\ LayersDisjoint

Closed(S) == \A m \in S : \A n \in Ids : EdgeExists(m, n) => n \in S

\* What lies downstream of m: the nodes in every closed set that holds the
\* targets of m's edges, which are those at the end of a path from m.
Downstream(m) ==
    {n \in Nodes : \A S \in SUBSET Nodes :
                      Closed(S) /\ (\A k \in Nodes : EdgeExists(m, k) => k \in S) => n \in S}
OnCycle(m) == m \in Downstream(m)

\* GE1005 is reported exactly when there is a node on a cycle, and names the
\* nodes on cycles and everything downstream of them.
CycleExact ==
    pc = "done" /\ doc.form = "graph" /\ StructuralDiagnostics(doc) = {} =>
        LET stuck == {n \in Nodes : \E m \in Nodes : OnCycle(m) /\ (n = m \/ n \in Downstream(m))}
        IN  Reported("GE1005_CYCLE") = IF stuck = {} THEN {} ELSE {stuck}

\* Of a graph without a cycle the reachability loop finds the least set that
\* holds the entrypoints and is closed under edges; GE1006 names the rest.
ReachabilityLeast ==
    pc = "done" /\ layers # << >> /\ Processed = Nodes =>
        /\ doc.entrypoints \subseteq reachable
        /\ Closed(reachable)
        /\ \A S \in SUBSET Ids : doc.entrypoints \subseteq S /\ Closed(S) => reachable \subseteq S
        /\ Reported("GE1006_UNREACHABLE_NODE") = Nodes \ reachable

\* What runGraph relies on when compilation.valid holds: edges join declared
\* nodes, every node is in one layer, and the sequence numbers the nodes
\* injectively and in topological order; the roots are the entrypoints.
ValidGraphRuns ==
    valid =>
        /\ doc.form = "graph"
        /\ Processed = Nodes
        /\ \A i \in DOMAIN doc.edges :
              /\ {doc.edges[i].from, doc.edges[i].to} \subseteq Nodes
              /\ SequenceOf(doc.edges[i].from) < SequenceOf(doc.edges[i].to)
        /\ \A m, n \in Nodes : SequenceOf(m) = SequenceOf(n) => m = n
        /\ layers # << >> => layers[1] = doc.entrypoints
        /\ doc.outputs \subseteq Nodes
=============================================================================
