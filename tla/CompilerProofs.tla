--------------------------- MODULE CompilerProofs ---------------------------
(***************************************************************************)
(* Theorems about compileGraph for every set of documents, of any size:    *)
(* the layering is exact, cycles are reported exactly, reachability is the *)
(* least closed set, and what compilation.valid promises to runGraph       *)
(* holds.  Then about the pattern builders, for every set of calls: what   *)
(* they check is the documented shape, and what they build compiles to the *)
(* layers they promise.                                                    *)
(***************************************************************************)
EXTENDS Patterns, TLAPS, FiniteSetTheorems, SequenceTheorems, WellFoundedInduction

\* The edges into n whose source is in no layer yet.
Left(n) == {i \in EdgesInto(doc, n) : doc.edges[i].from \notin Processed}

\* Documents, types, and where a document without structural errors is.
Types ==
    /\ IsDocument(doc)
    /\ TypeOK
    /\ pc = "capture" => layers = << >> /\ diagnostics = {} /\ reachable = {} /\ queue = {}
    /\ pc = "capture" => currentLayer = {}
    /\ pc \in {"layers", "reach"} => doc.form = "graph" /\ StructuralDiagnostics(doc) = {}
    /\ pc = "layers" => reachable = {} /\ queue = {} /\ diagnostics = {}

\* The counters count the edges left, and the current layer is every node that
\* is free and not layered yet.
Counted ==
    pc = "layers" =>
        /\ \A n \in Ids : inDegree[n] = Cardinality(Left(n))
        /\ currentLayer = {n \in Nodes : n \notin Processed /\ Left(n) = {}}
        /\ \A n \in currentLayer : layers # << >> => \E m \in layers[Len(layers)] : EdgeExists(m, n)

\* Only declared nodes are layered.
Declares == Processed \subseteq Nodes /\ currentLayer \subseteq Nodes

LayerInv == Types /\ Counted /\ Declares /\ LayersTight /\ LayersDisjoint

\* The loop invariant of the reachability loop: closed up to the queue, and
\* inside every closed set that holds the entrypoints.
Reaching ==
    pc = "reach" =>
        /\ Processed = Nodes /\ currentLayer = {}
        /\ doc.entrypoints \subseteq reachable \cup queue
        /\ \A m \in reachable : \A n \in Ids : EdgeExists(m, n) => n \in reachable \cup queue
        /\ \A S \in SUBSET Ids :
              doc.entrypoints \subseteq S /\ Closed(S) => reachable \cup queue \subseteq S
        /\ diagnostics = {Diagnostic("GE1010_ENTRYPOINT_HAS_INCOMING", n) :
                             n \in {m \in doc.entrypoints : EdgesInto(doc, m) # {}}}

\* What an accepted document satisfies when compileGraph returns.
Accepted ==
    valid =>
        /\ doc.form = "graph" /\ StructuralDiagnostics(doc) = {}
        /\ Processed = Nodes /\ currentLayer = {}
        /\ \A n \in doc.entrypoints : EdgesInto(doc, n) = {}
        /\ Nodes \subseteq reachable
        /\ \A S \in SUBSET Ids : doc.entrypoints \subseteq S /\ Closed(S) => reachable \subseteq S

CompilerInv == LayerInv /\ Reaching /\ Accepted /\ ReachabilityLeast

-----------------------------------------------------------------------------

\* What the assumption says of one document.
LEMMA DocFacts ==
    ASSUME NEW d, IsDocument(d)
    PROVE  /\ d.nodes \in Seq(Ids)
           /\ d.edges \in Seq([id : Nat, from : Ids, to : Ids])
           /\ d.entrypoints \in SUBSET Ids
           /\ DOMAIN d.edges = 1..Len(d.edges)
           /\ DOMAIN d.nodes = 1..Len(d.nodes)
           /\ \A i \in DOMAIN d.edges : d.edges[i].from \in Ids /\ d.edges[i].to \in Ids
           /\ NodesOf(d) \subseteq Ids
           /\ IsFiniteSet(NodesOf(d))
           /\ IsFiniteSet(DOMAIN d.edges)
<1>1. /\ d.nodes \in Seq(Ids)
      /\ d.edges \in Seq([id : Nat, from : Ids, to : Ids])
      /\ d.entrypoints \in SUBSET Ids
    BY DEF IsDocument
<1>2. /\ DOMAIN d.edges = 1..Len(d.edges)
      /\ \A i \in DOMAIN d.edges : d.edges[i] \in [id : Nat, from : Ids, to : Ids]
      /\ Len(d.edges) \in Nat
    <2> DEFINE R == [id : Nat, from : Ids, to : Ids]
    <2>1. d.edges \in Seq(R)
        BY <1>1
    <2> HIDE DEF R
    <2>2. DOMAIN d.edges = 1..Len(d.edges) /\ Len(d.edges) \in Nat
        BY <2>1
    <2>3. \A i \in DOMAIN d.edges : d.edges[i] \in R
        BY <2>1
    <2>4. QED
        BY <2>2, <2>3 DEF R
<1>3. NodesOf(d) \subseteq Ids /\ DOMAIN d.nodes = 1..Len(d.nodes)
    <2>1. \A i \in DOMAIN d.nodes : d.nodes[i] \in Ids
        BY <1>1
    <2>2. QED
        BY <1>1, <2>1 DEF NodesOf
<1>4. IsFiniteSet(NodesOf(d))
    <2>1. NodesOf(d) \in SUBSET Ids /\ IsFiniteSet(Ids)
        BY <1>3, DocumentAssumption
    <2>2. QED
        BY <2>1, FS_Subset
<1>5. IsFiniteSet(DOMAIN d.edges)
    BY <1>2, FS_Interval
<1>6. QED
    BY <1>1, <1>2, <1>3, <1>4, <1>5

\* Structure without errors: edges join declared nodes, entrypoints and outputs
\* are declared, identifiers are unique.
LEMMA StructureFacts ==
    ASSUME NEW d, IsDocument(d), StructuralDiagnostics(d) = {}
    PROVE  /\ \A i \in DOMAIN d.edges : d.edges[i].from \in NodesOf(d) /\ d.edges[i].to \in NodesOf(d)
           /\ d.entrypoints \subseteq NodesOf(d)
           /\ d.outputs \subseteq NodesOf(d)
           /\ \A i, j \in DOMAIN d.nodes : d.nodes[i] = d.nodes[j] => i = j
<1>1. DuplicateNodes(d) = {} /\ MissingEnds(d) = {} /\ MissingReferences(d) = {}
    BY DEF StructuralDiagnostics
<1>2. \A i \in DOMAIN d.edges : d.edges[i].from \in NodesOf(d) /\ d.edges[i].to \in NodesOf(d)
    BY <1>1 DEF MissingEnds
<1>3. d.entrypoints \subseteq NodesOf(d) /\ d.outputs \subseteq NodesOf(d)
    BY <1>1 DEF MissingReferences
<1>4. ASSUME NEW i \in DOMAIN d.nodes, NEW j \in DOMAIN d.nodes, d.nodes[i] = d.nodes[j], i < j
      PROVE  FALSE
    <2>1. i \in Nat /\ j \in Nat /\ i \in 1..(j - 1)
        BY <1>4, DocFacts
    <2>2. j \in {k \in DOMAIN d.nodes : \E l \in 1..(k - 1) : d.nodes[l] = d.nodes[k]}
        BY <2>1, <1>4
    <2>3. QED
        BY <2>2, <1>1 DEF DuplicateNodes
<1>5. \A i, j \in DOMAIN d.nodes : i \in Nat /\ j \in Nat
    BY DocFacts
<1>6. QED
    BY <1>2, <1>3, <1>4, <1>5

\* The edges into a node are finitely many.
LEMMA EdgeSetsFinite ==
    ASSUME IsDocument(doc), NEW n, NEW S \in SUBSET EdgesInto(doc, n)
    PROVE  /\ IsFiniteSet(S)
           /\ Cardinality(S) \in Nat
           /\ Cardinality(S) = 0 <=> S = {}
<1>1. IsFiniteSet(DOMAIN doc.edges)
    BY DocFacts
<1>2. S \in SUBSET DOMAIN doc.edges
    BY DEF EdgesInto
<1>3. IsFiniteSet(S)
    BY <1>1, <1>2, FS_Subset
<1>4. QED
    BY <1>3, FS_CardinalityType, FS_EmptySet

LEMMA EmptyLayers == layers = << >> => Processed = {}
    BY DEF Processed

LEMMA InitHolds == Init => CompilerInv
<1> SUFFICES ASSUME Init PROVE CompilerInv
    OBVIOUS
<1>1. Types
    BY EmptySeq, DocumentAssumption, 0 \in Nat DEF Init, Types, TypeOK
<1>2. Processed = {} /\ DOMAIN layers = {}
    BY EmptyLayers DEF Init
<1>3. Counted /\ Declares /\ LayersTight /\ LayersDisjoint
    BY <1>2 DEF Init, Counted, Declares, LayersTight, LayersDisjoint
<1>4. Reaching /\ Accepted /\ ReachabilityLeast
    BY DEF Init, Reaching, Accepted, valid, ReachabilityLeast
<1>5. QED
    BY <1>1, <1>3, <1>4 DEF CompilerInv, LayerInv

-----------------------------------------------------------------------------
(* The layer loop.                                                         *)

LEMMA AppendFacts ==
    ASSUME TypeOK, PushLayer
    PROVE  /\ Len(layers) \in Nat
           /\ DOMAIN layers = 1..Len(layers)
           /\ DOMAIN layers' = 1..(Len(layers) + 1)
           /\ Len(layers') = Len(layers) + 1
           /\ layers'[Len(layers) + 1] = currentLayer
           /\ \A k \in 1..Len(layers) : layers'[k] = layers[k]
           /\ layers' \in Seq(SUBSET Ids)
           /\ layers' # << >>
           /\ Processed' = Processed \cup currentLayer
<1>1. layers \in Seq(SUBSET Ids) /\ currentLayer \in SUBSET Ids /\ layers' = Append(layers, currentLayer)
    BY DEF TypeOK, PushLayer
<1>2. /\ Len(layers) \in Nat
      /\ DOMAIN layers = 1..Len(layers)
      /\ DOMAIN layers' = 1..(Len(layers) + 1)
      /\ Len(layers') = Len(layers) + 1
      /\ layers'[Len(layers) + 1] = currentLayer
      /\ \A k \in 1..Len(layers) : layers'[k] = layers[k]
      /\ layers' \in Seq(SUBSET Ids)
      /\ layers' # << >>
    BY <1>1, AppendProperties
<1>3. \A k \in 1..(Len(layers) + 1) : k \in 1..Len(layers) \/ k = Len(layers) + 1
    BY <1>2
<1>4. Len(layers) + 1 \in 1..(Len(layers) + 1) /\ 1..Len(layers) \subseteq 1..(Len(layers) + 1)
    BY <1>2
<1>5. Processed' = UNION {layers'[k] : k \in DOMAIN layers'}
    BY DEF Processed
<1>6. Processed' = Processed \cup currentLayer
    BY <1>2, <1>3, <1>4, <1>5 DEF Processed
<1>7. QED
    BY <1>2, <1>6

\* A layered node has no edge left.
LEMMA LayeredFree ==
    ASSUME TypeOK, LayersTight, IsDocument(doc), NEW n \in Processed
    PROVE  Left(n) = {}
<1>1. PICK k \in DOMAIN layers : n \in layers[k]
    BY DEF Processed
<1>2. SUFFICES ASSUME NEW i \in Left(n) PROVE FALSE
    OBVIOUS
<1>3. i \in DOMAIN doc.edges /\ doc.edges[i].to = n /\ doc.edges[i].from \notin Processed
    BY <1>2 DEF Left, EdgesInto
<1>4. doc.edges[i].from \in Ids /\ EdgeExists(doc.edges[i].from, n)
    BY <1>3, DocFacts DEF EdgeExists
<1>5. \E j \in 1..(k - 1) : doc.edges[i].from \in layers[j]
    BY <1>1, <1>4 DEF LayersTight
<1>6. PICK j \in 1..(k - 1) : doc.edges[i].from \in layers[j]
    BY <1>5
<1>7. j \in DOMAIN layers
    <2>1. DOMAIN layers = 1..Len(layers) /\ Len(layers) \in Nat
        BY DEF TypeOK
    <2>2. QED
        BY <2>1, <1>1, <1>6
<1>8. QED
    BY <1>3, <1>6, <1>7 DEF Processed

\* One iteration leaves exactly the edges whose source is not in the new layer
\* either.
LEMMA CountedDown ==
    ASSUME LayerInv, PushLayer, NEW n \in Ids
    PROVE  /\ Left(n)' = Left(n) \ {i \in EdgesInto(doc, n) : doc.edges[i].from \in currentLayer}
           /\ inDegree'[n] = Cardinality(Left(n)')
           /\ inDegree[n] \in Nat /\ inDegree'[n] \in Nat
           /\ inDegree[n] = 0 <=> Left(n) = {}
           /\ inDegree'[n] = 0 <=> Left(n)' = {}
<1> DEFINE down == {i \in EdgesInto(doc, n) : doc.edges[i].from \in currentLayer}
<1>1. IsDocument(doc) /\ doc' = doc /\ pc = "layers" /\ TypeOK
    BY DEF LayerInv, Types, PushLayer
<1>2. /\ inDegree[n] = Cardinality(Left(n))
      /\ currentLayer = {m \in Nodes : m \notin Processed /\ Left(m) = {}}
    BY <1>1 DEF LayerInv, Counted
<1>3. Processed' = Processed \cup currentLayer
    BY <1>1, AppendFacts
<1>4. Left(n)' = {i \in EdgesInto(doc, n) : doc.edges[i].from \notin Processed'}
    BY <1>1 DEF Left, EdgesInto
<1>5. Left(n)' = Left(n) \ down
    BY <1>3, <1>4 DEF Left
<1>6. down \subseteq Left(n)
    BY <1>2 DEF Left
<1>7. /\ Left(n) \in SUBSET EdgesInto(doc, n)
      /\ Left(n) \ down \in SUBSET EdgesInto(doc, n)
      /\ down \in SUBSET EdgesInto(doc, n)
    BY DEF Left
<1>8. /\ IsFiniteSet(Left(n)) /\ Cardinality(Left(n)) \in Nat
      /\ Cardinality(Left(n)) = 0 <=> Left(n) = {}
    BY <1>1, <1>7, EdgeSetsFinite
<1>9. /\ Cardinality(Left(n) \ down) \in Nat
      /\ Cardinality(Left(n) \ down) = 0 <=> Left(n) \ down = {}
    BY <1>1, <1>7, EdgeSetsFinite
<1>10. Cardinality(down) \in Nat
    BY <1>1, <1>7, EdgeSetsFinite
<1>11. Cardinality(Left(n) \ down) = Cardinality(Left(n)) - Cardinality(Left(n) \cap down)
    BY <1>8, FS_Difference
<1>12. Left(n) \cap down = down
    BY <1>6
<1>13. inDegree'[n] = inDegree[n] - CountDown(n)
    BY DEF PushLayer
<1>14. CountDown(n) = Cardinality(down)
    BY DEF CountDown
<1>15. inDegree'[n] = Cardinality(Left(n) \ down)
    BY <1>2, <1>11, <1>12, <1>13, <1>14
<1>16. QED
    BY <1>2, <1>5, <1>8, <1>9, <1>15

\* The next layer is every node that the pushed one frees.
LEMMA NextLayer ==
    ASSUME LayerInv, PushLayer
    PROVE  /\ currentLayer' = {n \in Nodes : Left(n) # {} /\ Left(n)' = {}}
           /\ currentLayer' = {n \in Nodes : n \notin Processed' /\ Left(n)' = {}}
           /\ Nodes' = Nodes /\ Nodes \subseteq Ids
<1>1. IsDocument(doc) /\ doc' = doc /\ pc = "layers" /\ TypeOK
    BY DEF LayerInv, Types, PushLayer
<1>2. Nodes' = Nodes /\ Nodes \subseteq Ids
    BY <1>1, DocFacts DEF Nodes
<1>3. currentLayer' = {n \in Nodes : Freed(n, inDegree'[n])}
    BY DEF PushLayer
<1>4. ASSUME NEW n \in Nodes PROVE Freed(n, inDegree'[n]) <=> Left(n) # {} /\ Left(n)' = {}
    <2>1. /\ inDegree[n] \in Nat /\ inDegree'[n] \in Nat
          /\ inDegree[n] = 0 <=> Left(n) = {}
          /\ inDegree'[n] = 0 <=> Left(n)' = {}
        BY <1>2, CountedDown
    <2> DEFINE a == inDegree[n]
               b == inDegree'[n]
    <2>2. Freed(n, b) <=> a > 0 /\ b <= 0
        BY DEF Freed
    <2>3. a \in Nat /\ b \in Nat /\ (a = 0 <=> Left(n) = {}) /\ (b = 0 <=> Left(n)' = {})
        BY <2>1
    <2> HIDE DEF a, b
    <2>4. Freed(n, b) <=> Left(n) # {} /\ Left(n)' = {}
        <3>1. (a > 0 <=> a # 0) /\ (b <= 0 <=> b = 0)
            BY <2>3
        <3>2. QED
            BY <2>2, <2>3, <3>1
    <2>5. QED
        BY <2>4 DEF b
<1>5. currentLayer' = {n \in Nodes : Left(n) # {} /\ Left(n)' = {}}
    BY <1>3, <1>4
<1>6. Processed' = Processed \cup currentLayer
    BY <1>1, AppendFacts
<1>7. currentLayer = {m \in Nodes : m \notin Processed /\ Left(m) = {}}
    BY <1>1 DEF LayerInv, Counted
<1>8. \A n \in Processed : Left(n) = {}
    BY <1>1, LayeredFree DEF LayerInv
<1>9. \A n \in Nodes : Left(n) # {} <=> n \notin Processed'
    BY <1>6, <1>7, <1>8
<1>10. QED
    BY <1>2, <1>5, <1>9

LEMMA PushLayerKeeps ==
    ASSUME LayerInv, PushLayer
    PROVE  LayerInv'
<1>1. IsDocument(doc) /\ doc' = doc /\ pc = "layers" /\ pc' = pc /\ TypeOK
    BY DEF LayerInv, Types, PushLayer
<1>2. /\ currentLayer' = {n \in Nodes : Left(n) # {} /\ Left(n)' = {}}
      /\ currentLayer' = {n \in Nodes : n \notin Processed' /\ Left(n)' = {}}
      /\ Nodes' = Nodes /\ Nodes \subseteq Ids
    BY NextLayer
<1>3. /\ Len(layers) \in Nat
      /\ DOMAIN layers = 1..Len(layers)
      /\ DOMAIN layers' = 1..(Len(layers) + 1)
      /\ Len(layers') = Len(layers) + 1
      /\ layers'[Len(layers) + 1] = currentLayer
      /\ \A k \in 1..Len(layers) : layers'[k] = layers[k]
      /\ layers' \in Seq(SUBSET Ids)
      /\ layers' # << >>
      /\ Processed' = Processed \cup currentLayer
    BY <1>1, AppendFacts
<1>4. /\ currentLayer = {m \in Nodes : m \notin Processed /\ Left(m) = {}}
      /\ \A n \in currentLayer : layers # << >> => \E m \in layers[Len(layers)] : EdgeExists(m, n)
    BY <1>1 DEF LayerInv, Counted
<1>5. \A m, n : EdgeExists(m, n)' <=> EdgeExists(m, n)
    BY <1>1 DEF EdgeExists
<1>6. Types'
    <2>1. inDegree' \in [Ids -> Nat]
        <3>1. inDegree' = [n \in Ids |-> inDegree[n] - CountDown(n)]
            BY DEF PushLayer
        <3>2. \A n \in Ids : inDegree'[n] \in Nat
            BY CountedDown
        <3>3. QED
            BY <3>1, <3>2
    <2>2. TypeOK'
        BY <1>1, <1>2, <1>3, <2>1 DEF TypeOK, PushLayer
    <2>3. UNCHANGED <<doc, pc, diagnostics, reachable, queue>>
        BY DEF PushLayer
    <2>4. doc.form = "graph" /\ StructuralDiagnostics(doc) = {}
          /\ reachable = {} /\ queue = {} /\ diagnostics = {}
        BY <1>1 DEF LayerInv, Types
    <2>5. QED
        BY <1>1, <2>2, <2>3, <2>4 DEF Types
<1>7. Counted'
    <2>1. \A n \in Ids : inDegree'[n] = Cardinality(Left(n)')
        BY CountedDown
    <2>2. ASSUME NEW n \in currentLayer'
          PROVE  \E m \in currentLayer : EdgeExists(m, n)
        <3>1. n \in Nodes /\ Left(n) # {} /\ Left(n)' = {}
            BY <1>2
        <3>2. PICK i \in Left(n) : TRUE
            BY <3>1
        <3>3. doc.edges[i].from \in currentLayer
            <4>1. Left(n)' = Left(n) \ {l \in EdgesInto(doc, n) : doc.edges[l].from \in currentLayer}
                BY <3>1, <1>2, CountedDown
            <4>2. i \in {l \in EdgesInto(doc, n) : doc.edges[l].from \in currentLayer}
                BY <3>1, <3>2, <4>1
            <4>3. QED
                BY <4>2
        <3>4. i \in DOMAIN doc.edges /\ doc.edges[i].to = n
            BY <3>2 DEF Left, EdgesInto
        <3>5. QED
            BY <3>3, <3>4 DEF EdgeExists
    <2>3. \A n \in currentLayer' : \E m \in layers'[Len(layers')] : EdgeExists(m, n)'
        BY <2>2, <1>3, <1>5
    <2>4. QED
        BY <1>2, <2>1, <2>3 DEF Counted
<1>8. Declares'
    BY <1>2, <1>3 DEF Declares, LayerInv
<1>9. LayersTight'
    <2>1. ASSUME NEW k \in 1..(Len(layers) + 1), NEW n \in layers'[k]
          PROVE  /\ \A m \in Ids : EdgeExists(m, n) => \E j \in 1..(k - 1) : m \in layers'[j]
                 /\ k > 1 => \E m \in layers'[k - 1] : EdgeExists(m, n)
        <3>1. CASE k \in 1..Len(layers)
            <4>1. /\ \A m \in Ids : EdgeExists(m, n) => \E j \in 1..(k - 1) : m \in layers[j]
                  /\ k > 1 => \E m \in layers[k - 1] : EdgeExists(m, n)
                BY <1>3, <2>1, <3>1 DEF LayerInv, LayersTight
            <4>2. \A j \in 1..(k - 1) : layers'[j] = layers[j]
                BY <1>3, <3>1
            <4>3. k > 1 => k - 1 \in 1..(k - 1)
                BY <3>1
            <4>4. QED
                BY <4>1, <4>2, <4>3
        <3>2. CASE k = Len(layers) + 1
            <4>1. n \in currentLayer
                BY <1>3, <2>1, <3>2
            <4>2. ASSUME NEW m \in Ids, EdgeExists(m, n)
                  PROVE  \E j \in 1..(k - 1) : m \in layers'[j]
                <5>1. PICK i \in DOMAIN doc.edges : doc.edges[i].from = m /\ doc.edges[i].to = n
                    BY <4>2 DEF EdgeExists
                <5>2. i \notin Left(n)
                    BY <4>1, <1>4
                <5>3. m \in Processed
                    BY <5>1, <5>2 DEF Left, EdgesInto
                <5>4. PICK j \in DOMAIN layers : m \in layers[j]
                    BY <5>3 DEF Processed
                <5>5. j \in 1..(k - 1) /\ layers'[j] = layers[j]
                    BY <5>4, <1>3, <3>2
                <5>6. QED
                    BY <5>4, <5>5
            <4>3. ASSUME k > 1
                  PROVE  \E m \in layers'[k - 1] : EdgeExists(m, n)
                <5>1. Len(layers) > 0 /\ k - 1 = Len(layers) /\ Len(layers) \in 1..Len(layers)
                    BY <4>3, <3>2, <1>3
                <5>2. layers # << >> /\ layers'[k - 1] = layers[Len(layers)]
                    BY <5>1, <1>3
                <5>3. QED
                    BY <4>1, <5>2, <1>4
            <4>4. QED
                BY <4>2, <4>3
        <3>3. k \in 1..Len(layers) \/ k = Len(layers) + 1
            BY <1>3, <2>1
        <3>4. QED
            BY <3>1, <3>2, <3>3
    <2>2. QED
        BY <1>3, <1>5, <2>1 DEF LayersTight
<1>10. LayersDisjoint'
    <2>1. currentLayer # {}
        BY DEF PushLayer
    <2>2. \A k \in 1..Len(layers) :
              /\ layers[k] # {}
              /\ layers[k] \cap currentLayer = {}
              /\ \A j \in 1..Len(layers) : j # k => layers[j] \cap layers[k] = {}
        BY <1>3 DEF LayerInv, LayersDisjoint
    <2>3. \A k \in DOMAIN layers' : layers'[k] \subseteq Processed'
        BY DEF Processed
    <2>4. ASSUME NEW k \in DOMAIN layers' PROVE layers'[k] \cap currentLayer' = {}
        BY <2>3, <1>2
    <2>5. ASSUME NEW k \in 1..(Len(layers) + 1)
          PROVE  /\ layers'[k] # {}
                 /\ \A j \in 1..(Len(layers) + 1) : j # k => layers'[j] \cap layers'[k] = {}
        <3>1. \A j \in 1..(Len(layers) + 1) : j \in 1..Len(layers) \/ j = Len(layers) + 1
            BY <1>3
        <3>2. QED
            BY <1>3, <2>1, <2>2, <3>1
    <2>6. QED
        BY <1>3, <2>4, <2>5 DEF LayersDisjoint
<1>11. QED
    BY <1>6, <1>7, <1>8, <1>9, <1>10 DEF LayerInv

-----------------------------------------------------------------------------
(* The other steps.                                                        *)

\* Steps that leave the layers alone keep the layering.
LEMMA LayersKept ==
    ASSUME LayersTight, LayersDisjoint, Declares, UNCHANGED <<doc, layers, currentLayer>>
    PROVE  LayersTight' /\ LayersDisjoint' /\ Declares' /\ Processed' = Processed /\ Nodes' = Nodes
    BY DEF LayersTight, LayersDisjoint, Declares, EdgeExists, Processed, Nodes

LEMMA RefuseKeeps ==
    ASSUME CompilerInv, Refuse
    PROVE  CompilerInv'
<1>1. LayerInv /\ Types /\ TypeOK /\ layers = << >>
    BY DEF CompilerInv, LayerInv, Types, Refuse
<1>2. UNCHANGED <<doc, inDegree, currentLayer, layers, reachable, queue>> /\ pc' = "done"
    BY DEF Refuse
<1>3. diagnostics' # {}
    BY DEF Refuse
<1>4. Types' /\ Counted'
    BY <1>1, <1>2 DEF Types, TypeOK, Counted
<1>5. LayersTight' /\ LayersDisjoint' /\ Declares'
    BY <1>1, <1>2, LayersKept DEF LayerInv
<1>6. Reaching' /\ Accepted' /\ ReachabilityLeast'
    BY <1>1, <1>2, <1>3 DEF Reaching, Accepted, valid, ReachabilityLeast
<1>7. QED
    BY <1>4, <1>5, <1>6 DEF CompilerInv, LayerInv

LEMMA IndexKeeps ==
    ASSUME CompilerInv, Index
    PROVE  CompilerInv'
<1>1. /\ LayerInv /\ Types /\ TypeOK /\ layers = << >> /\ reachable = {} /\ queue = {}
      /\ IsDocument(doc) /\ doc.form = "graph"
    BY DEF CompilerInv, LayerInv, Types, Index
<1>2. UNCHANGED <<doc, layers, reachable, queue>> /\ diagnostics' = StructuralDiagnostics(doc)
    BY DEF Index
<1>3. Processed = {} /\ Processed' = {} /\ DOMAIN layers' = {}
    BY <1>1, <1>2, EmptyLayers DEF Processed
<1>4. CASE diagnostics' # {}
    <2>1. pc' = "done" /\ UNCHANGED <<inDegree, currentLayer>>
        BY <1>4 DEF Index
    <2>2. Types' /\ Counted'
        BY <1>1, <1>2, <2>1 DEF Types, TypeOK, Counted
    <2>3. LayersTight' /\ LayersDisjoint' /\ Declares'
        BY <1>1, <1>2, <2>1, LayersKept DEF LayerInv
    <2>4. Reaching' /\ Accepted' /\ ReachabilityLeast'
        BY <1>1, <1>2, <1>4, <2>1 DEF Reaching, Accepted, valid, ReachabilityLeast
    <2>5. QED
        BY <2>2, <2>3, <2>4 DEF CompilerInv, LayerInv
<1>5. CASE diagnostics' = {}
    <2>1. /\ pc' = "layers"
          /\ inDegree' = [n \in Ids |-> InDegree(n)]
          /\ currentLayer' = {n \in Nodes : inDegree'[n] = 0}
        BY <1>5 DEF Index
    <2>2. Nodes \subseteq Ids /\ Nodes' = Nodes
        BY <1>1, <1>2, DocFacts DEF Nodes
    <2>3. ASSUME NEW n \in Ids
          PROVE  /\ Left(n)' = EdgesInto(doc, n)
                 /\ inDegree'[n] = Cardinality(Left(n)')
                 /\ inDegree'[n] \in Nat
                 /\ inDegree'[n] = 0 <=> Left(n)' = {}
        <3>1. Left(n)' = EdgesInto(doc, n)
            BY <1>2, <1>3 DEF Left, EdgesInto
        <3>2. inDegree'[n] = Cardinality(EdgesInto(doc, n))
            BY <2>1 DEF InDegree
        <3>3. EdgesInto(doc, n) \in SUBSET EdgesInto(doc, n)
            OBVIOUS
        <3>4. /\ Cardinality(EdgesInto(doc, n)) \in Nat
              /\ Cardinality(EdgesInto(doc, n)) = 0 <=> EdgesInto(doc, n) = {}
            BY <1>1, <3>3, EdgeSetsFinite
        <3>5. QED
            BY <3>1, <3>2, <3>4
    <2>4. inDegree' \in [Ids -> Nat]
        BY <2>1, <2>3
    <2>5. currentLayer' = {n \in Nodes' : n \notin Processed' /\ Left(n)' = {}}
        BY <1>3, <2>1, <2>2, <2>3
    <2>6. Types'
        BY <1>1, <1>2, <1>5, <2>1, <2>2, <2>4 DEF Types, TypeOK
    <2>7. Counted'
        BY <1>1, <1>2, <2>3, <2>5 DEF Counted
    <2>8. LayersTight' /\ LayersDisjoint' /\ Declares'
        BY <1>3, <2>1, <2>2 DEF LayersTight, LayersDisjoint, Declares
    <2>9. Reaching' /\ Accepted' /\ ReachabilityLeast'
        BY <2>1 DEF Reaching, Accepted, valid, ReachabilityLeast
    <2>10. QED
        BY <2>6, <2>7, <2>8, <2>9 DEF CompilerInv, LayerInv
<1>6. QED
    BY <1>4, <1>5

LEMMA FindCycleKeeps ==
    ASSUME CompilerInv, FindCycle
    PROVE  CompilerInv'
<1>1. LayerInv /\ Types /\ TypeOK /\ Processed # Nodes
    BY DEF CompilerInv, LayerInv, Types, FindCycle
<1>2. UNCHANGED <<doc, inDegree, currentLayer, layers, reachable, queue>> /\ pc' = "done"
    BY DEF FindCycle
<1>3. diagnostics' # {}
    BY DEF FindCycle
<1>4. Types' /\ Counted'
    BY <1>1, <1>2 DEF Types, TypeOK, Counted
<1>5. LayersTight' /\ LayersDisjoint' /\ Declares' /\ Processed' # Nodes'
    BY <1>1, <1>2, LayersKept DEF LayerInv
<1>6. Reaching' /\ Accepted' /\ ReachabilityLeast'
    BY <1>2, <1>3, <1>5 DEF Reaching, Accepted, valid, ReachabilityLeast
<1>7. QED
    BY <1>4, <1>5, <1>6 DEF CompilerInv, LayerInv

LEMMA CheckEntrypointsKeeps ==
    ASSUME CompilerInv, CheckEntrypoints
    PROVE  CompilerInv'
<1>1. /\ LayerInv /\ Types /\ TypeOK /\ Processed = Nodes /\ currentLayer = {}
      /\ IsDocument(doc) /\ reachable = {} /\ pc = "layers"
    BY DEF CompilerInv, LayerInv, Types, CheckEntrypoints
<1>2. /\ UNCHANGED <<doc, inDegree, currentLayer, layers, reachable>> /\ pc' = "reach"
      /\ queue' = doc.entrypoints
    BY DEF CheckEntrypoints
<1>3. doc.entrypoints \subseteq Ids
    BY <1>1, DocFacts
<1>4. Types' /\ Counted'
    BY <1>1, <1>2, <1>3 DEF Types, TypeOK, Counted
<1>5. LayersTight' /\ LayersDisjoint' /\ Declares' /\ Processed' = Processed /\ Nodes' = Nodes
    BY <1>1, <1>2, LayersKept DEF LayerInv
<1>6. Reaching'
    <2>1. diagnostics' = {Diagnostic("GE1010_ENTRYPOINT_HAS_INCOMING", n) :
                             n \in {m \in doc'.entrypoints : EdgesInto(doc', m) # {}}}
        BY <1>2 DEF CheckEntrypoints
    <2>2. QED
        BY <1>1, <1>2, <1>5, <2>1 DEF Reaching
<1>7. Accepted' /\ ReachabilityLeast'
    BY <1>2 DEF Accepted, valid, ReachabilityLeast
<1>8. QED
    BY <1>4, <1>5, <1>6, <1>7 DEF CompilerInv, LayerInv

\* Closure does not look at the compiler's state.
LEMMA ClosedKept ==
    ASSUME UNCHANGED doc
    PROVE  \A S : Closed(S)' <=> Closed(S)
    BY DEF Closed, EdgeExists

LEMMA VisitKeeps ==
    ASSUME CompilerInv, NEW n \in Ids, Visit(n)
    PROVE  CompilerInv'
<1>1. LayerInv /\ Types /\ TypeOK /\ IsDocument(doc) /\ pc = "reach" /\ n \in queue
    BY DEF CompilerInv, LayerInv, Types, Visit
<1>2. /\ UNCHANGED <<pc, doc, diagnostics, inDegree, currentLayer, layers>>
      /\ reachable' = reachable \cup {n}
      /\ queue' = (queue \ {n}) \cup (Targets(n) \ reachable')
    BY DEF Visit, Unvisited
<1>3. \A m \in Ids : m \in Targets(n) <=> EdgeExists(n, m)
    BY DEF Targets, EdgesFrom, EdgeExists
<1>4. Targets(n) \subseteq Ids
    BY <1>1, DocFacts DEF Targets, EdgesFrom
<1>5. Types' /\ Counted'
    BY <1>1, <1>2, <1>4 DEF Types, TypeOK, Counted
<1>6. LayersTight' /\ LayersDisjoint' /\ Declares' /\ Processed' = Processed /\ Nodes' = Nodes
    BY <1>1, <1>2, LayersKept DEF LayerInv
<1>7. Reaching'
    <2>1. /\ Processed = Nodes /\ currentLayer = {}
          /\ doc.entrypoints \subseteq reachable \cup queue
          /\ \A m \in reachable : \A k \in Ids : EdgeExists(m, k) => k \in reachable \cup queue
          /\ diagnostics = {Diagnostic("GE1010_ENTRYPOINT_HAS_INCOMING", k) :
                             k \in {m \in doc.entrypoints : EdgesInto(doc, m) # {}}}
        BY <1>1 DEF CompilerInv, Reaching
    <2>2. \A S \in SUBSET Ids :
              doc.entrypoints \subseteq S /\ Closed(S) => reachable \cup queue \subseteq S
        BY <1>1 DEF CompilerInv, Reaching
    <2>3. reachable' \cup queue' = reachable \cup queue \cup Targets(n)
        BY <1>1, <1>2
    <2>4. \A m, k : EdgeExists(m, k)' <=> EdgeExists(m, k)
        BY <1>2 DEF EdgeExists
    <2>5. ASSUME NEW m \in reachable', NEW k \in Ids, EdgeExists(m, k)
          PROVE  k \in reachable' \cup queue'
        BY <1>2, <1>3, <2>1, <2>3, <2>5
    <2>6. ASSUME NEW S \in SUBSET Ids, doc.entrypoints \subseteq S, Closed(S)
          PROVE  reachable' \cup queue' \subseteq S
        <3>1. reachable \cup queue \subseteq S
            BY <2>2, <2>6
        <3>2. Targets(n) \subseteq S
            BY <1>1, <1>3, <1>4, <2>6, <3>1 DEF Closed
        <3>3. QED
            BY <2>3, <3>1, <3>2
    <2>7. \A S : Closed(S)' <=> Closed(S)
        BY <1>2, ClosedKept
    <2>8. doc.entrypoints \subseteq reachable' \cup queue'
        BY <2>1, <2>3
    <2>9. diagnostics' = {Diagnostic("GE1010_ENTRYPOINT_HAS_INCOMING", k) :
                             k \in {m \in doc'.entrypoints : EdgesInto(doc', m) # {}}}
        BY <1>2, <2>1
    <2>10. /\ Processed' = Nodes' /\ currentLayer' = {}
           /\ doc'.entrypoints \subseteq reachable' \cup queue'
        BY <1>2, <1>6, <2>1, <2>8
    <2>11. \A m \in reachable' : \A k \in Ids : EdgeExists(m, k)' => k \in reachable' \cup queue'
        BY <2>4, <2>5
    <2>12. \A S \in SUBSET Ids :
              doc'.entrypoints \subseteq S /\ Closed(S)' => reachable' \cup queue' \subseteq S
        BY <1>2, <2>6, <2>7
    <2>13. QED
        BY <2>9, <2>10, <2>11, <2>12 DEF Reaching
<1>8. Accepted' /\ ReachabilityLeast'
    BY <1>1, <1>2 DEF Accepted, valid, ReachabilityLeast
<1>9. QED
    BY <1>5, <1>6, <1>7, <1>8 DEF CompilerInv, LayerInv

LEMMA CheckPoliciesKeeps ==
    ASSUME CompilerInv, CheckPolicies
    PROVE  CompilerInv'
<1> DEFINE unreached == {Diagnostic("GE1006_UNREACHABLE_NODE", n) : n \in Nodes \ reachable}
           incoming == {Diagnostic("GE1010_ENTRYPOINT_HAS_INCOMING", n) :
                             n \in {m \in doc.entrypoints : EdgesInto(doc, m) # {}}}
<1>1. LayerInv /\ Types /\ TypeOK /\ IsDocument(doc) /\ pc = "reach" /\ queue = {}
    BY DEF CompilerInv, LayerInv, Types, CheckPolicies
<1>2. UNCHANGED <<doc, inDegree, currentLayer, layers, reachable, queue>> /\ pc' = "done"
    BY DEF CheckPolicies
<1>3. /\ Processed = Nodes /\ currentLayer = {}
      /\ doc.entrypoints \subseteq reachable
      /\ \A m \in reachable : \A k \in Ids : EdgeExists(m, k) => k \in reachable
      /\ diagnostics = incoming
    BY <1>1 DEF CompilerInv, Reaching
<1>4. \A S \in SUBSET Ids : doc.entrypoints \subseteq S /\ Closed(S) => reachable \subseteq S
    BY <1>1 DEF CompilerInv, Reaching
<1>5. diagnostics' = incoming \cup PolicyDiagnostics \cup unreached
    BY <1>3 DEF CheckPolicies
<1>6. Types' /\ Counted'
    BY <1>1, <1>2 DEF Types, TypeOK, Counted
<1>7. LayersTight' /\ LayersDisjoint' /\ Declares' /\ Processed' = Processed /\ Nodes' = Nodes
    BY <1>1, <1>2, LayersKept DEF LayerInv
<1>8. \A S : Closed(S)' <=> Closed(S)
    BY <1>2, ClosedKept
<1>9. Reported("GE1006_UNREACHABLE_NODE")' = Nodes \ reachable
    <2>1. \A d \in incoming \cup PolicyDiagnostics : d.code # "GE1006_UNREACHABLE_NODE"
        BY DEF PolicyDiagnostics, Diagnostic
    <2>2. \A d \in unreached : d.code = "GE1006_UNREACHABLE_NODE"
        BY DEF Diagnostic
    <2>3. {d \in diagnostics' : d.code = "GE1006_UNREACHABLE_NODE"} = unreached
        BY <1>5, <2>1, <2>2
    <2>4. Reported("GE1006_UNREACHABLE_NODE")' = {d.what : d \in unreached}
        BY <2>3 DEF Reported
    <2>5. {d.what : d \in unreached} = Nodes \ reachable
        <3>1. ASSUME NEW n \in Nodes \ reachable PROVE n \in {d.what : d \in unreached}
            <4>1. Diagnostic("GE1006_UNREACHABLE_NODE", n) \in unreached
                OBVIOUS
            <4>2. Diagnostic("GE1006_UNREACHABLE_NODE", n).what = n
                BY DEF Diagnostic
            <4>3. QED
                BY <4>1, <4>2
        <3>2. \A d \in unreached : d.what \in Nodes \ reachable
            BY DEF Diagnostic
        <3>3. QED
            BY <3>1, <3>2
    <2>6. QED
        BY <2>4, <2>5
<1>10. Closed(reachable)
    BY <1>3 DEF Closed
<1>11. ReachabilityLeast'
    <2>1. Closed(reachable)'
        <3>1. \A m, n : EdgeExists(m, n)' <=> EdgeExists(m, n)
            BY <1>2 DEF EdgeExists
        <3>2. QED
            BY <1>2, <1>10, <3>1 DEF Closed
    <2>2. doc'.entrypoints \subseteq reachable'
        BY <1>2, <1>3
    <2>3. \A S \in SUBSET Ids : doc'.entrypoints \subseteq S /\ Closed(S)' => reachable' \subseteq S
        BY <1>2, <1>4, <1>8
    <2>4. Reported("GE1006_UNREACHABLE_NODE")' = Nodes' \ reachable'
        BY <1>2, <1>7, <1>9
    <2>5. QED
        BY <2>1, <2>2, <2>3, <2>4 DEF ReachabilityLeast
<1>12. Reaching'
    BY <1>2 DEF Reaching
<1>13. Accepted'
    <2>1. SUFFICES ASSUME diagnostics' = {} PROVE Accepted'
        BY DEF Accepted, valid
    <2>2. incoming = {} /\ unreached = {}
        BY <1>5, <2>1
    <2>3. Nodes \subseteq reachable /\ \A n \in doc.entrypoints : EdgesInto(doc, n) = {}
        BY <2>2
    <2>4. doc.form = "graph" /\ StructuralDiagnostics(doc) = {}
        BY <1>1 DEF Types
    <2>5. \A S \in SUBSET Ids : doc'.entrypoints \subseteq S /\ Closed(S)' => reachable' \subseteq S
        BY <1>2, <1>4, <1>8
    <2>6. QED
        BY <1>2, <1>3, <1>7, <2>3, <2>4, <2>5 DEF Accepted
<1>14. QED
    BY <1>6, <1>7, <1>11, <1>12, <1>13 DEF CompilerInv, LayerInv

\* What compileGraph has returned stays.
LEMMA StutterKeeps ==
    ASSUME CompilerInv, UNCHANGED vars
    PROVE  CompilerInv'
<1>1. LayerInv /\ Types
    BY DEF CompilerInv, LayerInv
<1>2. UNCHANGED <<pc, doc, diagnostics, inDegree, currentLayer, layers, reachable, queue>>
    BY DEF vars
<1>3. LayersTight' /\ LayersDisjoint' /\ Declares' /\ Processed' = Processed /\ Nodes' = Nodes
    BY <1>1, <1>2, LayersKept DEF LayerInv
<1>4. Types'
    BY <1>1, <1>2 DEF Types, TypeOK
<1>5. \A n \in Ids : Left(n)' = Left(n)
    BY <1>2, <1>3 DEF Left, EdgesInto
<1>6. \A m, n : EdgeExists(m, n)' <=> EdgeExists(m, n)
    BY <1>2 DEF EdgeExists
<1>7. Nodes \subseteq Ids
    BY <1>1, DocFacts DEF Types, Nodes
<1>8. Counted'
    BY <1>1, <1>2, <1>3, <1>5, <1>6, <1>7 DEF LayerInv, Counted
<1>9. \A S : Closed(S)' <=> Closed(S)
    BY <1>2, ClosedKept
<1>10. Reaching' /\ Accepted'
    BY <1>2, <1>3, <1>6, <1>9 DEF CompilerInv, Reaching, Accepted, valid
<1>11. \A code : Reported(code)' = Reported(code)
    BY <1>2 DEF Reported
<1>12. ReachabilityLeast'
    BY <1>2, <1>3, <1>9, <1>11 DEF CompilerInv, ReachabilityLeast
<1>13. QED
    BY <1>3, <1>4, <1>8, <1>10, <1>12 DEF CompilerInv, LayerInv

\* CompilerInv is inductive.
LEMMA NextKeeps == CompilerInv /\ [Next]_vars => CompilerInv'
<1> SUFFICES ASSUME CompilerInv, [Next]_vars PROVE CompilerInv'
    OBVIOUS
<1>1. CASE Refuse
    BY <1>1, RefuseKeeps
<1>2. CASE Index
    BY <1>2, IndexKeeps
<1>3. CASE PushLayer
    <2>1. LayerInv'
        BY <1>3, PushLayerKeeps DEF CompilerInv
    <2>2. pc' = "layers"
        BY <1>3 DEF PushLayer
    <2>3. Reaching' /\ Accepted' /\ ReachabilityLeast'
        BY <2>2 DEF Reaching, Accepted, valid, ReachabilityLeast
    <2>4. QED
        BY <2>1, <2>3 DEF CompilerInv
<1>4. CASE FindCycle
    BY <1>4, FindCycleKeeps
<1>5. CASE CheckEntrypoints
    BY <1>5, CheckEntrypointsKeeps
<1>6. CASE \E n \in Ids : Visit(n)
    BY <1>6, VisitKeeps
<1>7. CASE CheckPolicies
    BY <1>7, CheckPoliciesKeeps
<1>8. CASE UNCHANGED vars
    BY <1>8, StutterKeeps
<1>9. QED
    BY <1>1, <1>2, <1>3, <1>4, <1>5, <1>6, <1>7, <1>8 DEF Next, Compiled

LEMMA InvAlways == Spec => []CompilerInv
    BY InitHolds, NextKeeps, PTL DEF Spec

\* compileGraph keeps its types; the in-degree counters, decremented once per
\* edge, never pass below zero.
THEOREM CompilerTypes == Spec => []TypeOK
<1>1. CompilerInv => TypeOK
    BY DEF CompilerInv, LayerInv, Types
<1>2. QED
    BY <1>1, InvAlways, PTL

\* Kahn layering of any document: every layer holds nodes whose upstream nodes
\* are all in earlier layers and, beyond the first, one of them in the layer
\* before; layers are disjoint and not empty.
THEOREM LayersAlwaysExact == Spec => []LayersExact
<1>1. CompilerInv => LayersExact
    BY DEF CompilerInv, LayerInv, LayersExact
<1>2. QED
    BY <1>1, InvAlways, PTL

\* Of any document without a cycle the reachability loop finds the least set
\* that holds the entrypoints and is closed under edges, and GE1006 names the
\* nodes outside it.
THEOREM ReachabilityAlwaysLeast == Spec => []ReachabilityLeast
<1>1. CompilerInv => ReachabilityLeast
    BY DEF CompilerInv
<1>2. QED
    BY <1>1, InvAlways, PTL

-----------------------------------------------------------------------------
(* The order runGraph takes from a valid compilation.                      *)

\* The sequence is a strict total order of the layered nodes.
Ordered ==
    /\ \A m, n \in Nodes : m # n => Earlier(m, n) \/ Earlier(n, m)
    /\ \A n \in Nodes : ~ Earlier(n, n)
    /\ \A k, m, n \in Nodes : Earlier(k, m) /\ Earlier(m, n) => Earlier(k, n)

\* The layer and the position of a node are what their definitions choose.
LEMMA Places ==
    ASSUME TypeOK, IsDocument(doc), LayersDisjoint, NEW n \in Nodes, n \in Processed
    PROVE  /\ LayerOf(n) \in DOMAIN layers /\ n \in layers[LayerOf(n)]
           /\ \A k \in DOMAIN layers : n \in layers[k] => k = LayerOf(n)
           /\ LayerOf(n) \in Nat
           /\ Declared(n) \in DOMAIN doc.nodes /\ doc.nodes[Declared(n)] = n
           /\ Declared(n) \in Nat
<1>1. \E k \in DOMAIN layers : n \in layers[k]
    BY DEF Processed
<1>2. LayerOf(n) \in DOMAIN layers /\ n \in layers[LayerOf(n)]
    BY <1>1 DEF LayerOf
<1>3. \A k \in DOMAIN layers : n \in layers[k] => k = LayerOf(n)
    BY <1>2 DEF LayersDisjoint
<1>4. \E i \in DOMAIN doc.nodes : doc.nodes[i] = n
    BY DEF Nodes, NodesOf
<1>5. Declared(n) \in DOMAIN doc.nodes /\ doc.nodes[Declared(n)] = n
    BY <1>4 DEF Declared
<1>6. DOMAIN layers \subseteq Nat
    BY DEF TypeOK
<1>7. DOMAIN doc.nodes \subseteq Nat
    BY DocFacts
<1>8. QED
    BY <1>2, <1>3, <1>5, <1>6, <1>7

LEMMA OrderTotal ==
    ASSUME TypeOK, IsDocument(doc), LayersDisjoint, Processed = Nodes
    PROVE  Ordered
<1>1. \A n \in Nodes : LayerOf(n) \in Nat /\ Declared(n) \in Nat /\ doc.nodes[Declared(n)] = n
    BY Places
<1>2. \A m, n \in Nodes : m # n => Declared(m) # Declared(n)
    BY <1>1
<1>3. ASSUME NEW m \in Nodes, NEW n \in Nodes, m # n PROVE Earlier(m, n) \/ Earlier(n, m)
    <2>1. \/ LayerOf(m) < LayerOf(n) \/ LayerOf(n) < LayerOf(m) \/ LayerOf(m) = LayerOf(n)
        BY <1>1
    <2>2. Declared(m) < Declared(n) \/ Declared(n) < Declared(m)
        BY <1>1, <1>2, <1>3
    <2>3. QED
        BY <2>1, <2>2 DEF Earlier
<1>4. \A n \in Nodes : ~ Earlier(n, n)
    BY <1>1 DEF Earlier
<1>5. ASSUME NEW k \in Nodes, NEW m \in Nodes, NEW n \in Nodes, Earlier(k, m), Earlier(m, n)
      PROVE  Earlier(k, n)
    BY <1>1, <1>5 DEF Earlier
<1>6. QED
    BY <1>3, <1>4, <1>5 DEF Ordered

\* An earlier node has a smaller sequence number.
LEMMA SequenceGrows ==
    ASSUME IsDocument(doc), Ordered, NEW m \in Nodes, NEW n \in Nodes, Earlier(m, n)
    PROVE  /\ SequenceOf(m) \in Nat /\ SequenceOf(n) \in Nat
           /\ SequenceOf(m) < SequenceOf(n)
<1> DEFINE before == {k \in Nodes : Earlier(k, m)}
           upTo == {k \in Nodes : Earlier(k, n)}
<1>1. IsFiniteSet(Nodes)
    BY DocFacts DEF Nodes
<1>2. before \in SUBSET upTo /\ upTo \in SUBSET Nodes /\ m \in upTo /\ m \notin before
    BY DEF Ordered
<1>3. IsFiniteSet(upTo)
    BY <1>1, <1>2, FS_Subset
<1>4. /\ IsFiniteSet(before) /\ Cardinality(before) <= Cardinality(upTo)
      /\ Cardinality(upTo) = Cardinality(before) => upTo = before
    BY <1>2, <1>3, FS_Subset
<1>5. Cardinality(before) \in Nat /\ Cardinality(upTo) \in Nat
    BY <1>3, <1>4, FS_CardinalityType
<1>6. Cardinality(before) # Cardinality(upTo)
    BY <1>2, <1>4
<1>7. SequenceOf(m) = Cardinality(before) /\ SequenceOf(n) = Cardinality(upTo)
    BY DEF SequenceOf
<1>8. QED
    BY <1>4, <1>5, <1>6, <1>7

\* The roots of a valid graph are its entrypoints: an entrypoint without
\* incoming edges is in the first layer, and a root that is reached must be an
\* entrypoint.
LEMMA RootsAreEntrypoints ==
    ASSUME CompilerInv, valid, layers # << >>
    PROVE  layers[1] = doc.entrypoints
<1>1. /\ IsDocument(doc) /\ TypeOK /\ LayersTight /\ Declares
    BY DEF CompilerInv, LayerInv, Types
<1>2. /\ StructuralDiagnostics(doc) = {} /\ Processed = Nodes
      /\ \A n \in doc.entrypoints : EdgesInto(doc, n) = {}
      /\ Nodes \subseteq reachable
      /\ \A S \in SUBSET Ids : doc.entrypoints \subseteq S /\ Closed(S) => reachable \subseteq S
    BY DEF CompilerInv, Accepted
<1>3. doc.entrypoints \subseteq Nodes /\ Nodes \subseteq Ids
    BY <1>1, <1>2, StructureFacts, DocFacts DEF Nodes
<1>4. 1 \in DOMAIN layers /\ DOMAIN layers = 1..Len(layers) /\ Len(layers) \in Nat
    BY <1>1 DEF TypeOK
<1>5. ASSUME NEW n \in doc.entrypoints PROVE n \in layers[1]
    <2>1. PICK k \in DOMAIN layers : n \in layers[k]
        BY <1>2, <1>3 DEF Processed
    <2>2. \A m : ~ EdgeExists(m, n)
        BY <1>2 DEF EdgeExists, EdgesInto
    <2>3. ~ k > 1
        BY <1>1, <2>1, <2>2 DEF LayersTight
    <2>4. k = 1
        BY <1>4, <2>3
    <2>5. QED
        BY <2>1, <2>4
<1>6. ASSUME NEW n \in layers[1] PROVE n \in doc.entrypoints
    <2> DEFINE S == doc.entrypoints \cup {k \in Ids : \E m \in Ids : EdgeExists(m, k)}
    <2>1. S \in SUBSET Ids
        BY <1>3
    <2>2. Closed(S)
        BY <2>1 DEF Closed
    <2>3. reachable \subseteq S
        BY <1>2, <2>1, <2>2
    <2>4. n \in Nodes
        BY <1>2, <1>4 DEF Processed
    <2>5. \A m \in Ids : ~ EdgeExists(m, n)
        <3>1. \A m \in Ids : EdgeExists(m, n) => \E j \in 1..(1 - 1) : m \in layers[j]
            BY <1>1, <1>4, <1>6 DEF LayersTight
        <3>2. 1..(1 - 1) = {}
            OBVIOUS
        <3>3. QED
            BY <3>1, <3>2
    <2>6. QED
        BY <1>2, <2>3, <2>4, <2>5
<1>7. QED
    BY <1>5, <1>6

LEMMA AcceptedRuns == CompilerInv => ValidGraphRuns
<1>1. ASSUME CompilerInv, valid PROVE ValidGraphRuns
    <2>1. /\ IsDocument(doc) /\ TypeOK /\ LayersTight /\ LayersDisjoint /\ Declares
        BY <1>1 DEF CompilerInv, LayerInv, Types
    <2>2. /\ doc.form = "graph" /\ StructuralDiagnostics(doc) = {} /\ Processed = Nodes
        BY <1>1 DEF CompilerInv, Accepted
    <2>3. Ordered
        BY <2>1, <2>2, OrderTotal
    <2>4. /\ \A i \in DOMAIN doc.edges : doc.edges[i].from \in Nodes /\ doc.edges[i].to \in Nodes
          /\ doc.outputs \subseteq Nodes
        BY <2>1, <2>2, StructureFacts DEF Nodes
    <2>5. ASSUME NEW i \in DOMAIN doc.edges
          PROVE  SequenceOf(doc.edges[i].from) < SequenceOf(doc.edges[i].to)
        <3> DEFINE m == doc.edges[i].from
                   n == doc.edges[i].to
        <3>1. m \in Nodes /\ n \in Nodes /\ m \in Ids /\ EdgeExists(m, n)
            BY <2>1, <2>4, DocFacts DEF EdgeExists
        <3>2. /\ LayerOf(n) \in DOMAIN layers /\ n \in layers[LayerOf(n)] /\ LayerOf(n) \in Nat
              /\ LayerOf(m) \in Nat
              /\ \A k \in DOMAIN layers : m \in layers[k] => k = LayerOf(m)
            BY <2>1, <2>2, <3>1, Places
        <3>3. PICK j \in 1..(LayerOf(n) - 1) : m \in layers[j]
            BY <2>1, <3>1, <3>2 DEF LayersTight
        <3>4. j \in DOMAIN layers /\ j < LayerOf(n)
            <4>1. DOMAIN layers = 1..Len(layers) /\ Len(layers) \in Nat
                BY <2>1 DEF TypeOK
            <4>2. QED
                BY <4>1, <3>2, <3>3
        <3>5. LayerOf(m) < LayerOf(n)
            BY <3>2, <3>3, <3>4
        <3>6. Earlier(m, n)
            BY <3>5 DEF Earlier
        <3>7. QED
            BY <2>1, <2>3, <3>1, <3>6, SequenceGrows
    <2>6. ASSUME NEW m \in Nodes, NEW n \in Nodes, SequenceOf(m) = SequenceOf(n), m # n
          PROVE  FALSE
        <3>1. Earlier(m, n) \/ Earlier(n, m)
            BY <2>3, <2>6 DEF Ordered
        <3>2. \/ SequenceOf(m) \in Nat /\ SequenceOf(n) \in Nat /\ SequenceOf(m) < SequenceOf(n)
              \/ SequenceOf(m) \in Nat /\ SequenceOf(n) \in Nat /\ SequenceOf(n) < SequenceOf(m)
            BY <2>1, <2>3, <3>1, SequenceGrows
        <3>3. QED
            BY <2>6, <3>2
    <2>7. layers # << >> => layers[1] = doc.entrypoints
        BY <1>1, RootsAreEntrypoints
    <2>8. QED
        BY <2>2, <2>4, <2>5, <2>6, <2>7 DEF ValidGraphRuns
<1>2. QED
    BY <1>1 DEF ValidGraphRuns

\* What runGraph relies on when compilation.valid holds, for any document: edges
\* join declared nodes, every node is layered, the sequence is an injective
\* topological numbering, and the roots are the entrypoints.
THEOREM ValidGraphAlwaysRuns == Spec => []ValidGraphRuns
    BY AcceptedRuns, InvAlways, PTL

-----------------------------------------------------------------------------
(* The cycle diagnostic.                                                   *)

\* The nodes the layer loop leaves over each have an upstream node among them.
LEMMA LeftOver ==
    ASSUME CompilerInv, FindCycle, NEW n \in Nodes \ Processed
    PROVE  \E m \in Nodes \ Processed : EdgeExists(m, n)
<1>1. pc = "layers" /\ currentLayer = {} /\ IsDocument(doc) /\ StructuralDiagnostics(doc) = {}
    BY DEF CompilerInv, LayerInv, Types, FindCycle
<1>2. currentLayer = {k \in Nodes : k \notin Processed /\ Left(k) = {}}
    BY <1>1 DEF CompilerInv, LayerInv, Counted
<1>3. PICK i \in Left(n) : TRUE
    BY <1>1, <1>2
<1>4. /\ i \in DOMAIN doc.edges /\ doc.edges[i].to = n
      /\ doc.edges[i].from \notin Processed
    BY <1>3 DEF Left, EdgesInto
<1>5. doc.edges[i].from \in Nodes
    BY <1>1, <1>4, StructureFacts DEF Nodes
<1>6. QED
    BY <1>4, <1>5 DEF EdgeExists

\* Diagnostics of the other steps are not about cycles.
LEMMA OthersSilent ==
    ASSUME CompilerInv, Refuse \/ Index \/ CheckEntrypoints \/ CheckPolicies
    PROVE  \A d \in diagnostics' : d.code # "GE1005_CYCLE"
<1>1. CASE Refuse
    BY <1>1 DEF Refuse, Diagnostic
<1>2. CASE Index
    BY <1>2 DEF Index, StructuralDiagnostics, DuplicateNodes, DuplicateEdges, MissingEnds,
                MissingReferences, Diagnostic
<1>3. CASE CheckEntrypoints
    BY <1>3 DEF CheckEntrypoints, Diagnostic
<1>4. CASE CheckPolicies
    <2>1. \A d \in diagnostics : d.code # "GE1005_CYCLE"
        BY <1>4 DEF CompilerInv, Reaching, CheckPolicies, Diagnostic
    <2>2. \A d \in PolicyDiagnostics : d.code # "GE1005_CYCLE"
        BY DEF PolicyDiagnostics, Diagnostic
    <2>3. \A d \in {Diagnostic("GE1006_UNREACHABLE_NODE", n) : n \in Nodes \ reachable} :
              d.code # "GE1005_CYCLE"
        BY DEF Diagnostic
    <2>4. diagnostics' = diagnostics \cup PolicyDiagnostics \cup
              {Diagnostic("GE1006_UNREACHABLE_NODE", n) : n \in Nodes \ reachable}
        BY <1>4 DEF CheckPolicies
    <2>5. QED
        BY <2>1, <2>2, <2>3, <2>4
<1>5. QED
    BY <1>1, <1>2, <1>3, <1>4

\* When compileGraph returns for a document without structural errors, it has
\* reported what the layer loop left over, if anything; each of those nodes has
\* an upstream node among them.
Ended ==
    pc = "done" /\ doc.form = "graph" /\ StructuralDiagnostics(doc) = {} =>
        /\ Reported("GE1005_CYCLE") = IF Processed = Nodes THEN {} ELSE {Nodes \ Processed}
        /\ \A n \in Nodes \ Processed : \E m \in Nodes \ Processed : EdgeExists(m, n)

LEMMA EndedKept == CompilerInv /\ Ended /\ [Next]_vars => Ended'
<1> SUFFICES ASSUME CompilerInv, Ended, [Next]_vars PROVE Ended'
    OBVIOUS
<1>1. CASE Refuse
    BY <1>1 DEF Refuse, Ended
<1>2. CASE Index
    BY <1>2 DEF Index, Ended
<1>3. CASE PushLayer \/ CheckEntrypoints \/ \E n \in Ids : Visit(n)
    BY <1>3 DEF PushLayer, CheckEntrypoints, Visit, Ended
<1>4. CASE FindCycle
    <2>1. UNCHANGED <<doc, layers>> /\ Processed # Nodes
          /\ diagnostics' = {Diagnostic("GE1005_CYCLE", Nodes \ Processed)}
        BY <1>4 DEF FindCycle
    <2>2. Nodes' = Nodes /\ Processed' = Processed /\ \A m, n : EdgeExists(m, n)' <=> EdgeExists(m, n)
        BY <2>1 DEF Nodes, EdgeExists, Processed
    <2>3. Reported("GE1005_CYCLE")' = {Nodes \ Processed}
        <3> DEFINE d == Diagnostic("GE1005_CYCLE", Nodes \ Processed)
        <3>1. d.code = "GE1005_CYCLE" /\ d.what = Nodes \ Processed
            BY DEF Diagnostic
        <3> HIDE DEF d
        <3>2. {f \in diagnostics' : f.code = "GE1005_CYCLE"} = {d}
            BY <2>1, <3>1 DEF d
        <3>3. Reported("GE1005_CYCLE")' = {f.what : f \in {d}}
            BY <3>2 DEF Reported
        <3>4. QED
            BY <3>1, <3>3
    <2>4. \A n \in Nodes \ Processed : \E m \in Nodes \ Processed : EdgeExists(m, n)
        BY <1>4, LeftOver
    <2>5. QED
        BY <2>1, <2>2, <2>3, <2>4 DEF Ended
<1>5. CASE CheckPolicies
    <2>1. \A d \in diagnostics' : d.code # "GE1005_CYCLE"
        BY <1>5, OthersSilent
    <2>2. Reported("GE1005_CYCLE")' = {}
        BY <2>1 DEF Reported
    <2>3. Processed = Nodes /\ UNCHANGED <<doc, layers>>
        BY <1>5 DEF CheckPolicies, CompilerInv, Reaching
    <2>4. Processed' = Nodes'
        BY <2>3 DEF Processed, Nodes
    <2>5. QED
        BY <2>2, <2>4 DEF Ended
<1>6. CASE UNCHANGED vars
    <2>1. UNCHANGED <<pc, doc, diagnostics, layers>>
        BY <1>6 DEF vars
    <2>2. /\ Nodes' = Nodes /\ Processed' = Processed
          /\ Reported("GE1005_CYCLE")' = Reported("GE1005_CYCLE")
          /\ \A m, n : EdgeExists(m, n)' <=> EdgeExists(m, n)
        BY <2>1 DEF Nodes, Processed, Reported, EdgeExists
    <2>3. QED
        BY <2>1, <2>2 DEF Ended
<1>7. QED
    BY <1>1, <1>2, <1>3, <1>4, <1>5, <1>6 DEF Next, Compiled

LEMMA EndedAlways == Spec => []Ended
<1>1. Init => Ended
    BY DEF Init, Ended
<1>2. QED
    BY <1>1, EndedKept, InvAlways, PTL DEF Spec

\* An edge of a document without structural errors ends at a declared node.
LEMMA EdgesDeclared ==
    ASSUME IsDocument(doc), StructuralDiagnostics(doc) = {}, NEW m, NEW n, EdgeExists(m, n)
    PROVE  m \in Nodes /\ n \in Nodes /\ m \in Ids /\ n \in Ids
<1>1. PICK i \in DOMAIN doc.edges : doc.edges[i].from = m /\ doc.edges[i].to = n
    BY DEF EdgeExists
<1>2. QED
    BY <1>1, StructureFacts, DocFacts DEF Nodes

\* What is upstream of a layered node is layered, in an earlier layer.
LEMMA UpstreamLayered ==
    ASSUME CompilerInv, StructuralDiagnostics(doc) = {},
           NEW k \in DOMAIN layers, NEW n \in layers[k], NEW m, EdgeExists(m, n)
    PROVE  \E j \in DOMAIN layers : j < k /\ m \in layers[j]
<1>1. IsDocument(doc) /\ TypeOK /\ LayersTight
    BY DEF CompilerInv, LayerInv, Types
<1>2. m \in Ids
    BY <1>1, EdgesDeclared
<1>3. PICK j \in 1..(k - 1) : m \in layers[j]
    BY <1>1, <1>2 DEF LayersTight
<1>4. DOMAIN layers = 1..Len(layers) /\ Len(layers) \in Nat
    BY <1>1 DEF TypeOK
<1>5. j \in DOMAIN layers /\ j < k
    BY <1>3, <1>4
<1>6. QED
    BY <1>3, <1>5

\* A layered node is on no cycle: the nodes in no layer up to its own are closed
\* and hold its targets, but not itself.
LEMMA LayeredOffCycle ==
    ASSUME CompilerInv, StructuralDiagnostics(doc) = {}, NEW n \in Processed
    PROVE  ~ OnCycle(n)
<1>1. PICK k \in DOMAIN layers : n \in layers[k]
    BY DEF Processed
<1> DEFINE S == {x \in Nodes : \A j \in DOMAIN layers : j <= k => x \notin layers[j]}
<1>2. IsDocument(doc) /\ TypeOK /\ LayersDisjoint
    BY DEF CompilerInv, LayerInv, Types
<1>3. DOMAIN layers \subseteq Nat
    BY <1>2 DEF TypeOK
<1>4. Closed(S)
    <2> SUFFICES ASSUME NEW x \in S, NEW y \in Ids, EdgeExists(x, y), y \notin S PROVE FALSE
        BY DEF Closed
    <2>1. y \in Nodes
        BY <1>2, EdgesDeclared
    <2>2. PICK j \in DOMAIN layers : j <= k /\ y \in layers[j]
        BY <2>1
    <2>3. PICK i \in DOMAIN layers : i < j /\ x \in layers[i]
        BY <2>2, UpstreamLayered
    <2>4. i <= k
        BY <1>3, <2>2, <2>3
    <2>5. QED
        BY <2>3, <2>4
<1>5. ASSUME NEW y \in Nodes, EdgeExists(n, y) PROVE y \in S
    <2> SUFFICES ASSUME y \notin S PROVE FALSE
        OBVIOUS
    <2>1. PICK j \in DOMAIN layers : j <= k /\ y \in layers[j]
        OBVIOUS
    <2>2. PICK i \in DOMAIN layers : i < j /\ n \in layers[i]
        BY <1>5, <2>1, UpstreamLayered
    <2>3. i # k
        BY <1>3, <2>1, <2>2
    <2>4. QED
        BY <1>1, <1>2, <2>2, <2>3 DEF LayersDisjoint
<1>6. S \in SUBSET Nodes /\ n \notin S
    BY <1>1, <1>3
<1> HIDE DEF S
<1>7. QED
    BY <1>4, <1>5, <1>6 DEF OnCycle, Downstream

\* Downstream of a node left over everything is left over.
LEMMA DownstreamLeftOver ==
    ASSUME CompilerInv, StructuralDiagnostics(doc) = {}, NEW m \in Nodes \ Processed
    PROVE  Downstream(m) \subseteq Nodes \ Processed
<1> DEFINE S == Nodes \ Processed
<1>1. ASSUME NEW x \in S, NEW y, EdgeExists(x, y) PROVE y \in S
    <2>1. IsDocument(doc)
        BY DEF CompilerInv, LayerInv, Types
    <2>2. y \in Nodes
        BY <1>1, <2>1, EdgesDeclared
    <2>3. ASSUME y \in Processed PROVE FALSE
        <3>1. PICK k \in DOMAIN layers : y \in layers[k]
            BY <2>3 DEF Processed
        <3>2. PICK j \in DOMAIN layers : x \in layers[j]
            BY <1>1, <3>1, UpstreamLayered
        <3>3. QED
            BY <1>1, <3>2 DEF Processed
    <2>4. QED
        BY <2>2, <2>3
<1>2. S \in SUBSET Nodes /\ m \in S
    OBVIOUS
<1> HIDE DEF S
<1>3. Closed(S)
    BY <1>1 DEF Closed
<1>4. Downstream(m) \subseteq S
    BY <1>1, <1>2, <1>3 DEF Downstream
<1>5. QED
    BY <1>4 DEF S

\* An edge brings its target, and what is downstream of that, downstream.
LEMMA DownstreamStep ==
    ASSUME NEW p, NEW m \in Nodes, EdgeExists(p, m), Nodes \subseteq Ids
    PROVE  m \in Downstream(p) /\ Downstream(m) \subseteq Downstream(p)
<1>1. m \in Downstream(p)
    BY DEF Downstream
<1>2. ASSUME NEW n \in Downstream(m), NEW S \in SUBSET Nodes, Closed(S),
             \A k \in Nodes : EdgeExists(p, k) => k \in S
      PROVE  n \in S
    <2>1. m \in S
        BY <1>2
    <2>2. \A k \in Nodes : EdgeExists(m, k) => k \in S
        BY <1>2, <2>1 DEF Closed
    <2>3. QED
        BY <1>2, <2>2 DEF Downstream
<1>3. \A n \in Downstream(m) : n \in Nodes
    BY DEF Downstream
<1>4. \A n \in Downstream(m) : n \in Downstream(p)
    BY <1>2, <1>3 DEF Downstream
<1>5. QED
    BY <1>1, <1>4

\* A set of naturals that is not empty has a least element.
LEMMA Least ==
    ASSUME NEW S \in SUBSET Nat, NEW x \in S
    PROVE  \E l \in S : \A y \in S : l <= y
<1>1. S \subseteq Nat /\ S # {}
    OBVIOUS
<1>2. PICK l \in S : \A y \in S : ~ (<<y, l>> \in OpToRel(<, Nat))
    BY <1>1, NatLessThanWellFounded, WFMin
<1>3. l \in Nat /\ \A y \in S : y \in Nat /\ ~ (y < l)
    BY <1>1, <1>2 DEF OpToRel
<1>4. \A y \in S : l <= y
    BY <1>3
<1>5. QED
    BY <1>4

\* A node left over is on a cycle or downstream of one: of the nodes left over
\* that lead to it, one with the most downstream has an upstream node with no
\* more, and is therefore downstream of itself.
LEMMA LeftOverStuck ==
    ASSUME CompilerInv, StructuralDiagnostics(doc) = {},
           \A n \in Nodes \ Processed : \E m \in Nodes \ Processed : EdgeExists(m, n),
           NEW n \in Nodes \ Processed
    PROVE  \E m \in Nodes : OnCycle(m) /\ (n = m \/ n \in Downstream(m))
<1> DEFINE A == {m \in Nodes \ Processed : n = m \/ n \in Downstream(m)}
           size(m) == Cardinality(Nodes) - Cardinality(Downstream(m))
<1>1. IsFiniteSet(Nodes) /\ Nodes \subseteq Ids
    BY DocFacts DEF Nodes, CompilerInv, LayerInv, Types
<1>2. Cardinality(Nodes) \in Nat
    BY <1>1, FS_CardinalityType
<1>3. ASSUME NEW m
      PROVE  IsFiniteSet(Downstream(m)) /\ Cardinality(Downstream(m)) \in Nat /\ size(m) \in Nat
    <2>1. Downstream(m) \in SUBSET Nodes
        BY DEF Downstream
    <2>2. IsFiniteSet(Downstream(m)) /\ Cardinality(Downstream(m)) <= Cardinality(Nodes)
        BY <1>1, <2>1, FS_Subset
    <2>3. Cardinality(Downstream(m)) \in Nat
        BY <2>2, FS_CardinalityType
    <2>4. QED
        BY <1>2, <2>2, <2>3
<1>4. n \in A /\ A \subseteq Nodes
    OBVIOUS
<1> DEFINE sizes == {size(m) : m \in A}
<1>5. sizes \in SUBSET Nat /\ size(n) \in sizes
    BY <1>3, <1>4
<1>6. PICK l \in sizes : \A y \in sizes : l <= y
    BY <1>5, Least
<1>7. PICK m \in A : l = size(m)
    BY <1>6
<1>8. PICK p \in Nodes \ Processed : EdgeExists(p, m)
    BY <1>7
<1>9. m \in Downstream(p) /\ Downstream(m) \subseteq Downstream(p)
    BY <1>1, <1>7, <1>8, DownstreamStep
<1>10. p \in A
    BY <1>7, <1>8, <1>9
<1>11. size(m) <= size(p)
    BY <1>6, <1>7, <1>10
<1>12. Cardinality(Downstream(p)) <= Cardinality(Downstream(m))
    <2>1. /\ Cardinality(Downstream(p)) \in Nat /\ Cardinality(Downstream(m)) \in Nat
        BY <1>3
    <2>2. QED
        BY <1>2, <1>11, <2>1
<1>13. Downstream(m) = Downstream(p)
    <2>1. Downstream(m) \in SUBSET Downstream(p) /\ IsFiniteSet(Downstream(p))
        BY <1>3, <1>9
    <2>2. /\ Cardinality(Downstream(m)) <= Cardinality(Downstream(p))
          /\ Cardinality(Downstream(p)) = Cardinality(Downstream(m)) => Downstream(p) = Downstream(m)
        BY <2>1, FS_Subset
    <2>3. /\ Cardinality(Downstream(p)) \in Nat /\ Cardinality(Downstream(m)) \in Nat
        BY <1>3
    <2>4. QED
        BY <1>12, <2>2, <2>3
<1>14. OnCycle(m)
    BY <1>9, <1>13 DEF OnCycle
<1>15. QED
    BY <1>4, <1>7, <1>14

LEMMA EndedExact == CompilerInv /\ Ended => CycleExact
<1>1. ASSUME CompilerInv, Ended, pc = "done", doc.form = "graph", StructuralDiagnostics(doc) = {}
      PROVE  CycleExact
    <2> DEFINE stuck == {n \in Nodes : \E m \in Nodes : OnCycle(m) /\ (n = m \/ n \in Downstream(m))}
    <2>1. /\ Reported("GE1005_CYCLE") = IF Processed = Nodes THEN {} ELSE {Nodes \ Processed}
          /\ \A n \in Nodes \ Processed : \E m \in Nodes \ Processed : EdgeExists(m, n)
        BY <1>1 DEF Ended
    <2>2. ASSUME NEW n \in stuck PROVE n \in Nodes \ Processed
        <3>1. PICK m \in Nodes : OnCycle(m) /\ (n = m \/ n \in Downstream(m))
            BY <2>2
        <3>2. m \notin Processed
            BY <1>1, <3>1, LayeredOffCycle
        <3>3. QED
            BY <1>1, <3>1, <3>2, DownstreamLeftOver
    <2>3. ASSUME NEW n \in Nodes \ Processed PROVE n \in stuck
        BY <1>1, <2>1, <2>3, LeftOverStuck
    <2>4. stuck = Nodes \ Processed
        BY <2>2, <2>3
    <2>5. Processed = Nodes <=> stuck = {}
        BY <1>1, <2>4 DEF CompilerInv, LayerInv, Declares
    <2>6. Reported("GE1005_CYCLE") = IF stuck = {} THEN {} ELSE {stuck}
        BY <2>1, <2>4, <2>5
    <2>7. QED
        BY <2>6 DEF CycleExact
<1>2. QED
    BY <1>1 DEF CycleExact

\* GE1005 is right both ways for every document: it is reported exactly when a
\* node lies on a cycle, and names the nodes on cycles and all downstream of them.
THEOREM CyclesAlwaysExact == Spec => []CycleExact
    BY EndedExact, InvAlways, EndedAlways, PTL

-----------------------------------------------------------------------------
(* The checks of a builder.                                                *)

PatternCodes ==
    {"GE_PATTERN_INVALID_INPUT", "GE_PATTERN_UNKNOWN_FIELD", "GE_PATTERN_INVALID_IDENTIFIER",
     "GE_PATTERN_DUPLICATE_KEY", "GE_PATTERN_EMPTY_COLLECTION", "GE_PATTERN_TOO_MANY_ITEMS",
     "GE_PATTERN_DUPLICATE_NODE_ID", "GE_PATTERN_RESERVED_LABEL_CONFLICT",
     "GE_PATTERN_INVALID_MAX_ROUNDS", "GE_PATTERN_ROUND_COUNT_MISMATCH"}

\* A list of checks, each a condition and the code thrown when it holds.
IsCheckList(s) ==
    /\ s \in Seq(BOOLEAN \X (PatternCodes \cup {"none"}))
    /\ \A i \in DOMAIN s : s[i][1] => s[i][2] \in PatternCodes

Silent(s) == \A i \in DOMAIN s : ~ s[i][1]

\* FirstError finds an error exactly when some check fails.
LEMMA FirstErrorFacts ==
    ASSUME NEW s, IsCheckList(s)
    PROVE  /\ FirstError(s) \in PatternCodes \cup {"none"}
           /\ FirstError(s) = "none" <=> Silent(s)
<1> DEFINE failing == {i \in DOMAIN s : s[i][1]}
           first == CHOOSE i \in failing : \A j \in failing : i <= j
<1>1. "none" \notin PatternCodes
    BY DEF PatternCodes
<1>2. FirstError(s) = IF failing = {} THEN "none" ELSE s[first][2]
    BY DEF FirstError
<1>3. CASE failing = {}
    BY <1>2, <1>3 DEF Silent
<1>4. CASE failing # {}
    <2>1. DOMAIN s \subseteq Nat
        BY DEF IsCheckList
    <2>2. failing \in SUBSET Nat
        BY <2>1
    <2>3. PICK x \in failing : TRUE
        BY <1>4
    <2>4. \E i \in failing : \A j \in failing : i <= j
        BY <2>2, <2>3, Least
    <2>5. first \in failing
        BY <2>4
    <2>6. s[first][2] \in PatternCodes
        BY <2>5 DEF IsCheckList
    <2>7. ~ Silent(s)
        BY <2>3 DEF Silent
    <2>8. QED
        BY <1>1, <1>2, <1>4, <2>6, <2>7
<1>5. QED
    BY <1>3, <1>4

LEMMA ConcatChecks ==
    ASSUME NEW s, NEW t, IsCheckList(s), IsCheckList(t)
    PROVE  IsCheckList(s \o t) /\ (Silent(s \o t) <=> Silent(s) /\ Silent(t))
<1> DEFINE C == BOOLEAN \X (PatternCodes \cup {"none"})
<1>1. s \in Seq(C) /\ t \in Seq(C)
    BY DEF IsCheckList
<1> HIDE DEF C
<1>2. /\ s \o t \in Seq(C)
      /\ DOMAIN s = 1..Len(s) /\ DOMAIN t = 1..Len(t)
      /\ Len(s) \in Nat /\ Len(t) \in Nat
      /\ DOMAIN (s \o t) = 1..(Len(s) + Len(t))
      /\ \A i \in 1..Len(s) : (s \o t)[i] = s[i]
      /\ \A i \in (Len(s) + 1)..(Len(s) + Len(t)) : (s \o t)[i] = t[i - Len(s)]
    BY <1>1
<1>3. \A i \in DOMAIN (s \o t) : \/ i \in DOMAIN s /\ (s \o t)[i] = s[i]
                                 \/ i - Len(s) \in DOMAIN t /\ (s \o t)[i] = t[i - Len(s)]
    <2> SUFFICES ASSUME NEW i \in 1..(Len(s) + Len(t))
                 PROVE  \/ i \in 1..Len(s) /\ (s \o t)[i] = s[i]
                        \/ i - Len(s) \in 1..Len(t) /\ (s \o t)[i] = t[i - Len(s)]
        BY <1>2
    <2>1. CASE i <= Len(s)
        BY <1>2, <2>1
    <2>2. CASE i > Len(s)
        <3>1. i \in (Len(s) + 1)..(Len(s) + Len(t)) /\ i - Len(s) \in 1..Len(t)
            BY <1>2, <2>2
        <3>2. QED
            BY <1>2, <3>1
    <2>3. QED
        BY <1>2, <2>1, <2>2
<1>4. \A i \in DOMAIN s : i \in DOMAIN (s \o t) /\ (s \o t)[i] = s[i]
    BY <1>2
<1>5. ASSUME NEW i \in DOMAIN t
      PROVE  Len(s) + i \in DOMAIN (s \o t) /\ (s \o t)[Len(s) + i] = t[i]
    <2>1. i \in 1..Len(t)
        BY <1>2
    <2>2. Len(s) + i \in (Len(s) + 1)..(Len(s) + Len(t)) /\ (Len(s) + i) - Len(s) = i
        BY <1>2, <2>1
    <2>3. Len(s) + i \in 1..(Len(s) + Len(t))
        BY <1>2, <2>1
    <2>4. QED
        BY <1>2, <2>2, <2>3
<1>6. \A i \in DOMAIN (s \o t) : (s \o t)[i][1] => (s \o t)[i][2] \in PatternCodes
    BY <1>3 DEF IsCheckList
<1>7. IsCheckList(s \o t)
    BY <1>2, <1>6 DEF IsCheckList, C
<1>8. Silent(s \o t) <=> Silent(s) /\ Silent(t)
    BY <1>3, <1>4, <1>5 DEF Silent
<1>9. QED
    BY <1>7, <1>8


\* A check, and lists of checks written out.
IsCheck(x) == x \in BOOLEAN \X (PatternCodes \cup {"none"}) /\ (x[1] => x[2] \in PatternCodes)

LEMMA OneCheck ==
    ASSUME NEW p \in BOOLEAN, NEW c, p => c \in PatternCodes, c \in PatternCodes \cup {"none"}
    PROVE  IsCheck(<<p, c>>) /\ <<p, c>>[1] = p
    BY DEF IsCheck

LEMMA CheckLists ==
    /\ \A a : IsCheck(a) => IsCheckList(<<a>>) /\ (Silent(<<a>>) <=> ~ a[1])
    /\ \A a, b : IsCheck(a) /\ IsCheck(b)
          => IsCheckList(<<a, b>>) /\ (Silent(<<a, b>>) <=> ~ a[1] /\ ~ b[1])
    /\ \A a, b, c, d : IsCheck(a) /\ IsCheck(b) /\ IsCheck(c) /\ IsCheck(d)
          => /\ IsCheckList(<<a, b, c, d>>)
             /\ Silent(<<a, b, c, d>>) <=> ~ a[1] /\ ~ b[1] /\ ~ c[1] /\ ~ d[1]
    /\ \A a, b, c, d, e : IsCheck(a) /\ IsCheck(b) /\ IsCheck(c) /\ IsCheck(d) /\ IsCheck(e)
          => /\ IsCheckList(<<a, b, c, d, e>>)
             /\ Silent(<<a, b, c, d, e>>) <=> ~ a[1] /\ ~ b[1] /\ ~ c[1] /\ ~ d[1] /\ ~ e[1]
<1>1. \A a : IsCheck(a) => IsCheckList(<<a>>) /\ (Silent(<<a>>) <=> ~ a[1])
    BY DEF IsCheck, IsCheckList, Silent
<1>2. \A a, b : IsCheck(a) /\ IsCheck(b)
          => IsCheckList(<<a, b>>) /\ (Silent(<<a, b>>) <=> ~ a[1] /\ ~ b[1])
    BY DEF IsCheck, IsCheckList, Silent
<1>3. \A a, b, c, d : IsCheck(a) /\ IsCheck(b) /\ IsCheck(c) /\ IsCheck(d)
          => /\ IsCheckList(<<a, b, c, d>>)
             /\ Silent(<<a, b, c, d>>) <=> ~ a[1] /\ ~ b[1] /\ ~ c[1] /\ ~ d[1]
    BY DEF IsCheck, IsCheckList, Silent
<1>4. \A a, b, c, d, e : IsCheck(a) /\ IsCheck(b) /\ IsCheck(c) /\ IsCheck(d) /\ IsCheck(e)
          => /\ IsCheckList(<<a, b, c, d, e>>)
             /\ Silent(<<a, b, c, d, e>>) <=> ~ a[1] /\ ~ b[1] /\ ~ c[1] /\ ~ d[1] /\ ~ e[1]
    BY DEF IsCheck, IsCheckList, Silent
<1>5. QED
    BY <1>1, <1>2, <1>3, <1>4

LEMMA OptionChecks ==
    ASSUME NEW o
    PROVE  /\ IsCheckList(optionChecks(o))
           /\ Silent(optionChecks(o)) <=> o.form # "unportable" /\ o.form # "unknown"
<1> DEFINE a == <<o.form = "unportable", "GE_PATTERN_INVALID_INPUT">>
           b == <<o.form = "unknown", "GE_PATTERN_UNKNOWN_FIELD">>
<1>1. IsCheck(a) /\ a[1] = (o.form = "unportable")
    BY OneCheck DEF PatternCodes
<1>2. IsCheck(b) /\ b[1] = (o.form = "unknown")
    BY OneCheck DEF PatternCodes
<1>3. optionChecks(o) = <<a, b>>
    BY DEF optionChecks
<1> HIDE DEF a, b
<1>4. QED
    BY <1>1, <1>2, <1>3, CheckLists

LEMMA NodesCheck ==
    ASSUME NEW nodes
    PROVE  /\ IsCheck(parseNodes(nodes))
           /\ parseNodes(nodes)[1] <=> \E k \in DOMAIN nodes : nodes[k] \in BadNodes
<1> DEFINE p == \E k \in DOMAIN nodes : nodes[k] \in BadNodes
           first == \E k \in DOMAIN nodes : nodes[k] = NotObject /\ \A l \in 1..(k - 1) : nodes[l] # BadId
           code == IF first THEN "GE_PATTERN_INVALID_INPUT" ELSE "GE_PATTERN_INVALID_IDENTIFIER"
<1>1. code \in PatternCodes
    <2> HIDE DEF first
    <2>1. QED
        BY DEF PatternCodes
<1>2. p \in BOOLEAN
    OBVIOUS
<1>3. parseNodes(nodes) = <<p, code>>
    BY DEF parseNodes
<1> HIDE DEF code, p
<1>4. IsCheck(<<p, code>>) /\ <<p, code>>[1] = p
    BY <1>1, <1>2, OneCheck
<1>5. QED
    BY <1>3, <1>4 DEF p

LEMMA ParseNode ==
    ASSUME NEW id
    PROVE  IsCheckList(parseNode(id)) /\ (Silent(parseNode(id)) <=> id \notin BadNodes)
<1> DEFINE nodes == <<id>>
<1>1. DOMAIN nodes = 1..1 /\ nodes[1] = id
    OBVIOUS
<1> HIDE DEF nodes
<1>2. PICK a : a = parseNodes(nodes)
    OBVIOUS
<1>3. IsCheck(a) /\ (a[1] <=> \E k \in DOMAIN nodes : nodes[k] \in BadNodes)
    BY <1>2, NodesCheck
<1>4. a[1] <=> id \in BadNodes
    BY <1>1, <1>3
<1>5. parseNode(id) = <<a>>
    BY <1>2 DEF parseNode, nodes
<1>6. QED
    BY <1>3, <1>4, <1>5, CheckLists

LEMMA UniqueChecks ==
    ASSUME NEW nodes
    PROVE  /\ IsCheckList(assertUniqueNodeIds(nodes))
           /\ Silent(assertUniqueNodeIds(nodes))
                 <=> \A i, j \in DOMAIN nodes : ~ (i < j /\ nodes[i] = nodes[j])
<1> DEFINE p == \E i, j \in DOMAIN nodes : i < j /\ nodes[i] = nodes[j]
           a == <<p, "GE_PATTERN_DUPLICATE_NODE_ID">>
<1>1. assertUniqueNodeIds(nodes) = <<a>>
    BY DEF assertUniqueNodeIds
<1>2. ~ p <=> \A i, j \in DOMAIN nodes : ~ (i < j /\ nodes[i] = nodes[j])
    OBVIOUS
<1>3. p \in BOOLEAN
    OBVIOUS
<1> HIDE DEF p
<1>4. IsCheck(a) /\ a[1] = p
    BY <1>3, OneCheck DEF PatternCodes
<1> HIDE DEF a
<1>5. QED
    BY <1>1, <1>2, <1>4, CheckLists

LEMMA BuildChecks ==
    ASSUME NEW o, o.records \in BOOLEAN
    PROVE  /\ IsCheckList(buildChecks(o))
           /\ Silent(buildChecks(o)) <=> /\ o.outputKey # "unsafe" /\ o.records
                                         /\ o.metadata # "badName" /\ o.metadata # "otherLabel"
<1> DEFINE a == <<o.outputKey = "unsafe", "GE_PATTERN_INVALID_IDENTIFIER">>
           b == <<~ o.records, "GE_PATTERN_INVALID_INPUT">>
           c == <<o.metadata = "badName", "GE_PATTERN_INVALID_IDENTIFIER">>
           d == <<o.metadata = "otherLabel", "GE_PATTERN_RESERVED_LABEL_CONFLICT">>
<1>1. IsCheck(a) /\ a[1] = (o.outputKey = "unsafe")
    BY OneCheck DEF PatternCodes
<1>2. IsCheck(b) /\ (~ b[1] <=> o.records)
    <2>1. IsCheck(b) /\ b[1] = (~ o.records)
        BY OneCheck DEF PatternCodes
    <2> HIDE DEF b
    <2>2. QED
        BY <2>1
<1>3. IsCheck(c) /\ c[1] = (o.metadata = "badName")
    BY OneCheck DEF PatternCodes
<1>4. IsCheck(d) /\ d[1] = (o.metadata = "otherLabel")
    BY OneCheck DEF PatternCodes
<1>5. buildChecks(o) = <<a, b, c, d>>
    BY DEF buildChecks
<1> HIDE DEF a, b, c, d
<1>6. /\ IsCheckList(<<a, b, c, d>>)
      /\ Silent(<<a, b, c, d>>) <=> ~ a[1] /\ ~ b[1] /\ ~ c[1] /\ ~ d[1]
    BY <1>1, <1>2, <1>3, <1>4, CheckLists
<1>7. QED
    BY <1>1, <1>2, <1>3, <1>4, <1>5, <1>6

\* One entry is in order: its shape, its key, and its nodes.
EntryInOrder(items, i) ==
    /\ items[i].entry # "other" /\ items[i].entry # "extra" /\ items[i].key # 0
    /\ \A j \in 1..(i - 1) : items[j].key # items[i].key
    /\ \A k \in DOMAIN items[i].nodes : items[i].nodes[k] \notin BadNodes

LEMMA EntryChecks ==
    ASSUME NEW items, NEW i
    PROVE  /\ IsCheckList(entryChecks(items, i))
           /\ Silent(entryChecks(items, i)) <=> EntryInOrder(items, i)
<1> DEFINE p == \E j \in 1..(i - 1) : items[j].key = items[i].key
           q == \E k \in DOMAIN items[i].nodes : items[i].nodes[k] \in BadNodes
           a == <<items[i].entry = "other", "GE_PATTERN_INVALID_INPUT">>
           b == <<items[i].entry = "extra", "GE_PATTERN_UNKNOWN_FIELD">>
           c == <<items[i].key = 0, "GE_PATTERN_INVALID_IDENTIFIER">>
           d == <<p, "GE_PATTERN_DUPLICATE_KEY">>
           e == parseNodes(items[i].nodes)
<1>1. IsCheck(a) /\ a[1] = (items[i].entry = "other")
    BY OneCheck DEF PatternCodes
<1>2. IsCheck(b) /\ b[1] = (items[i].entry = "extra")
    BY OneCheck DEF PatternCodes
<1>3. IsCheck(c) /\ c[1] = (items[i].key = 0)
    BY OneCheck DEF PatternCodes
<1>4. entryChecks(items, i) = <<a, b, c, d, e>>
    BY DEF entryChecks
<1>5. (~ p <=> \A j \in 1..(i - 1) : items[j].key # items[i].key)
      /\ (~ q <=> \A k \in DOMAIN items[i].nodes : items[i].nodes[k] \notin BadNodes)
    OBVIOUS
<1>6. p \in BOOLEAN
    OBVIOUS
<1>8. IsCheck(e) /\ (e[1] <=> q)
    BY NodesCheck
<1> HIDE DEF p, q
<1>7. IsCheck(d) /\ d[1] = p
    BY <1>6, OneCheck DEF PatternCodes
<1> HIDE DEF a, b, c, d, e
<1>9. /\ IsCheckList(<<a, b, c, d, e>>)
      /\ Silent(<<a, b, c, d, e>>) <=> ~ a[1] /\ ~ b[1] /\ ~ c[1] /\ ~ d[1] /\ ~ e[1]
    BY <1>1, <1>2, <1>3, <1>7, <1>8, CheckLists
<1>10. QED
    BY <1>1, <1>2, <1>3, <1>4, <1>5, <1>7, <1>8, <1>9 DEF EntryInOrder

LEMMA ListChecks ==
    ASSUME NEW isArray \in BOOLEAN, NEW S, NEW items \in Seq(S)
    PROVE  /\ IsCheckList(listChecks(isArray, items))
           /\ Silent(listChecks(isArray, items))
                 <=> /\ isArray /\ items # << >> /\ ~ (Len(items) > MaxPatternItems)
                     /\ \A i \in DOMAIN items : EntryInOrder(items, i)
<1> DEFINE error(i) == FirstError(entryChecks(items, i))
           all == [i \in DOMAIN items |-> <<error(i) # "none", error(i)>>]
           p == \E i \in DOMAIN items : error(i) # "none"
           a == <<~ isArray, "GE_PATTERN_INVALID_INPUT">>
           b == <<items = << >>, "GE_PATTERN_EMPTY_COLLECTION">>
           c == <<Len(items) > MaxPatternItems, "GE_PATTERN_TOO_MANY_ITEMS">>
           d == <<p, FirstError(all)>>
<1>1. \A i : error(i) \in PatternCodes \cup {"none"} /\ (error(i) = "none" <=> EntryInOrder(items, i))
    BY EntryChecks, FirstErrorFacts
<1>2. listChecks(isArray, items) = <<a, b, c, d>>
    BY DEF listChecks
<1>3. ~ p <=> \A i \in DOMAIN items : EntryInOrder(items, i)
    BY <1>1
<1>4. IsCheck(a) /\ a[1] = (~ isArray)
    BY OneCheck DEF PatternCodes
<1>5. IsCheck(b) /\ b[1] = (items = << >>)
    BY OneCheck DEF PatternCodes
<1>6. IsCheck(c) /\ c[1] = (Len(items) > MaxPatternItems)
    <2>1. (Len(items) > MaxPatternItems) \in BOOLEAN
        BY PatternAssumption
    <2>2. QED
        BY <2>1, OneCheck DEF PatternCodes
<1>7. /\ IsCheckList(all) /\ (Silent(all) <=> ~ p)
    <2>1. DOMAIN items = 1..Len(items) /\ Len(items) \in Nat
        OBVIOUS
    <2>2. \A i \in DOMAIN items :
              <<error(i) # "none", error(i)>> \in BOOLEAN \X (PatternCodes \cup {"none"})
        BY <1>1
    <2> HIDE DEF error
    <2>3. all \in Seq(BOOLEAN \X (PatternCodes \cup {"none"}))
        BY <2>1, <2>2
    <2>4. DOMAIN all = DOMAIN items /\ \A i \in DOMAIN items : all[i] = <<error(i) # "none", error(i)>>
        OBVIOUS
    <2> HIDE DEF all
    <2>5. \A i \in DOMAIN items : all[i][1] = (error(i) # "none") /\ all[i][2] = error(i)
        BY <2>4
    <2>6. QED
        BY <1>1, <2>3, <2>4, <2>5 DEF IsCheckList, Silent
<1>8. FirstError(all) \in PatternCodes \cup {"none"} /\ (FirstError(all) = "none" <=> ~ p)
    BY <1>7, FirstErrorFacts
<1>9. p \in BOOLEAN
    OBVIOUS
<1> HIDE DEF p, all
<1>10. IsCheck(d) /\ d[1] = p
    BY <1>8, <1>9, OneCheck
<1> HIDE DEF a, b, c, d
<1>11. /\ IsCheckList(<<a, b, c, d>>)
       /\ Silent(<<a, b, c, d>>) <=> ~ a[1] /\ ~ b[1] /\ ~ c[1] /\ ~ d[1]
    BY <1>4, <1>5, <1>6, <1>10, CheckLists
<1>12. QED
    BY <1>2, <1>3, <1>4, <1>5, <1>6, <1>10, <1>11

\* What the checks of a call let through, in the order of the code.
ListInOrder(o) ==
    /\ o.array /\ o.items # << >> /\ ~ (Len(o.items) > MaxPatternItems)
    /\ \A i \in DOMAIN o.items : EntryInOrder(o.items, i)

Unique(nodes) == \A i, j \in DOMAIN nodes : ~ (i < j /\ nodes[i] = nodes[j])

BuildInOrder(o) ==
    /\ o.outputKey # "unsafe" /\ o.records
    /\ o.metadata # "badName" /\ o.metadata # "otherLabel"

CallInOrder(o) ==
    /\ o.form # "unportable" /\ o.form # "unknown"
    /\ IF IsLoop(o) THEN o.maxRounds \in 1..MaxPatternItems /\ Len(o.items) = o.maxRounds
       ELSE o.head \notin BadNodes
    /\ ListInOrder(o)
    /\ o.tail \notin BadNodes
    /\ Unique(PatternNodes(o))
    /\ BuildInOrder(o)

LEMMA CallFacts ==
    ASSUME NEW o, IsCall(o)
    PROVE  /\ o.form \in {"ok", "unportable", "unknown"} /\ o.array \in BOOLEAN /\ o.records \in BOOLEAN
           /\ o.head \in Ids \cup BadNodes /\ o.tail \in Ids \cup BadNodes /\ o.maxRounds \in Nat
           /\ o.outputKey \in {"ok", "unsafe"} /\ o.metadata \in {"ok", "badName", "otherLabel"}
           /\ o.core \in {"graph", "unportable", "invalid"}
           /\ o.maxFanOut \in Nat \cup {NoLimit} /\ o.maxDepth \in Nat \cup {NoLimit}
           /\ Len(o.items) \in Nat /\ DOMAIN o.items = 1..Len(o.items)
           /\ o.items = << >> <=> Len(o.items) = 0
           /\ \A i \in DOMAIN o.items :
                 /\ o.items[i].entry \in {"ok", "other", "extra"} /\ o.items[i].key \in Nat
                 /\ DOMAIN o.items[i].nodes = IF IsLoop(o) THEN {1, 2} ELSE {1}
                 /\ \A k \in DOMAIN o.items[i].nodes : o.items[i].nodes[k] \in Ids \cup BadNodes
<1> DEFINE N == Seq(Ids \cup BadNodes)
           E == [entry : {"ok", "other", "extra"}, key : Nat, nodes : N]
<1>1. o \in [pattern : {"diamond", "routed-branches", "verified-fanout", "loop-until-dry"},
             form : {"ok", "unportable", "unknown"}, array : BOOLEAN, records : BOOLEAN,
             items : Seq(E), head : Ids \cup BadNodes, tail : Ids \cup BadNodes, maxRounds : Nat,
             outputKey : {"ok", "unsafe"}, metadata : {"ok", "badName", "otherLabel"},
             core : {"graph", "unportable", "invalid"},
             maxFanOut : Nat \cup {NoLimit}, maxDepth : Nat \cup {NoLimit}]
    BY DEF IsCall
<1>2. \A i \in DOMAIN o.items : Len(o.items[i].nodes) = IF IsLoop(o) THEN 2 ELSE 1
    BY DEF IsCall, IsLoop
<1>3. \A e \in E : e.entry \in {"ok", "other", "extra"} /\ e.key \in Nat /\ e.nodes \in N
    OBVIOUS
<1>4. \A nodes \in N : /\ DOMAIN nodes = 1..Len(nodes)
                       /\ \A k \in DOMAIN nodes : nodes[k] \in Ids \cup BadNodes
    OBVIOUS
<1> HIDE DEF E, N
<1>5. /\ Len(o.items) \in Nat /\ DOMAIN o.items = 1..Len(o.items)
      /\ o.items = << >> <=> Len(o.items) = 0
      /\ \A i \in DOMAIN o.items : o.items[i] \in E
    BY <1>1
<1>6. 1..1 = {1} /\ 1..2 = {1, 2}
    OBVIOUS
<1>7. ASSUME NEW i \in DOMAIN o.items
      PROVE  /\ o.items[i].entry \in {"ok", "other", "extra"} /\ o.items[i].key \in Nat
             /\ DOMAIN o.items[i].nodes = IF IsLoop(o) THEN {1, 2} ELSE {1}
             /\ \A k \in DOMAIN o.items[i].nodes : o.items[i].nodes[k] \in Ids \cup BadNodes
    <2>1. /\ o.items[i].entry \in {"ok", "other", "extra"} /\ o.items[i].key \in Nat
          /\ o.items[i].nodes \in N
        BY <1>3, <1>5
    <2>2. QED
        BY <1>2, <1>4, <1>6, <2>1
<1>8. QED
    BY <1>1, <1>5, <1>7

\* A builder throws one of its codes exactly when the call is not in order.
LEMMA ErrorFacts ==
    ASSUME NEW o, IsCall(o)
    PROVE  /\ PatternError(o) \in PatternCodes \cup {"none"}
           /\ PatternError(o) = "none" <=> CallInOrder(o)
<1>1. o.items \in Seq([entry : {"ok", "other", "extra"}, key : Nat, nodes : Seq(Ids \cup BadNodes)])
    BY DEF IsCall
<1>2. o.array \in BOOLEAN /\ o.records \in BOOLEAN /\ o.maxRounds \in Nat /\ Len(o.items) \in Nat
    BY CallFacts
<1> DEFINE opt == optionChecks(o)
           lst == listChecks(o.array, o.items)
           tl == parseNode(o.tail)
           bld == buildChecks(o)
<1>3. /\ IsCheckList(opt) /\ (Silent(opt) <=> o.form # "unportable" /\ o.form # "unknown")
      /\ IsCheckList(lst) /\ (Silent(lst) <=> ListInOrder(o))
      /\ IsCheckList(tl) /\ (Silent(tl) <=> o.tail \notin BadNodes)
      /\ IsCheckList(bld) /\ (Silent(bld) <=> BuildInOrder(o))
    <2>1. IsCheckList(lst) /\ (Silent(lst) <=> ListInOrder(o))
        BY <1>1, <1>2, ListChecks DEF ListInOrder
    <2>2. QED
        BY <1>2, <2>1, OptionChecks, ParseNode, BuildChecks DEF BuildInOrder
<1>4. \A nodes : IsCheckList(assertUniqueNodeIds(nodes))
                   /\ (Silent(assertUniqueNodeIds(nodes)) <=> Unique(nodes))
    BY UniqueChecks DEF Unique
<1>5. CASE IsLoop(o)
    <2> DEFINE max == << <<o.maxRounds \notin 1..MaxPatternItems, "GE_PATTERN_INVALID_MAX_ROUNDS">> >>
               cnt == << <<Len(o.items) # o.maxRounds, "GE_PATTERN_ROUND_COUNT_MISMATCH">> >>
               unq == assertUniqueNodeIds(LoopNodes(o))
               first == FirstError(opt \o max \o lst \o cnt \o tl)
    <2>1. IsCheckList(max) /\ (Silent(max) <=> o.maxRounds \in 1..MaxPatternItems)
        <3> DEFINE a == <<o.maxRounds \notin 1..MaxPatternItems, "GE_PATTERN_INVALID_MAX_ROUNDS">>
        <3>1. IsCheck(a) /\ a[1] = (o.maxRounds \notin 1..MaxPatternItems)
            BY OneCheck DEF PatternCodes
        <3> HIDE DEF a
        <3>2. IsCheckList(<<a>>) /\ (Silent(<<a>>) <=> o.maxRounds \in 1..MaxPatternItems)
            BY <3>1, CheckLists
        <3>3. QED
            BY <3>2 DEF a
    <2>2. IsCheckList(cnt) /\ (Silent(cnt) <=> Len(o.items) = o.maxRounds)
        <3> DEFINE a == <<Len(o.items) # o.maxRounds, "GE_PATTERN_ROUND_COUNT_MISMATCH">>
        <3>1. IsCheck(a) /\ a[1] = (Len(o.items) # o.maxRounds)
            BY OneCheck DEF PatternCodes
        <3> HIDE DEF a
        <3>2. IsCheckList(<<a>>) /\ (Silent(<<a>>) <=> Len(o.items) = o.maxRounds)
            BY <3>1, CheckLists
        <3>3. QED
            BY <3>2 DEF a
    <2>3. PatternError(o) = IF first # "none" THEN first ELSE FirstError(unq \o bld)
        BY <1>5 DEF PatternError, LoopError
    <2> HIDE DEF opt, lst, tl, bld, max, cnt
    <2>4. IsCheckList(opt \o max) /\ (Silent(opt \o max) <=> Silent(opt) /\ Silent(max))
        BY <1>3, <2>1, ConcatChecks
    <2>5. IsCheckList(opt \o max \o lst)
          /\ (Silent(opt \o max \o lst) <=> Silent(opt \o max) /\ Silent(lst))
        BY <1>3, <2>4, ConcatChecks
    <2>6. IsCheckList(opt \o max \o lst \o cnt)
          /\ (Silent(opt \o max \o lst \o cnt) <=> Silent(opt \o max \o lst) /\ Silent(cnt))
        BY <2>2, <2>5, ConcatChecks
    <2>7. IsCheckList(opt \o max \o lst \o cnt \o tl)
          /\ (Silent(opt \o max \o lst \o cnt \o tl) <=> Silent(opt \o max \o lst \o cnt) /\ Silent(tl))
        BY <1>3, <2>6, ConcatChecks
    <2>8. first \in PatternCodes \cup {"none"}
          /\ (first = "none" <=> Silent(opt) /\ Silent(max) /\ Silent(lst) /\ Silent(cnt) /\ Silent(tl))
        <3>1. first \in PatternCodes \cup {"none"}
              /\ (first = "none" <=> Silent(opt \o max \o lst \o cnt \o tl))
            BY <2>7, FirstErrorFacts
        <3>2. QED
            BY <3>1, <2>4, <2>5, <2>6, <2>7
    <2>9. IsCheckList(unq \o bld) /\ (Silent(unq \o bld) <=> Silent(unq) /\ Silent(bld))
        BY <1>3, <1>4, ConcatChecks
    <2>10. FirstError(unq \o bld) \in PatternCodes \cup {"none"}
           /\ (FirstError(unq \o bld) = "none" <=> Silent(unq) /\ Silent(bld))
        BY <2>9, FirstErrorFacts
    <2>11. Silent(unq) <=> Unique(PatternNodes(o))
        BY <1>4, <1>5 DEF PatternNodes
    <2> HIDE DEF first, unq
    <2>12. PatternError(o) \in PatternCodes \cup {"none"}
        BY <2>3, <2>8, <2>10
    <2>13. PatternError(o) = "none" <=>
              /\ Silent(opt) /\ Silent(max) /\ Silent(lst) /\ Silent(cnt) /\ Silent(tl)
              /\ Silent(unq) /\ Silent(bld)
        BY <2>3, <2>8, <2>10
    <2>14. QED
        BY <1>3, <1>5, <2>1, <2>2, <2>11, <2>12, <2>13 DEF CallInOrder
<1>6. CASE ~ IsLoop(o)
    <2> DEFINE hd == parseNode(o.head)
               unq == assertUniqueNodeIds(FanNodes(o))
               first == FirstError(opt \o hd \o lst \o tl)
    <2>1. IsCheckList(hd) /\ (Silent(hd) <=> o.head \notin BadNodes)
        BY ParseNode
    <2>2. PatternError(o) = IF first # "none" THEN first ELSE FirstError(unq \o bld)
        BY <1>6 DEF PatternError, FanError
    <2> HIDE DEF opt, lst, tl, bld, hd
    <2>3. IsCheckList(opt \o hd) /\ (Silent(opt \o hd) <=> Silent(opt) /\ Silent(hd))
        BY <1>3, <2>1, ConcatChecks
    <2>4. IsCheckList(opt \o hd \o lst)
          /\ (Silent(opt \o hd \o lst) <=> Silent(opt \o hd) /\ Silent(lst))
        BY <1>3, <2>3, ConcatChecks
    <2>5. IsCheckList(opt \o hd \o lst \o tl)
          /\ (Silent(opt \o hd \o lst \o tl) <=> Silent(opt \o hd \o lst) /\ Silent(tl))
        BY <1>3, <2>4, ConcatChecks
    <2>6. first \in PatternCodes \cup {"none"}
          /\ (first = "none" <=> Silent(opt) /\ Silent(hd) /\ Silent(lst) /\ Silent(tl))
        <3>1. first \in PatternCodes \cup {"none"}
              /\ (first = "none" <=> Silent(opt \o hd \o lst \o tl))
            BY <2>5, FirstErrorFacts
        <3>2. QED
            BY <3>1, <2>3, <2>4, <2>5
    <2>7. IsCheckList(unq \o bld) /\ (Silent(unq \o bld) <=> Silent(unq) /\ Silent(bld))
        BY <1>3, <1>4, ConcatChecks
    <2>8. FirstError(unq \o bld) \in PatternCodes \cup {"none"}
          /\ (FirstError(unq \o bld) = "none" <=> Silent(unq) /\ Silent(bld))
        BY <2>7, FirstErrorFacts
    <2>9. Silent(unq) <=> Unique(PatternNodes(o))
        BY <1>4, <1>6 DEF PatternNodes
    <2> HIDE DEF first, unq
    <2>10. PatternError(o) \in PatternCodes \cup {"none"}
        BY <2>2, <2>6, <2>8
    <2>11. PatternError(o) = "none" <=>
              Silent(opt) /\ Silent(hd) /\ Silent(lst) /\ Silent(tl) /\ Silent(unq) /\ Silent(bld)
        BY <2>2, <2>6, <2>8
    <2>12. QED
        BY <1>3, <1>6, <2>1, <2>9, <2>10, <2>11 DEF CallInOrder
<1>7. QED
    BY <1>5, <1>6

-----------------------------------------------------------------------------
(* The order of the keys.                                                  *)

\* Where an entry comes in the order of the keys, and which entry comes k-th.
Rank(items, i) == Cardinality({j \in DOMAIN items : items[j].key < items[i].key})
Place(items, k) == CHOOSE i \in DOMAIN items : Rank(items, i) = k - 1

HasKeys(items, n) ==
    /\ n \in Nat /\ DOMAIN items = 1..n
    /\ \A i \in 1..n : items[i].key \in Nat
    /\ \A i, j \in 1..n : items[i].key = items[j].key => i = j

\* Entries with keys of their own have one order, and Place is a permutation.
LEMMA RankPlaces ==
    ASSUME NEW items, NEW n, HasKeys(items, n)
    PROVE  /\ \A k \in 1..n : Place(items, k) \in 1..n /\ Rank(items, Place(items, k)) = k - 1
           /\ \A i, j \in 1..n : Rank(items, i) = Rank(items, j) => i = j
           /\ \A i \in 1..n : \E k \in 1..n : Place(items, k) = i
           /\ \A k, l \in 1..n : Place(items, k) = Place(items, l) => k = l
<1> DEFINE I == 1..n
           Below(i) == {j \in I : items[j].key < items[i].key}
           rank == [i \in I |-> Cardinality(Below(i))]
<1>1. n \in Nat /\ DOMAIN items = I /\ (\A i \in I : items[i].key \in Nat)
      /\ \A i, j \in I : items[i].key = items[j].key => i = j
    BY DEF HasKeys
<1>2. IsFiniteSet(I) /\ Cardinality(I) = n
    BY <1>1, FS_Interval
<1>3. ASSUME NEW i \in I PROVE IsFiniteSet(Below(i)) /\ Cardinality(Below(i)) \in 0..(n - 1)
    <2>1. Below(i) \in SUBSET (I \ {i})
        BY <1>1
    <2>2. IsFiniteSet(I \ {i}) /\ Cardinality(I \ {i}) = n - 1
        BY <1>2, FS_RemoveElement
    <2>3. IsFiniteSet(Below(i)) /\ Cardinality(Below(i)) <= n - 1
        BY <2>1, <2>2, FS_Subset
    <2>4. Cardinality(Below(i)) \in Nat
        BY <2>3, FS_CardinalityType
    <2> HIDE DEF Below
    <2>5. QED
        BY <1>1, <2>3, <2>4
<1>4. rank \in [I -> 0..(n - 1)] /\ \A i \in I : rank[i] = Rank(items, i)
    <2>1. \A i \in I : rank[i] \in 0..(n - 1)
        BY <1>3
    <2>2. \A i \in I : rank[i] = Rank(items, i)
        BY <1>1 DEF Rank
    <2>3. QED
        BY <2>1, <2>2
<1>5. ASSUME NEW i \in I, NEW j \in I, items[i].key < items[j].key
      PROVE  rank[i] < rank[j]
    <2>1. Below(i) \in SUBSET Below(j) /\ i \in Below(j) /\ i \notin Below(i)
        BY <1>1, <1>5
    <2>2. /\ IsFiniteSet(Below(j)) /\ Cardinality(Below(i)) \in 0..(n - 1)
          /\ Cardinality(Below(j)) \in 0..(n - 1)
        BY <1>3
    <2>3. rank[i] = Cardinality(Below(i)) /\ rank[j] = Cardinality(Below(j))
        OBVIOUS
    <2> HIDE DEF Below, rank
    <2>4. Cardinality(Below(i)) <= Cardinality(Below(j)) /\ Cardinality(Below(i)) # Cardinality(Below(j))
        BY <2>1, <2>2, FS_Subset
    <2>5. Cardinality(Below(i)) \in Int /\ Cardinality(Below(j)) \in Int
        BY <1>1, <2>2
    <2>6. QED
        BY <2>3, <2>4, <2>5
<1>6. \A i, j \in I : rank[i] = rank[j] => i = j
    <2> SUFFICES ASSUME NEW i \in I, NEW j \in I, rank[i] = rank[j], i # j PROVE FALSE
        OBVIOUS
    <2>1. items[i].key < items[j].key \/ items[j].key < items[i].key
        BY <1>1
    <2>2. rank[i] < rank[j] \/ rank[j] < rank[i]
        BY <1>5, <2>1
    <2>3. rank[i] \in Int /\ rank[j] \in Int
        BY <1>4
    <2>4. QED
        BY <2>2, <2>3
<1> HIDE DEF rank
<1>7. \A m \in 0..(n - 1) : \E i \in I : rank[i] = m
    <2>1. rank \in Injection(I, 0..(n - 1))
        BY <1>4, <1>6 DEF Injection, IsInjective
    <2>2. IsFiniteSet(0..(n - 1)) /\ Cardinality(0..(n - 1)) = n
        BY <1>1, FS_Interval
    <2>3. rank \in Surjection(I, 0..(n - 1))
        BY <1>2, <2>1, <2>2, FS_Injection
    <2>4. QED
        BY <2>3 DEF Surjection
<1>8. ASSUME NEW k \in I
      PROVE  Place(items, k) \in I /\ rank[Place(items, k)] = k - 1
    <2>1. k - 1 \in 0..(n - 1)
        BY <1>1
    <2>2. \E i \in I : Rank(items, i) = k - 1
        BY <1>4, <1>7, <2>1
    <2>3. QED
        BY <1>1, <1>4, <2>2 DEF Place
<1>9. ASSUME NEW i \in I PROVE \E k \in I : Place(items, k) = i
    <2>1. rank[i] \in 0..(n - 1)
        BY <1>4
    <2>2. rank[i] + 1 \in I /\ (rank[i] + 1) - 1 = rank[i]
        BY <1>1, <2>1
    <2>3. Place(items, rank[i] + 1) \in I /\ rank[Place(items, rank[i] + 1)] = rank[i]
        BY <1>8, <2>2
    <2>4. Place(items, rank[i] + 1) = i
        BY <1>6, <2>3
    <2>5. QED
        BY <2>2, <2>4
<1>10. ASSUME NEW k \in I, NEW l \in I, Place(items, k) = Place(items, l) PROVE k = l
    <2>1. k - 1 = l - 1
        BY <1>8, <1>10
    <2>2. QED
        BY <1>1, <2>1
<1>11. QED
    BY <1>4, <1>6, <1>8, <1>9, <1>10

LEMMA SortedIs ==
    ASSUME NEW items, NEW n, HasKeys(items, n)
    PROVE  /\ DOMAIN SortedByKey(items) = 1..n
           /\ SortedByKey(items) = [k \in 1..n |-> SortedByKey(items)[k]]
           /\ \A k \in 1..n : SortedByKey(items)[k] = items[Place(items, k)]
    BY DEF SortedByKey, Place, Rank, HasKeys

\* again holds the n entries of items in another order.
Reorders(again, items, n, p) ==
    /\ p \in [1..n -> 1..n] /\ \A i, j \in 1..n : p[i] = p[j] => i = j
    /\ DOMAIN again = 1..n /\ \A i \in 1..n : again[i] = items[p[i]]

\* The order in which the entries are given is not seen.
LEMMA SortedSame ==
    ASSUME NEW items, NEW n, HasKeys(items, n), NEW again, NEW p, Reorders(again, items, n, p)
    PROVE  SortedByKey(again) = SortedByKey(items)
<1> USE DEF Reorders
<1>1. n \in Nat /\ DOMAIN items = 1..n
    BY DEF HasKeys
<1>2. HasKeys(again, n)
    <2>1. \A i \in 1..n : p[i] \in 1..n
        OBVIOUS
    <2>2. \A i \in 1..n : again[i].key \in Nat
        BY <2>1 DEF HasKeys
    <2>3. \A i, j \in 1..n : again[i].key = again[j].key => i = j
        <3> SUFFICES ASSUME NEW i \in 1..n, NEW j \in 1..n, again[i].key = again[j].key PROVE i = j
            OBVIOUS
        <3>1. items[p[i]].key = items[p[j]].key
            OBVIOUS
        <3>2. p[i] = p[j]
            BY <2>1, <3>1 DEF HasKeys
        <3>3. QED
            BY <3>2
    <2>4. QED
        BY <1>1, <2>2, <2>3 DEF HasKeys
<1>3. p \in Bijection(1..n, 1..n)
    <2>1. p \in Injection(1..n, 1..n)
        BY DEF Injection, IsInjective
    <2>2. IsFiniteSet(1..n)
        BY <1>1, FS_Interval
    <2>3. p \in Surjection(1..n, 1..n)
        BY <2>1, <2>2, FS_Injection
    <2>4. QED
        BY <2>1, <2>3 DEF Bijection
<1>4. ASSUME NEW i \in 1..n PROVE Rank(again, i) = Rank(items, p[i])
    <2> DEFINE S == {j \in 1..n : again[j].key < again[i].key}
               T == {j \in 1..n : items[j].key < items[p[i]].key}
               f == [j \in S |-> p[j]]
    <2>1. \A j \in 1..n : j \in S <=> p[j] \in T
        OBVIOUS
    <2>2. \A m \in T : \E j \in S : p[j] = m
        BY <1>3, <2>1 DEF Bijection, Surjection
    <2>3. S \in SUBSET (1..n) /\ T \in SUBSET (1..n)
        OBVIOUS
    <2> HIDE DEF S, T
    <2>4. f \in [S -> T] /\ (\A j \in S : f[j] = p[j])
        BY <2>1, <2>3
    <2> HIDE DEF f
    <2>5. f \in Bijection(S, T)
        BY <2>2, <2>3, <2>4 DEF Bijection, Surjection, Injection, IsInjective
    <2>6. IsFiniteSet(S)
        <3>1. IsFiniteSet(1..n)
            BY <1>1, FS_Interval
        <3>2. QED
            BY <2>3, <3>1, FS_Subset
    <2>7. Cardinality(T) = Cardinality(S)
        BY <2>5, <2>6, FS_Bijection DEF ExistsBijection
    <2>8. DOMAIN again = 1..n
        OBVIOUS
    <2>9. QED
        BY <1>1, <2>7, <2>8 DEF Rank, S, T
<1>5. ASSUME NEW k \in 1..n PROVE again[Place(again, k)] = items[Place(items, k)]
    <2>1. Place(again, k) \in 1..n /\ Rank(again, Place(again, k)) = k - 1
        BY <1>2, RankPlaces
    <2>2. /\ Place(items, k) \in 1..n /\ Rank(items, Place(items, k)) = k - 1
          /\ \A i, j \in 1..n : Rank(items, i) = Rank(items, j) => i = j
        BY RankPlaces
    <2>3. p[Place(again, k)] \in 1..n /\ Rank(items, p[Place(again, k)]) = k - 1
        BY <1>4, <2>1
    <2>4. p[Place(again, k)] = Place(items, k)
        BY <2>2, <2>3
    <2>5. QED
        BY <2>1, <2>4
<1>6. /\ SortedByKey(again) = [k \in 1..n |-> SortedByKey(again)[k]]
      /\ \A k \in 1..n : SortedByKey(again)[k] = again[Place(again, k)]
    BY <1>2, SortedIs
<1>7. /\ SortedByKey(items) = [k \in 1..n |-> SortedByKey(items)[k]]
      /\ \A k \in 1..n : SortedByKey(items)[k] = items[Place(items, k)]
    BY SortedIs
<1>8. QED
    BY <1>5, <1>6, <1>7

-----------------------------------------------------------------------------
(* The nodes of a document a builder makes.                                *)

\* The nodes the options name, each once.
Held(o) == UNION {{o.items[i].nodes[k] : k \in DOMAIN o.items[i].nodes} : i \in DOMAIN o.items}

LEMMA FanNodeFacts ==
    ASSUME NEW o, IsCall(o), ~ IsLoop(o), NEW n, n = Len(o.items), HasKeys(o.items, n)
    PROVE  /\ PatternNodes(o) \in Seq(Ids \cup BadNodes) /\ Len(PatternNodes(o)) = n + 2
           /\ DOMAIN PatternNodes(o) = 1..(n + 2)
           /\ PatternNodes(o)[1] = o.head /\ PatternNodes(o)[n + 2] = o.tail
           /\ \A k \in 1..n : PatternNodes(o)[k + 1] = o.items[Place(o.items, k)].nodes[1]
           /\ {PatternNodes(o)[k] : k \in 1..(n + 2)} = Held(o) \cup {o.head, o.tail}
<1> DEFINE sorted == SortedByKey(o.items)
           mid == [k \in DOMAIN sorted |-> sorted[k].nodes[1]]
           S == Ids \cup BadNodes
           F == <<o.head>> \o mid \o <<o.tail>>
<1>1. PatternNodes(o) = F
    BY DEF PatternNodes, FanNodes
<1>2. n \in Nat /\ DOMAIN o.items = 1..n
    BY CallFacts
<1>3. DOMAIN sorted = 1..n /\ \A k \in 1..n : sorted[k] = o.items[Place(o.items, k)]
    BY SortedIs
<1>4. \A k \in 1..n : Place(o.items, k) \in 1..n
    BY RankPlaces
<1>5. \A i \in 1..n : DOMAIN o.items[i].nodes = {1} /\ o.items[i].nodes[1] \in S
    BY <1>2, CallFacts
<1> HIDE DEF sorted
<1>6. /\ DOMAIN mid = 1..n
      /\ \A k \in 1..n : mid[k] = o.items[Place(o.items, k)].nodes[1]
      /\ \A k \in 1..n : mid[k] \in S
    BY <1>3, <1>4, <1>5
<1>7. mid \in Seq(S) /\ Len(mid) = n
    <2>1. mid = [k \in 1..n |-> mid[k]]
        BY <1>3
    <2> HIDE DEF mid
    <2>2. QED
        BY <1>2, <1>6, <2>1
<1>8. o.head \in S /\ o.tail \in S
    BY CallFacts
<1> HIDE DEF mid, S
<1>9. <<o.head>> \in Seq(S) /\ Len(<<o.head>>) = 1 /\ <<o.tail>> \in Seq(S) /\ Len(<<o.tail>>) = 1
    BY <1>8
<1> DEFINE G == <<o.head>> \o mid
<1>10. /\ G \in Seq(S) /\ Len(G) = n + 1 /\ G[1] = o.head
       /\ \A k \in 1..n : G[k + 1] = mid[k]
    BY <1>2, <1>7, <1>9
<1> HIDE DEF G
<1>11. F = G \o <<o.tail>>
    BY DEF G
<1>12. /\ F \in Seq(S) /\ Len(F) = n + 2 /\ DOMAIN F = 1..(n + 2)
       /\ \A k \in 1..(n + 1) : F[k] = G[k]
       /\ F[n + 2] = o.tail
    <2> DEFINE last == <<o.tail>>
    <2>1. last \in Seq(S) /\ Len(last) = 1 /\ last[1] = o.tail
        BY <1>9
    <2> HIDE DEF last, F
    <2>2. F = G \o last
        BY <1>11 DEF last
    <2>3. /\ F \in Seq(S) /\ Len(F) = Len(G) + Len(last)
          /\ \A k \in 1..(Len(G) + Len(last)) : F[k] = IF k <= Len(G) THEN G[k] ELSE last[k - Len(G)]
        BY <1>10, <2>1, <2>2, ConcatProperties
    <2>4. Len(G) + Len(last) = n + 2
        BY <1>2, <1>10, <2>1
    <2>5. DOMAIN F = 1..(n + 2)
        BY <2>3, <2>4
    <2>6. \A k \in 1..(n + 2) : F[k] = IF k <= n + 1 THEN G[k] ELSE last[k - (n + 1)]
        BY <1>10, <2>3, <2>4
    <2>7. (\A k \in 1..(n + 1) : F[k] = G[k]) /\ F[n + 2] = last[1]
        <3>1. n + 2 \in 1..(n + 2) /\ ~ (n + 2 <= n + 1) /\ (n + 2) - (n + 1) = 1
            BY <1>2
        <3>2. \A k \in 1..(n + 1) : k \in 1..(n + 2) /\ k <= n + 1
            BY <1>2
        <3>3. QED
            BY <2>6, <3>1, <3>2
    <2>8. QED
        BY <2>1, <2>3, <2>4, <2>5, <2>7
<1> HIDE DEF F
<1>13. F[1] = o.head /\ \A k \in 1..n : F[k + 1] = mid[k]
    <2>1. 1 \in 1..(n + 1) /\ \A k \in 1..n : k + 1 \in 1..(n + 1)
        BY <1>2
    <2>2. QED
        BY <1>10, <1>12, <2>1
<1>14. {F[k] : k \in 1..(n + 2)} = Held(o) \cup {o.head, o.tail}
    <2>1. ASSUME NEW k \in 1..(n + 2) PROVE F[k] \in Held(o) \cup {o.head, o.tail}
        <3>1. CASE k = 1 \/ k = n + 2
            BY <1>12, <1>13, <3>1
        <3>2. CASE k \in 2..(n + 1)
            <4>1. k - 1 \in 1..n /\ (k - 1) + 1 = k
                BY <1>2, <3>2
            <4>2. F[k] = o.items[Place(o.items, k - 1)].nodes[1] /\ Place(o.items, k - 1) \in 1..n
                BY <1>4, <1>6, <1>13, <4>1
            <4>3. QED
                BY <1>2, <1>5, <4>2 DEF Held
        <3>3. QED
            BY <1>2, <3>1, <3>2
    <2>2. o.head \in {F[k] : k \in 1..(n + 2)} /\ o.tail \in {F[k] : k \in 1..(n + 2)}
        <3>1. 1 \in 1..(n + 2) /\ n + 2 \in 1..(n + 2)
            BY <1>2
        <3>2. QED
            BY <1>12, <1>13, <3>1
    <2>3. ASSUME NEW x \in Held(o) PROVE x \in {F[k] : k \in 1..(n + 2)}
        <3>1. PICK i \in 1..n : x = o.items[i].nodes[1]
            BY <1>2, <1>5 DEF Held
        <3>2. PICK k \in 1..n : Place(o.items, k) = i
            BY RankPlaces
        <3>3. F[k + 1] = x /\ k + 1 \in 1..(n + 2)
            BY <1>2, <1>6, <1>13, <3>1, <3>2
        <3>4. QED
            BY <3>3
    <2>4. QED
        BY <2>1, <2>2, <2>3
<1>15. QED
    BY <1>1, <1>6, <1>12, <1>13, <1>14 DEF S

LEMMA LoopNodeFacts ==
    ASSUME NEW o, IsCall(o), IsLoop(o), NEW n, n = Len(o.items)
    PROVE  /\ PatternNodes(o) \in Seq(Ids \cup BadNodes) /\ Len(PatternNodes(o)) = 2 * n + 1
           /\ DOMAIN PatternNodes(o) = 1..(2 * n + 1)
           /\ PatternNodes(o)[2 * n + 1] = o.tail
           /\ \A i \in 1..n : /\ PatternNodes(o)[2 * i - 1] = o.items[i].nodes[1]
                              /\ PatternNodes(o)[2 * i] = o.items[i].nodes[2]
           /\ {PatternNodes(o)[k] : k \in 1..(2 * n + 1)} = Held(o) \cup {o.tail}
<1> DEFINE S == Ids \cup BadNodes
           R == RoundNodes(o.items)
           F == R \o <<o.tail>>
<1>1. PatternNodes(o) = F
    BY DEF PatternNodes, LoopNodes
<1>2. n \in Nat /\ DOMAIN o.items = 1..n
    BY CallFacts
<1>3. \A i \in 1..n : /\ DOMAIN o.items[i].nodes = {1, 2}
                      /\ o.items[i].nodes[1] \in S /\ o.items[i].nodes[2] \in S
    BY <1>2, CallFacts
<1>4. R = [k \in 1..(2 * n) |-> o.items[(k + 1) \div 2].nodes[2 - (k % 2)]]
    BY DEF RoundNodes
<1>5. ASSUME NEW k \in 1..(2 * n) PROVE (k + 1) \div 2 \in 1..n /\ 2 - (k % 2) \in {1, 2}
    BY <1>2
<1>6. ASSUME NEW i \in 1..n
      PROVE  /\ 2 * i - 1 \in 1..(2 * n) /\ 2 * i \in 1..(2 * n)
             /\ ((2 * i - 1) + 1) \div 2 = i /\ 2 - ((2 * i - 1) % 2) = 1
             /\ (2 * i + 1) \div 2 = i /\ 2 - ((2 * i) % 2) = 2
    BY <1>2
<1> HIDE DEF R, S
<1>7. \A i \in 1..n : R[2 * i - 1] = o.items[i].nodes[1] /\ R[2 * i] = o.items[i].nodes[2]
    BY <1>4, <1>6
<1>8. \A k \in 1..(2 * n) : R[k] \in S
    BY <1>3, <1>4, <1>5
<1>9. R \in Seq(S) /\ Len(R) = 2 * n
    <2>1. 2 * n \in Nat /\ R = [k \in 1..(2 * n) |-> R[k]]
        BY <1>2, <1>4
    <2>2. QED
        BY <1>8, <2>1
<1>10. o.tail \in S
    BY CallFacts DEF S
<1>11. /\ F \in Seq(S) /\ Len(F) = 2 * n + 1 /\ DOMAIN F = 1..(2 * n + 1)
       /\ \A k \in 1..(2 * n) : F[k] = R[k]
       /\ F[2 * n + 1] = o.tail
    BY <1>2, <1>9, <1>10
<1> HIDE DEF F
<1>12. \A i \in 1..n : F[2 * i - 1] = o.items[i].nodes[1] /\ F[2 * i] = o.items[i].nodes[2]
    BY <1>6, <1>7, <1>11
<1>13. {F[k] : k \in 1..(2 * n + 1)} = Held(o) \cup {o.tail}
    <2>1. ASSUME NEW k \in 1..(2 * n + 1) PROVE F[k] \in Held(o) \cup {o.tail}
        <3>1. CASE k = 2 * n + 1
            BY <1>11, <3>1
        <3>2. CASE k \in 1..(2 * n)
            <4>1. F[k] = o.items[(k + 1) \div 2].nodes[2 - (k % 2)]
                BY <1>4, <1>11, <3>2
            <4>2. PICK i \in 1..n, j \in {1, 2} : F[k] = o.items[i].nodes[j]
                BY <1>5, <3>2, <4>1
            <4>3. QED
                BY <1>2, <1>3, <4>2 DEF Held
        <3>3. QED
            BY <1>2, <3>1, <3>2
    <2>2. o.tail \in {F[k] : k \in 1..(2 * n + 1)}
        <3>1. 2 * n + 1 \in 1..(2 * n + 1)
            BY <1>2
        <3>2. QED
            BY <1>11, <3>1
    <2>3. ASSUME NEW x \in Held(o) PROVE x \in {F[k] : k \in 1..(2 * n + 1)}
        <3>1. PICK i \in 1..n : x = o.items[i].nodes[1] \/ x = o.items[i].nodes[2]
            BY <1>2, <1>3 DEF Held
        <3>2. 2 * i - 1 \in 1..(2 * n + 1) /\ 2 * i \in 1..(2 * n + 1)
            BY <1>2
        <3>3. F[2 * i - 1] = x \/ F[2 * i] = x
            BY <1>12, <3>1
        <3>4. QED
            BY <3>2, <3>3
    <2>4. QED
        BY <2>1, <2>2, <2>3
<1>14. F \in Seq(Ids \cup BadNodes)
    BY <1>11 DEF S
<1>15. PatternNodes(o) \in Seq(Ids \cup BadNodes) /\ Len(PatternNodes(o)) = 2 * n + 1
    BY <1>1, <1>11, <1>14
<1>16. DOMAIN PatternNodes(o) = 1..(2 * n + 1) /\ PatternNodes(o)[2 * n + 1] = o.tail
    BY <1>1, <1>11
<1>17. \A i \in 1..n : /\ PatternNodes(o)[2 * i - 1] = o.items[i].nodes[1]
                       /\ PatternNodes(o)[2 * i] = o.items[i].nodes[2]
    BY <1>1, <1>12
<1>18. {PatternNodes(o)[k] : k \in 1..(2 * n + 1)} = Held(o) \cup {o.tail}
    BY <1>1, <1>13
<1>19. QED
    BY <1>15, <1>16, <1>17, <1>18, ZenonT(20)

\* A list of n nodes without repetition names n nodes, and the other way round.
LEMMA DistinctCount ==
    ASSUME NEW n \in Nat, NEW F, DOMAIN F = 1..n
    PROVE  Cardinality({F[k] : k \in 1..n}) = n <=> Unique(F)
<1> DEFINE T == {F[k] : k \in 1..n}
           f == [k \in 1..n |-> F[k]]
<1>1. IsFiniteSet(1..n) /\ Cardinality(1..n) = n
    BY FS_Interval
<1>2. f \in [1..n -> T] /\ (\A k \in 1..n : f[k] = F[k]) /\ \A x \in T : \E k \in 1..n : f[k] = x
    OBVIOUS
<1> HIDE DEF T, f
<1>3. f \in Surjection(1..n, T)
    BY <1>2 DEF Surjection
<1>4. Cardinality(T) = n <=> f \in Injection(1..n, T)
    BY <1>1, <1>3, FS_Surjection
<1>5. f \in Injection(1..n, T) <=> \A i, j \in 1..n : F[i] = F[j] => i = j
    BY <1>2 DEF Injection, IsInjective
<1>6. Unique(F) <=> \A i, j \in 1..n : F[i] = F[j] => i = j
    <2>1. \A i, j \in 1..n : i < j \/ j < i \/ i = j
        OBVIOUS
    <2>2. \A i, j \in 1..n : i < j => i # j
        OBVIOUS
    <2>3. QED
        BY <2>1, <2>2 DEF Unique
<1>7. QED
    BY <1>4, <1>5, <1>6 DEF T

\* The nodes all together have as many names as there are nodes.
Counts(o) == Cardinality(Held(o) \cup (IF IsLoop(o) THEN {o.tail} ELSE {o.head, o.tail}))
                = IF IsLoop(o) THEN 2 * Len(o.items) + 1 ELSE Len(o.items) + 2

\* Everything WellFormed asks of a call but that its nodes are different.
InShape(o) ==
    /\ o.form = "ok" /\ o.array /\ o.records
    /\ o.outputKey # "unsafe" /\ o.metadata = "ok"
    /\ Len(o.items) \in 1..MaxPatternItems
    /\ IsLoop(o) => o.maxRounds = Len(o.items)
    /\ \A i \in DOMAIN o.items : o.items[i].entry = "ok" /\ o.items[i].key > 0
    /\ HasKeys(o.items, Len(o.items))
    /\ BadNodes \cap Held(o) = {} /\ o.tail \notin BadNodes /\ (IsLoop(o) \/ o.head \notin BadNodes)

LEMMA WellFormedIs ==
    ASSUME NEW o, IsCall(o)
    PROVE  WellFormed(o) <=> InShape(o) /\ Counts(o)
<1>1. /\ Len(o.items) \in Nat /\ DOMAIN o.items = 1..Len(o.items)
      /\ \A i \in DOMAIN o.items : o.items[i].key \in Nat
    BY CallFacts
<1>2. HasKeys(o.items, Len(o.items)) <=>
          \A i, j \in DOMAIN o.items : o.items[i].key = o.items[j].key => i = j
    BY <1>1 DEF HasKeys
<1> DEFINE named == (IF IsLoop(o) THEN << >> ELSE <<o.head>>) \o <<o.tail>>
           names == IF IsLoop(o) THEN {o.tail} ELSE {o.head, o.tail}
           all == Held(o) \cup {named[k] : k \in DOMAIN named}
           count == Len(named) + Len(o.items) * (IF IsLoop(o) THEN 2 ELSE 1)
<1>3. /\ {named[k] : k \in DOMAIN named} = names
      /\ count = IF IsLoop(o) THEN 2 * Len(o.items) + 1 ELSE Len(o.items) + 2
    <2>1. CASE IsLoop(o)
        <3>1. named = <<o.tail>>
            BY <2>1
        <3> HIDE DEF named
        <3>2. Len(named) = 1 /\ DOMAIN named = 1..1 /\ named[1] = o.tail
            BY <3>1
        <3>3. 1..1 = {1}
            OBVIOUS
        <3>4. QED
            BY <1>1, <2>1, <3>2, <3>3
    <2>2. CASE ~ IsLoop(o)
        <3> DEFINE s == <<o.head>>
                   t == <<o.tail>>
                   S == {o.head, o.tail}
        <3>1. named = s \o t
            BY <2>2
        <3>2. s \in Seq(S) /\ t \in Seq(S) /\ Len(s) = 1 /\ Len(t) = 1 /\ s[1] = o.head /\ t[1] = o.tail
            OBVIOUS
        <3> HIDE DEF named, s, t, S
        <3>3. /\ named \in Seq(S) /\ Len(named) = 1 + 1
              /\ \A i \in 1..(1 + 1) : named[i] = IF i <= 1 THEN s[i] ELSE t[i - 1]
            BY <3>1, <3>2, ConcatProperties
        <3>4. Len(named) = 2 /\ DOMAIN named = 1..2 /\ named[1] = o.head /\ named[2] = o.tail
            BY <3>2, <3>3
        <3>5. 1..2 = {1, 2}
            OBVIOUS
        <3>6. QED
            BY <1>1, <2>2, <3>4, <3>5
    <2>3. QED
        BY <2>1, <2>2
<1>4. WellFormed(o) <=>
          /\ o.form = "ok" /\ o.array /\ o.records
          /\ o.outputKey # "unsafe" /\ o.metadata = "ok"
          /\ Len(o.items) \in 1..MaxPatternItems
          /\ IsLoop(o) => o.maxRounds = Len(o.items)
          /\ \A i \in DOMAIN o.items : o.items[i].entry = "ok" /\ o.items[i].key > 0
          /\ \A i, j \in DOMAIN o.items : o.items[i].key = o.items[j].key => i = j
          /\ BadNodes \cap all = {}
          /\ Cardinality(all) = count
    BY DEF WellFormed, Held
<1> HIDE DEF named, count
<1>5. BadNodes \cap all = {} <=> BadNodes \cap Held(o) = {} /\ o.tail \notin BadNodes /\ (IsLoop(o) \/ o.head \notin BadNodes)
    BY <1>3
<1>6. Cardinality(all) = count <=> Counts(o)
    BY <1>3 DEF Counts
<1> HIDE DEF all, names
<1>7. QED
    BY <1>2, <1>4, <1>5, <1>6 DEF InShape

\* Nodes that are different are as many as they are positions.
LEMMA CountsIs ==
    ASSUME NEW o, IsCall(o), HasKeys(o.items, Len(o.items))
    PROVE  Counts(o) <=> Unique(PatternNodes(o))
<1> DEFINE n == Len(o.items)
           F == PatternNodes(o)
<1>1. n \in Nat
    BY CallFacts
<1>2. CASE IsLoop(o)
    <2>1. DOMAIN F = 1..(2 * n + 1) /\ {F[k] : k \in 1..(2 * n + 1)} = Held(o) \cup {o.tail}
        BY <1>2, LoopNodeFacts
    <2>2. 2 * n + 1 \in Nat
        BY <1>1
    <2> HIDE DEF F
    <2>3. Cardinality(Held(o) \cup {o.tail}) = 2 * n + 1 <=> Unique(F)
        BY <2>1, <2>2, DistinctCount
    <2>4. QED
        BY <1>2, <2>3 DEF F, Counts
<1>3. CASE ~ IsLoop(o)
    <2>1. DOMAIN F = 1..(n + 2) /\ {F[k] : k \in 1..(n + 2)} = Held(o) \cup {o.head, o.tail}
        BY <1>3, FanNodeFacts
    <2>2. n + 2 \in Nat
        BY <1>1
    <2> HIDE DEF F
    <2>3. Cardinality(Held(o) \cup {o.head, o.tail}) = n + 2 <=> Unique(F)
        BY <2>1, <2>2, DistinctCount
    <2>4. QED
        BY <1>3, <2>3 DEF F, Counts
<1>4. QED
    BY <1>2, <1>3

\* What the checks let through is exactly what is well formed.
LEMMA InOrderIs ==
    ASSUME NEW o, IsCall(o)
    PROVE  CallInOrder(o) <=> WellFormed(o)
<1> DEFINE n == Len(o.items)
<1>1. /\ n \in Nat /\ DOMAIN o.items = 1..n /\ (o.items = << >> <=> n = 0)
      /\ \A i \in 1..n : o.items[i].key \in Nat /\ o.items[i].entry \in {"ok", "other", "extra"}
    BY CallFacts
<1>2. MaxPatternItems \in Nat
    BY PatternAssumption
<1>3. /\ o.form \in {"ok", "unportable", "unknown"} /\ o.metadata \in {"ok", "badName", "otherLabel"}
      /\ o.maxRounds \in Nat
    BY CallFacts
<1>4. (\A i \in 1..n : EntryInOrder(o.items, i)) <=>
          /\ \A i \in 1..n : o.items[i].entry = "ok" /\ o.items[i].key > 0
          /\ HasKeys(o.items, n)
          /\ BadNodes \cap Held(o) = {}
    <2>1. (\A i \in 1..n : \A k \in DOMAIN o.items[i].nodes : o.items[i].nodes[k] \notin BadNodes)
              <=> BadNodes \cap Held(o) = {}
        BY <1>1 DEF Held
    <2>2. \A i \in 1..n : /\ o.items[i].entry # "other" /\ o.items[i].entry # "extra"
                                <=> o.items[i].entry = "ok"
                          /\ o.items[i].key # 0 <=> o.items[i].key > 0
        BY <1>1
    <2>3. (\A i \in 1..n : \A j \in 1..(i - 1) : o.items[j].key # o.items[i].key)
              <=> HasKeys(o.items, n)
        <3>1. ASSUME \A i \in 1..n : \A j \in 1..(i - 1) : o.items[j].key # o.items[i].key
              PROVE  HasKeys(o.items, n)
            <4>1. ASSUME NEW i \in 1..n, NEW j \in 1..n, o.items[i].key = o.items[j].key, i # j
                  PROVE  FALSE
                <5>1. j \in 1..(i - 1) \/ i \in 1..(j - 1)
                    BY <1>1, <4>1
                <5>2. QED
                    BY <3>1, <4>1, <5>1
            <4>2. QED
                BY <1>1, <4>1 DEF HasKeys
        <3>2. ASSUME HasKeys(o.items, n), NEW i \in 1..n, NEW j \in 1..(i - 1),
                     o.items[j].key = o.items[i].key
              PROVE  FALSE
            <4>1. j \in 1..n /\ i # j
                BY <1>1
            <4>2. QED
                BY <3>2, <4>1 DEF HasKeys
        <3>3. QED
            BY <3>1, <3>2
    <2>4. QED
        BY <2>1, <2>2, <2>3 DEF EntryInOrder
<1>5. ListInOrder(o) <=>
          /\ o.array /\ n \in 1..MaxPatternItems
          /\ \A i \in 1..n : o.items[i].entry = "ok" /\ o.items[i].key > 0
          /\ HasKeys(o.items, n)
          /\ BadNodes \cap Held(o) = {}
    <2>1. o.items # << >> /\ ~ (n > MaxPatternItems) <=> n \in 1..MaxPatternItems
        BY <1>1, <1>2
    <2>2. QED
        BY <1>1, <1>4, <2>1 DEF ListInOrder
<1>6. CallInOrder(o) <=> InShape(o) /\ Unique(PatternNodes(o))
    <2>1. o.form # "unportable" /\ o.form # "unknown" <=> o.form = "ok"
        BY <1>3
    <2>2. BuildInOrder(o) <=> o.records /\ o.outputKey # "unsafe" /\ o.metadata = "ok"
        BY <1>3 DEF BuildInOrder
    <2>3. o.maxRounds \in 1..MaxPatternItems /\ n = o.maxRounds
              <=> n \in 1..MaxPatternItems /\ o.maxRounds = n
        BY <1>3
    <2> HIDE DEF n
    <2>4. QED
        BY <1>1, <1>5, <2>1, <2>2, <2>3 DEF CallInOrder, InShape, n
<1>7. QED
    BY <1>6, CountsIs, WellFormedIs DEF InShape

\* The nodes of a well-formed call are identifiers, each at one position.
LEMMA GoodNodes ==
    ASSUME NEW o, IsCall(o), WellFormed(o)
    PROVE  /\ Len(o.items) \in Nat \ {0} /\ DOMAIN o.items = 1..Len(o.items)
           /\ HasKeys(o.items, Len(o.items))
           /\ \A i \in DOMAIN o.items : o.items[i].key > 0
           /\ PatternNodes(o) \in Seq(Ids)
           /\ \A i, j \in DOMAIN PatternNodes(o) : PatternNodes(o)[i] = PatternNodes(o)[j] => i = j
<1> DEFINE n == Len(o.items)
           F == PatternNodes(o)
           m == IF IsLoop(o) THEN 2 * n + 1 ELSE n + 2
<1>1. InShape(o) /\ CallInOrder(o)
    BY WellFormedIs, InOrderIs
<1>2. /\ HasKeys(o.items, n) /\ n \in 1..MaxPatternItems
      /\ \A i \in DOMAIN o.items : o.items[i].key > 0
      /\ BadNodes \cap Held(o) = {} /\ o.tail \notin BadNodes /\ (IsLoop(o) \/ o.head \notin BadNodes)
      /\ Unique(F)
    BY <1>1 DEF InShape, CallInOrder
<1>3. n \in Nat \ {0} /\ DOMAIN o.items = 1..n
    <2>1. n \in Nat /\ DOMAIN o.items = 1..n /\ MaxPatternItems \in Nat
        BY CallFacts, PatternAssumption
    <2>2. QED
        BY <1>2, <2>1
<1>4. F \in Seq(Ids \cup BadNodes) /\ Len(F) = m /\ DOMAIN F = 1..m
    <2>1. CASE IsLoop(o)
        BY <2>1, LoopNodeFacts
    <2>2. CASE ~ IsLoop(o)
        BY <1>2, <2>2, FanNodeFacts
    <2>3. QED
        BY <2>1, <2>2
<1>5. {F[k] : k \in 1..m} = Held(o) \cup (IF IsLoop(o) THEN {o.tail} ELSE {o.head, o.tail})
    <2>1. CASE IsLoop(o)
        BY <2>1, LoopNodeFacts
    <2>2. CASE ~ IsLoop(o)
        BY <1>2, <2>2, FanNodeFacts
    <2>3. QED
        BY <2>1, <2>2
<1>6. m \in Nat
    BY <1>3
<1> HIDE DEF F, m, n
<1>7. \A k \in 1..m : F[k] \in Ids
    BY <1>2, <1>4, <1>5
<1>8. F \in Seq(Ids)
    <2>1. F = [k \in 1..m |-> F[k]]
        BY <1>4
    <2>2. QED
        BY <1>6, <1>7, <2>1
<1>9. \A i, j \in DOMAIN F : F[i] = F[j] => i = j
    <2>1. \A i, j \in 1..m : i < j \/ j < i \/ i = j
        OBVIOUS
    <2>2. QED
        BY <1>2, <1>4, <2>1 DEF Unique
<1>10. QED
    BY <1>2, <1>3, <1>8, <1>9 DEF F, n

LEMMA FanEdgeFacts ==
    ASSUME NEW o, IsCall(o), ~ IsLoop(o), WellFormed(o), NEW n, n = Len(o.items)
    PROVE  /\ DOMAIN PatternEdges(o) = 1..(2 * n)
           /\ \A k \in 1..n : PatternEdges(o)[k] = Edge(k, o.head, PatternNodes(o)[k + 1], 0)
           /\ \A k \in 1..n :
                 PatternEdges(o)[n + k] = Edge(n + k, PatternNodes(o)[k + 1], o.tail,
                                               o.items[Place(o.items, k)].key)
<1> DEFINE sorted == SortedByKey(o.items)
<1>1. n \in Nat \ {0} /\ HasKeys(o.items, n)
    BY GoodNodes
<1>2. /\ DOMAIN sorted = 1..n /\ sorted = [k \in 1..n |-> sorted[k]]
      /\ \A k \in 1..n : sorted[k] = o.items[Place(o.items, k)]
    BY <1>1, SortedIs
<1>3. PatternEdges(o) = [k \in 1..(2 * Len(sorted)) |->
            IF k <= Len(sorted) THEN Edge(k, o.head, sorted[k].nodes[1], 0)
            ELSE Edge(k, sorted[k - Len(sorted)].nodes[1], o.tail, sorted[k - Len(sorted)].key)]
    BY DEF PatternEdges, FanEdges
<1> HIDE DEF sorted
<1>4. Len(sorted) = n
    BY <1>1, <1>2
<1>5. PatternEdges(o) = [k \in 1..(2 * n) |->
            IF k <= n THEN Edge(k, o.head, sorted[k].nodes[1], 0)
            ELSE Edge(k, sorted[k - n].nodes[1], o.tail, sorted[k - n].key)]
    BY <1>3, <1>4
<1>6. \A k \in 1..n : PatternNodes(o)[k + 1] = o.items[Place(o.items, k)].nodes[1]
    BY <1>1, FanNodeFacts
<1>7. \A k \in 1..n : k \in 1..(2 * n) /\ k <= n
    BY <1>1
<1>8. \A k \in 1..n : n + k \in 1..(2 * n) /\ ~ (n + k <= n) /\ (n + k) - n = k
    BY <1>1
<1>9. \A k \in 1..n : PatternEdges(o)[k] = Edge(k, o.head, sorted[k].nodes[1], 0)
    BY <1>5, <1>7
<1>10. \A k \in 1..n : PatternEdges(o)[n + k]
                          = Edge(n + k, sorted[k].nodes[1], o.tail, sorted[k].key)
    BY <1>5, <1>8
<1>11. DOMAIN PatternEdges(o) = 1..(2 * n)
    BY <1>5
<1>12. \A k \in 1..n : /\ sorted[k].nodes[1] = PatternNodes(o)[k + 1]
                       /\ sorted[k].key = o.items[Place(o.items, k)].key
    BY <1>2, <1>6
<1>13. QED
    BY <1>9, <1>10, <1>11, <1>12

LEMMA LoopEdgeFacts ==
    ASSUME NEW o, IsCall(o), IsLoop(o), WellFormed(o), NEW n, n = Len(o.items)
    PROVE  /\ DOMAIN PatternEdges(o) = 1..(3 * n - 1)
           /\ \A i \in 1..n :
                 /\ PatternEdges(o)[3 * i - 2]
                       = Edge(3 * i - 2, PatternNodes(o)[2 * i - 1], PatternNodes(o)[2 * i], "items")
                 /\ PatternEdges(o)[3 * i - 1]
                       = Edge(3 * i - 1, PatternNodes(o)[2 * i], PatternNodes(o)[2 * n + 1], o.items[i].key)
           /\ \A i \in 1..(n - 1) :
                 PatternEdges(o)[3 * i] = Edge(3 * i, PatternNodes(o)[2 * i], PatternNodes(o)[2 * i + 1],
                                               "previousVerdict")
           /\ \A e \in 1..(3 * n - 1) : \/ \E i \in 1..n : e = 3 * i - 2 \/ e = 3 * i - 1
                                        \/ \E i \in 1..(n - 1) : e = 3 * i
<1> DEFINE Body(e) ==
        LET i == (e + 2) \div 3
            k == e - 3 * (i - 1)
        IN  IF k = 2 THEN Edge(e, o.items[i].nodes[2], o.tail, o.items[i].key)
            ELSE RoundEdge(o.items, i, k)
<1>1. n \in Nat \ {0}
    BY GoodNodes
<1>2. PatternEdges(o) = [e \in 1..(3 * n - 1) |-> Body(e)]
    BY DEF PatternEdges, LoopEdges
<1>3. /\ PatternNodes(o)[2 * n + 1] = o.tail
      /\ \A i \in 1..n : /\ PatternNodes(o)[2 * i - 1] = o.items[i].nodes[1]
                         /\ PatternNodes(o)[2 * i] = o.items[i].nodes[2]
    BY LoopNodeFacts
<1>4. ASSUME NEW i \in 1..n
      PROVE  /\ 3 * i - 2 \in 1..(3 * n - 1) /\ 3 * i - 1 \in 1..(3 * n - 1)
             /\ ((3 * i - 2) + 2) \div 3 = i /\ (3 * i - 2) - 3 * (i - 1) = 1
             /\ ((3 * i - 1) + 2) \div 3 = i /\ (3 * i - 1) - 3 * (i - 1) = 2
    BY <1>1
<1>5. ASSUME NEW i \in 1..(n - 1)
      PROVE  /\ 3 * i \in 1..(3 * n - 1) /\ (3 * i + 2) \div 3 = i /\ 3 * i - 3 * (i - 1) = 3
             /\ i \in 1..n /\ i + 1 \in 1..n /\ 2 * (i + 1) - 1 = 2 * i + 1
    BY <1>1
<1>6. ASSUME NEW i \in 1..n
      PROVE  Body(3 * i - 2) = Edge(3 * i - 2, o.items[i].nodes[1], o.items[i].nodes[2], "items")
    <2>1. Body(3 * i - 2) = RoundEdge(o.items, i, 1)
        BY <1>4
    <2>2. QED
        BY <2>1 DEF RoundEdge
<1>7. \A i \in 1..n : Body(3 * i - 1) = Edge(3 * i - 1, o.items[i].nodes[2], o.tail, o.items[i].key)
    BY <1>4
<1>8. ASSUME NEW i \in 1..(n - 1)
      PROVE  Body(3 * i) = Edge(3 * i, o.items[i].nodes[2], o.items[i + 1].nodes[1], "previousVerdict")
    <2>1. Body(3 * i) = RoundEdge(o.items, i, 3)
        BY <1>5
    <2>2. 3 # 1
        OBVIOUS
    <2>3. RoundEdge(o.items, i, 3)
             = Edge(3 * i, o.items[i].nodes[2], o.items[i + 1].nodes[1], "previousVerdict")
        BY <2>2, Zenon DEF RoundEdge
    <2>4. QED
        BY <2>1, <2>3
<1> HIDE DEF Body
<1>9. ASSUME NEW e \in 1..(3 * n - 1)
      PROVE  \/ \E i \in 1..n : e = 3 * i - 2 \/ e = 3 * i - 1
             \/ \E i \in 1..(n - 1) : e = 3 * i
    <2> DEFINE i == (e + 2) \div 3
    <2>1. e \in Int /\ 1 <= e /\ e <= 3 * n - 1
        BY <1>1
    <2>2. i \in Int /\ 3 * i <= e + 2 /\ e + 2 < 3 * i + 3
        BY <2>1
    <2> HIDE DEF i
    <2>3. i \in 1..n /\ (e = 3 * i - 2 \/ e = 3 * i - 1 \/ e = 3 * i)
        BY <1>1, <2>1, <2>2
    <2> HIDE DEF i
    <2>4. e = 3 * i => i \in 1..(n - 1)
        BY <1>1, <2>3
    <2>5. QED
        BY <2>3, <2>4
<1>10. \A i \in 1..(n - 1) : PatternNodes(o)[2 * i + 1] = o.items[i + 1].nodes[1]
    BY <1>3, <1>5
<1>11. DOMAIN PatternEdges(o) = 1..(3 * n - 1) /\ \A e \in 1..(3 * n - 1) : PatternEdges(o)[e] = Body(e)
    BY <1>2
<1>12. ASSUME NEW i \in 1..n
       PROVE  /\ PatternEdges(o)[3 * i - 2]
                    = Edge(3 * i - 2, PatternNodes(o)[2 * i - 1], PatternNodes(o)[2 * i], "items")
              /\ PatternEdges(o)[3 * i - 1]
                    = Edge(3 * i - 1, PatternNodes(o)[2 * i], PatternNodes(o)[2 * n + 1], o.items[i].key)
    BY <1>3, <1>4, <1>6, <1>7, <1>11
<1>13. ASSUME NEW i \in 1..(n - 1)
       PROVE  PatternEdges(o)[3 * i] = Edge(3 * i, PatternNodes(o)[2 * i], PatternNodes(o)[2 * i + 1],
                                            "previousVerdict")
    BY <1>3, <1>5, <1>8, <1>10, <1>11
<1>14. QED
    BY <1>9, <1>11, <1>12, <1>13

-----------------------------------------------------------------------------
(* Documents with a tight layering P: edges go up, and every node above the *)
(* first layer has an upstream node in the layer just below.               *)

Promises(d, P) ==
    /\ Len(P) \in Nat \ {0} /\ DOMAIN P = 1..Len(P) /\ P \in Seq(SUBSET Ids)
    /\ \A k \in DOMAIN P : P[k] # {}
    /\ NodesOf(d) = UNION {P[k] : k \in DOMAIN P}
    /\ \A i, j \in DOMAIN P : \A x \in P[i] : x \in P[j] => i = j
    /\ d.entrypoints = P[1]
    /\ \A e \in DOMAIN d.edges : \E i, j \in DOMAIN P :
          i < j /\ d.edges[e].from \in P[i] /\ d.edges[e].to \in P[j]
    /\ \A k \in DOMAIN P : k > 1 =>
          \A x \in P[k] : \E e \in DOMAIN d.edges : d.edges[e].to = x /\ d.edges[e].from \in P[k - 1]

\* The same in the words of the compiler.
LEMMA PromisedEdges ==
    ASSUME NEW P, Promises(doc, P)
    PROVE  /\ \A i, j \in DOMAIN P : \A x \in P[i], y \in P[j] : EdgeExists(x, y) => i < j
           /\ \A k \in DOMAIN P : k > 1 => \A y \in P[k] : \E x \in P[k - 1] : EdgeExists(x, y)
           /\ \A y \in P[1] : EdgesInto(doc, y) = {}
<1>1. ASSUME NEW i \in DOMAIN P, NEW j \in DOMAIN P, NEW x \in P[i], NEW y \in P[j], EdgeExists(x, y)
      PROVE  i < j
    <2>1. PICK e \in DOMAIN doc.edges : doc.edges[e].from = x /\ doc.edges[e].to = y
        BY <1>1 DEF EdgeExists
    <2>2. PICK a, b \in DOMAIN P : a < b /\ x \in P[a] /\ y \in P[b]
        BY <2>1 DEF Promises
    <2>3. a = i /\ b = j
        BY <2>2 DEF Promises
    <2>4. QED
        BY <2>2, <2>3
<1>2. ASSUME NEW k \in DOMAIN P, k > 1, NEW y \in P[k] PROVE \E x \in P[k - 1] : EdgeExists(x, y)
    <2>1. PICK e \in DOMAIN doc.edges : doc.edges[e].to = y /\ doc.edges[e].from \in P[k - 1]
        BY <1>2 DEF Promises
    <2>2. QED
        BY <2>1 DEF EdgeExists
<1>3. ASSUME NEW y \in P[1], NEW e \in EdgesInto(doc, y) PROVE FALSE
    <2>1. e \in DOMAIN doc.edges /\ doc.edges[e].to = y
        BY <1>3 DEF EdgesInto
    <2>2. PICK a, b \in DOMAIN P : a < b /\ y \in P[b]
        BY <2>1 DEF Promises
    <2>3. 1 \in DOMAIN P /\ a \in Nat /\ a >= 1
        BY <2>2 DEF Promises
    <2>4. b = 1
        BY <2>2, <2>3, <1>3 DEF Promises
    <2>5. QED
        BY <2>2, <2>3, <2>4
<1>4. QED
    BY <1>1, <1>2, <1>3

\* A layer of the compiler holds only nodes of the promised one: of the nodes
\* in a wrong layer, one in the lowest promised layer has its upstream nodes in
\* the right ones.
LEMMA LayersFollow ==
    ASSUME CompilerInv, StructuralDiagnostics(doc) = {}, NEW P, Promises(doc, P),
           NEW k \in DOMAIN layers, NEW n \in layers[k]
    PROVE  k \in DOMAIN P /\ n \in P[k]
<1> DEFINE Wrong(r) == \E j \in DOMAIN layers : \E x \in layers[j] : x \in P[r] /\ j # r
           W == {r \in DOMAIN P : Wrong(r)}
<1>1. /\ IsDocument(doc) /\ TypeOK /\ LayersTight /\ LayersDisjoint /\ Declares
    BY DEF CompilerInv, LayerInv, Types
<1>2. DOMAIN layers = 1..Len(layers) /\ Len(layers) \in Nat
    BY <1>1 DEF TypeOK
<1>3. DOMAIN P = 1..Len(P) /\ Len(P) \in Nat
    BY DEF Promises
<1>4. \A x \in Processed : \E r \in DOMAIN P : x \in P[r]
    BY <1>1 DEF Declares, Nodes, Promises
<1>5. W = {}
    <2> SUFFICES ASSUME W # {} PROVE FALSE
        OBVIOUS
    <2>1. W \in SUBSET Nat
        BY <1>3
    <2>2. PICK w \in W : TRUE
        OBVIOUS
    <2>3. PICK r \in W : \A s \in W : r <= s
        BY <2>1, <2>2, Least
    <2>4. PICK j \in DOMAIN layers : \E x \in layers[j] : x \in P[r] /\ j # r
        BY <2>3
    <2>5. PICK x \in layers[j] : x \in P[r] /\ j # r
        BY <2>4
    <2>6. r \in DOMAIN P /\ r \in Nat /\ j \in Nat /\ j >= 1 /\ r >= 1
        BY <1>2, <1>3, <2>3, <2>4
    <2>7. ASSUME NEW s \in DOMAIN P, s < r, NEW y \in P[s], NEW i \in DOMAIN layers, y \in layers[i]
          PROVE  i = s
        <3>1. s \notin W
            BY <1>3, <2>3, <2>6, <2>7
        <3>2. QED
            BY <2>7, <3>1
    <2>8. ASSUME j > 1 PROVE j <= r
        <3>1. PICK y \in layers[j - 1] : EdgeExists(y, x)
            BY <1>1, <2>4, <2>5, <2>8 DEF LayersTight
        <3>2. j - 1 \in DOMAIN layers
            BY <1>2, <2>4, <2>8
        <3>3. PICK s \in DOMAIN P : y \in P[s]
            BY <1>4, <3>1, <3>2 DEF Processed
        <3>4. s < r
            BY <2>5, <2>6, <3>1, <3>3, PromisedEdges
        <3>5. j - 1 = s
            BY <2>7, <3>1, <3>2, <3>3, <3>4
        <3>6. QED
            BY <1>3, <2>6, <3>3, <3>4, <3>5
    <2>9. ASSUME r > 1 PROVE r <= j
        <3>1. r - 1 \in DOMAIN P /\ r - 1 < r
            BY <1>3, <2>6, <2>9
        <3>2. PICK y \in P[r - 1] : EdgeExists(y, x)
            BY <2>5, <2>6, <2>9, PromisedEdges
        <3>3. PICK i \in DOMAIN layers : i < j /\ y \in layers[i]
            BY <2>4, <2>5, <3>2, UpstreamLayered
        <3>4. i = r - 1
            BY <2>7, <3>1, <3>2, <3>3
        <3>5. QED
            BY <1>2, <2>6, <3>3, <3>4
    <2>10. QED
        BY <2>5, <2>6, <2>8, <2>9
<1>6. n \in Processed
    BY DEF Processed
<1>7. PICK r \in DOMAIN P : n \in P[r]
    BY <1>4, <1>6
<1>8. k = r
    BY <1>5, <1>7
<1>9. QED
    BY <1>7, <1>8

\* Such a document has no cycle: a node left over in the lowest promised layer
\* would have an upstream node left over.
LEMMA NothingLeftOver ==
    ASSUME CompilerInv, Ended, pc = "done", doc.form = "graph", StructuralDiagnostics(doc) = {},
           NEW P, Promises(doc, P)
    PROVE  Processed = Nodes
<1> DEFINE W == {r \in DOMAIN P : \E x \in P[r] : x \notin Processed}
<1>1. DOMAIN P = 1..Len(P) /\ Len(P) \in Nat /\ Nodes = UNION {P[k] : k \in DOMAIN P}
    BY DEF Promises, Nodes
<1>2. Processed \subseteq Nodes
    BY DEF CompilerInv, LayerInv, Declares
<1>3. SUFFICES ASSUME W # {} PROVE FALSE
    BY <1>1, <1>2
<1>4. PICK w \in W : TRUE
    BY <1>3
<1>5. W \in SUBSET Nat
    BY <1>1
<1>6. PICK r \in W : \A s \in W : r <= s
    BY <1>4, <1>5, Least
<1>7. PICK x \in P[r] : x \in Nodes \ Processed
    BY <1>1, <1>6
<1>8. PICK y \in Nodes \ Processed : EdgeExists(y, x)
    BY <1>7 DEF Ended
<1>9. PICK s \in DOMAIN P : y \in P[s]
    BY <1>1, <1>8
<1>10. s \in W
    BY <1>8, <1>9
<1>11. s < r
    BY <1>6, <1>7, <1>8, <1>9, PromisedEdges
<1>12. r <= s /\ r \in Nat /\ s \in Nat
    BY <1>5, <1>6, <1>10
<1>13. QED
    BY <1>11, <1>12

LEMMA LayersPromised ==
    ASSUME CompilerInv, StructuralDiagnostics(doc) = {}, Processed = Nodes, NEW P, Promises(doc, P)
    PROVE  layers = P
<1>1. layers \in Seq(SUBSET Ids) /\ LayersDisjoint
    BY DEF CompilerInv, LayerInv, Types, TypeOK
<1>2. DOMAIN layers = 1..Len(layers) /\ Len(layers) \in Nat
    BY <1>1
<1>3. /\ DOMAIN P = 1..Len(P) /\ Len(P) \in Nat /\ P \in Seq(SUBSET Ids)
      /\ Nodes = UNION {P[k] : k \in DOMAIN P}
      /\ \A k \in DOMAIN P : P[k] # {}
      /\ \A i, j \in DOMAIN P : \A x \in P[i] : x \in P[j] => i = j
    BY DEF Promises, Nodes
<1>4. \A k \in DOMAIN layers : k \in DOMAIN P /\ \A x \in layers[k] : x \in P[k]
    <2>1. \A k \in DOMAIN layers : \A x \in layers[k] : k \in DOMAIN P /\ x \in P[k]
        BY LayersFollow
    <2>2. \A k \in DOMAIN layers : layers[k] # {}
        BY <1>1 DEF LayersDisjoint
    <2>3. QED
        BY <2>1, <2>2
<1>5. ASSUME NEW k \in DOMAIN P, NEW x \in P[k] PROVE k \in DOMAIN layers /\ x \in layers[k]
    <2>1. x \in Processed
        BY <1>3
    <2>2. PICK j \in DOMAIN layers : x \in layers[j]
        BY <2>1 DEF Processed
    <2>3. j \in DOMAIN P /\ x \in P[j]
        BY <1>4, <2>2
    <2>4. j = k
        BY <1>3, <2>3
    <2>5. QED
        BY <2>2, <2>4
<1>6. DOMAIN layers = DOMAIN P
    <2>1. \A k \in DOMAIN P : \E x : x \in P[k]
        BY <1>3
    <2>2. \A k \in DOMAIN P : k \in DOMAIN layers
        BY <1>5, <2>1
    <2>3. \A k \in DOMAIN layers : k \in DOMAIN P
        BY <1>4
    <2>4. QED
        BY <2>2, <2>3
<1>7. \A k \in DOMAIN P : layers[k] = P[k]
    BY <1>4, <1>5, <1>6
<1>8. layers = [k \in DOMAIN layers |-> layers[k]] /\ P = [k \in DOMAIN P |-> P[k]]
    BY <1>1, <1>3
<1>9. QED
    BY <1>6, <1>7, <1>8

\* Every node of such a document is reached, layer by layer.
LEMMA PromisedReached ==
    ASSUME CompilerInv, pc = "done", Processed = Nodes, NEW P, Promises(doc, P)
    PROVE  Nodes \subseteq reachable
<1> DEFINE W == {r \in DOMAIN P : \E x \in P[r] : x \notin reachable}
<1>1. /\ DOMAIN P = 1..Len(P) /\ Len(P) \in Nat \ {0} /\ Nodes = UNION {P[k] : k \in DOMAIN P}
      /\ P[1] # {} /\ doc.entrypoints = P[1]
    BY DEF Promises, Nodes
<1>2. layers # << >>
    BY <1>1, EmptyLayers
<1>3. doc.entrypoints \subseteq reachable /\ Closed(reachable)
    BY <1>2 DEF CompilerInv, ReachabilityLeast
<1>4. SUFFICES ASSUME W # {} PROVE FALSE
    BY <1>1
<1>5. PICK w \in W : TRUE
    BY <1>4
<1>6. W \in SUBSET Nat
    BY <1>1
<1>7. PICK r \in W : \A s \in W : r <= s
    BY <1>5, <1>6, Least
<1>8. PICK x \in P[r] : x \notin reachable
    BY <1>7
<1>9. r # 1 /\ r > 1 /\ r - 1 \in DOMAIN P /\ r \in DOMAIN P
    BY <1>1, <1>3, <1>7, <1>8
<1>10. PICK y \in P[r - 1] : EdgeExists(y, x)
    BY <1>8, <1>9, PromisedEdges
<1>11. r - 1 \notin W
    BY <1>1, <1>7, <1>9
<1>12. y \in reachable
    BY <1>9, <1>10, <1>11
<1>13. x \in Ids
    BY <1>8, <1>9 DEF Promises
<1>14. QED
    BY <1>3, <1>8, <1>10, <1>12, <1>13 DEF Closed

-----------------------------------------------------------------------------
(* The documents of the builders are of that kind.                         *)

LEMMA LoopPromises ==
    ASSUME NEW o, IsCall(o), IsLoop(o), WellFormed(o)
    PROVE  Promises(buildGraph(o), PromisedLayers(o))
<1> DEFINE n == Len(o.items)
           m == 2 * n + 1
           F == PatternNodes(o)
           E == PatternEdges(o)
           d == buildGraph(o)
           P == PromisedLayers(o)
<1>1. n \in Nat \ {0} /\ F \in Seq(Ids) /\ (\A i, j \in DOMAIN F : F[i] = F[j] => i = j)
    BY GoodNodes
<1>2. DOMAIN F = 1..m
    BY LoopNodeFacts
<1>3. P = [k \in 1..m |-> {F[k]}]
    BY <1>2 DEF PromisedLayers, PatternNodes
<1>4. /\ NodesOf(d) = {F[k] : k \in DOMAIN F} /\ d.entrypoints = {F[1]}
      /\ DOMAIN d.edges = DOMAIN E
      /\ \A e \in DOMAIN E : d.edges[e].from = E[e].from /\ d.edges[e].to = E[e].to
    BY DEF buildGraph, NodesOf
<1>5. /\ DOMAIN E = 1..(3 * n - 1)
      /\ \A i \in 1..n :
            /\ E[3 * i - 2] = Edge(3 * i - 2, F[2 * i - 1], F[2 * i], "items")
            /\ E[3 * i - 1] = Edge(3 * i - 1, F[2 * i], F[2 * n + 1], o.items[i].key)
      /\ \A i \in 1..(n - 1) : E[3 * i] = Edge(3 * i, F[2 * i], F[2 * i + 1], "previousVerdict")
      /\ \A e \in 1..(3 * n - 1) : \/ \E i \in 1..n : e = 3 * i - 2 \/ e = 3 * i - 1
                                   \/ \E i \in 1..(n - 1) : e = 3 * i
    BY <1>1, LoopEdgeFacts, ZenonT(20)
<1> HIDE DEF n, F, E, d, P
<1>6. m \in Nat \ {0} /\ \A k \in 1..m : F[k] \in Ids
    BY <1>1, <1>2
<1>7. /\ DOMAIN P = 1..m /\ (\A k \in 1..m : P[k] = {F[k]})
      /\ P \in Seq(SUBSET Ids) /\ Len(P) = m
    <2> HIDE DEF m
    <2>1. \A k \in 1..m : {F[k]} \in SUBSET Ids
        BY <1>6
    <2>2. QED
        BY <1>3, <1>6, <2>1
<1>8. \A i, f, t, p : Edge(i, f, t, p).from = f /\ Edge(i, f, t, p).to = t
    BY DEF Edge
<1>9. ASSUME NEW i \in 1..n
      PROVE  /\ 3 * i - 2 \in DOMAIN E /\ E[3 * i - 2].from = F[2 * i - 1] /\ E[3 * i - 2].to = F[2 * i]
             /\ 3 * i - 1 \in DOMAIN E /\ E[3 * i - 1].from = F[2 * i] /\ E[3 * i - 1].to = F[m]
             /\ 2 * i - 1 \in 1..m /\ 2 * i \in 1..m /\ m \in 1..m /\ 2 * i - 1 < 2 * i /\ 2 * i < m
    <2>1. /\ 3 * i - 2 \in 1..(3 * n - 1) /\ 3 * i - 1 \in 1..(3 * n - 1)
          /\ 2 * i - 1 \in 1..m /\ 2 * i \in 1..m /\ m \in 1..m /\ 2 * i - 1 < 2 * i /\ 2 * i < m
        BY <1>1
    <2>2. QED
        BY <1>5, <1>8, <2>1
<1>10. ASSUME NEW i \in 1..(n - 1)
       PROVE  /\ 3 * i \in DOMAIN E /\ E[3 * i].from = F[2 * i] /\ E[3 * i].to = F[2 * i + 1]
              /\ 2 * i \in 1..m /\ 2 * i + 1 \in 1..m /\ 2 * i < 2 * i + 1
    <2>1. /\ 3 * i \in 1..(3 * n - 1)
          /\ 2 * i \in 1..m /\ 2 * i + 1 \in 1..m /\ 2 * i < 2 * i + 1
        BY <1>1
    <2>2. QED
        BY <1>5, <1>8, <2>1
<1>11. ASSUME NEW e \in DOMAIN E
       PROVE  \E i, j \in 1..m : i < j /\ E[e].from = F[i] /\ E[e].to = F[j]
    <2>1. CASE \E i \in 1..n : e = 3 * i - 2 \/ e = 3 * i - 1
        <3>1. PICK i \in 1..n : e = 3 * i - 2 \/ e = 3 * i - 1
            BY <2>1
        <3>2. CASE e = 3 * i - 2
            BY <1>9, <3>2
        <3>3. CASE e = 3 * i - 1
            BY <1>9, <3>3
        <3>4. QED
            BY <3>1, <3>2, <3>3
    <2>2. CASE \E i \in 1..(n - 1) : e = 3 * i
        <3>1. PICK i \in 1..(n - 1) : e = 3 * i
            BY <2>2
        <3>2. QED
            BY <1>10, <3>1
    <2>3. QED
        BY <1>5, <2>1, <2>2
<1>12. ASSUME NEW k \in 1..m, k > 1
       PROVE  \E e \in DOMAIN E : E[e].to = F[k] /\ E[e].from = F[k - 1]
    <2>1. CASE k = m
        <3>1. n \in 1..n /\ k - 1 = 2 * n
            BY <1>1, <2>1
        <3>2. QED
            BY <1>9, <2>1, <3>1
    <2>2. CASE \E i \in 1..n : k = 2 * i
        <3>1. PICK i \in 1..n : k = 2 * i
            BY <2>2
        <3>2. k - 1 = 2 * i - 1
            BY <3>1
        <3>3. QED
            BY <1>9, <3>1, <3>2
    <2>3. CASE \E i \in 1..(n - 1) : k = 2 * i + 1
        <3>1. PICK i \in 1..(n - 1) : k = 2 * i + 1
            BY <2>3
        <3>2. k - 1 = 2 * i
            BY <3>1
        <3>3. QED
            BY <1>10, <3>1, <3>2
    <2>4. k = m \/ (\E i \in 1..n : k = 2 * i) \/ (\E i \in 1..(n - 1) : k = 2 * i + 1)
        <3> DEFINE i == k \div 2
        <3>1. k \in Int /\ 1 < k /\ k <= 2 * n + 1 /\ n \in Int
            BY <1>1, <1>12
        <3>2. i \in Int /\ (k = 2 * i \/ k = 2 * i + 1)
            BY <3>1
        <3> HIDE DEF i
        <3>3. k = 2 * i => i \in 1..n
            BY <3>1, <3>2
        <3>4. k = 2 * i + 1 => k = m \/ i \in 1..(n - 1)
            BY <3>1, <3>2
        <3>5. QED
            BY <3>2, <3>3, <3>4
    <2>5. QED
        BY <2>1, <2>2, <2>3, <2>4
<1> HIDE DEF m
<1>13. NodesOf(d) = UNION {P[k] : k \in DOMAIN P}
    <2>1. \A x \in NodesOf(d) : \E k \in DOMAIN P : x \in P[k]
        BY <1>2, <1>4, <1>7
    <2>2. \A k \in DOMAIN P : P[k] \subseteq NodesOf(d)
        BY <1>2, <1>4, <1>7
    <2>3. QED
        BY <2>1, <2>2
<1>14. \A i, j \in DOMAIN P : \A x \in P[i] : x \in P[j] => i = j
    BY <1>1, <1>2, <1>7
<1>15. d.entrypoints = P[1]
    BY <1>4, <1>6, <1>7
<1>16. \A e \in DOMAIN d.edges : \E i, j \in DOMAIN P :
          i < j /\ d.edges[e].from \in P[i] /\ d.edges[e].to \in P[j]
    BY <1>4, <1>7, <1>11
<1>17. ASSUME NEW k \in DOMAIN P, k > 1, NEW x \in P[k]
       PROVE  \E e \in DOMAIN d.edges : d.edges[e].to = x /\ d.edges[e].from \in P[k - 1]
    <2>1. k \in 1..m /\ k - 1 \in 1..m /\ x = F[k] /\ P[k - 1] = {F[k - 1]}
        BY <1>6, <1>7, <1>17
    <2>2. PICK e \in DOMAIN E : E[e].to = F[k] /\ E[e].from = F[k - 1]
        BY <1>12, <1>17, <2>1
    <2>3. QED
        BY <1>4, <2>1, <2>2
<1>18. \A k \in DOMAIN P : P[k] # {}
    BY <1>7
<1>19. Len(P) \in Nat \ {0} /\ DOMAIN P = 1..Len(P) /\ P \in Seq(SUBSET Ids)
    BY <1>6, <1>7
<1>20. Promises(d, P)
    BY <1>13, <1>14, <1>15, <1>16, <1>17, <1>18, <1>19 DEF Promises
<1>21. QED
    BY <1>20 DEF d, P

LEMMA FanPromises ==
    ASSUME NEW o, IsCall(o), ~ IsLoop(o), WellFormed(o)
    PROVE  Promises(buildGraph(o), PromisedLayers(o))
<1> DEFINE n == Len(o.items)
           F == PatternNodes(o)
           E == PatternEdges(o)
           d == buildGraph(o)
           P == PromisedLayers(o)
           mid == {o.items[i].nodes[1] : i \in DOMAIN o.items}
<1>1. /\ n \in Nat \ {0} /\ F \in Seq(Ids) /\ DOMAIN o.items = 1..n
      /\ \A i, j \in DOMAIN F : F[i] = F[j] => i = j
    BY GoodNodes
<1>2. /\ DOMAIN F = 1..(n + 2) /\ F[1] = o.head /\ F[n + 2] = o.tail
      /\ \A k \in 1..n : F[k + 1] = o.items[Place(o.items, k)].nodes[1]
    BY GoodNodes, FanNodeFacts
<1>3. /\ \A k \in 1..n : Place(o.items, k) \in 1..n
      /\ \A i \in 1..n : \E k \in 1..n : Place(o.items, k) = i
    BY GoodNodes, RankPlaces
<1>4. mid = {F[k + 1] : k \in 1..n}
    <2>1. \A i \in 1..n : \E k \in 1..n : F[k + 1] = o.items[i].nodes[1]
        BY <1>2, <1>3
    <2>2. \A k \in 1..n : \E i \in 1..n : F[k + 1] = o.items[i].nodes[1]
        BY <1>2, <1>3
    <2>3. mid = {o.items[i].nodes[1] : i \in 1..n}
        BY <1>1
    <2> HIDE DEF n, F, mid
    <2>4. \A x : x \in mid <=> \E k \in 1..n : x = F[k + 1]
        <3>1. ASSUME NEW x \in mid PROVE \E k \in 1..n : x = F[k + 1]
            BY <2>1, <2>3
        <3>2. ASSUME NEW k \in 1..n PROVE F[k + 1] \in mid
            BY <2>2, <2>3
        <3>3. QED
            BY <3>1, <3>2
    <2>5. QED
        BY <2>4
<1>5. P = <<{o.head}, mid, {o.tail}>>
    BY DEF PromisedLayers
<1>6. /\ NodesOf(d) = {F[k] : k \in DOMAIN F} /\ d.entrypoints = {F[1]}
      /\ DOMAIN d.edges = DOMAIN E
      /\ \A e \in DOMAIN E : d.edges[e].from = E[e].from /\ d.edges[e].to = E[e].to
    BY DEF buildGraph, NodesOf
<1>7. /\ DOMAIN E = 1..(2 * n)
      /\ \A k \in 1..n : E[k] = Edge(k, o.head, F[k + 1], 0)
      /\ \A k \in 1..n : E[n + k] = Edge(n + k, F[k + 1], o.tail, o.items[Place(o.items, k)].key)
    BY FanEdgeFacts
<1> HIDE DEF n, F, E, d, mid
<1>8. \A i, f, t, p : Edge(i, f, t, p).from = f /\ Edge(i, f, t, p).to = t
    BY DEF Edge
<1>9. \A k \in 1..n : /\ k \in DOMAIN E /\ E[k].from = o.head /\ E[k].to = F[k + 1]
                      /\ n + k \in DOMAIN E /\ E[n + k].from = F[k + 1] /\ E[n + k].to = o.tail
    <2>1. \A k \in 1..n : k \in 1..(2 * n) /\ n + k \in 1..(2 * n)
        BY <1>1
    <2>2. QED
        BY <1>7, <1>8, <2>1
<1>10. \A e \in DOMAIN E : e \in 1..n \/ \E k \in 1..n : e = n + k
    <2> SUFFICES ASSUME NEW e \in 1..(2 * n), e \notin 1..n PROVE \E k \in 1..n : e = n + k
        BY <1>7
    <2>1. e - n \in 1..n /\ e = n + (e - n)
        BY <1>1
    <2>2. QED
        BY <2>1
<1>11. /\ 1 \in 1..(n + 2) /\ n + 2 \in 1..(n + 2) /\ 1 # n + 2
       /\ \A k \in 1..n : k + 1 \in 1..(n + 2) /\ k + 1 # 1 /\ k + 1 # n + 2
       /\ \A k \in 1..(n + 2) : k = 1 \/ k = n + 2 \/ \E j \in 1..n : k = j + 1
    <2>1. ASSUME NEW k \in 1..(n + 2), k # 1, k # n + 2 PROVE \E j \in 1..n : k = j + 1
        <3>1. k - 1 \in 1..n /\ k = (k - 1) + 1
            BY <1>1, <2>1
        <3>2. QED
            BY <3>1
    <2>2. QED
        BY <1>1, <2>1
<1>12. \A k \in 1..(n + 2) : F[k] \in Ids
    BY <1>1, <1>2
<1>13. /\ o.head \notin mid /\ o.tail \notin mid /\ o.head # o.tail
    <2>1. \A x \in mid : \E k \in 1..n : x = F[k + 1]
        BY <1>4
    <2>2. \A k \in 1..n : F[k + 1] # F[1] /\ F[k + 1] # F[n + 2]
        BY <1>1, <1>2, <1>11
    <2>3. F[1] # F[n + 2]
        BY <1>1, <1>2, <1>11
    <2>4. QED
        BY <1>2, <2>1, <2>2, <2>3
<1>14. mid # {} /\ mid \subseteq Ids /\ o.head \in Ids /\ o.tail \in Ids
    <2>1. 1 \in 1..n
        BY <1>1
    <2>2. F[1 + 1] \in mid
        BY <1>4, <2>1
    <2>3. mid \subseteq Ids /\ o.head \in Ids /\ o.tail \in Ids
        BY <1>2, <1>4, <1>11, <1>12
    <2>4. QED
        BY <2>2, <2>3
<1>15. /\ P \in Seq(SUBSET Ids) /\ Len(P) = 3 /\ DOMAIN P = 1..3
       /\ P[1] = {o.head} /\ P[2] = mid /\ P[3] = {o.tail}
    <2>1. {o.head} \in SUBSET Ids /\ mid \in SUBSET Ids /\ {o.tail} \in SUBSET Ids
        BY <1>14
    <2>2. QED
        BY <1>5, <2>1
<1>16. 1..3 = {1, 2, 3}
    OBVIOUS
<1> HIDE DEF P
<1>17. NodesOf(d) = UNION {P[k] : k \in DOMAIN P}
    <2>1. NodesOf(d) = {o.head} \cup mid \cup {o.tail}
        <3>1. \A x \in NodesOf(d) : x \in {o.head} \cup mid \cup {o.tail}
            BY <1>2, <1>4, <1>6, <1>11
        <3>2. \A x \in {o.head} \cup mid \cup {o.tail} : x \in NodesOf(d)
            BY <1>2, <1>4, <1>6, <1>11
        <3>3. QED
            BY <3>1, <3>2
    <2>2. QED
        BY <1>15, <1>16, <2>1
<1>18. \A k \in DOMAIN P : P[k] # {}
    BY <1>14, <1>15, <1>16
<1>19. \A i, j \in DOMAIN P : \A x \in P[i] : x \in P[j] => i = j
    BY <1>13, <1>15, <1>16
<1>20. d.entrypoints = P[1]
    BY <1>2, <1>6, <1>15
<1>21. ASSUME NEW e \in DOMAIN d.edges
       PROVE  \E i, j \in DOMAIN P : i < j /\ d.edges[e].from \in P[i] /\ d.edges[e].to \in P[j]
    <2>1. CASE e \in 1..n
        <3>1. E[e].from = o.head /\ E[e].to = F[e + 1]
            BY <1>9, <2>1
        <3>2. d.edges[e].from \in P[1] /\ d.edges[e].to \in P[2]
            BY <1>4, <1>6, <1>15, <2>1, <3>1
        <3>3. QED
            BY <1>15, <1>16, <3>2
    <2>2. CASE \E k \in 1..n : e = n + k
        <3>1. PICK k \in 1..n : e = n + k
            BY <2>2
        <3>2. E[e].from = F[k + 1] /\ E[e].to = o.tail
            BY <1>9, <3>1
        <3>3. d.edges[e].from \in P[2] /\ d.edges[e].to \in P[3]
            BY <1>4, <1>6, <1>15, <3>2
        <3>4. QED
            BY <1>15, <1>16, <3>3
    <2>3. QED
        BY <1>6, <1>10, <2>1, <2>2
<1>22. ASSUME NEW k \in DOMAIN P, k > 1, NEW x \in P[k]
       PROVE  \E e \in DOMAIN d.edges : d.edges[e].to = x /\ d.edges[e].from \in P[k - 1]
    <2>1. CASE k = 2
        <3>1. PICK j \in 1..n : x = F[j + 1]
            BY <1>4, <1>15, <1>22, <2>1
        <3>2. k - 1 = 1
            BY <2>1
        <3>3. QED
            BY <1>6, <1>9, <1>15, <3>1, <3>2
    <2>2. CASE k = 3
        <3>1. x = o.tail /\ k - 1 = 2 /\ 1 \in 1..n
            BY <1>1, <1>15, <1>22, <2>2
        <3>2. n + 1 \in DOMAIN E /\ E[n + 1].from = F[1 + 1] /\ E[n + 1].to = o.tail
            BY <1>9, <3>1
        <3>3. F[1 + 1] \in mid
            BY <1>4, <3>1
        <3>4. QED
            BY <1>6, <1>15, <3>1, <3>2, <3>3
    <2>3. QED
        BY <1>15, <1>16, <1>22, <2>1, <2>2
<1>23. Promises(d, P)
    BY <1>15, <1>17, <1>18, <1>19, <1>20, <1>21, <1>22 DEF Promises
<1>24. QED
    BY <1>23 DEF d, P

\* Edges are numbered from 1, and the last node is the last option.
LEMMA EdgeNumbers ==
    ASSUME NEW o, IsCall(o), WellFormed(o)
    PROVE  /\ \E q \in Nat : DOMAIN PatternEdges(o) = 1..q
           /\ \A e \in DOMAIN PatternEdges(o) : PatternEdges(o)[e].id = e
           /\ o.tail \in NodesOf(buildGraph(o))
<1> DEFINE n == Len(o.items)
           E == PatternEdges(o)
           F == PatternNodes(o)
<1>1. n \in Nat \ {0} /\ HasKeys(o.items, n)
    BY GoodNodes
<1>2. \A i, f, t, p : Edge(i, f, t, p).id = i
    BY DEF Edge
<1>3. NodesOf(buildGraph(o)) = {F[k] : k \in DOMAIN F}
    BY DEF buildGraph, NodesOf
<1>4. CASE IsLoop(o)
    <2>1. /\ DOMAIN E = 1..(3 * n - 1)
          /\ \A i \in 1..n :
                /\ E[3 * i - 2] = Edge(3 * i - 2, F[2 * i - 1], F[2 * i], "items")
                /\ E[3 * i - 1] = Edge(3 * i - 1, F[2 * i], F[2 * n + 1], o.items[i].key)
          /\ \A i \in 1..(n - 1) : E[3 * i] = Edge(3 * i, F[2 * i], F[2 * i + 1], "previousVerdict")
          /\ \A e \in 1..(3 * n - 1) : \/ \E i \in 1..n : e = 3 * i - 2 \/ e = 3 * i - 1
                                       \/ \E i \in 1..(n - 1) : e = 3 * i
        BY <1>4, LoopEdgeFacts, ZenonT(20)
    <2>2. DOMAIN F = 1..(2 * n + 1) /\ F[2 * n + 1] = o.tail
        BY <1>4, LoopNodeFacts
    <2> HIDE DEF n, E, F
    <2>3. 3 * n - 1 \in Nat /\ 2 * n + 1 \in 1..(2 * n + 1)
        BY <1>1
    <2>4. ASSUME NEW e \in DOMAIN E PROVE E[e].id = e
        <3>1. CASE \E i \in 1..n : e = 3 * i - 2 \/ e = 3 * i - 1
            <4>1. PICK i \in 1..n : e = 3 * i - 2 \/ e = 3 * i - 1
                BY <3>1
            <4>2. E[3 * i - 2].id = 3 * i - 2 /\ E[3 * i - 1].id = 3 * i - 1
                BY <1>2, <2>1
            <4>3. QED
                BY <4>1, <4>2
        <3>2. CASE \E i \in 1..(n - 1) : e = 3 * i
            <4>1. PICK i \in 1..(n - 1) : e = 3 * i
                BY <3>2
            <4>2. E[3 * i].id = 3 * i
                BY <1>2, <2>1
            <4>3. QED
                BY <4>1, <4>2
        <3>3. QED
            BY <2>1, <3>1, <3>2
    <2>5. o.tail \in NodesOf(buildGraph(o))
        BY <1>3, <2>2, <2>3
    <2>6. \E q \in Nat : DOMAIN E = 1..q
        BY <2>1, <2>3
    <2>7. QED
        BY <2>4, <2>5, <2>6 DEF E
<1>5. CASE ~ IsLoop(o)
    <2>1. /\ DOMAIN E = 1..(2 * n)
          /\ \A k \in 1..n : E[k] = Edge(k, o.head, F[k + 1], 0)
          /\ \A k \in 1..n : E[n + k] = Edge(n + k, F[k + 1], o.tail, o.items[Place(o.items, k)].key)
        BY <1>5, FanEdgeFacts
    <2>2. DOMAIN F = 1..(n + 2) /\ F[n + 2] = o.tail
        BY <1>1, <1>5, FanNodeFacts
    <2> HIDE DEF n, E, F
    <2>3. 2 * n \in Nat /\ n + 2 \in 1..(n + 2)
        BY <1>1
    <2>4. ASSUME NEW e \in DOMAIN E PROVE E[e].id = e
        <3>1. CASE e \in 1..n
            BY <1>2, <2>1, <3>1
        <3>2. CASE e \notin 1..n
            <4>1. e - n \in 1..n /\ n + (e - n) = e
                BY <1>1, <2>1, <3>2
            <4>2. E[e] = Edge(e, F[(e - n) + 1], o.tail, o.items[Place(o.items, e - n)].key)
                BY <2>1, <4>1
            <4>3. QED
                BY <1>2, <4>2
        <3>3. QED
            BY <3>1, <3>2
    <2>5. o.tail \in NodesOf(buildGraph(o))
        BY <1>3, <2>2, <2>3
    <2>6. \E q \in Nat : DOMAIN E = 1..q
        BY <2>1, <2>3
    <2>7. QED
        BY <2>4, <2>5, <2>6 DEF E
<1>6. QED
    BY <1>4, <1>5

\* A builder's document is a document without structural errors.
LEMMA BuiltFacts ==
    ASSUME NEW o, IsCall(o), WellFormed(o)
    PROVE  /\ IsDocument(buildGraph(o)) /\ buildGraph(o).form = o.core
           /\ StructuralDiagnostics(buildGraph(o)) = {}
           /\ Promises(buildGraph(o), PromisedLayers(o))
<1> DEFINE E == PatternEdges(o)
           F == PatternNodes(o)
           d == buildGraph(o)
           P == PromisedLayers(o)
           Ends == [id : Nat, from : Ids, to : Ids]
           G == [k \in DOMAIN E |-> [id |-> E[k].id, from |-> E[k].from, to |-> E[k].to]]
<1>1. Promises(d, P)
    BY LoopPromises, FanPromises
<1>2. /\ d.form = o.core /\ d.nodes = F /\ d.edges = G /\ d.entrypoints = {F[1]}
      /\ d.outputs = {o.tail} /\ d.maxFanOut = o.maxFanOut /\ d.maxDepth = o.maxDepth
    BY DEF buildGraph
<1>3. F \in Seq(Ids) /\ (\A i, j \in DOMAIN F : F[i] = F[j] => i = j)
    BY GoodNodes
<1>4. PICK q \in Nat : DOMAIN E = 1..q
    BY EdgeNumbers
<1>5. \A e \in DOMAIN E : E[e].id = e
    BY EdgeNumbers
<1>6. o.tail \in NodesOf(d)
    BY EdgeNumbers
<1>7. /\ o.core \in {"graph", "unportable", "invalid"}
      /\ o.maxFanOut \in Nat \cup {NoLimit} /\ o.maxDepth \in Nat \cup {NoLimit}
    BY CallFacts
<1>8. DOMAIN G = 1..q /\ \A e \in 1..q : G[e] = [id |-> E[e].id, from |-> E[e].from, to |-> E[e].to]
    BY <1>4
<1> HIDE DEF E, F, d, P, G
<1>9. \A e \in 1..q : G[e].id = e /\ G[e].from \in NodesOf(d) /\ G[e].to \in NodesOf(d)
    <2>1. \A e \in 1..q : G[e].id = e
        BY <1>4, <1>5, <1>8
    <2>2. \A e \in 1..q : \E i, j \in DOMAIN P : G[e].from \in P[i] /\ G[e].to \in P[j]
        BY <1>1, <1>2, <1>8 DEF Promises
    <2>3. NodesOf(d) = UNION {P[k] : k \in DOMAIN P}
        BY <1>1 DEF Promises
    <2>4. QED
        BY <2>1, <2>2, <2>3
<1>10. NodesOf(d) \subseteq Ids /\ d.entrypoints \subseteq NodesOf(d)
    <2>1. \A k \in DOMAIN P : P[k] \in SUBSET Ids
        BY <1>1 DEF Promises
    <2>2. 1 \in DOMAIN P
        BY <1>1 DEF Promises
    <2>3. QED
        BY <1>1, <2>1, <2>2 DEF Promises
<1>11. d.edges \in Seq(Ends)
    <2>1. \A e \in 1..q : G[e] \in Ends
        <3> TAKE e \in 1..q
        <3>1. G[e].id \in Nat /\ G[e].from \in Ids /\ G[e].to \in Ids
            BY <1>9, <1>10
        <3>2. G[e] = [id |-> G[e].id, from |-> G[e].from, to |-> G[e].to]
            BY <1>8
        <3>3. QED
            BY <3>1, <3>2
    <2>2. G = [e \in 1..q |-> G[e]]
        BY <1>8 DEF G
    <2> HIDE DEF Ends
    <2>3. G \in Seq(Ends)
        BY <2>1, <2>2
    <2>4. QED
        BY <1>2, <2>3
<1>12. IsDocument(d)
    <2>1. d.entrypoints \in SUBSET Ids /\ d.outputs \in SUBSET Ids
        BY <1>2, <1>6, <1>10
    <2>2. QED
        BY <1>2, <1>3, <1>7, <1>11, <2>1 DEF IsDocument
<1>13. StructuralDiagnostics(d) = {}
    <2>1. DuplicateNodes(d) = {}
        <3>1. \A j \in DOMAIN d.nodes : \A k \in 1..(j - 1) : k \in DOMAIN d.nodes /\ k # j
            BY <1>2, <1>3
        <3>2. {j \in DOMAIN d.nodes : \E k \in 1..(j - 1) : d.nodes[k] = d.nodes[j]} = {}
            BY <1>2, <1>3, <3>1
        <3>3. QED
            BY <3>2 DEF DuplicateNodes
    <2>2. DuplicateEdges(d) = {}
        <3>1. \A j \in 1..q : \A k \in 1..(j - 1) : k \in 1..q /\ k # j
            OBVIOUS
        <3>2. {j \in DOMAIN d.edges : \E k \in 1..(j - 1) : d.edges[k].id = d.edges[j].id} = {}
            BY <1>2, <1>8, <1>9, <3>1
        <3>3. QED
            BY <3>2 DEF DuplicateEdges
    <2>3. MissingEnds(d) = {}
        BY <1>2, <1>8, <1>9 DEF MissingEnds
    <2>4. MissingReferences(d) = {}
        BY <1>2, <1>6, <1>10 DEF MissingReferences
    <2>5. QED
        BY <2>1, <2>2, <2>3, <2>4 DEF StructuralDiagnostics
<1>14. QED
    BY <1>1, <1>2, <1>12, <1>13 DEF d, P

\* No two results meet at one input port.
LEMMA Ports ==
    ASSUME NEW o, IsCall(o), WellFormed(o)
    PROVE  PortsDistinct(o)
<1> DEFINE n == Len(o.items)
           E == PatternEdges(o)
           F == PatternNodes(o)
<1>1. /\ n \in Nat \ {0} /\ HasKeys(o.items, n) /\ DOMAIN o.items = 1..n
      /\ \A i, j \in DOMAIN F : F[i] = F[j] => i = j
    BY GoodNodes
<1>2. \A i, f, t, p : Edge(i, f, t, p).to = t /\ Edge(i, f, t, p).port = p
    BY DEF Edge
<1>3. \A i, j \in 1..n : o.items[i].key = o.items[j].key => i = j
    BY <1>1 DEF HasKeys
<1>4. SUFFICES ASSUME NEW a \in DOMAIN E, NEW b \in DOMAIN E, E[a].to = E[b].to, E[a].port = E[b].port
               PROVE  a = b
    BY DEF PortsDistinct
<1>5. CASE IsLoop(o)
    <2>1. /\ DOMAIN E = 1..(3 * n - 1)
          /\ \A i \in 1..n :
                /\ E[3 * i - 2] = Edge(3 * i - 2, F[2 * i - 1], F[2 * i], "items")
                /\ E[3 * i - 1] = Edge(3 * i - 1, F[2 * i], F[2 * n + 1], o.items[i].key)
          /\ \A i \in 1..(n - 1) : E[3 * i] = Edge(3 * i, F[2 * i], F[2 * i + 1], "previousVerdict")
          /\ \A e \in 1..(3 * n - 1) : \/ \E i \in 1..n : e = 3 * i - 2 \/ e = 3 * i - 1
                                       \/ \E i \in 1..(n - 1) : e = 3 * i
        BY <1>5, LoopEdgeFacts, ZenonT(20)
    <2>2. DOMAIN F = 1..(2 * n + 1)
        BY <1>5, LoopNodeFacts
    <2> HIDE DEF n, E, F
    <2> DEFINE Kind1(e) == \E i \in 1..n : e = 3 * i - 2 /\ E[e].to = F[2 * i]
               Kind2(e) == \E i \in 1..n : e = 3 * i - 1 /\ E[e].to = F[2 * n + 1] /\ E[e].port = o.items[i].key
               Kind3(e) == \E i \in 1..(n - 1) : e = 3 * i /\ E[e].to = F[2 * i + 1]
    <2>3. ASSUME NEW e \in DOMAIN E PROVE Kind1(e) \/ Kind2(e) \/ Kind3(e)
        <3>1. CASE \E i \in 1..n : e = 3 * i - 2 \/ e = 3 * i - 1
            <4>1. PICK i \in 1..n : e = 3 * i - 2 \/ e = 3 * i - 1
                BY <3>1
            <4>2. /\ E[3 * i - 2].to = F[2 * i]
                  /\ E[3 * i - 1].to = F[2 * n + 1] /\ E[3 * i - 1].port = o.items[i].key
                <5>1. E[3 * i - 2] = Edge(3 * i - 2, F[2 * i - 1], F[2 * i], "items")
                    BY <2>1
                <5>2. E[3 * i - 1] = Edge(3 * i - 1, F[2 * i], F[2 * n + 1], o.items[i].key)
                    BY <2>1
                <5>3. QED
                    BY <1>2, <5>1, <5>2
            <4>3. CASE e = 3 * i - 2
                <5>1. Kind1(e)
                    BY <4>2, <4>3
                <5>2. QED
                    BY <5>1
            <4>4. CASE e = 3 * i - 1
                <5>1. Kind2(e)
                    BY <4>2, <4>4
                <5>2. QED
                    BY <5>1
            <4>5. QED
                BY <4>1, <4>3, <4>4
        <3>2. CASE \E i \in 1..(n - 1) : e = 3 * i
            <4>1. PICK i \in 1..(n - 1) : e = 3 * i
                BY <3>2
            <4>2. E[3 * i].to = F[2 * i + 1]
                BY <1>2, <2>1
            <4>3. QED
                BY <4>1, <4>2
        <3>3. QED
            BY <2>1, <3>1, <3>2
    <2>4. \A i \in 1..n : 2 * i \in 1..(2 * n + 1) /\ 2 * n + 1 \in 1..(2 * n + 1) /\ 2 * i # 2 * n + 1
        BY <1>1
    <2>5. \A i \in 1..(n - 1) : 2 * i + 1 \in 1..(2 * n + 1) /\ 2 * i + 1 # 2 * n + 1
        BY <1>1
    <2>6. \A i \in 1..n, j \in 1..(n - 1) : 2 * i # 2 * j + 1
        BY <1>1
    <2>7. ~ (Kind1(a) /\ Kind2(b)) /\ ~ (Kind2(a) /\ Kind1(b))
        BY <1>1, <1>4, <2>2, <2>4
    <2>8. ~ (Kind1(a) /\ Kind3(b)) /\ ~ (Kind3(a) /\ Kind1(b))
        BY <1>1, <1>4, <2>2, <2>4, <2>5, <2>6
    <2>9. ~ (Kind2(a) /\ Kind3(b)) /\ ~ (Kind3(a) /\ Kind2(b))
        BY <1>1, <1>4, <2>2, <2>4, <2>5
    <2>10. ASSUME Kind1(a), Kind1(b) PROVE a = b
        <3>1. PICK i \in 1..n : a = 3 * i - 2 /\ E[a].to = F[2 * i]
            BY <2>10
        <3>2. PICK j \in 1..n : b = 3 * j - 2 /\ E[b].to = F[2 * j]
            BY <2>10
        <3>3. 2 * i = 2 * j
            BY <1>1, <1>4, <2>2, <2>4, <3>1, <3>2
        <3>4. QED
            BY <3>1, <3>2, <3>3
    <2>11. ASSUME Kind2(a), Kind2(b) PROVE a = b
        BY <1>3, <1>4, <2>11
    <2>12. ASSUME Kind3(a), Kind3(b) PROVE a = b
        <3>1. PICK i \in 1..(n - 1) : a = 3 * i /\ E[a].to = F[2 * i + 1]
            BY <2>12
        <3>2. PICK j \in 1..(n - 1) : b = 3 * j /\ E[b].to = F[2 * j + 1]
            BY <2>12
        <3>3. 2 * i + 1 = 2 * j + 1
            BY <1>1, <1>4, <2>2, <2>5, <3>1, <3>2
        <3>4. QED
            BY <3>1, <3>2, <3>3
    <2> HIDE DEF Kind1, Kind2, Kind3
    <2>13. QED
        BY <1>4, <2>3, <2>7, <2>8, <2>9, <2>10, <2>11, <2>12
<1>6. CASE ~ IsLoop(o)
    <2>1. /\ DOMAIN E = 1..(2 * n)
          /\ \A k \in 1..n : E[k] = Edge(k, o.head, F[k + 1], 0)
          /\ \A k \in 1..n : E[n + k] = Edge(n + k, F[k + 1], o.tail, o.items[Place(o.items, k)].key)
        BY <1>6, FanEdgeFacts
    <2>2. DOMAIN F = 1..(n + 2) /\ F[n + 2] = o.tail
        BY <1>1, <1>6, FanNodeFacts
    <2>3. /\ \A k \in 1..n : Place(o.items, k) \in 1..n
          /\ \A k, l \in 1..n : Place(o.items, k) = Place(o.items, l) => k = l
        BY <1>1, RankPlaces
    <2> HIDE DEF n, E, F
    <2> DEFINE Kind1(e) == e \in 1..n /\ E[e].to = F[e + 1]
               Kind2(e) == \E k \in 1..n : /\ e = n + k /\ E[e].to = F[n + 2]
                                           /\ E[e].port = o.items[Place(o.items, k)].key
    <2>4. ASSUME NEW e \in DOMAIN E PROVE Kind1(e) \/ Kind2(e)
        <3>1. CASE e \in 1..n
            BY <1>2, <2>1, <3>1
        <3>2. CASE e \notin 1..n
            <4>1. e - n \in 1..n /\ n + (e - n) = e
                BY <1>1, <2>1, <3>2
            <4>2. E[e] = Edge(e, F[(e - n) + 1], o.tail, o.items[Place(o.items, e - n)].key)
                BY <2>1, <4>1
            <4>3. E[e].to = F[n + 2] /\ E[e].port = o.items[Place(o.items, e - n)].key
                BY <1>2, <2>2, <4>2
            <4>4. QED
                BY <4>1, <4>3
        <3>3. QED
            BY <3>1, <3>2
    <2>5. \A k \in 1..n : k + 1 \in 1..(n + 2) /\ n + 2 \in 1..(n + 2) /\ k + 1 # n + 2
        BY <1>1
    <2>6. ~ (Kind1(a) /\ Kind2(b)) /\ ~ (Kind2(a) /\ Kind1(b))
        BY <1>1, <1>4, <2>2, <2>5
    <2>7. ASSUME Kind1(a), Kind1(b) PROVE a = b
        <3>1. a + 1 = b + 1 /\ a \in 1..n /\ b \in 1..n
            BY <1>1, <1>4, <2>2, <2>5, <2>7
        <3>2. QED
            BY <3>1
    <2>8. ASSUME Kind2(a), Kind2(b) PROVE a = b
        BY <1>3, <1>4, <2>3, <2>8
    <2> HIDE DEF Kind1, Kind2
    <2>9. QED
        BY <1>4, <2>4, <2>6, <2>7, <2>8
<1>7. QED
    BY <1>5, <1>6

\* The order of the entries of a fan is not seen in its document.
LEMMA AnyOrder ==
    ASSUME NEW o, IsCall(o), WellFormed(o), ~ IsLoop(o)
    PROVE  OrderIrrelevant(o)
<1> DEFINE n == Len(o.items)
<1>1. n \in Nat /\ DOMAIN o.items = 1..n /\ HasKeys(o.items, n)
    BY GoodNodes
<1>2. SUFFICES ASSUME NEW p \in [1..n -> 1..n], \A i, j \in 1..n : p[i] = p[j] => i = j
               PROVE  LET other == [o EXCEPT !.items = [i \in 1..n |-> o.items[p[i]]]]
                      IN  /\ buildGraph(other) = buildGraph(o)
                          /\ PatternEdges(other) = PatternEdges(o)
                          /\ RouteConditions(other) = RouteConditions(o)
    BY <1>1 DEF OrderIrrelevant
<1> DEFINE again == [i \in 1..n |-> o.items[p[i]]]
           r == [o EXCEPT !.items = again]
<1>3. SortedByKey(again) = SortedByKey(o.items)
    <2>1. DOMAIN again = 1..n /\ \A i \in 1..n : again[i] = o.items[p[i]]
        OBVIOUS
    <2> HIDE DEF again, n
    <2>2. Reorders(again, o.items, n, p)
        BY <1>2, <2>1 DEF Reorders
    <2>3. QED
        BY <1>1, <2>2, SortedSame
<1> HIDE DEF again
<1>4. /\ r.items = again /\ r.pattern = o.pattern /\ r.head = o.head /\ r.tail = o.tail
      /\ r.core = o.core /\ r.maxFanOut = o.maxFanOut /\ r.maxDepth = o.maxDepth
    BY DEF IsCall
<1> HIDE DEF r
<1>5. ~ IsLoop(r)
    BY <1>4 DEF IsLoop
<1>6. PatternNodes(r) = PatternNodes(o)
    BY <1>3, <1>4, <1>5 DEF PatternNodes, FanNodes
<1>7. PatternEdges(r) = PatternEdges(o)
    BY <1>3, <1>4, <1>5 DEF PatternEdges, FanEdges
<1>8. buildGraph(r) = buildGraph(o)
    BY <1>4, <1>6, <1>7 DEF buildGraph
<1>9. RouteConditions(r) = RouteConditions(o)
    BY <1>3, <1>4 DEF RouteConditions
<1>10. QED
    BY <1>7, <1>8, <1>9 DEF r, again

-----------------------------------------------------------------------------
(* The calls of the builders.                                              *)

\* What compileGraph has found when it returns for a document without
\* structural errors and without a cycle: an entrypoint with incoming edges, a
\* node it does not reach, or a policy that the caller set.
Verdict ==
    pc = "done" /\ doc.form = "graph" /\ StructuralDiagnostics(doc) = {} /\ Processed = Nodes =>
        \A d \in diagnostics :
            \/ d.code \in {"GE1101_MAX_FAN_OUT", "GE1102_MAX_DEPTH"}
            \/ \E n \in doc.entrypoints : EdgesInto(doc, n) # {}
            \/ ~ Nodes \subseteq reachable

LEMMA VerdictKept == CompilerInv /\ Verdict /\ [Next]_vars => Verdict'
<1> SUFFICES ASSUME CompilerInv, Verdict, [Next]_vars PROVE Verdict'
    OBVIOUS
<1>1. CASE Refuse
    BY <1>1 DEF Refuse, Verdict
<1>2. CASE Index
    BY <1>2 DEF Index, Verdict
<1>3. CASE PushLayer \/ CheckEntrypoints \/ \E n \in Ids : Visit(n)
    BY <1>3 DEF PushLayer, CheckEntrypoints, Visit, Verdict
<1>4. CASE FindCycle
    <2>1. UNCHANGED <<doc, layers>> /\ Processed # Nodes
        BY <1>4 DEF FindCycle
    <2>2. Processed' # Nodes'
        BY <2>1 DEF Processed, Nodes
    <2>3. QED
        BY <2>2 DEF Verdict
<1>5. CASE CheckPolicies
    <2>1. UNCHANGED <<doc, layers, reachable>>
        BY <1>5 DEF CheckPolicies
    <2>2. Nodes' = Nodes /\ \A n : EdgesInto(doc, n)' = EdgesInto(doc, n)
        BY <2>1 DEF Nodes, EdgesInto
    <2>3. diagnostics' = diagnostics \cup PolicyDiagnostics \cup
              {Diagnostic("GE1006_UNREACHABLE_NODE", n) : n \in Nodes \ reachable}
        BY <1>5 DEF CheckPolicies
    <2>4. \A d \in diagnostics : \E n \in doc.entrypoints : EdgesInto(doc, n) # {}
        BY <1>5 DEF CompilerInv, Reaching, CheckPolicies
    <2>5. \A d \in PolicyDiagnostics : d.code \in {"GE1101_MAX_FAN_OUT", "GE1102_MAX_DEPTH"}
        BY DEF PolicyDiagnostics, Diagnostic
    <2>6. QED
        BY <2>1, <2>2, <2>3, <2>4, <2>5 DEF Verdict
<1>6. CASE UNCHANGED vars
    <2>1. UNCHANGED <<pc, doc, diagnostics, layers, reachable>>
        BY <1>6 DEF vars
    <2>2. Nodes' = Nodes /\ Processed' = Processed /\ \A n : EdgesInto(doc, n)' = EdgesInto(doc, n)
        BY <2>1 DEF Nodes, Processed, EdgesInto
    <2>3. QED
        BY <2>1, <2>2 DEF Verdict
<1>7. QED
    BY <1>1, <1>2, <1>3, <1>4, <1>5, <1>6 DEF Next, Compiled

\* What a run of the compiler keeps, whoever gave it the document.
RunInv == CompilerInv /\ Ended /\ Verdict

LEMMA RunKept == RunInv /\ [Next]_vars => RunInv'
    BY NextKeeps, EndedKept, VerdictKept DEF RunInv

\* A run can begin with any document.
AtStart ==
    /\ IsDocument(doc) /\ TypeOK /\ pc = "capture"
    /\ layers = << >> /\ diagnostics = {} /\ reachable = {} /\ queue = {} /\ currentLayer = {}

LEMMA RunBegins == AtStart => RunInv
<1> SUFFICES ASSUME AtStart PROVE RunInv
    OBVIOUS
<1> USE DEF AtStart
<1>1. Types
    BY DEF Types
<1>2. Processed = {}
    BY EmptyLayers
<1>3. Counted /\ Reaching /\ Declares /\ Ended /\ Verdict
    BY <1>2 DEF Counted, Reaching, Declares, Ended, Verdict
<1>4. LayersTight /\ LayersDisjoint
    BY DEF LayersTight, LayersDisjoint
<1>5. Accepted /\ ReachabilityLeast
    BY DEF Accepted, valid, ReachabilityLeast
<1>6. QED
    BY <1>1, <1>3, <1>4, <1>5 DEF RunInv, CompilerInv, LayerInv

Concluded == {"graph", "GE_PATTERN_CORE_REJECTED"}

\* Which calls get to which outcome, and the document that compileGraph has.
Called ==
    /\ outcome = "parse" => pc = "capture"
    /\ outcome = "graph" => valid
    /\ outcome = "GE_PATTERN_CORE_REJECTED" => pc = "done" /\ ~ valid
    /\ call # NoCall \/ outcome = "parse" => IsCall(call)
    /\ call # NoCall /\ outcome \in {"compile"} \cup Concluded =>
          WellFormed(call) /\ doc = buildGraph(call)
    /\ call # NoCall /\ outcome \notin {"parse", "compile"} \cup Concluded => ~ WellFormed(call)

PatternInv == RunInv /\ Called

LEMMA PatternBegins == PatternInit => PatternInv
<1> SUFFICES ASSUME PatternInit PROVE PatternInv
    OBVIOUS
<1>1. Init /\ Ended
    BY DEF PatternInit, Init, Ended
<1>2. RunInv
    BY <1>1, InitHolds DEF Init, Verdict, RunInv
<1>3. Called
    BY <1>1, PatternAssumption DEF PatternInit, Init, Called, Concluded
<1>4. QED
    BY <1>2, <1>3 DEF PatternInv

\* compileGraph leaves its argument alone, and does not go back.
LEMMA Compiling == [Next]_vars => doc' = doc
    BY DEF Next, vars, Refuse, Index, PushLayer, FindCycle, CheckEntrypoints, Visit, CheckPolicies,
           Compiled

LEMMA PatternKeeps == PatternInv /\ [PatternNext]_<<vars, patternVars>> => PatternInv'
<1> SUFFICES ASSUME PatternInv, [PatternNext]_<<vars, patternVars>> PROVE PatternInv'
    OBVIOUS
<1>1. RunInv /\ Called
    BY DEF PatternInv
<1>2. UNCHANGED vars => RunInv' /\ pc' = pc /\ doc' = doc /\ (valid' <=> valid)
    BY <1>1, RunKept DEF vars, valid
<1>3. CASE Reject
    <2>1. IsCall(call) /\ outcome = "parse" /\ UNCHANGED <<vars, call>> /\ PatternError(call) # "none"
          /\ outcome' = PatternError(call)
        BY <1>1, <1>3 DEF Reject, Called
    <2>2. ~ WellFormed(call) /\ outcome' \in PatternCodes
        BY <2>1, ErrorFacts, InOrderIs
    <2>3. outcome' \notin {"parse", "compile"} \cup Concluded
        BY <2>2 DEF PatternCodes, Concluded
    <2>4. ~ WellFormed(call)'
        BY <2>1, <2>2
    <2>5. Called'
        BY <1>1, <2>1, <2>3, <2>4 DEF Called, Concluded
    <2>6. QED
        BY <1>2, <2>1, <2>5 DEF PatternInv
<1>4. CASE Build
    <2>1. /\ IsCall(call) /\ outcome = "parse" /\ PatternError(call) = "none"
          /\ doc' = buildGraph(call) /\ outcome' = "compile" /\ pc = "capture"
          /\ UNCHANGED <<pc, diagnostics, inDegree, currentLayer, layers, reachable, queue, call>>
        BY <1>1, <1>4 DEF Build, Called
    <2>2. WellFormed(call) /\ IsDocument(buildGraph(call))
        BY <2>1, ErrorFacts, InOrderIs, BuiltFacts
    <2>3. /\ TypeOK /\ layers = << >> /\ diagnostics = {} /\ reachable = {} /\ queue = {}
          /\ currentLayer = {}
        BY <1>1, <2>1 DEF RunInv, CompilerInv, LayerInv, Types
    <2>4. TypeOK' /\ IsDocument(doc)'
        BY <2>1, <2>2, <2>3 DEF TypeOK, IsDocument
    <2>5. RunInv'
        <3>1. AtStart'
            BY <2>1, <2>3, <2>4 DEF AtStart
        <3>2. QED
            BY <3>1, RunBegins, PTL
    <2>6. Called'
        BY <1>1, <2>1, <2>2 DEF Called, Concluded
    <2>7. QED
        BY <2>5, <2>6 DEF PatternInv
<1>5. CASE Compile
    <2>1. outcome = "compile" /\ Next /\ UNCHANGED <<call, outcome>>
        BY <1>5 DEF Compile, patternVars
    <2>2. RunInv' /\ doc' = doc
        BY <1>1, <2>1, RunKept, Compiling
    <2>3. Called'
        BY <1>1, <2>1, <2>2 DEF Called, Concluded
    <2>4. QED
        BY <2>2, <2>3 DEF PatternInv
<1>6. CASE Conclude
    <2>1. /\ outcome = "compile" /\ call # NoCall /\ pc = "done" /\ UNCHANGED <<vars, call>>
          /\ outcome' = IF valid THEN "graph" ELSE "GE_PATTERN_CORE_REJECTED"
        BY <1>6 DEF Conclude
    <2>2. Called'
        BY <1>1, <1>2, <2>1 DEF Called, Concluded
    <2>3. QED
        BY <1>2, <2>1, <2>2 DEF PatternInv
<1>7. CASE UNCHANGED <<vars, patternVars>>
    <2>1. UNCHANGED vars /\ UNCHANGED <<call, outcome>>
        BY <1>7 DEF patternVars
    <2>2. Called'
        BY <1>1, <1>2, <2>1 DEF Called, Concluded
    <2>3. QED
        BY <1>2, <2>1, <2>2 DEF PatternInv
<1>8. QED
    BY <1>3, <1>4, <1>5, <1>6, <1>7 DEF PatternNext, Returned

LEMMA PatternInvAlways == PatternSpec => []PatternInv
    BY PatternBegins, PatternKeeps, PTL DEF PatternSpec

\* The builders of any set of calls, with options of any size: a call returns a
\* graph or is refused by the core exactly for options of the documented shape,
\* and then only for what the caller's schemas or policies rule out; the graph
\* has the promised layers, one result a port, and for the fan patterns the same
\* document whatever the order of the entries.
THEOREM PatternsAlwaysSound == PatternSpec => []PatternsSound
<1>1. ASSUME PatternInv, call # NoCall, outcome \notin {"parse", "compile"} PROVE PatternsSound
    <2>1. RunInv /\ Called /\ CompilerInv /\ Ended /\ Verdict /\ IsCall(call)
        BY <1>1 DEF PatternInv, Called, RunInv
    <2>2. outcome \in Concluded <=> WellFormed(call)
        BY <1>1, <2>1 DEF Called
    <2>3. ASSUME outcome \in Concluded, doc.form = "graph"
          PROVE  /\ layers = PromisedLayers(call)
                 /\ \A d \in diagnostics : d.code \in {"GE1101_MAX_FAN_OUT", "GE1102_MAX_DEPTH"}
        <3>1. WellFormed(call) /\ doc = buildGraph(call) /\ pc = "done"
            BY <1>1, <2>1, <2>3 DEF Called, Concluded, valid
        <3>2. StructuralDiagnostics(doc) = {} /\ Promises(doc, PromisedLayers(call))
            BY <2>1, <3>1, BuiltFacts
        <3>3. Processed = Nodes
            BY <2>1, <2>3, <3>1, <3>2, NothingLeftOver
        <3>4. layers = PromisedLayers(call)
            BY <2>1, <3>2, <3>3, LayersPromised
        <3>5. Nodes \subseteq reachable
            BY <2>1, <3>1, <3>2, <3>3, PromisedReached
        <3>6. \A n \in doc.entrypoints : EdgesInto(doc, n) = {}
            BY <3>2, PromisedEdges DEF Promises
        <3>7. \A d \in diagnostics : d.code \in {"GE1101_MAX_FAN_OUT", "GE1102_MAX_DEPTH"}
            BY <2>1, <2>3, <3>1, <3>2, <3>3, <3>5, <3>6 DEF Verdict
        <3>8. QED
            BY <3>4, <3>7
    <2>4. outcome \in Concluded => doc.form = call.core
        BY <1>1, <2>1, <2>2, BuiltFacts DEF Called, Concluded
    <2>5. outcome = "GE_PATTERN_CORE_REJECTED" =>
              \/ call.core # "graph"
              \/ \A d \in diagnostics : d.code \in {"GE1101_MAX_FAN_OUT", "GE1102_MAX_DEPTH"}
        BY <2>3, <2>4 DEF Concluded
    <2>6. outcome = "graph" => valid /\ doc.form = "graph"
        BY <2>1 DEF Called, CompilerInv, Accepted
    <2>7. outcome = "graph" =>
              /\ layers = PromisedLayers(call)
              /\ PortsDistinct(call)
              /\ IsLoop(call) \/ OrderIrrelevant(call)
        BY <2>1, <2>2, <2>3, <2>6, Ports, AnyOrder DEF Concluded
    <2>8. QED
        BY <2>2, <2>5, <2>6, <2>7 DEF PatternsSound, Concluded
<1>2. PatternInv => PatternsSound
    BY <1>1 DEF PatternsSound
<1>3. QED
    BY <1>2, PatternInvAlways, PTL

\* The documents the builders make go through the same compiler: whether
\* compileGraph is called directly or by a builder, its layers, cycles and
\* reachable nodes are exact and what it accepts can be run.
THEOREM BuiltGraphsCompile ==
    PatternSpec => [](TypeOK /\ LayersExact /\ CycleExact /\ ReachabilityLeast /\ ValidGraphRuns)
<1>1. PatternInv => CompilerInv /\ Ended
    BY DEF PatternInv, RunInv
<1>2. CompilerInv => TypeOK /\ LayersExact /\ ReachabilityLeast
    BY DEF CompilerInv, LayerInv, Types, LayersExact
<1>3. QED
    BY <1>1, <1>2, EndedExact, AcceptedRuns, PatternInvAlways, PTL
=============================================================================
