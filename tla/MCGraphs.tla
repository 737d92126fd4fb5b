------------------------------ MODULE MCGraphs ------------------------------
(***************************************************************************)
(* Small graphs for the two schedulers.  A graph is given by its           *)
(* declaration order and its edges; the sequence is computed from them as  *)
(* both compilers do: by topological layer, then by declaration order.     *)
(***************************************************************************)
EXTENDS Integers, FiniteSets, FiniteSetsExt

Edge(id, from, to, fromPort, toPort) ==
    [id |-> id, from |-> from, to |-> to, fromPort |-> fromPort, toPort |-> toPort]

\* The layer of a node of an acyclic graph is the length of its longest path
\* from a root.
LayerIn(nodes, edges) ==
    LET Layer[n \in nodes] ==
            LET up == {e.from : e \in {f \in edges : f.to = n}}
            IN  IF up = {} THEN 0 ELSE 1 + Max({Layer[m] : m \in up})
    IN  Layer

SequenceOf(declared, edges) ==
    LET nodes == {declared[i] : i \in DOMAIN declared}
        layer == LayerIn(nodes, edges)
        Before(i, j) == \/ layer[declared[i]] < layer[declared[j]]
                        \/ layer[declared[i]] = layer[declared[j]] /\ i < j
    IN  [n \in nodes |->
            Cardinality({i \in DOMAIN declared :
                \E j \in DOMAIN declared : declared[j] = n /\ Before(i, j)})]
=============================================================================
