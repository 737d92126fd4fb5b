--------------------------- MODULE MCPyScheduler ---------------------------
(***************************************************************************)
(* A graph for PyScheduler: two roots with asynchronous handlers, one of   *)
(* them with a delayed retry and one with a timeout, and a third that is   *)
(* in the way; a synchronous join over parallel edges, one of which        *)
(* selects a port; a node without a handler behind it.                     *)
(***************************************************************************)
EXTENDS PyScheduler, MCGraphs

PyNodes == {"a", "b", "r", "c", "x"}
PyEdges == {Edge("e1", "a", "c", "-", "-"), Edge("e2", "a", "c", "p", "q"),
            Edge("e3", "b", "c", "-", "-"), Edge("e4", "c", "x", "-", "-")}
PySequence == SequenceOf(<<"a", "b", "r", "c", "x">>, PyEdges)
PyOutputs == {[node |-> "c", port |-> "p"], [node |-> "r", port |-> "-"]}
PyMaxAttempts == [n \in PyNodes |-> IF n \in {"a", "c"} THEN 2 ELSE 1]
=============================================================================
