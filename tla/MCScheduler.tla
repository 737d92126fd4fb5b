---------------------------- MODULE MCScheduler ----------------------------
(***************************************************************************)
(* Graphs and policies for Scheduler.                                      *)
(***************************************************************************)
EXTENDS SchedulerRefinement, MCGraphs

\* A join over parallel edges, one of which selects a port, a node without an
\* executor behind it, and two more roots that contend for the two slots.
JoinNodes == {"a", "b", "c", "r", "s", "x"}
JoinEdges == {Edge("e1", "a", "c", "-", "-"), Edge("e2", "a", "c", "p", "q"),
              Edge("e3", "b", "c", "-", "-"), Edge("e4", "c", "x", "-", "-")}
JoinSequence == SequenceOf(<<"a", "b", "c", "r", "s", "x">>, JoinEdges)
JoinOutputs == {[node |-> "c", port |-> "p"], [node |-> "r", port |-> "-"]}
JoinMaxAttempts == [n \in JoinNodes |-> IF n = "a" THEN 2 ELSE 1]

\* Two slots; h may hang for ever, a until its timeout; b has a retry and d
\* and c follow h and a.
BesideNodes == {"h", "a", "b", "c", "d"}
BesideEdges == {Edge("e1", "a", "c", "-", "-"), Edge("e2", "h", "d", "-", "-")}
BesideSequence == SequenceOf(<<"h", "a", "b", "c", "d">>, BesideEdges)
BesideOutputs == {[node |-> "c", port |-> "-"]}
BesideMaxAttempts == [n \in BesideNodes |-> IF n = "b" THEN 2 ELSE 1]

HungNodes == {"h"}
HungSpec == Spec /\ Fairness(HungNodes)

\* Under the event loop's fairness every run returns if the executors without
\* a timeout answer; those with one may hang, and the caller may abort at any
\* time.
Termination == (\A n \in HungNodes : WF_vars(ExecutorSettles(n))) => <>(mainPc = "done")

\* There are no layer barriers: with a slot to spare, the nodes that do not
\* depend on a hung executor all settle.
SlowSiblingHarmless ==
    \A n \in Nodes \ {"h", "d"} : <>(phase[n] = "settled")

\* x joins a late root with a chain, y follows the same root; x is declared
\* before y but sits in a later layer.
OrderNodes == {"p", "q", "r", "x", "y"}
OrderDeclared == <<"p", "q", "r", "x", "y">>
OrderEdges == {Edge("e1", "q", "r", "-", "-"), Edge("e2", "p", "x", "-", "-"),
               Edge("e3", "r", "x", "-", "-"), Edge("e4", "p", "y", "-", "-")}
OrderSequence == SequenceOf(OrderDeclared, OrderEdges)
OrderOutputs == {[node |-> "x", port |-> "-"]}
OrderMaxAttempts == [n \in OrderNodes |-> 1]

DeclaredBefore(m, n) ==
    \E i, j \in DOMAIN OrderDeclared : i < j /\ OrderDeclared[i] = m /\ OrderDeclared[j] = n

\* Of the nodes that are ready together, the one launched next is the first
\* in the order of GraphSpec.nodes.
LaunchInDeclarationOrder ==
    [][\A n \in ready \ ready' : phase'[n] # "settled" =>
           \A m \in ready : ~DeclaredBefore(m, n)]_vars
=============================================================================
