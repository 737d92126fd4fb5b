----------------------------- MODULE MCCompiler -----------------------------
(***************************************************************************)
(* Documents for Compiler: every list of at most MaxEdges edges over the   *)
(* identifiers, with dangling ends, duplicate identifiers, self-loops,     *)
(* parallel edges and cycles among them; and calls for Patterns.           *)
(***************************************************************************)
EXTENDS Patterns, SequencesExt

CONSTANTS
    MaxEdges,       \* edges of a document with structural errors
    MaxLayerEdges   \* edges of a well-formed document

\* A document without outputs and policies.
Document(form, nodes, edges, entrypoints) ==
    [form |-> form, nodes |-> nodes, edges |-> edges, entrypoints |-> entrypoints,
     outputs |-> {}, maxFanOut |-> NoLimit, maxDepth |-> NoLimit]

\* Duplicate and dangling identifiers, with and without policies.
StructureDocuments ==
    [form : {"graph"}, nodes : {<<"b", "a", "c">>, <<"b", "a", "b">>},
     edges : BoundedSeq([id : {1, 2}, from : {"a", "b", "c", "z"}, to : {"a", "b", "c", "z"}],
                        MaxEdges),
     entrypoints : {{"a"}, {"a", "b"}, {"z"}}, outputs : {{"c"}, {"z"}},
     maxFanOut : {1, NoLimit}, maxDepth : {1, NoLimit}]

\* Every graph of at most MaxLayerEdges edges over four nodes, each edge with
\* an identifier of its own; the smaller ones also with some edges doubled.
LayerEnds == {"a", "b", "c", "d"}
OwnIds(edges) == [i \in DOMAIN edges |-> [id |-> i, from |-> edges[i][1], to |-> edges[i][2]]]
EdgeLists ==
    LET sets == {s \in SUBSET (LayerEnds \X LayerEnds) : Cardinality(s) <= MaxLayerEdges}
    IN  {SetToSeq(s) : s \in sets} \cup
        UNION {{SetToSeq(s) \o SetToSeq(twice) : twice \in SUBSET s} :
                  s \in {t \in sets : Cardinality(t) <= 2}}

LayerDocuments ==
    {Document("graph", <<"d", "b", "a", "c">>, OwnIds(es), ep) :
        ep \in {{"a"}, {"a", "b"}}, es \in EdgeLists}

(***************************************************************************)
(* Calls of the builders: well-formed options of every pattern over every  *)
(* list of entries, among them repeated and refused keys and nodes, and    *)
(* one option at a time of every other defect the checks know.             *)
(***************************************************************************)
Entries(pattern) ==
    [entry : {"ok"}, key : {0, 1, 2},
     nodes : IF pattern = "loop-until-dry" THEN {<<"b", "c">>, <<"d", "z">>, <<"b", BadId>>}
             ELSE {<<"b">>, <<"c">>, <<BadId>>}]

\* Entries with a node that is no object, before and behind one without an id.
ObjectlessEntries(pattern) ==
    [entry : {"ok"}, key : {1},
     nodes : IF pattern = "loop-until-dry"
             THEN {<<NotObject, "c">>, <<"b", NotObject>>, <<NotObject, BadId>>, <<BadId, NotObject>>}
             ELSE {<<NotObject>>}]

OptionsOf(pattern, items) ==
    [pattern |-> pattern, form |-> "ok", array |-> TRUE, records |-> TRUE, items |-> items,
     head |-> "a", tail |-> "e", maxRounds |-> Len(items), outputKey |-> "ok", metadata |-> "ok",
     core |-> "graph", maxFanOut |-> NoLimit, maxDepth |-> NoLimit]

Variants(o) ==
    {o, [o EXCEPT !.form = "unportable"], [o EXCEPT !.form = "unknown"],
     [o EXCEPT !.array = FALSE, !.items = << >>], [o EXCEPT !.records = FALSE],
     [o EXCEPT !.head = BadId], [o EXCEPT !.tail = BadId], [o EXCEPT !.head = NotObject],
     [o EXCEPT !.tail = NotObject], [o EXCEPT !.head = "b"],
     [o EXCEPT !.tail = "b"], [o EXCEPT !.maxRounds = @ + 1], [o EXCEPT !.maxRounds = 0],
     [o EXCEPT !.outputKey = "unsafe"], [o EXCEPT !.metadata = "badName"],
     [o EXCEPT !.metadata = "otherLabel"], [o EXCEPT !.core = "invalid"],
     [o EXCEPT !.maxFanOut = 1], [o EXCEPT !.maxDepth = 3]}

PlainEntries(pattern) == {e \in Entries(pattern) : e.key > 0 /\ BadNodes \cap Range(e.nodes) = {}}

MCCalls ==
    UNION {{OptionsOf(p, items) : items \in BoundedSeq(Entries(p), 2)}
             \cup UNION {Variants(OptionsOf(p, items)) : items \in BoundedSeq(PlainEntries(p), 2)}
             \cup {OptionsOf(p, items) : items \in BoundedSeq(PlainEntries(p), 3)}
             \cup {OptionsOf(p, <<e>>) : e \in ObjectlessEntries(p)}
             \cup {OptionsOf(p, <<[e EXCEPT !.entry = shape]>>) :
                      e \in Entries(p), shape \in {"other", "extra"}} :
           p \in {"diamond", "routed-branches", "verified-fanout", "loop-until-dry"}}

MCDocuments ==
    StructureDocuments \cup LayerDocuments \cup
    {Document(f, << >>, << >>, {}) : f \in {"unportable", "invalid"}}
=============================================================================
