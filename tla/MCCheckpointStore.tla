------------------------- MODULE MCCheckpointStore -------------------------
(***************************************************************************)
(* Requests for CheckpointStore: saves of two identifiers under equal and  *)
(* different sequence numbers, one malformed save, loads and lists.        *)
(***************************************************************************)
EXTENDS CheckpointStore

Save(id, sequence) == [op |-> "save", id |-> id, sequence |-> sequence, valid |-> TRUE]
Saves == {Save(1, 1), Save(2, 0), Save(2, 1)}
Loads == [op : {"load"}, id : {2}, sequence : {0}, valid : {TRUE}]
Lists == [op : {"list"}, id : {1}, sequence : {0}, valid : {TRUE}]
Malformed == [op : {"save"}, id : {1}, sequence : {0}, valid : {FALSE}]

\* Crashes of the process over files of which one may be damaged, and power
\* losses.
MCSettings ==
    [powerFails : {FALSE}, damaged : {{}, {2}}, requests : {Saves \cup Loads \cup Lists \cup Malformed}]
    \cup [powerFails : {TRUE}, damaged : {{}}, requests : {Saves \cup Lists}]
=============================================================================
