--------------------------- MODULE CheckpointMap ---------------------------
(***************************************************************************)
(* The contract of a CheckpointStore for one runId, as its callers see it: *)
(* a map from checkpoint identifiers to whole checkpoints.  save, load and *)
(* list are atomic between call and answer.  A save that fails or is lost  *)
(* in a crash has replaced the checkpoint or left it alone, nothing in     *)
(* between; after a power cut an identifier has one of the checkpoints     *)
(* that it had since the last save that was answered.                      *)
(***************************************************************************)
EXTENDS Integers, Sequences

CONSTANTS Calls, Requests, Ids, Nothing, Damaged, CheckpointOf(_, _)

VARIABLES map, shaky, call

contract == <<map, shaky, call>>

Pending(c, op) == call[c].state = "pending" /\ call[c].req.op = op
Answered(c, code, value) ==
    call' = [call EXCEPT ![c] = [state |-> "answered", req |-> call[c].req, code |-> code, value |-> value]]

\* A list of checkpoints in the order of their sequence numbers, equal ones in
\* the order of their identifiers.
Ordered(list) ==
    \A i, j \in DOMAIN list : i < j =>
        \/ list[i].sequence < list[j].sequence
        \/ list[i].sequence = list[j].sequence /\ list[i].id < list[j].id

MapInit ==
    /\ map \in [Ids -> {Nothing, Damaged}]
    /\ shaky = [k \in Ids |-> {map[k]}]
    /\ call = [c \in Calls |-> [state |-> "idle"]]

Invoke(c) ==
    /\ call[c].state = "idle"
    /\ \E req \in Requests :
          \/ call' = [call EXCEPT ![c] = [state |-> "pending", req |-> req, done |-> FALSE]]
          \/ ~req.valid /\ call' = [call EXCEPT ![c] = [state |-> "answered", req |-> req,
                                         code |-> "PERSISTENCE_VALIDATION", value |-> << >>]]
    /\ UNCHANGED <<map, shaky>>

\* A pending save takes effect, once.
Replace(c) ==
    LET new == CheckpointOf(c, call[c].req)
    IN  /\ Pending(c, "save") /\ ~ call[c].done
        /\ map' = [map EXCEPT ![call[c].req.id] = new]
        /\ shaky' = [shaky EXCEPT ![call[c].req.id] = @ \cup {new}]
        /\ call' = [call EXCEPT ![c].done = TRUE]

\* Only a save that took effect is answered; it is safe then, and with it
\* everything else in the map.
Confirm(c) ==
    /\ Pending(c, "save") /\ call[c].done
    /\ shaky' = [k \in Ids |-> {map[k]}]
    /\ Answered(c, "ok", << >>)
    /\ UNCHANGED map

Load(c) ==
    /\ Pending(c, "load")
    /\ LET found == map[call[c].req.id]
       IN  \/ found = Damaged /\ Answered(c, "CORRUPT_CHECKPOINT", << >>)
           \/ found = Nothing /\ Answered(c, "ok", << >>)
           \/ found \notin {Nothing, Damaged} /\ Answered(c, "ok", <<found>>)
    /\ UNCHANGED <<map, shaky>>

\* One damaged checkpoint fails the whole list.
List(c) ==
    /\ Pending(c, "list")
    /\ \/ (\E k \in Ids : map[k] = Damaged) /\ Answered(c, "CORRUPT_CHECKPOINT", << >>)
       \/ /\ \A k \in Ids : map[k] # Damaged
          /\ call'[c].state = "answered"
          /\ Answered(c, "ok", call'[c].value)
          /\ Ordered(call'[c].value)
          /\ {call'[c].value[i] : i \in DOMAIN call'[c].value} = {map[k] : k \in Ids} \ {Nothing}
    /\ UNCHANGED <<map, shaky>>

\* A failed call, and a call a crash loses, may have taken effect or not.
Fail(c) ==
    /\ call[c].state = "pending"
    /\ Answered(c, "PERSISTENCE_IO", << >>)
    /\ UNCHANGED <<map, shaky>>

Interrupt == call' = [c \in Calls |-> IF call[c].state = "pending" THEN [state |-> "lost"] ELSE call[c]]

Crash == Interrupt /\ UNCHANGED <<map, shaky>>

PowerCut ==
    /\ Interrupt
    /\ map' \in [Ids -> UNION {shaky[k] : k \in Ids}]
    /\ \A k \in Ids : map'[k] \in shaky[k]
    /\ shaky' = [k \in Ids |-> {map'[k]}]

MapNext ==
    \/ \E c \in Calls : Invoke(c) \/ Replace(c) \/ Confirm(c) \/ Load(c) \/ List(c) \/ Fail(c)
    \/ Crash \/ PowerCut

MapSpec == MapInit /\ [][MapNext]_contract
=============================================================================
