------------------------- MODULE MCJsonlEventStore -------------------------
(***************************************************************************)
(* Requests for JsonlEventStore: appends of one or two events at every     *)
(* version the instance can reach, one of no event, a malformed one, one   *)
(* with bad events, and reads.                                             *)
(***************************************************************************)
EXTENDS JsonlEventStore

CONSTANTS MaxVersion

Appends(sizes) ==
    [op : {"append"}, expected : -1..MaxVersion, size : sizes, from : {0},
     shaped : {TRUE}, wellFormed : {TRUE}]
Reads(froms) ==
    [op : {"read"}, expected : {-1}, size : {0}, from : froms,
     shaped : {TRUE}, wellFormed : {TRUE}]
Empty == [op |-> "append", expected |-> -1, size |-> 0, from |-> 0,
          shaped |-> TRUE, wellFormed |-> TRUE]
\* An append of no event behind the first record.
NoEvents == [Empty EXCEPT !.expected = 1]
Malformed == [op |-> "append", expected |-> -2, size |-> 1, from |-> 0,
              shaped |-> FALSE, wellFormed |-> TRUE]
BadEvents == [op |-> "append", expected |-> -1, size |-> 1, from |-> 0,
              shaped |-> TRUE, wellFormed |-> FALSE]

AllRequests == Appends({1, 2}) \cup Reads({0, 1}) \cup {Empty, Malformed, BadEvents}
GoodRequests == Appends({1, 2}) \cup Reads({0})

Setting(powerFails, history, requests) ==
    [powerFails |-> powerFails, history |-> history, requests |-> requests]

\* The process crashes over a new file, with every request; or power is lost
\* over a file that already has a durable entry and a record.
SafeSettings == {Setting(FALSE, 0, AllRequests), Setting(TRUE, 1, GoodRequests \cup {NoEvents})}

\* The process crashes over a new file.
NewFile == {Setting(FALSE, 0, GoodRequests)}

\* Power is lost while the file is new.
NewFilePower == {Setting(TRUE, 0, GoodRequests)}
=============================================================================
