---------------------------- MODULE EventStream ----------------------------
(***************************************************************************)
(* The contract of an EventStore for one runId, as the callers of append   *)
(* and read see it: a log that only grows, a compare-and-swap append that  *)
(* takes effect between its call and its answer, and reads that return a   *)
(* snapshot.  A write the storage interrupts may leave a prefix of its     *)
(* batch, or a tail that makes the stream unreadable from then on; a crash *)
(* loses the calls in flight, and with the power also what no answered     *)
(* append put there.                                                       *)
(***************************************************************************)
EXTENDS Integers, Sequences

CONSTANTS Calls, Requests, Logs, BatchOf(_, _), OwnerOf(_)

VARIABLES log, corrupt, call

stream == <<log, corrupt, call>>

Idle == [state |-> "idle"]
Lost == [state |-> "lost"]
Pending(req) == [state |-> "pending", req |-> req]
Answered(req, code, value) ==
    [state |-> "answered", req |-> req, code |-> code, value |-> value]

Version == Len(log) - 1
Answer(c, code, value) == call' = [call EXCEPT ![c] = Answered(call[c].req, code, value)]
IsPending(c, op) == call[c].state = "pending" /\ call[c].req.op = op

StreamInit ==
    /\ log \in Logs
    /\ corrupt = FALSE
    /\ call = [c \in Calls |-> Idle]

Invoke(c) ==
    /\ call[c] = Idle
    /\ \E req \in Requests : call' = [call EXCEPT ![c] = Pending(req)]
    /\ UNCHANGED <<log, corrupt>>

\* A malformed request is refused before the stream is looked at.
Refuse(c) ==
    /\ call[c] = Idle
    /\ \E req \in Requests :
          ~req.shaped /\ call' = [call EXCEPT ![c] = Answered(req, "PERSISTENCE_VALIDATION", << >>)]
    /\ UNCHANGED <<log, corrupt>>

\* The events are looked at only after the version matched.
Reject(c) ==
    /\ IsPending(c, "append")
    /\ ~corrupt
    /\ call[c].req.expected = Version
    /\ ~call[c].req.wellFormed
    /\ Answer(c, "PERSISTENCE_VALIDATION", << >>)
    /\ UNCHANGED <<log, corrupt>>

Commit(c) ==
    /\ IsPending(c, "append")
    /\ ~corrupt
    /\ call[c].req.expected = Version
    /\ call[c].req.wellFormed
    /\ log' = log \o BatchOf(c, call[c].req)
    /\ Answer(c, "ok", << >>)
    /\ UNCHANGED corrupt

Conflict(c) ==
    /\ IsPending(c, "append")
    /\ ~corrupt
    /\ call[c].req.expected # Version
    /\ Answer(c, "VERSION_CONFLICT", << >>)
    /\ UNCHANGED <<log, corrupt>>

Read(c) ==
    /\ IsPending(c, "read")
    /\ ~corrupt
    /\ Answer(c, "ok", SubSeq(log, call[c].req.from + 1, Len(log)))
    /\ UNCHANGED <<log, corrupt>>

ReportCorruption(c) ==
    /\ call[c].state = "pending"
    /\ corrupt
    /\ Answer(c, "CORRUPT_EVENT_LOG", << >>)
    /\ UNCHANGED <<log, corrupt>>

\* What an interrupted write of c may leave behind.
Interrupted(c) ==
    \/ UNCHANGED <<log, corrupt>>
    \/ /\ IsPending(c, "append") /\ ~corrupt /\ call[c].req.expected = Version
       /\ \E k \in 0..Len(BatchOf(c, call[c].req)) :
             log' = log \o SubSeq(BatchOf(c, call[c].req), 1, k)
       /\ corrupt' \in BOOLEAN

Fail(c) ==
    /\ call[c].state = "pending"
    /\ Answer(c, "PERSISTENCE_IO", << >>)
    /\ Interrupted(c)

Crash ==
    /\ \/ UNCHANGED <<log, corrupt>>
       \/ \E c \in Calls : Interrupted(c)
    /\ call' = [c \in Calls |-> IF call[c].state = "pending" THEN Lost ELSE call[c]]

\* The first n entries hold every batch that was answered, and everything
\* that was there before the first call.  An empty batch holds nothing back:
\* the version it was compared with may be that of a failed append.
Safe(n) ==
    /\ \A c \in Calls : call[c].state = "answered" /\ call[c].req.op = "append" /\ call[c].code = "ok"
                         => \/ BatchOf(c, call[c].req) = << >>
                            \/ call[c].req.expected + 1 + Len(BatchOf(c, call[c].req)) <= n
    /\ \A i \in DOMAIN log : OwnerOf(log[i]) \notin Calls => i <= n

PowerCut ==
    /\ \E n \in {k \in 0..Len(log) : Safe(k)} : log' = SubSeq(log, 1, n)
    /\ corrupt' \in BOOLEAN
    /\ call' = [c \in Calls |-> IF call[c].state = "pending" THEN Lost ELSE call[c]]

StreamNext ==
    \/ \E c \in Calls : \/ Invoke(c) \/ Refuse(c) \/ Reject(c) \/ Commit(c) \/ Conflict(c)
                        \/ Read(c) \/ ReportCorruption(c) \/ Fail(c)
    \/ Crash \/ PowerCut

StreamSpec == StreamInit /\ [][StreamNext]_stream
=============================================================================
