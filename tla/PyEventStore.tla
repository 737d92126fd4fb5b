---------------------------- MODULE PyEventStore ----------------------------
(***************************************************************************)
(* JsonlEventStore of python/src/graph_engineering/persistence for one     *)
(* run: append and read hold a per-run asyncio.Lock while a worker thread  *)
(* does the work on the file.  Cancelling the caller's task ends its       *)
(* `async with`, and so frees the lock, but a thread that has started goes *)
(* on; one that still waits for a place in the pool is dropped.            *)
(*                                                                         *)
(* The log is the sequence of its records' sequence numbers: decoding      *)
(* accepts it when they count up from 0.  A payload is written by one      *)
(* O_APPEND write.                                                         *)
(***************************************************************************)
EXTENDS Integers, Sequences, SequencesExt

CONSTANTS Callers, Batch, MaxVersion    \* Batch: events in one append

VARIABLES pc,        \* the caller's task: idle, waiting, awaiting, answered, cancelled
          request,   \* -2 for a read, otherwise the expected version of an append
          queue,     \* the tasks that wait for the lock or hold it, holder first
          thread,    \* none, queued, writing, done
          outcome,   \* what the thread's future holds
          log

vars == <<pc, request, queue, thread, outcome, log>>

Reading == -2

Init ==
  /\ pc = [c \in Callers |-> "idle"]
  /\ request = [c \in Callers |-> Reading]
  /\ queue = <<>>
  /\ thread = [c \in Callers |-> "none"]
  /\ outcome = [c \in Callers |-> "none"]
  /\ log = <<>>

Version(records) == IF records = <<>> THEN -1 ELSE records[Len(records)]

\* _decode_log: the sequence numbers have to count up from 0.
Decodes(records) == \A i \in DOMAIN records : records[i] = i - 1

\* append or read, up to `async with`; a task that finds the lock free goes on.
Call(c, version) ==
  /\ pc[c] = "idle"
  /\ request' = [request EXCEPT ![c] = version]
  /\ queue' = Append(queue, c)
  /\ pc' = [pc EXCEPT ![c] = "waiting"]
  /\ UNCHANGED <<thread, outcome, log>>

\* The lock is acquired and asyncio.to_thread submits the work.
Submit(c) ==
  /\ pc[c] = "waiting" /\ queue[1] = c
  /\ pc' = [pc EXCEPT ![c] = "awaiting"]
  /\ thread' = [thread EXCEPT ![c] = "queued"]
  /\ UNCHANGED <<request, queue, outcome, log>>

\* The thread decodes the file and, for an append, compares the version.
Decode(c) ==
  /\ thread[c] = "queued"
  /\ LET result == IF ~ Decodes(log) THEN "corrupt"
                   ELSE IF request[c] = Reading THEN "read"
                   ELSE IF request[c] # Version(log) THEN "conflict" ELSE "none"
     IN /\ outcome' = [outcome EXCEPT ![c] = result]
        /\ thread' = [thread EXCEPT ![c] = IF result = "none" THEN "writing" ELSE "done"]
  /\ UNCHANGED <<pc, request, queue, log>>

\* The payload was built from the expected version; write, flush and fsync.
Write(c) ==
  /\ thread[c] = "writing"
  /\ log' = log \o [i \in 1 .. Batch |-> request[c] + i]
  /\ outcome' = [outcome EXCEPT ![c] = "appended"]
  /\ thread' = [thread EXCEPT ![c] = "done"]
  /\ UNCHANGED <<pc, request, queue>>

\* The task resumes with the thread's result and leaves `async with`.
Answer(c) ==
  /\ pc[c] = "awaiting" /\ thread[c] = "done"
  /\ pc' = [pc EXCEPT ![c] = "answered"]
  /\ queue' = Tail(queue)
  /\ UNCHANGED <<request, thread, outcome, log>>

\* The caller's task is cancelled at the lock or at the thread.
Cancel(c) ==
  /\ pc[c] \in {"waiting", "awaiting"}
  /\ pc' = [pc EXCEPT ![c] = "cancelled"]
  /\ queue' = Remove(queue, c)
  /\ thread' = [thread EXCEPT ![c] = IF @ = "queued" THEN "none" ELSE @]
  /\ UNCHANGED <<request, outcome, log>>

Next ==
  \E c \in Callers :
    \/ \E version \in {Reading} \cup (-1 .. MaxVersion) : Call(c, version)
    \/ Submit(c) \/ Decode(c) \/ Write(c) \/ Answer(c) \/ Cancel(c)

Spec == Init /\ [][Next]_vars

(* "Each append is serialized by a per-run asyncio lock": the log always   *)
(* decodes, so an append that was acknowledged can be read back.           *)
AppendsSerialized == Decodes(log)
=============================================================================
