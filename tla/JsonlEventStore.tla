-------------------------- MODULE JsonlEventStore --------------------------
(***************************************************************************)
(* JsonlEventStore of packages/persistence/src/jsonl-event-store.ts for    *)
(* one runId: the per-path SerialQueue, load, compare-and-swap, the        *)
(* appending write, fsync of the file and, for a new file, of its          *)
(* directory.  The file is the sequence of its complete records and a flag *)
(* for a torn tail.  The process may crash between any two awaits, the     *)
(* machine may lose power, and each filesystem call may fail.              *)
(***************************************************************************)
EXTENDS Integers, Sequences, FiniteSets

CONSTANTS
    Calls,              \* identities of the calls made on the store
    Settings,           \* the circumstances a behaviour may have
    MaxCrashes,         \* how often the process crashes or power is lost
    Earlier             \* the call that records before the behaviour belong to

(***************************************************************************)
(* A setting says whether power may fail, so that a crash loses what was   *)
(* not fsynced; how many durable records the file starts with, 0 when      *)
(* there is no file; and which requests are made.  Of a request, shaped:   *)
(* container checks of prepareAppendRequest and validateReadRequest pass;  *)
(* wellFormed: the events pass validateAppendEvents.                       *)
(***************************************************************************)
ASSUME StoreAssumption ==
    /\ IsFiniteSet(Calls)
    /\ \A s \in Settings :
          /\ s.powerFails \in BOOLEAN
          /\ s.history \in Nat
          /\ s.requests \subseteq [op : {"append", "read"}, expected : Int, size : Nat, from : Nat,
                                   shaped : BOOLEAN, wellFormed : BOOLEAN]
          /\ \A r \in s.requests : r.shaped => r.expected >= -1
    /\ MaxCrashes \in Nat
    /\ Earlier \notin Calls

VARIABLES
    setting,    \* the setting, which never changes
    file,       \* the log file as the process sees it
    durable,    \* what of it survives a power loss
    queue,      \* the SerialQueue of the file: its operations, the first runs
    stage,      \* where each call is
    request,    \* its arguments
    existed,    \* append's local existed
    written,    \* complete records its write has put out
    answer,     \* what the caller got
    crashes

vars == <<setting, file, durable, queue, stage, request, existed, written, answer, crashes>>

NoFile == [exists |-> FALSE, records |-> << >>, torn |-> FALSE]
NothingDurable == [entry |-> FALSE, count |-> 0]
NoRequest == [op |-> "read", expected |-> -1, size |-> 0, from |-> 0,
              shaped |-> TRUE, wellFormed |-> TRUE]
NoAnswer == [code |-> "none", value |-> << >>]

Stages == {"idle", "queued", "open", "write", "sync", "directory", "answered", "lost"}

\* The records append writes: sequence numbers from expected + 1 on, marked
\* with the call they belong to.
RecordOf(c, req, i) == [call |-> c, sequence |-> req.expected + i]
BatchOf(c, req) == [i \in 1..req.size |-> RecordOf(c, req, i)]

-----------------------------------------------------------------------------

\* The records a log of n records starts with.
HistoryOf(n) == [i \in 1..n |-> [call |-> Earlier, sequence |-> i - 1]]

Init ==
    /\ setting \in Settings
    /\ file = [exists |-> setting.history > 0, torn |-> FALSE, records |-> HistoryOf(setting.history)]
    /\ durable = [entry |-> setting.history > 0, count |-> setting.history]
    /\ queue = << >>
    /\ stage = [c \in Calls |-> "idle"]
    /\ request = [c \in Calls |-> NoRequest]
    /\ existed = [c \in Calls |-> FALSE]
    /\ written = [c \in Calls |-> 0]
    /\ answer = [c \in Calls |-> NoAnswer]
    /\ crashes = 0

\* append or read is called.  Requests that fail the synchronous checks throw
\* before they reach the queue.
Call(c) ==
    /\ stage[c] = "idle"
    /\ \E req \in setting.requests :
          /\ request' = [request EXCEPT ![c] = req]
          /\ \/ /\ req.shaped
                /\ stage' = [stage EXCEPT ![c] = "queued"]
                /\ queue' = Append(queue, c)
                /\ UNCHANGED answer
             \/ /\ ~req.shaped
                /\ stage' = [stage EXCEPT ![c] = "answered"]
                /\ answer' = [answer EXCEPT ![c] = [code |-> "PERSISTENCE_VALIDATION", value |-> << >>]]
                /\ UNCHANGED queue
    /\ UNCHANGED <<setting, file, durable, existed, written, crashes>>

\* The operation at the head of the chain is the one that runs.
Runs(c, s) == stage[c] = s /\ queue # << >> /\ Head(queue) = c

\* Mutation: a failed operation leaves its rejected tail in the chain.
AnswerKeepingTail(c, code, value) ==
    /\ stage' = [stage EXCEPT ![c] = "answered"]
    /\ answer' = [answer EXCEPT ![c] = [code |-> code, value |-> value]]
    /\ queue' = IF code = "ok" THEN Tail(queue) ELSE queue

\* The operation resolves or rejects; the chain goes on either way.
Answer(c, code, value) ==
    /\ stage' = [stage EXCEPT ![c] = "answered"]
    /\ answer' = [answer EXCEPT ![c] = [code |-> code, value |-> value]]
    /\ queue' = Tail(queue)

Continue(c, s) ==
    /\ stage' = [stage EXCEPT ![c] = s]
    /\ UNCHANGED <<queue, answer>>

\* Mutation: only the sequence numbers are verified.
GapInSequence == \E i \in DOMAIN file.records : file.records[i].sequence # i - 1

\* What load rejects: an empty file, a missing final newline, a record out of
\* sequence.
LoadRejects ==
    /\ file.exists
    /\ \/ file.records = << >>
       \/ file.torn
       \/ \E i \in DOMAIN file.records : file.records[i].sequence # i - 1

Version == Len(file.records) - 1

\* Mutation: the version is compared as a lower bound.
VersionReached(req) == req.expected <= Version

VersionMatches(req) == req.expected = Version

\* mkdir, load, compare-and-swap, validateAppendEvents and stat of append;
\* load of read.  Nothing is written.
Load(c) ==
    /\ Runs(c, "queued")
    /\ LET req == request[c]
       IN  \/ /\ LoadRejects
              /\ Answer(c, "CORRUPT_EVENT_LOG", << >>)
              /\ UNCHANGED existed
           \/ /\ ~LoadRejects
              /\ req.op = "read"
              /\ Answer(c, "ok", SubSeq(file.records, req.from + 1, Len(file.records)))
              /\ UNCHANGED existed
           \/ /\ ~LoadRejects
              /\ req.op = "append"
              /\ ~VersionMatches(req)
              /\ Answer(c, "VERSION_CONFLICT", << >>)
              /\ UNCHANGED existed
           \/ /\ ~LoadRejects
              /\ req.op = "append"
              /\ VersionMatches(req)
              /\ ~req.wellFormed
              /\ Answer(c, "PERSISTENCE_VALIDATION", << >>)
              /\ UNCHANGED existed
           \/ /\ ~LoadRejects
              /\ req.op = "append"
              /\ VersionMatches(req)
              /\ req.wellFormed
              /\ req.size = 0
              /\ Answer(c, "ok", << >>)
              /\ UNCHANGED existed
           \/ /\ ~LoadRejects
              /\ req.op = "append"
              /\ VersionMatches(req)
              /\ req.wellFormed
              /\ req.size > 0
              /\ Continue(c, "open")
              /\ existed' = [existed EXCEPT ![c] = file.exists]
    /\ UNCHANGED <<setting, file, durable, request, written, crashes>>

\* open with flag "a" creates the file.
Open(c) ==
    /\ Runs(c, "open")
    /\ Continue(c, "write")
    /\ file' = [file EXCEPT !.exists = TRUE]
    /\ UNCHANGED <<setting, durable, request, existed, written, crashes>>

\* Mutation: the write runs past its batch.
PastBatch(c) == written[c] = request[c].size

\* The record now written is the last of the batch.
EndsBatch(c) == written[c] + 1 = request[c].size

\* writeFile gets one more complete record out; after the last it resolves.
WriteRecord(c) ==
    /\ Runs(c, "write")
    /\ file' = [file EXCEPT !.records = Append(@, RecordOf(c, request[c], written[c] + 1))]
    /\ written' = [written EXCEPT ![c] = @ + 1]
    /\ Continue(c, IF EndsBatch(c) THEN "sync" ELSE "write")
    /\ UNCHANGED <<setting, durable, request, existed, crashes>>

\* A failed or interrupted write leaves whole records, or a partial one too.
MayTear(c) == IF stage[c] = "write" THEN BOOLEAN ELSE {FALSE}

\* Mutation: append returns without the fsync of the file.
NotSynced == durable.count

\* The records handle.sync makes durable.
Synced == Len(file.records)

\* The directory is synced only for a file that stat did not find.
SyncsDirectory(c) == ~existed[c]

\* handle.sync and close succeed.
Sync(c) ==
    /\ Runs(c, "sync")
    /\ durable' = [durable EXCEPT !.count = Synced]
    /\ \/ SyncsDirectory(c) /\ Continue(c, "directory")
       \/ ~SyncsDirectory(c) /\ Answer(c, "ok", << >>)
    /\ UNCHANGED <<setting, file, request, existed, written, crashes>>

SyncDirectory(c) ==
    /\ Runs(c, "directory")
    /\ durable' = [durable EXCEPT !.entry = TRUE]
    /\ Answer(c, "ok", << >>)
    /\ UNCHANGED <<setting, file, request, existed, written, crashes>>

\* A filesystem call rejects: PersistenceIoError, the file stays as it is.
IoFails(c) ==
    /\ \E s \in {"queued", "open", "write", "sync", "directory"} : Runs(c, s)
    /\ Answer(c, "PERSISTENCE_IO", << >>)
    /\ \E t \in MayTear(c) : file' = [file EXCEPT !.torn = @ \/ t]
    /\ UNCHANGED <<setting, durable, request, existed, written, crashes>>

-----------------------------------------------------------------------------

Restart ==
    /\ queue' = << >>
    /\ stage' = [c \in Calls |-> IF stage[c] \in {"idle", "answered"} THEN stage[c] ELSE "lost"]
    /\ crashes' = crashes + 1
    /\ UNCHANGED <<setting, request, existed, written, answer>>

\* The process dies; the bytes written so far stay in the file.
ProcessCrash ==
    /\ crashes < MaxCrashes
    /\ \E t \in IF queue = << >> THEN {FALSE} ELSE MayTear(Head(queue)) :
          file' = [file EXCEPT !.torn = @ \/ t]
    /\ UNCHANGED durable
    /\ Restart

\* Power is lost: of the bytes that were not fsynced any prefix stays, and the
\* file itself is gone unless its directory entry is durable.
PowerLoss ==
    /\ setting.powerFails
    /\ crashes < MaxCrashes
    /\ \/ /\ file.exists
          /\ \E n \in durable.count..Len(file.records) :
                /\ \E t \in IF n < Len(file.records) \/ file.torn THEN BOOLEAN
                            ELSE IF queue = << >> THEN {FALSE} ELSE MayTear(Head(queue)) :
                      file' = [file EXCEPT !.records = SubSeq(@, 1, n), !.torn = t]
                /\ durable' = [entry |-> TRUE, count |-> n]
       \/ /\ ~durable.entry
          /\ file' = NoFile
          /\ durable' = NothingDurable
    /\ Restart

-----------------------------------------------------------------------------

Operation(c) ==
    Load(c) \/ Open(c) \/ WriteRecord(c) \/ Sync(c) \/ SyncDirectory(c)

\* Every call is answered or lost and no more crashes come.
Quiet == (\A c \in Calls : stage[c] \in {"answered", "lost"}) /\ UNCHANGED vars

Next ==
    \/ \E c \in Calls : Call(c)
    \/ \E c \in Calls : Operation(c)
    \/ \E c \in Calls : IoFails(c)
    \/ ProcessCrash
    \/ PowerLoss
    \/ Quiet

Spec == Init /\ [][Next]_vars

\* The event loop keeps resuming the operation that runs.
FairSpec == Spec /\ \A c \in Calls : WF_vars(Operation(c))

-----------------------------------------------------------------------------
(* Properties.                                                             *)

\* Types of the state; a write never puts out more than its batch.
TypeOK ==
    /\ file \in [exists : BOOLEAN, torn : BOOLEAN,
                 records : Seq([call : Calls \cup {Earlier}, sequence : Int])]
    /\ durable \in [entry : BOOLEAN, count : 0..Len(file.records)]
    /\ queue \in Seq(Calls)
    /\ stage \in [Calls -> Stages]
    /\ existed \in [Calls -> BOOLEAN]
    /\ \A c \in Calls : written[c] \in 0..request[c].size
    /\ crashes \in 0..MaxCrashes

Acknowledged(c) == stage[c] = "answered" /\ request[c].op = "append" /\ answer[c].code = "ok"

\* An append that returned has its whole batch in the log, at the positions
\* the compare-and-swap gave it, whatever the calls, failures and crashes
\* after it; so two appends never win the same version.
AcknowledgedStay ==
    \A c \in Calls : Acknowledged(c) =>
        \A i \in 1..request[c].size :
            /\ request[c].expected + 1 + i <= Len(file.records)
            /\ file.records[request[c].expected + 1 + i] = RecordOf(c, request[c], i)

InFlight == queue # << >> /\ stage[Head(queue)] \in {"write", "sync", "directory"}

\* An interrupted write has left half a record, or a file without any that is
\* not the one an append has just created.
Damaged ==
    /\ file.exists
    /\ \/ file.torn
       \/ file.records = << >> /\ ~(InFlight /\ ~existed[Head(queue)])

\* A damaged log never grows again: no append writes behind a torn tail or
\* into a file that was created and never written.
NothingAfterDamage == [][Damaged => Len(file'.records) <= Len(file.records)]_vars

\* What the callers see of the file: the batch of a write in flight is not
\* there yet.
VisibleLog == IF InFlight THEN SubSeq(file.records, 1, request[Head(queue)].expected + 1)
              ELSE file.records

CallOf(c) ==
    CASE stage[c] = "idle" -> [state |-> "idle"]
      [] stage[c] = "lost" -> [state |-> "lost"]
      [] stage[c] = "answered" -> [state |-> "answered", req |-> request[c],
                                   code |-> answer[c].code, value |-> answer[c].value]
      [] OTHER -> [state |-> "pending", req |-> request[c]]

OwnerOf(record) == record.call

Stream == INSTANCE EventStream WITH
    Requests <- UNION {s.requests : s \in Settings},
    Logs <- {HistoryOf(s.history) : s \in Settings},
    log <- VisibleLog,
    corrupt <- Damaged,
    call <- [c \in Calls |-> CallOf(c)]

\* The store implements the event stream contract: each append and read is
\* atomic between its call and its answer, although it takes several awaits.
ImplementsStream == Stream!StreamSpec

\* The chain never wedges: every call is answered, unless the process dies.
EveryCallEnds ==
    \A c \in Calls : stage[c] = "queued" ~> stage[c] \in {"answered", "lost"}

\* A torn append is always noticed: a read that succeeds from the start of
\* the log returns whole batches only.
TornAppendDetected ==
    \A c \in Calls : stage[c] = "answered" /\ request[c].op = "read" /\ answer[c].code = "ok"
                     /\ request[c].from = 0 =>
        \A i \in DOMAIN answer[c].value :
            LET d == answer[c].value[i].call
            IN  d # Earlier => Cardinality({j \in DOMAIN answer[c].value : answer[c].value[j].call = d})
                                   = request[d].size
=============================================================================
