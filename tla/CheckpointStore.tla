-------------------------- MODULE CheckpointStore --------------------------
(***************************************************************************)
(* FileCheckpointStore of packages/persistence for one runId: the          *)
(* SerialQueue of the run directory, and save as mkdir, a temporary file   *)
(* that is created, written, synced and closed, a rename over the          *)
(* destination and a sync of the directory; load; list.  The process may   *)
(* crash between any two awaits, power may be lost, and each filesystem    *)
(* call may fail.                                                          *)
(*                                                                         *)
(* A file holds a checkpoint, or Damaged when #parse refuses it: encoding, *)
(* envelope, identity, name and hash are one condition.  synced says that  *)
(* its content survives a power loss.                                      *)
(* Identifiers are their ranks in code point order.                        *)
(***************************************************************************)
EXTENDS Integers, Sequences, FiniteSets

CONSTANTS
    Calls,          \* identities of the calls made on the store
    Ids,            \* checkpoint identifiers
    Settings,       \* the circumstances a behaviour may have
    MaxCrashes,     \* how often the process crashes or power is lost
    Nothing,        \* there is no such file
    Damaged         \* the content of a file that #parse refuses

\* A setting says whether power may fail, which files storage damaged before,
\* and which requests are made.  The run directory's own entry is durable
\* where power fails.
ASSUME CheckpointAssumption ==
    /\ IsFiniteSet(Calls) /\ IsFiniteSet(Ids) /\ Ids \subseteq Nat
    /\ \A s \in Settings :
          /\ s.powerFails \in BOOLEAN
          /\ s.damaged \subseteq Ids
          /\ s.requests \subseteq [op : {"save", "load", "list"}, id : Ids, sequence : Nat, valid : BOOLEAN]
    /\ MaxCrashes \in Nat
    /\ Nothing # Damaged
    /\ {Nothing, Damaged} \cap [id : Ids, sequence : Nat, by : Calls] = {}

VARIABLES
    setting,    \* the setting, which never changes
    files,      \* each identifier's file
    entries,    \* the files its name may lead to after a power loss
    temporary,  \* each call's temporary file
    stage,      \* where each call is
    queue,      \* PROCESS_CHECKPOINT_QUEUE of the directory, the first runs
    request,    \* the arguments of each call
    answer,     \* what its caller got
    crashes

vars == <<setting, files, entries, temporary, stage, queue, request, answer, crashes>>

NoRequest == [op |-> "list", id |-> 0, sequence |-> 0, valid |-> TRUE]
NoAnswer == [code |-> "none", value |-> << >>]
File(holds, synced) == [holds |-> holds, synced |-> synced]
NoFile == File(Nothing, TRUE)
Stages == {"idle", "queued", "open", "write", "sync", "rename", "directory", "answered", "lost"}

\* The envelope of a save; by tells two saves of one identifier apart.
CheckpointOf(c, req) == [id |-> req.id, sequence |-> req.sequence, by |-> c]

Init ==
    /\ setting \in Settings
    /\ files = [k \in Ids |-> IF k \in setting.damaged THEN File(Damaged, TRUE) ELSE NoFile]
    /\ entries = [k \in Ids |-> {files[k]}]
    /\ temporary = [c \in Calls |-> NoFile]
    /\ stage = [c \in Calls |-> "idle"]
    /\ queue = << >>
    /\ request = [c \in Calls |-> NoRequest]
    /\ answer = [c \in Calls |-> NoAnswer]
    /\ crashes = 0

\* validateCheckpointInput and assertSafeIdentifier throw before the queue.
Call(c) ==
    /\ stage[c] = "idle"
    /\ \E req \in setting.requests :
          /\ request' = [request EXCEPT ![c] = req]
          /\ \/ /\ req.valid
                /\ stage' = [stage EXCEPT ![c] = "queued"]
                /\ queue' = Append(queue, c)
                /\ UNCHANGED answer
             \/ /\ ~ req.valid
                /\ stage' = [stage EXCEPT ![c] = "answered"]
                /\ answer' = [answer EXCEPT ![c] = [code |-> "PERSISTENCE_VALIDATION", value |-> << >>]]
                /\ UNCHANGED queue
    /\ UNCHANGED <<setting, files, entries, temporary, crashes>>

Runs(c, s) == stage[c] = s /\ queue # << >> /\ Head(queue) = c

Continue(c, s) ==
    /\ stage' = [stage EXCEPT ![c] = s]
    /\ UNCHANGED <<queue, answer>>

\* Mutation: a rejected operation leaves its tail in the chain.
AnswerKeepingTail(c, code, value) ==
    /\ stage' = [stage EXCEPT ![c] = "answered"]
    /\ answer' = [answer EXCEPT ![c] = [code |-> code, value |-> value]]
    /\ queue' = IF code = "ok" THEN Tail(queue) ELSE queue

\* The operation that runs resolves or rejects; the chain goes on either way.
Answer(c, code, value) ==
    /\ stage' = [stage EXCEPT ![c] = "answered"]
    /\ answer' = [answer EXCEPT ![c] = [code |-> code, value |-> value]]
    /\ queue' = Tail(queue)

\* mkdir, then the private temporary file is created: no other call has one of
\* that name.
MakeDirectory(c) ==
    /\ Runs(c, "queued") /\ request[c].op = "save"
    /\ Continue(c, "open")
    /\ UNCHANGED <<setting, files, entries, temporary, request, crashes>>

Open(c) ==
    /\ Runs(c, "open")
    /\ temporary' = [temporary EXCEPT ![c] = File(Damaged, FALSE)]
    /\ Continue(c, "write")
    /\ UNCHANGED <<setting, files, entries, request, crashes>>

Write(c) ==
    /\ Runs(c, "write")
    /\ temporary' = [temporary EXCEPT ![c].holds = CheckpointOf(c, request[c])]
    /\ Continue(c, "sync")
    /\ UNCHANGED <<setting, files, entries, request, crashes>>

\* Mutation: the temporary file is published without a sync.
NotSynced(file) == file

Synced(file) == [file EXCEPT !.synced = TRUE]

\* handle.sync and close.
Sync(c) ==
    /\ Runs(c, "sync")
    /\ temporary' = [temporary EXCEPT ![c] = Synced(@)]
    /\ Continue(c, "rename")
    /\ UNCHANGED <<setting, files, entries, request, crashes>>

\* The destination is replaced at once; until the directory is synced its name
\* may lead to the old file again after a power loss.
Rename(c) ==
    LET k == request[c].id
    IN  /\ Runs(c, "rename")
        /\ files' = [files EXCEPT ![k] = temporary[c]]
        /\ entries' = [entries EXCEPT ![k] = @ \cup {temporary[c]}]
        /\ temporary' = [temporary EXCEPT ![c] = NoFile]
        /\ Continue(c, "directory")
        /\ UNCHANGED <<setting, request, crashes>>

\* Mutation: save returns without the sync of the directory.
EntriesNotSynced == entries

EntriesSynced == [k \in Ids |-> {files[k]}]

SyncDirectory(c) ==
    /\ Runs(c, "directory")
    /\ entries' = EntriesSynced
    /\ Answer(c, "ok", << >>)
    /\ UNCHANGED <<setting, files, temporary, request, crashes>>

\* #parse and #loadPath: a missing file is null.
Load(c) ==
    /\ Runs(c, "queued") /\ request[c].op = "load"
    /\ LET found == files[request[c].id].holds
       IN  Answer(c, IF found = Damaged THEN "CORRUPT_CHECKPOINT" ELSE "ok",
                  IF found \in {Damaged, Nothing} THEN << >> ELSE <<found>>)
    /\ UNCHANGED <<setting, files, entries, temporary, request, crashes>>

Before(x, y) == x.sequence < y.sequence \/ (x.sequence = y.sequence /\ x.id < y.id)

Sorted(S) ==
    [n \in 1..Cardinality(S) |-> CHOOSE x \in S : Cardinality({y \in S : Before(y, x)}) = n - 1]

\* readdir, which skips temporary files, and a load of every name: no other
\* operation of the process changes the directory meanwhile.
List(c) ==
    /\ Runs(c, "queued") /\ request[c].op = "list"
    /\ LET found == {files[k].holds : k \in Ids} \ {Nothing}
       IN  IF Damaged \in found THEN Answer(c, "CORRUPT_CHECKPOINT", << >>)
           ELSE Answer(c, "ok", Sorted(found))
    /\ UNCHANGED <<setting, files, entries, temporary, request, crashes>>

\* A filesystem call rejects: PersistenceIoError, after an attempt to unlink
\* the temporary file whose own failure is ignored.
IoFails(c) ==
    /\ \E s \in {"queued", "open", "write", "sync", "rename", "directory"} : Runs(c, s)
    /\ Answer(c, "PERSISTENCE_IO", << >>)
    /\ \E left \in {temporary[c], NoFile} : temporary' = [temporary EXCEPT ![c] = left]
    /\ UNCHANGED <<setting, files, entries, request, crashes>>

-----------------------------------------------------------------------------

Restart ==
    /\ crashes < MaxCrashes
    /\ crashes' = crashes + 1
    /\ queue' = << >>
    /\ stage' = [c \in Calls |-> IF stage[c] \in {"idle", "answered"} THEN stage[c] ELSE "lost"]
    /\ UNCHANGED <<setting, request, answer>>

\* The process dies; its temporary file stays behind for good.
ProcessCrash == Restart /\ UNCHANGED <<files, entries, temporary>>

\* What a file holds after a power loss.
Survives(file) == {file} \cup (IF file.synced THEN {} ELSE {File(Damaged, TRUE)})

\* Names go back to what the last directory sync left, or to anything later;
\* no operation looks at a temporary file again.
PowerLoss ==
    /\ setting.powerFails
    /\ Restart
    /\ files' \in [Ids -> UNION {Survives(f) : f \in UNION {entries[k] : k \in Ids}}]
    /\ \A k \in Ids : \E f \in entries[k] : files'[k] \in Survives(f)
    /\ entries' = [k \in Ids |-> {files'[k]}]
    /\ UNCHANGED temporary

-----------------------------------------------------------------------------

Operation(c) ==
    \/ MakeDirectory(c) \/ Open(c) \/ Write(c) \/ Sync(c) \/ Rename(c) \/ SyncDirectory(c)
    \/ Load(c) \/ List(c)

Quiet == (\A c \in Calls : stage[c] \in {"answered", "lost"}) /\ UNCHANGED vars

Next ==
    \/ \E c \in Calls : Call(c)
    \/ \E c \in Calls : Operation(c)
    \/ \E c \in Calls : IoFails(c)
    \/ ProcessCrash
    \/ PowerLoss
    \/ Quiet

\* The event loop keeps resuming the operation that runs.
Spec == Init /\ [][Next]_vars /\ \A c \in Calls : WF_vars(Operation(c))

-----------------------------------------------------------------------------
(* Properties.                                                             *)

TypeOK ==
    /\ stage \in [Calls -> Stages]
    /\ queue \in Seq(Calls)
    /\ \A k \in Ids : files[k] \in entries[k]
    /\ \A c \in Calls : temporary[c].holds \in {Nothing, Damaged, CheckpointOf(c, request[c])}
    /\ crashes \in 0..MaxCrashes

\* No save, failure, crash or power loss damages a checkpoint: a file that
\* #parse refuses was damaged before the first call.
PublishedWhole ==
    \A k \in Ids : files[k].holds = Damaged => k \in setting.damaged

Acknowledged(c) == stage[c] = "answered" /\ request[c].op = "save" /\ answer[c].code = "ok"

\* Once a save has returned, its identifier always has a checkpoint, its own
\* or that of another save of the identifier.
AcknowledgedSaved ==
    \A c \in Calls : Acknowledged(c) =>
        \E d \in Calls : /\ files[request[c].id].holds = CheckpointOf(d, request[d])
                         /\ request[d].op = "save"

\* Checkpoints are published whole and stay: the two promises together with
\* the types they rest on.
CheckpointsSafe == TypeOK /\ PublishedWhole /\ AcknowledgedSaved

CallOf(c) ==
    CASE stage[c] = "idle" -> [state |-> "idle"]
      [] stage[c] = "lost" -> [state |-> "lost"]
      [] stage[c] = "answered" -> [state |-> "answered", req |-> request[c],
                                   code |-> answer[c].code, value |-> answer[c].value]
      [] OTHER -> [state |-> "pending", req |-> request[c], done |-> stage[c] = "directory"]

Map == INSTANCE CheckpointMap WITH
    Requests <- UNION {s.requests : s \in Settings},
    map <- [k \in Ids |-> files[k].holds],
    shaky <- [k \in Ids |-> {f.holds : f \in entries[k]}],
    call <- [c \in Calls |-> CallOf(c)]

\* The store implements the map of whole checkpoints: save, with its seven
\* awaits, replaces a checkpoint in one step, list returns an ordered snapshot,
\* and a power loss brings nothing back that an answered save had replaced.
ImplementsMap == Map!MapSpec

\* The chain of the directory never wedges: every call is answered, unless the
\* process dies.
CallsAnswered ==
    \A c \in Calls : stage[c] = "queued" ~> stage[c] \in {"answered", "lost"}
=============================================================================
