----------------------- MODULE CheckpointStoreProofs -----------------------
(***************************************************************************)
(* Theorems about the checkpoint store for every set of calls, identifiers *)
(* and settings: no failure, crash or power loss damages a checkpoint or   *)
(* takes an acknowledged one away, and the store implements the map of     *)
(* whole checkpoints.                                                      *)
(***************************************************************************)
EXTENDS CheckpointStore, TLAPS, FiniteSetTheorems, FunctionTheorems, SequenceTheorems

Checkpoints == [id : Ids, sequence : Nat, by : Calls]
Contents == {Nothing, Damaged} \cup Checkpoints
Files == [holds : Contents, synced : BOOLEAN]
Requests == [op : {"save", "load", "list"}, id : Ids, sequence : Nat, valid : BOOLEAN]
Codes == {"none", "ok", "PERSISTENCE_VALIDATION", "PERSISTENCE_IO", "CORRUPT_CHECKPOINT"}
Working == {"queued", "open", "write", "sync", "rename", "directory"}

Types ==
    /\ setting \in Settings
    /\ files \in [Ids -> Files]
    /\ entries \in [Ids -> SUBSET Files]
    /\ temporary \in [Calls -> Files]
    /\ stage \in [Calls -> Stages]
    /\ queue \in Seq(Calls)
    /\ request \in [Calls -> Requests \cup {NoRequest}]
    /\ answer \in [Calls -> [code : Codes, value : Seq(Checkpoints)]]
    /\ crashes \in 0..MaxCrashes

\* The arguments of a call are those of a request once it has been made.
Asked ==
    \A c \in Calls :
        /\ stage[c] = "idle" => request[c] = NoRequest /\ temporary[c] = NoFile
        /\ stage[c] # "idle" => request[c] \in setting.requests
        /\ stage[c] \in Working \ {"queued"} => request[c].op = "save"

\* The chain of the directory: each call of it once, and only the first has
\* begun.
Chained ==
    /\ \A i \in DOMAIN queue : /\ stage[queue[i]] \in Working
                               /\ i > 1 => stage[queue[i]] = "queued"
    /\ \A i, j \in DOMAIN queue : queue[i] = queue[j] => i = j
    /\ \A c \in Calls : stage[c] \in Working \ {"queued"} => 1 \in DOMAIN queue /\ queue[1] = c

\* What a save has put into its temporary file when it comes to the rename.
Staged ==
    \A c \in Calls :
        /\ temporary[c].holds \in {Nothing, Damaged, CheckpointOf(c, request[c])}
        /\ stage[c] \in {"sync", "rename"} => temporary[c].holds = CheckpointOf(c, request[c])
        /\ stage[c] = "rename" => temporary[c].synced

\* The content is that of a save of identifier k.
SavedAs(k, content) ==
    \E d \in Calls : /\ request[d].op = "save" /\ request[d].id = k
                     /\ content = CheckpointOf(d, request[d])

\* A name leads, now or after a power loss, to a synced file that holds
\* nothing, damage that was there before, or a save of that name; once a save
\* of the name has returned it holds a save.
Published ==
    \A k \in Ids :
        /\ files[k] \in entries[k]
        /\ \A f \in entries[k] :
              /\ f.synced
              /\ \/ f.holds = Nothing
                 \/ f.holds = Damaged /\ k \in setting.damaged
                 \/ SavedAs(k, f.holds)

\* A save between its rename and its answer, and an acknowledged one.
Kept ==
    \A c \in Calls :
        /\ stage[c] = "directory" => files[request[c].id].holds = CheckpointOf(c, request[c])
        /\ Acknowledged(c) => \A f \in entries[request[c].id] : SavedAs(request[c].id, f.holds)

StoreInv == Types /\ Asked /\ Chained /\ Staged /\ Published /\ Kept

-----------------------------------------------------------------------------

LEMMA RequestFacts ==
    ASSUME Types, Asked, NEW c \in Calls, stage[c] # "idle"
    PROVE  /\ request[c] \in Requests
           /\ CheckpointOf(c, request[c]) \in Checkpoints
<1>1. request[c] \in Requests
  BY CheckpointAssumption DEF Types, Asked, Requests
<1> QED
  BY <1>1 DEF CheckpointOf, Checkpoints, Requests

LEMMA ContentFacts ==
    /\ Nothing # Damaged /\ Nothing \notin Checkpoints /\ Damaged \notin Checkpoints
    /\ NoFile \in Files
    /\ \A content \in Contents, synced \in BOOLEAN :
          /\ File(content, synced) \in Files
          /\ File(content, synced).holds = content /\ File(content, synced).synced = synced
  BY CheckpointAssumption DEF Checkpoints, Contents, Files, NoFile, File

LEMMA AnswerFacts ==
    \A code \in Codes : [code |-> code, value |-> << >>] \in [code : Codes, value : Seq(Checkpoints)]
<1>1. << >> \in Seq(Checkpoints)
  OBVIOUS
<1> QED
  BY <1>1

\* The first of the chain is the one that runs, and no other call has begun.
LEMMA RunningFacts ==
    ASSUME Types, Chained, NEW c \in Calls, NEW s \in Stages, Runs(c, s)
    PROVE  /\ stage[c] = s /\ queue # << >> /\ Head(queue) = c
           /\ Tail(queue) \in Seq(Calls)
           /\ \A i \in DOMAIN Tail(queue) : i + 1 \in DOMAIN queue /\ Tail(queue)[i] = queue[i + 1]
           /\ 1 \in DOMAIN queue /\ queue[1] = c
           /\ \A i \in DOMAIN Tail(queue) : Tail(queue)[i] # c /\ stage[Tail(queue)[i]] = "queued"
           /\ \A d \in Calls \ {c} : stage[d] \notin Working \ {"queued"}
<1>1. stage[c] = s /\ queue # << >> /\ Head(queue) = c /\ queue \in Seq(Calls)
  BY DEF Runs, Types
<1>2. 1 \in DOMAIN queue /\ queue[1] = c
  BY <1>1
<1>3. /\ Tail(queue) \in Seq(Calls)
      /\ \A i \in DOMAIN Tail(queue) : i \in Nat \ {0} /\ i + 1 \in DOMAIN queue /\ Tail(queue)[i] = queue[i + 1]
  BY <1>1
<1>4. ASSUME NEW i \in DOMAIN Tail(queue)
      PROVE  Tail(queue)[i] # c /\ stage[Tail(queue)[i]] = "queued"
  <2>1. i + 1 \in DOMAIN queue /\ i + 1 > 1 /\ i + 1 # 1 /\ Tail(queue)[i] = queue[i + 1]
    BY <1>3
  <2> QED
    BY <1>2, <2>1 DEF Chained
<1>5. \A d \in Calls \ {c} : stage[d] \notin Working \ {"queued"}
  BY <1>2 DEF Chained
<1> QED
  BY <1>1, <1>2, <1>3, <1>4, <1>5

\* The next stage of the call that runs keeps the chain.
LEMMA ContinueKeeps ==
    ASSUME Types, Chained, NEW c \in Calls, NEW s \in Working, Runs(c, s),
           NEW t \in Working, Continue(c, t)
    PROVE  /\ stage' \in [Calls -> Stages] /\ queue' \in Seq(Calls) /\ answer' = answer
           /\ stage'[c] = t /\ \A d \in Calls \ {c} : stage'[d] = stage[d]
           /\ Chained'
<1> USE DEF Working, Stages
<1>1. /\ stage' = [stage EXCEPT ![c] = t] /\ queue' = queue /\ answer' = answer
      /\ stage \in [Calls -> Stages] /\ queue \in Seq(Calls)
  BY DEF Continue, Types
<1>2. /\ stage' \in [Calls -> Stages] /\ stage'[c] = t
      /\ \A d \in Calls \ {c} : stage'[d] = stage[d]
  BY <1>1
<1>3. /\ 1 \in DOMAIN queue /\ queue[1] = c
      /\ \A d \in Calls \ {c} : stage[d] \notin Working \ {"queued"}
  BY RunningFacts
<1>4. \A i \in DOMAIN queue : queue[i] \in Calls /\ (i > 1 => i # 1) /\ (i # 1 => queue[i] # c)
  BY <1>1, <1>3 DEF Chained
<1>5. \A i \in DOMAIN queue : stage'[queue[i]] \in Working /\ (i > 1 => stage'[queue[i]] = "queued")
  BY <1>2, <1>3, <1>4 DEF Chained
<1>6. \A d \in Calls : stage'[d] \in Working \ {"queued"} => 1 \in DOMAIN queue /\ queue[1] = d
  BY <1>2, <1>3
<1> QED
  BY <1>1, <1>2, <1>5, <1>6 DEF Chained

\* The answer of the call that runs lets the next one begin.
LEMMA AnswerKeeps ==
    ASSUME Types, Chained, NEW c \in Calls, NEW s \in Working, Runs(c, s),
           NEW code \in Codes, NEW value \in Seq(Checkpoints), Answer(c, code, value)
    PROVE  /\ stage' \in [Calls -> Stages] /\ queue' \in Seq(Calls)
           /\ answer' \in [Calls -> [code : Codes, value : Seq(Checkpoints)]]
           /\ stage'[c] = "answered" /\ answer'[c] = [code |-> code, value |-> value]
           /\ \A d \in Calls \ {c} : stage'[d] = stage[d] /\ answer'[d] = answer[d]
           /\ Chained'
<1> USE DEF Working, Stages
<1>1. /\ stage' = [stage EXCEPT ![c] = "answered"] /\ queue' = Tail(queue)
      /\ answer' = [answer EXCEPT ![c] = [code |-> code, value |-> value]]
      /\ stage \in [Calls -> Stages] /\ answer \in [Calls -> [code : Codes, value : Seq(Checkpoints)]]
  BY DEF Answer, Types
<1>2. /\ stage' \in [Calls -> Stages] /\ stage'[c] = "answered"
      /\ answer' \in [Calls -> [code : Codes, value : Seq(Checkpoints)]]
      /\ answer'[c] = [code |-> code, value |-> value]
      /\ \A d \in Calls \ {c} : stage'[d] = stage[d] /\ answer'[d] = answer[d]
  BY <1>1
<1>3. /\ Tail(queue) \in Seq(Calls)
      /\ \A i \in DOMAIN Tail(queue) : i + 1 \in DOMAIN queue /\ Tail(queue)[i] = queue[i + 1]
      /\ \A i \in DOMAIN Tail(queue) : Tail(queue)[i] # c /\ stage[Tail(queue)[i]] = "queued"
      /\ \A d \in Calls \ {c} : stage[d] \notin Working \ {"queued"}
  BY RunningFacts
<1>4. \A i \in DOMAIN queue' : stage'[queue'[i]] = "queued"
  BY <1>1, <1>2, <1>3
<1>5. \A i, j \in DOMAIN queue' : queue'[i] = queue'[j] => i = j
  <2> SUFFICES ASSUME NEW i \in DOMAIN Tail(queue), NEW j \in DOMAIN Tail(queue),
                      Tail(queue)[i] = Tail(queue)[j]
               PROVE  i = j
    BY <1>1
  <2>1. i + 1 = j + 1
    BY <1>3 DEF Chained
  <2>2. i \in Int /\ j \in Int
    BY <1>3
  <2> QED
    BY <2>1, <2>2
<1>6. \A d \in Calls : stage'[d] \notin Working \ {"queued"}
  BY <1>2, <1>3
<1> QED
  BY <1>1, <1>2, <1>3, <1>4, <1>5, <1>6 DEF Chained

\* A save stays the save of its identifier.
LEMMA SavedAsStays ==
    ASSUME \A d \in Calls : request[d].op = "save" => request'[d] = request[d]
    PROVE  \A k, content : SavedAs(k, content) => SavedAs(k, content)'
  BY DEF SavedAs

\* A step that leaves the directory and the arguments alone keeps what is
\* published, unless it comes to the directory or acknowledges a save.
LEMMA DirectoryKept ==
    ASSUME Published, Kept, UNCHANGED <<setting, files, entries, request>>,
           \A c \in Calls : /\ stage'[c] = "directory" => stage[c] = "directory"
                            /\ Acknowledged(c)' => Acknowledged(c)
    PROVE  Published' /\ Kept'
<1>1. \A k, content : SavedAs(k, content)' <=> SavedAs(k, content)
  BY DEF SavedAs
<1>2. Published'
  BY <1>1 DEF Published
<1>3. ASSUME NEW c \in Calls, Acknowledged(c)', NEW f \in entries'[request'[c].id]
      PROVE  SavedAs(request[c].id, f.holds)'
  <2>1. SavedAs(request[c].id, f.holds)
    BY <1>3 DEF Kept
  <2> QED
    BY <2>1 DEF SavedAs
<1>4. ASSUME NEW c \in Calls, stage'[c] = "directory"
      PROVE  files'[request'[c].id].holds = CheckpointOf(c, request'[c])
  BY <1>4 DEF Kept
<1> QED
  BY <1>2, <1>3, <1>4 DEF Kept

LEMMA StoreInvInit == Init => StoreInv
<1> SUFFICES ASSUME Init PROVE StoreInv
  OBVIOUS
<1> USE DEF Init
<1>1. Types
  <2>1. /\ setting \in Settings /\ stage \in [Calls -> Stages] /\ queue \in Seq(Calls)
        /\ request \in [Calls -> Requests \cup {NoRequest}] /\ crashes \in 0..MaxCrashes
    BY CheckpointAssumption DEF Stages
  <2>2. files \in [Ids -> Files] /\ temporary \in [Calls -> Files]
    BY ContentFacts DEF Contents
  <2>3. entries \in [Ids -> SUBSET Files]
    BY <2>2
  <2>4. NoAnswer \in [code : Codes, value : Seq(Checkpoints)]
    BY AnswerFacts DEF NoAnswer, Codes
  <2>5. answer \in [Calls -> [code : Codes, value : Seq(Checkpoints)]]
    BY <2>4
  <2> QED
    BY <2>1, <2>2, <2>3, <2>5 DEF Types
<1>2. Asked
  BY DEF Asked, Working
<1>3. Chained
  BY DEF Chained, Working
<1>4. Staged
  BY DEF Staged, NoFile, File
<1>5. Published
  BY DEF Published, NoFile, File
<1>6. Kept
  BY DEF Kept, Acknowledged
<1> QED
  BY <1>1, <1>2, <1>3, <1>4, <1>5, <1>6 DEF StoreInv

\* A call begins: it joins the chain, or is refused.
LEMMA CallKeeps ==
    ASSUME StoreInv, NEW c \in Calls, Call(c)
    PROVE  StoreInv'
<1> USE DEF StoreInv
<1>1. PICK req \in setting.requests :
          /\ request' = [request EXCEPT ![c] = req]
          /\ \/ /\ stage' = [stage EXCEPT ![c] = "queued"]
                /\ queue' = Append(queue, c)
                /\ UNCHANGED answer
             \/ /\ stage' = [stage EXCEPT ![c] = "answered"]
                /\ answer' = [answer EXCEPT ![c] = [code |-> "PERSISTENCE_VALIDATION", value |-> << >>]]
                /\ UNCHANGED queue
  BY DEF Call
<1>2. stage[c] = "idle" /\ UNCHANGED <<setting, files, entries, temporary, crashes>>
  BY DEF Call
<1>3. req \in Requests
  BY CheckpointAssumption DEF Types, Requests
<1>4. /\ request' \in [Calls -> Requests \cup {NoRequest}] /\ request'[c] = req
      /\ \A d \in Calls \ {c} : request'[d] = request[d]
  BY <1>1, <1>3 DEF Types
<1>5. request[c] = NoRequest /\ temporary[c] = NoFile
  BY <1>2 DEF Asked
<1>6. /\ stage' \in [Calls -> Stages] /\ stage'[c] \in {"queued", "answered"}
      /\ \A d \in Calls \ {c} : stage'[d] = stage[d]
  BY <1>1 DEF Types, Stages
<1>7. \A d \in Calls : request[d].op = "save" => request'[d] = request[d]
  BY <1>4, <1>5 DEF NoRequest
<1>8. \A k, content : SavedAs(k, content) => SavedAs(k, content)'
  BY <1>7, SavedAsStays
<1>9. Types'
  <2>1. answer' \in [Calls -> [code : Codes, value : Seq(Checkpoints)]]
    BY <1>1, AnswerFacts DEF Types, Codes
  <2>2. queue' \in Seq(Calls)
    <3>1. queue \in Seq(Calls) /\ Append(queue, c) \in Seq(Calls)
      BY DEF Types
    <3> QED
      BY <1>1, <3>1
  <2> QED
    BY <1>2, <1>4, <1>6, <2>1, <2>2 DEF Types
<1>10. Asked'
  BY <1>1, <1>2, <1>4, <1>6 DEF Asked, Working
<1>11. Chained'
  <2>1. \A i \in DOMAIN queue : queue[i] # c /\ queue[i] \in Calls
    <3>1. \A i \in DOMAIN queue : queue[i] \in Calls
      BY DEF Types
    <3> QED
      BY <1>2, <3>1 DEF Chained, Working
  <2>2. CASE stage'[c] = "queued"
    <3>1. queue' = Append(queue, c) /\ queue \in Seq(Calls)
      BY <1>1, <2>2 DEF Types
    <3>2. /\ \A i \in DOMAIN queue' : (i \in DOMAIN queue /\ queue'[i] = queue[i]) \/ (i = Len(queue) + 1 /\ queue'[i] = c)
          /\ \A i \in DOMAIN queue : i \in DOMAIN queue' /\ queue'[i] = queue[i]
      BY <3>1
    <3>3. \A i \in DOMAIN queue' : stage'[queue'[i]] \in Working /\ (i > 1 => stage'[queue'[i]] = "queued")
      BY <1>6, <2>1, <2>2, <3>2 DEF Chained, Working
    <3>4. \A i, j \in DOMAIN queue' : queue'[i] = queue'[j] => i = j
      BY <2>1, <3>2 DEF Chained
    <3>5. \A d \in Calls : stage'[d] \in Working \ {"queued"} => 1 \in DOMAIN queue' /\ queue'[1] = d
      BY <1>6, <3>2 DEF Chained, Working
    <3> QED
      BY <3>3, <3>4, <3>5 DEF Chained
  <2>3. CASE stage'[c] = "answered"
    <3>1. queue' = queue
      BY <1>1, <2>3 DEF Types
    <3> QED
      BY <1>6, <2>1, <2>3, <3>1 DEF Chained, Working
  <2> QED
    BY <1>6, <2>2, <2>3
<1>12. Staged'
  BY <1>2, <1>4, <1>5, <1>6 DEF Staged, NoFile, File
<1>13. Published'
  BY <1>2, <1>8 DEF Published
<1>14. Kept'
  <2>1. ASSUME NEW d \in Calls, stage'[d] = "directory"
        PROVE  files'[request'[d].id].holds = CheckpointOf(d, request'[d])
    BY <1>2, <1>4, <1>6, <2>1 DEF Kept
  <2>2. ASSUME NEW d \in Calls, Acknowledged(d)'
        PROVE  d # c /\ Acknowledged(d)
    <3>1. d # c
      <4> SUFFICES ASSUME d = c PROVE FALSE
        OBVIOUS
      <4>1. answer'[c].code = "PERSISTENCE_VALIDATION"
        BY <1>1, <1>6, <2>2 DEF Types, Acknowledged
      <4> QED
        BY <2>2, <4>1 DEF Acknowledged
    <3>2. answer'[d] = answer[d]
      BY <1>1, <3>1 DEF Types
    <3> QED
      BY <1>4, <1>6, <2>2, <3>1, <3>2 DEF Acknowledged
  <2> QED
    BY <1>2, <1>4, <1>8, <2>1, <2>2 DEF Kept
<1> QED
  BY <1>9, <1>10, <1>11, <1>12, <1>13, <1>14

\* The awaits of a save before its rename: only the temporary file changes.
LEMMA PrepareKeeps ==
    ASSUME StoreInv, NEW c \in Calls, MakeDirectory(c) \/ Open(c) \/ Write(c) \/ Sync(c)
    PROVE  StoreInv'
<1> USE DEF StoreInv
<1> DEFINE new == temporary'[c]
<1>1. PICK s \in Working, t \in Working :
          /\ Runs(c, s) /\ Continue(c, t) /\ request[c].op = "save" /\ t # "queued"
          /\ t # "directory"
          /\ UNCHANGED <<setting, files, entries, request, crashes>>
          /\ temporary' \in [Calls -> Files] /\ \A d \in Calls \ {c} : temporary'[d] = temporary[d]
          /\ new.holds \in {Nothing, Damaged, CheckpointOf(c, request[c])}
          /\ t \in {"sync", "rename"} => new.holds = CheckpointOf(c, request[c])
          /\ t = "rename" => new.synced
  <2>1. CASE MakeDirectory(c)
    BY <2>1 DEF MakeDirectory, Working, Types, Staged
  <2>2. CASE Open(c)
    <3>1. Runs(c, "open") /\ Continue(c, "write") /\ request[c].op = "save"
      BY <2>2 DEF Open, Runs, Asked, Working
    <3>2. File(Damaged, FALSE) \in Files /\ File(Damaged, FALSE).holds = Damaged
      BY ContentFacts DEF Contents
    <3>3. temporary' = [temporary EXCEPT ![c] = File(Damaged, FALSE)] /\ temporary \in [Calls -> Files]
      BY <2>2 DEF Open, Types
    <3>4. UNCHANGED <<setting, files, entries, request, crashes>>
      BY <2>2 DEF Open
    <3> QED
      BY <3>1, <3>2, <3>3, <3>4 DEF Working
  <2>3. CASE Write(c)
    <3>1. Runs(c, "write") /\ Continue(c, "sync") /\ request[c].op = "save" /\ stage[c] # "idle"
      BY <2>3 DEF Write, Runs, Asked, Working
    <3>2. CheckpointOf(c, request[c]) \in Contents
      BY <3>1, RequestFacts DEF Contents
    <3>3. /\ temporary' = [temporary EXCEPT ![c].holds = CheckpointOf(c, request[c])]
          /\ temporary \in [Calls -> Files]
      BY <2>3 DEF Write, Types
    <3>4. UNCHANGED <<setting, files, entries, request, crashes>>
      BY <2>3 DEF Write
    <3>5. /\ temporary' \in [Calls -> Files] /\ \A d \in Calls \ {c} : temporary'[d] = temporary[d]
          /\ new.holds = CheckpointOf(c, request[c])
      BY <3>2, <3>3 DEF Files
    <3> QED
      BY <3>1, <3>4, <3>5 DEF Working
  <2>4. CASE Sync(c)
    <3>1. Runs(c, "sync") /\ Continue(c, "rename") /\ request[c].op = "save"
      BY <2>4 DEF Sync, Runs, Asked, Working
    <3>2. temporary' = [temporary EXCEPT ![c] = Synced(@)] /\ temporary \in [Calls -> Files]
      BY <2>4 DEF Sync, Types
    <3>3. temporary[c].holds = CheckpointOf(c, request[c])
      BY <3>1 DEF Staged, Runs
    <3>4. Synced(temporary[c]) \in Files /\ Synced(temporary[c]).holds = temporary[c].holds /\ Synced(temporary[c]).synced
      BY <3>2 DEF Files, Synced
    <3>5. UNCHANGED <<setting, files, entries, request, crashes>>
      BY <2>4 DEF Sync
    <3> QED
      BY <3>1, <3>2, <3>3, <3>4, <3>5 DEF Working
  <2> QED
    BY <2>1, <2>2, <2>3, <2>4
<1>2. /\ stage' \in [Calls -> Stages] /\ queue' \in Seq(Calls) /\ answer' = answer
      /\ stage'[c] = t /\ \A d \in Calls \ {c} : stage'[d] = stage[d]
      /\ Chained'
  BY <1>1, ContinueKeeps
<1>3. stage[c] \in Working
  BY <1>1 DEF Runs
<1>4. Types'
  BY <1>1, <1>2 DEF Types
<1>5. Asked'
  BY <1>1, <1>2, <1>3 DEF Asked, Working
<1>6. Staged'
  BY <1>1, <1>2 DEF Staged
<1>7. Published' /\ Kept'
  BY <1>1, <1>2, DirectoryKept DEF Acknowledged, Working
<1> QED
  BY <1>2, <1>4, <1>5, <1>6, <1>7

\* The rename publishes a synced file that holds the save.
LEMMA RenameKeeps ==
    ASSUME StoreInv, NEW c \in Calls, Rename(c)
    PROVE  StoreInv'
<1> USE DEF StoreInv
<1> DEFINE k == request[c].id
           new == temporary[c]
<1>1. /\ Runs(c, "rename") /\ Continue(c, "directory") /\ UNCHANGED <<setting, request, crashes>>
      /\ files' = [files EXCEPT ![k] = new] /\ entries' = [entries EXCEPT ![k] = @ \cup {new}]
      /\ temporary' = [temporary EXCEPT ![c] = NoFile]
  BY DEF Rename
<1>2. stage[c] = "rename" /\ request[c].op = "save" /\ request[c] \in Requests
  BY <1>1, RequestFacts DEF Runs, Asked, Working
<1>3. k \in Ids /\ new \in Files /\ new.synced /\ new.holds = CheckpointOf(c, request[c])
  BY <1>2 DEF Staged, Types, Requests
<1>4. /\ stage' \in [Calls -> Stages] /\ queue' \in Seq(Calls) /\ answer' = answer
      /\ stage'[c] = "directory" /\ \A d \in Calls \ {c} : stage'[d] = stage[d]
      /\ Chained'
  BY <1>1, ContinueKeeps DEF Working
<1>5. \A d \in Calls \ {c} : stage[d] # "directory"
  BY <1>1, RunningFacts DEF Working, Stages
<1>6. /\ files' \in [Ids -> Files] /\ files'[k] = new /\ \A j \in Ids \ {k} : files'[j] = files[j]
      /\ entries' \in [Ids -> SUBSET Files] /\ entries'[k] = entries[k] \cup {new}
      /\ \A j \in Ids \ {k} : entries'[j] = entries[j]
      /\ temporary' \in [Calls -> Files] /\ temporary'[c] = NoFile
      /\ \A d \in Calls \ {c} : temporary'[d] = temporary[d]
  BY <1>1, <1>3, ContentFacts DEF Types
<1>7. \A j, content : SavedAs(j, content)' <=> SavedAs(j, content)
  BY <1>1 DEF SavedAs
<1>8. SavedAs(k, new.holds)
  BY <1>2, <1>3 DEF SavedAs
<1>9. Types'
  BY <1>1, <1>4, <1>6 DEF Types
<1>10. Asked'
  BY <1>1, <1>2, <1>4, <1>6 DEF Asked, Working
<1>11. Staged'
  BY <1>1, <1>4, <1>6 DEF Staged, NoFile, File
<1>12. Published'
  BY <1>1, <1>3, <1>6, <1>7, <1>8 DEF Published
<1>13. Kept'
  <2>1. ASSUME NEW d \in Calls, stage'[d] = "directory"
        PROVE  files'[request'[d].id].holds = CheckpointOf(d, request'[d])
    BY <1>1, <1>3, <1>4, <1>5, <1>6, <2>1
  <2>2. ASSUME NEW d \in Calls, Acknowledged(d)', NEW f \in entries'[request'[d].id]
        PROVE  SavedAs(request[d].id, f.holds)'
    <3>1. Acknowledged(d) /\ d # c
      BY <1>1, <1>4, <2>2 DEF Acknowledged
    <3>2. request[d].id \in Ids
      BY <3>1, RequestFacts DEF Acknowledged, Requests
    <3>3. SavedAs(request[d].id, f.holds)
      BY <1>1, <1>6, <1>8, <2>2, <3>1, <3>2 DEF Kept
    <3> QED
      BY <1>1, <3>3 DEF SavedAs
  <2> QED
    BY <2>1, <2>2 DEF Kept
<1> QED
  BY <1>4, <1>9, <1>10, <1>11, <1>12, <1>13

\* Checkpoints of different identifiers have exactly one order; the n-th of it
\* is the one with n - 1 before it.
LEMMA SortedFacts ==
    ASSUME NEW S \in SUBSET Checkpoints, IsFiniteSet(S),
           \A x, y \in S : x.id = y.id => x = y
    PROVE  /\ Sorted(S) \in Seq(S)
           /\ \A i, j \in DOMAIN Sorted(S) : i < j => Before(Sorted(S)[i], Sorted(S)[j])
           /\ {Sorted(S)[i] : i \in DOMAIN Sorted(S)} = S
<1> DEFINE N == Cardinality(S)
           Below(x) == {y \in S : Before(y, x)}
           rank == [x \in S |-> Cardinality(Below(x))]
<1>1. N \in Nat
  BY FS_CardinalityType
<1>2. \A x \in S : x.id \in Nat /\ x.sequence \in Nat
  BY CheckpointAssumption DEF Checkpoints
<1>3. /\ \A x \in S : ~ Before(x, x)
      /\ \A x, y \in S : x = y \/ Before(x, y) \/ Before(y, x)
      /\ \A x, y, z \in S : Before(x, y) /\ Before(y, z) => Before(x, z)
  BY <1>2 DEF Before
<1>4. ASSUME NEW x \in S
      PROVE  IsFiniteSet(Below(x)) /\ Cardinality(Below(x)) \in 0..(N - 1)
  <2>1. Below(x) \in SUBSET (S \ {x})
    BY <1>3
  <2>2. IsFiniteSet(S \ {x}) /\ Cardinality(S \ {x}) = N - 1
    BY FS_RemoveElement
  <2>3. IsFiniteSet(Below(x)) /\ Cardinality(Below(x)) <= N - 1
    BY <2>1, <2>2, FS_Subset
  <2>4. Cardinality(Below(x)) \in Nat
    BY <2>3, FS_CardinalityType
  <2> QED
    BY <1>1, <2>3, <2>4
<1>5. ASSUME NEW x \in S, NEW y \in S, Before(x, y)
      PROVE  rank[x] < rank[y]
  <2>1. Below(x) \in SUBSET Below(y) /\ Below(x) # Below(y)
    BY <1>3, <1>5
  <2>2. Cardinality(Below(x)) <= Cardinality(Below(y)) /\ Cardinality(Below(x)) # Cardinality(Below(y))
    <3>1. IsFiniteSet(Below(y))
      BY <1>4
    <3> HIDE DEF Below
    <3> QED
      BY <2>1, <3>1, FS_Subset
  <2>3. rank[x] = Cardinality(Below(x)) /\ rank[y] = Cardinality(Below(y)) /\ rank[x] \in Int /\ rank[y] \in Int
    <3>1. rank[x] = Cardinality(Below(x)) /\ rank[y] = Cardinality(Below(y))
      OBVIOUS
    <3> HIDE DEF Below, rank, N
    <3>2. Cardinality(Below(x)) \in Int /\ Cardinality(Below(y)) \in Int
      BY <1>1, <1>4
    <3> QED
      BY <3>1, <3>2
  <2> QED
    BY <2>2, <2>3
<1>6. rank \in [S -> 0..(N - 1)]
  BY <1>4
<1>7. \A x, y \in S : rank[x] < rank[y] => Before(x, y)
  <2> SUFFICES ASSUME NEW x \in S, NEW y \in S, rank[x] < rank[y], ~ Before(x, y) PROVE FALSE
    OBVIOUS
  <2>1. rank[x] \in Int /\ rank[y] \in Int
    BY <1>6
  <2>2. CASE x = y
    BY <2>1, <2>2
  <2>3. CASE Before(y, x)
    <3>1. rank[y] < rank[x]
      BY <1>5, <2>3
    <3> QED
      BY <2>1, <3>1
  <2> QED
    BY <1>3, <2>2, <2>3
<1>8. \A x, y \in S : rank[x] = rank[y] => x = y
  <2> SUFFICES ASSUME NEW x \in S, NEW y \in S, rank[x] = rank[y], x # y PROVE FALSE
    OBVIOUS
  <2>1. rank[x] < rank[y] \/ rank[y] < rank[x]
    BY <1>3, <1>5
  <2>2. rank[x] \in Int /\ rank[y] \in Int
    BY <1>6
  <2> QED
    BY <2>1, <2>2
<1>9. \A n \in 0..(N - 1) : \E x \in S : rank[x] = n
  <2>1. rank \in Injection(S, 0..(N - 1))
    BY <1>6, <1>8 DEF Injection, IsInjective
  <2>2. IsFiniteSet(0..(N - 1)) /\ Cardinality(0..(N - 1)) = N
    BY <1>1, FS_Interval
  <2>3. rank \in Surjection(S, 0..(N - 1))
    BY <2>1, <2>2, FS_Injection
  <2> QED
    BY <2>3 DEF Surjection
<1>10. Sorted(S) = [n \in 1..N |-> CHOOSE x \in S : Cardinality(Below(x)) = n - 1]
  BY DEF Sorted
<1>11. ASSUME NEW n \in 1..N
       PROVE  Sorted(S)[n] \in S /\ rank[Sorted(S)[n]] = n - 1
  <2>1. n - 1 \in 0..(N - 1)
    BY <1>1
  <2>2. \E x \in S : Cardinality(Below(x)) = n - 1
    BY <1>9, <2>1
  <2>3. Sorted(S)[n] = CHOOSE x \in S : Cardinality(Below(x)) = n - 1
    BY <1>10
  <2>4. Sorted(S)[n] \in S /\ Cardinality(Below(Sorted(S)[n])) = n - 1
    BY <2>2, <2>3
  <2> QED
    BY <2>4
<1>12. DOMAIN Sorted(S) = 1..N
  BY <1>10
<1>13. Sorted(S) \in Seq(S)
  <2>1. Sorted(S) = [n \in 1..N |-> Sorted(S)[n]]
    BY <1>10
  <2>2. \A n \in 1..N : Sorted(S)[n] \in S
    BY <1>11
  <2> HIDE DEF N
  <2> QED
    BY <1>1, <2>1, <2>2
<1>14. ASSUME NEW i \in 1..N, NEW j \in 1..N, i < j
       PROVE  Before(Sorted(S)[i], Sorted(S)[j])
  <2>1. rank[Sorted(S)[i]] < rank[Sorted(S)[j]]
    BY <1>1, <1>11, <1>14
  <2> QED
    BY <1>7, <1>11, <2>1
<1>15. ASSUME NEW x \in S
       PROVE  \E i \in 1..N : Sorted(S)[i] = x
  <2>1. rank[x] + 1 \in 1..N
    BY <1>1, <1>6
  <2>2. rank[Sorted(S)[rank[x] + 1]] = rank[x] /\ Sorted(S)[rank[x] + 1] \in S
    <3>1. Sorted(S)[rank[x] + 1] \in S /\ rank[Sorted(S)[rank[x] + 1]] = (rank[x] + 1) - 1
      BY <1>11, <2>1
    <3>2. rank[x] \in Int
      BY <1>6
    <3> HIDE DEF rank
    <3> QED
      BY <3>1, <3>2
  <2>3. Sorted(S)[rank[x] + 1] = x
    BY <1>8, <2>2
  <2> QED
    BY <2>1, <2>3
<1>16. {Sorted(S)[i] : i \in 1..N} = S
  <2>1. \A i \in 1..N : Sorted(S)[i] \in S
    BY <1>11
  <2>2. \A x \in S : \E i \in 1..N : Sorted(S)[i] = x
    BY <1>15
  <2> HIDE DEF N
  <2> QED
    BY <2>1, <2>2
<1> QED
  BY <1>12, <1>13, <1>14, <1>16

\* What readdir and the loads find: a whole checkpoint for each name that has
\* one, of that name, so no two of one identifier.
LEMMA FoundFacts ==
    ASSUME StoreInv, NEW found, found = {files[k].holds : k \in Ids} \ {Nothing}, Damaged \notin found
    PROVE  /\ found \in SUBSET Checkpoints /\ IsFiniteSet(found)
           /\ \A x, y \in found : x.id = y.id => x = y
<1> USE DEF StoreInv
<1>1. ASSUME NEW k \in Ids, files[k].holds \in found
      PROVE  files[k].holds \in Checkpoints /\ files[k].holds.id = k
  <2>1. files[k].holds # Nothing /\ files[k].holds # Damaged
    BY <1>1
  <2>2. PICK d \in Calls : /\ request[d].op = "save" /\ request[d].id = k
                           /\ files[k].holds = CheckpointOf(d, request[d])
    BY <2>1 DEF Published, SavedAs
  <2>3. stage[d] # "idle"
    BY <2>2 DEF Asked, NoRequest
  <2> QED
    BY <2>2, <2>3, RequestFacts DEF CheckpointOf
<1>2. \A x \in found : \E k \in Ids : x = files[k].holds /\ x \in Checkpoints /\ x.id = k
  BY <1>1
<1>3. IsFiniteSet(found)
  <2> DEFINE all == {files[k].holds : k \in Ids}
             held == [k \in Ids |-> files[k].holds]
  <2>1. held \in Surjection(Ids, all)
    BY DEF Surjection
  <2>2. IsFiniteSet(all)
    BY <2>1, FS_Surjection, CheckpointAssumption
  <2>3. found \in SUBSET all
    OBVIOUS
  <2> QED
    BY <2>2, <2>3, FS_Subset
<1> QED
  BY <1>2, <1>3

\* What list answers with when no file is damaged.
LEMMA ListFacts ==
    ASSUME StoreInv, NEW found, found = {files[k].holds : k \in Ids} \ {Nothing}, Damaged \notin found
    PROVE  /\ Sorted(found) \in Seq(Checkpoints)
           /\ \A i, j \in DOMAIN Sorted(found) : i < j => Before(Sorted(found)[i], Sorted(found)[j])
           /\ {Sorted(found)[i] : i \in DOMAIN Sorted(found)} = found
<1>1. /\ found \in SUBSET Checkpoints /\ IsFiniteSet(found)
      /\ \A x, y \in found : x.id = y.id => x = y
  BY FoundFacts
<1>2. /\ Sorted(found) \in Seq(found)
      /\ \A i, j \in DOMAIN Sorted(found) : i < j => Before(Sorted(found)[i], Sorted(found)[j])
      /\ {Sorted(found)[i] : i \in DOMAIN Sorted(found)} = found
  BY <1>1, SortedFacts
<1>3. Sorted(found) \in Seq(Checkpoints)
  BY <1>1, <1>2
<1> QED
  BY <1>2, <1>3

\* An answer that is not that of a save, or is a failure: load, list and a
\* filesystem call that rejects.
LEMMA UnacknowledgedKeeps ==
    ASSUME StoreInv, NEW c \in Calls, NEW s \in Working, Runs(c, s),
           NEW code \in Codes, NEW value \in Seq(Checkpoints), Answer(c, code, value),
           request[c].op # "save" \/ code # "ok",
           \E left \in {temporary[c], NoFile} : temporary' = [temporary EXCEPT ![c] = left],
           UNCHANGED <<setting, files, entries, request, crashes>>
    PROVE  StoreInv'
<1> USE DEF StoreInv
<1>1. /\ stage' \in [Calls -> Stages] /\ queue' \in Seq(Calls)
      /\ answer' \in [Calls -> [code : Codes, value : Seq(Checkpoints)]]
      /\ stage'[c] = "answered" /\ answer'[c] = [code |-> code, value |-> value]
      /\ \A d \in Calls \ {c} : stage'[d] = stage[d] /\ answer'[d] = answer[d]
      /\ Chained'
  BY AnswerKeeps
<1>2. stage[c] \in Working
  BY DEF Runs
<1>3. /\ temporary' \in [Calls -> Files] /\ temporary'[c] \in {temporary[c], NoFile}
      /\ \A d \in Calls \ {c} : temporary'[d] = temporary[d]
  BY ContentFacts DEF Types
<1>4. Types'
  BY <1>1, <1>3 DEF Types
<1>5. Asked'
  BY <1>1, <1>2, <1>3 DEF Asked, Working
<1>6. Staged'
  <2>1. temporary'[c].holds \in {Nothing, Damaged, CheckpointOf(c, request'[c])}
    BY <1>3 DEF Staged, NoFile, File
  <2> QED
    BY <1>1, <1>3, <2>1 DEF Staged
<1>7. Published' /\ Kept'
  <2>1. \A d \in Calls : Acknowledged(d)' => Acknowledged(d)
    BY <1>1 DEF Acknowledged
  <2>2. \A d \in Calls : stage'[d] = "directory" => stage[d] = "directory"
    BY <1>1
  <2> QED
    BY <2>1, <2>2, DirectoryKept
<1> QED
  BY <1>1, <1>4, <1>5, <1>6, <1>7

LEMMA ReadKeeps ==
    ASSUME StoreInv, NEW c \in Calls, Load(c) \/ List(c) \/ IoFails(c)
    PROVE  StoreInv'
<1> USE DEF StoreInv
<1>1. << >> \in Seq(Checkpoints)
  OBVIOUS
<1>2. temporary = [temporary EXCEPT ![c] = temporary[c]]
  BY DEF Types
<1>3. CASE Load(c)
  <2> DEFINE found == files[request[c].id].holds
             code == IF found = Damaged THEN "CORRUPT_CHECKPOINT" ELSE "ok"
             value == IF found \in {Damaged, Nothing} THEN << >> ELSE <<found>>
  <2>1. /\ Runs(c, "queued") /\ request[c].op = "load" /\ Answer(c, code, value)
        /\ UNCHANGED <<setting, files, entries, temporary, request, crashes>>
    BY <1>3 DEF Load
  <2>2. request[c] \in Requests
    BY <2>1, RequestFacts DEF Runs
  <2>3. found \in Contents
    BY <2>2 DEF Types, Files, Requests
  <2>4. code \in Codes
    BY DEF Codes
  <2>5. value \in Seq(Checkpoints)
    <3>1. found \in Checkpoints => <<found>> \in Seq(Checkpoints)
      OBVIOUS
    <3> QED
      BY <1>1, <2>3, <3>1 DEF Contents
  <2> HIDE DEF code, value
  <2> QED
    BY <1>2, <2>1, <2>4, <2>5, UnacknowledgedKeeps DEF Working
<1>4. CASE List(c)
  <2> DEFINE found == {files[k].holds : k \in Ids} \ {Nothing}
  <2>1. /\ Runs(c, "queued") /\ request[c].op = "list"
        /\ UNCHANGED <<setting, files, entries, temporary, request, crashes>>
        /\ IF Damaged \in found THEN Answer(c, "CORRUPT_CHECKPOINT", << >>)
           ELSE Answer(c, "ok", Sorted(found))
    BY <1>4 DEF List
  <2>2. Damaged \notin found => Sorted(found) \in Seq(Checkpoints)
    BY ListFacts
  <2> HIDE DEF found
  <2>3. "CORRUPT_CHECKPOINT" \in Codes /\ "ok" \in Codes /\ "queued" \in Working
    BY DEF Codes, Working
  <2>4. CASE Damaged \in found
    BY <1>1, <1>2, <2>1, <2>3, <2>4, UnacknowledgedKeeps
  <2>5. CASE Damaged \notin found
    BY <1>2, <2>1, <2>2, <2>3, <2>5, UnacknowledgedKeeps
  <2> QED
    BY <2>4, <2>5
<1>5. CASE IoFails(c)
  <2>1. PICK s \in Working : Runs(c, s)
    BY <1>5 DEF IoFails, Working
  <2>2. /\ Answer(c, "PERSISTENCE_IO", << >>)
        /\ \E left \in {temporary[c], NoFile} : temporary' = [temporary EXCEPT ![c] = left]
        /\ UNCHANGED <<setting, files, entries, request, crashes>>
    BY <1>5 DEF IoFails
  <2>3. "PERSISTENCE_IO" \in Codes
    BY DEF Codes
  <2> QED
    BY <1>1, <2>1, <2>2, <2>3, UnacknowledgedKeeps
<1> QED
  BY <1>3, <1>4, <1>5

\* A save is acknowledged once its name leads to it alone.
LEMMA SyncDirectoryKeeps ==
    ASSUME StoreInv, NEW c \in Calls, SyncDirectory(c)
    PROVE  StoreInv'
<1> USE DEF StoreInv
<1>1. /\ Runs(c, "directory") /\ entries' = [k \in Ids |-> {files[k]}] /\ Answer(c, "ok", << >>)
      /\ UNCHANGED <<setting, files, temporary, request, crashes>>
  BY DEF SyncDirectory, EntriesSynced
<1>2. "ok" \in Codes /\ "directory" \in Working /\ << >> \in Seq(Checkpoints)
  BY DEF Codes, Working
<1>3. /\ stage' \in [Calls -> Stages] /\ queue' \in Seq(Calls)
      /\ answer' \in [Calls -> [code : Codes, value : Seq(Checkpoints)]]
      /\ stage'[c] = "answered"
      /\ \A d \in Calls \ {c} : stage'[d] = stage[d] /\ answer'[d] = answer[d]
      /\ Chained'
  BY <1>1, <1>2, AnswerKeeps
<1>4. stage[c] = "directory" /\ request[c].op = "save" /\ request[c] \in Requests
  BY <1>1, RequestFacts DEF Runs, Asked, Working
<1>5. \A k, content : SavedAs(k, content)' <=> SavedAs(k, content)
  BY <1>1 DEF SavedAs
<1>6. Types'
  BY <1>1, <1>3 DEF Types
<1>7. Asked'
  BY <1>1, <1>3, <1>4 DEF Asked, Working
<1>8. Staged'
  BY <1>1, <1>3 DEF Staged
<1>9. Published'
  BY <1>1, <1>5 DEF Published
<1>10. Kept'
  <2>1. ASSUME NEW d \in Calls, Acknowledged(d)', NEW f \in entries'[request'[d].id]
        PROVE  SavedAs(request[d].id, f.holds)'
    <3>1. request[d].id \in Ids
      BY <1>3, <1>4, <2>1, RequestFacts DEF Acknowledged, Requests
    <3>2. f = files[request[d].id]
      BY <1>1, <2>1, <3>1
    <3>3. SavedAs(request[d].id, files[request[d].id].holds)
      <4>1. CASE d = c
        BY <1>4, <4>1 DEF Kept, SavedAs
      <4>2. CASE d # c
        <5>1. Acknowledged(d)
          BY <1>1, <1>3, <2>1, <4>2 DEF Acknowledged
        <5> QED
          BY <3>1, <5>1 DEF Kept, Published
      <4> QED
        BY <4>1, <4>2
    <3> QED
      BY <1>1, <3>2, <3>3 DEF SavedAs
  <2>2. ASSUME NEW d \in Calls, stage'[d] = "directory"
        PROVE  files'[request'[d].id].holds = CheckpointOf(d, request'[d])
    BY <1>1, <1>3, <2>2 DEF Kept
  <2> QED
    BY <2>1, <2>2 DEF Kept
<1> QED
  BY <1>3, <1>6, <1>7, <1>8, <1>9, <1>10

\* After a crash a name leads to a file it led to before, the same one when
\* only the process died.
LEMMA RestartKeeps ==
    ASSUME StoreInv, Restart, UNCHANGED temporary,
           files' \in [Ids -> Files] /\ entries' \in [Ids -> SUBSET Files],
           \A k \in Ids : files'[k] \in entries'[k] /\ entries'[k] \subseteq entries[k]
    PROVE  StoreInv'
<1> USE DEF StoreInv
<1>1. /\ crashes < MaxCrashes /\ crashes' = crashes + 1 /\ queue' = << >>
      /\ UNCHANGED <<setting, request, answer>>
      /\ stage' = [c \in Calls |-> IF stage[c] \in {"idle", "answered"} THEN stage[c] ELSE "lost"]
  BY DEF Restart
<1>2. \A c \in Calls : /\ stage'[c] \in {"idle", "answered", "lost"}
                       /\ stage'[c] \in {"idle", "answered"} => stage'[c] = stage[c]
                       /\ stage[c] = "idle" => stage'[c] = "idle"
  BY <1>1
<1>3. \A k, content : SavedAs(k, content)' <=> SavedAs(k, content)
  BY <1>1 DEF SavedAs
<1>4. Types'
  <2>1. crashes' \in 0..MaxCrashes
    BY <1>1, CheckpointAssumption DEF Types
  <2>2. stage' \in [Calls -> Stages]
    BY <1>1, <1>2 DEF Stages
  <2>3. queue' \in Seq(Calls)
    BY <1>1
  <2> QED
    BY <1>1, <2>1, <2>2, <2>3 DEF Types
<1>5. Asked'
  BY <1>1, <1>2 DEF Asked, Working
<1>6. Chained'
  <2>1. DOMAIN queue' = {}
    BY <1>1
  <2> QED
    BY <1>2, <2>1 DEF Chained, Working
<1>7. Staged'
  BY <1>1, <1>2 DEF Staged
<1>8. Published'
  BY <1>1, <1>3 DEF Published
<1>9. Kept'
  <2>1. ASSUME NEW d \in Calls, Acknowledged(d)', NEW f \in entries'[request'[d].id]
        PROVE  SavedAs(request[d].id, f.holds)'
    <3>1. Acknowledged(d)
      BY <1>1, <1>2, <2>1 DEF Acknowledged
    <3>2. request[d].id \in Ids
      BY <3>1, RequestFacts DEF Acknowledged, Requests
    <3>3. SavedAs(request[d].id, f.holds)
      BY <1>1, <2>1, <3>1, <3>2 DEF Kept
    <3> QED
      BY <1>1, <3>3 DEF SavedAs
  <2> QED
    BY <1>2, <2>1 DEF Kept
<1> QED
  BY <1>4, <1>5, <1>6, <1>7, <1>8, <1>9

\* Every file a name may lead to is synced, so a power loss leaves one of
\* them whole.
LEMMA PowerLossFacts ==
    ASSUME StoreInv, PowerLoss
    PROVE  /\ files' \in [Ids -> Files] /\ entries' \in [Ids -> SUBSET Files]
           /\ \A k \in Ids : files'[k] \in entries[k] /\ entries'[k] = {files'[k]}
<1> USE DEF StoreInv
<1>1. /\ \A k \in Ids : \E f \in entries[k] : files'[k] \in Survives(f)
      /\ entries' = [k \in Ids |-> {files'[k]}]
      /\ files' \in [Ids -> UNION {Survives(f) : f \in UNION {entries[k] : k \in Ids}}]
  BY DEF PowerLoss
<1>2. \A k \in Ids : \A f \in entries[k] : Survives(f) = {f}
  BY DEF Published, Survives
<1>3. \A k \in Ids : files'[k] \in entries[k]
  BY <1>1, <1>2
<1>4. files' \in [Ids -> Files]
  BY <1>1, <1>3 DEF Types
<1> QED
  BY <1>1, <1>3, <1>4

LEMMA StoreInvStep == StoreInv /\ [Next]_vars => StoreInv'
<1> SUFFICES ASSUME StoreInv, [Next]_vars PROVE StoreInv'
  OBVIOUS
<1>1. ASSUME NEW c \in Calls, Call(c) PROVE StoreInv'
  BY <1>1, CallKeeps
<1>2. ASSUME NEW c \in Calls, Operation(c) PROVE StoreInv'
  BY <1>2, PrepareKeeps, RenameKeeps, SyncDirectoryKeeps, ReadKeeps DEF Operation
<1>3. ASSUME NEW c \in Calls, IoFails(c) PROVE StoreInv'
  BY <1>3, ReadKeeps
<1>4. CASE ProcessCrash
  BY <1>4, RestartKeeps DEF ProcessCrash, StoreInv, Types, Published
<1>5. CASE PowerLoss
  <2>1. Restart /\ UNCHANGED temporary
    BY <1>5 DEF PowerLoss
  <2>2. \A k \in Ids : files'[k] \in entries'[k] /\ entries'[k] \subseteq entries[k]
    BY <1>5, PowerLossFacts
  <2> QED
    BY <1>5, <2>1, <2>2, PowerLossFacts, RestartKeeps
<1>6. CASE UNCHANGED vars
  BY <1>6 DEF vars, StoreInv, Types, Asked, Chained, Staged, Published, Kept, Acknowledged, SavedAs
<1> QED
  BY <1>1, <1>2, <1>3, <1>4, <1>5, <1>6 DEF Next, Quiet

\* What the inductive invariant gives of the promises.
LEMMA StoreInvSafe == StoreInv => CheckpointsSafe
<1> SUFFICES ASSUME StoreInv PROVE CheckpointsSafe
  OBVIOUS
<1> USE DEF StoreInv
<1>1. TypeOK
  BY DEF TypeOK, Types, Staged, Published
<1>2. PublishedWhole
  <2> SUFFICES ASSUME NEW k \in Ids, files[k].holds = Damaged PROVE k \in setting.damaged
    BY DEF PublishedWhole
  <2>1. ~ SavedAs(k, Damaged)
    <3> SUFFICES ASSUME NEW d \in Calls, request[d].op = "save", Damaged = CheckpointOf(d, request[d]) PROVE FALSE
      BY DEF SavedAs
    <3>1. stage[d] # "idle"
      BY DEF Asked, NoRequest
    <3> QED
      BY <3>1, RequestFacts, ContentFacts
  <2> QED
    BY <2>1, ContentFacts DEF Published
<1>3. AcknowledgedSaved
  <2> SUFFICES ASSUME NEW c \in Calls, Acknowledged(c)
               PROVE  \E d \in Calls : /\ files[request[c].id].holds = CheckpointOf(d, request[d])
                                       /\ request[d].op = "save"
    BY DEF AcknowledgedSaved
  <2>1. request[c].id \in Ids
    BY RequestFacts DEF Acknowledged, Requests
  <2>2. SavedAs(request[c].id, files[request[c].id].holds)
    BY <2>1 DEF Kept, Published
  <2> QED
    BY <2>2 DEF SavedAs
<1> QED
  BY <1>1, <1>2, <1>3 DEF CheckpointsSafe

\* For every set of calls, identifiers and settings, and any number of crashes
\* and power losses: no await of save, load or list, no failing filesystem
\* call, no crash of the process and no power loss makes a file that #parse
\* refuses, and once save has returned its identifier always has a whole
\* checkpoint.
THEOREM CheckpointsAlwaysSafe == Spec => []CheckpointsSafe
<1>1. Init => StoreInv
  BY StoreInvInit
<1>2. StoreInv /\ [Next]_vars => StoreInv'
  BY StoreInvStep
<1>3. StoreInv => CheckpointsSafe
  BY StoreInvSafe
<1> QED
  BY <1>1, <1>2, <1>3, PTL DEF Spec

-----------------------------------------------------------------------------
(* The store implements the map of whole checkpoints.                      *)

\* The calls as the map sees them.
Seen == [c \in Calls |-> CallOf(c)]

\* A call as the map sees it.
LEMMA CallOfFacts ==
    ASSUME NEW c \in Calls
    PROVE  /\ stage[c] = "idle" => CallOf(c) = [state |-> "idle"]
           /\ stage[c] = "lost" => CallOf(c) = [state |-> "lost"]
           /\ stage[c] = "answered" => CallOf(c) = [state |-> "answered", req |-> request[c],
                                                    code |-> answer[c].code, value |-> answer[c].value]
           /\ stage[c] \in Working => CallOf(c) = [state |-> "pending", req |-> request[c],
                                                   done |-> stage[c] = "directory"]
  BY DEF CallOf, Working

\* Calls that a step leaves alone stay what they are to the map.
LEMMA OtherCalls ==
    ASSUME NEW c, request' = request,
           \A d \in Calls \ {c} : stage'[d] = stage[d] /\ answer'[d] = answer[d]
    PROVE  \A d \in Calls \ {c} : CallOf(d)' = CallOf(d)
  BY DEF CallOf

LEMMA InitMaps == Init => Map!MapInit
<1> SUFFICES ASSUME Init PROVE Map!MapInit
  OBVIOUS
<1>1. \A k \in Ids : files[k].holds \in {Nothing, Damaged} /\ entries[k] = {files[k]}
  BY DEF Init, NoFile, File
<1>2. \A c \in Calls : CallOf(c) = [state |-> "idle"]
  BY CallOfFacts DEF Init
<1> QED
  BY <1>1, <1>2 DEF Map!MapInit

LEMMA CallMaps ==
    ASSUME StoreInv, StoreInv', NEW c \in Calls, Call(c)
    PROVE  Map!Invoke(c)
<1> USE DEF StoreInv
<1>1. PICK req \in setting.requests :
          /\ request' = [request EXCEPT ![c] = req]
          /\ \/ /\ stage' = [stage EXCEPT ![c] = "queued"]
                /\ UNCHANGED answer
             \/ /\ ~ req.valid
                /\ stage' = [stage EXCEPT ![c] = "answered"]
                /\ answer' = [answer EXCEPT ![c] = [code |-> "PERSISTENCE_VALIDATION", value |-> << >>]]
  BY DEF Call
<1>2. stage[c] = "idle" /\ UNCHANGED <<setting, files, entries, temporary, crashes>>
  BY DEF Call
<1>3. req \in UNION {s.requests : s \in Settings}
  BY DEF Types
<1>4. CallOf(c) = [state |-> "idle"]
  BY <1>2, CallOfFacts
<1>5. \A d \in Calls \ {c} : CallOf(d)' = CallOf(d)
  <2>1. \A d \in Calls \ {c} : stage'[d] = stage[d] /\ answer'[d] = answer[d] /\ request'[d] = request[d]
    BY <1>1 DEF Types
  <2> QED
    BY <2>1 DEF CallOf
<1>6. \/ CallOf(c)' = [state |-> "pending", req |-> req, done |-> FALSE]
      \/ ~ req.valid /\ CallOf(c)' = [state |-> "answered", req |-> req,
                                      code |-> "PERSISTENCE_VALIDATION", value |-> << >>]
  <2>1. request'[c] = req
    BY <1>1 DEF Types
  <2>2. CASE stage' = [stage EXCEPT ![c] = "queued"]
    <3>1. stage'[c] = "queued"
      BY <2>2 DEF Types
    <3> QED
      BY <2>1, <3>1 DEF CallOf
  <2>3. CASE /\ ~ req.valid
             /\ stage' = [stage EXCEPT ![c] = "answered"]
             /\ answer' = [answer EXCEPT ![c] = [code |-> "PERSISTENCE_VALIDATION", value |-> << >>]]
    <3>1. stage'[c] = "answered" /\ answer'[c] = [code |-> "PERSISTENCE_VALIDATION", value |-> << >>]
      BY <2>3 DEF Types
    <3> QED
      BY <2>1, <2>3, <3>1 DEF CallOf
  <2> QED
    BY <1>1, <2>2, <2>3
<1>7. Seen[c].state = "idle"
  BY <1>4 DEF Seen
<1>8. \/ Seen' = [Seen EXCEPT ![c] = [state |-> "pending", req |-> req, done |-> FALSE]]
      \/ ~ req.valid /\ Seen' = [Seen EXCEPT ![c] = [state |-> "answered", req |-> req,
                                     code |-> "PERSISTENCE_VALIDATION", value |-> << >>]]
  BY <1>5, <1>6 DEF Seen
<1>9. UNCHANGED <<[k \in Ids |-> files[k].holds], [k \in Ids |-> {f.holds : f \in entries[k]}]>>
  BY <1>2
<1> QED
  BY <1>3, <1>7, <1>8, <1>9 DEF Map!Invoke, Seen

\* The call that runs is pending for the map, and its answer there is the same.
LEMMA AnswerMaps ==
    ASSUME Types, NEW c \in Calls, NEW s \in Working, Runs(c, s),
           NEW code, NEW value, Answer(c, code, value), request' = request
    PROVE  /\ Seen[c].state = "pending" /\ Seen[c].req = request[c]
           /\ Seen[c].done <=> s = "directory"
           /\ Seen' = [Seen EXCEPT ![c] = [state |-> "answered", req |-> Seen[c].req,
                                           code |-> code, value |-> value]]
<1> DEFINE done == s = "directory"
<1>1. CallOf(c) = [state |-> "pending", req |-> request[c], done |-> done]
  BY CallOfFacts DEF Runs
<1> HIDE DEF done
<1>2. /\ stage'[c] = "answered" /\ answer'[c] = [code |-> code, value |-> value]
      /\ \A d \in Calls \ {c} : stage'[d] = stage[d] /\ answer'[d] = answer[d]
  BY DEF Answer, Types
<1>3. \A d \in Calls \ {c} : CallOf(d)' = CallOf(d)
  BY <1>2, OtherCalls
<1>4. CallOf(c)' = [state |-> "answered", req |-> request[c], code |-> code, value |-> value]
  BY <1>2 DEF CallOf
<1>5. Seen[c].state = "pending" /\ Seen[c].req = request[c] /\ Seen[c].done = done
  BY <1>1 DEF Seen
<1>6. Seen' = [Seen EXCEPT ![c] = [state |-> "answered", req |-> request[c],
                                   code |-> code, value |-> value]]
  BY <1>3, <1>4 DEF Seen
<1> QED
  BY <1>5, <1>6 DEF done

\* The awaits before the rename do not show.
LEMMA PrepareMaps ==
    ASSUME StoreInv, NEW c \in Calls, MakeDirectory(c) \/ Open(c) \/ Write(c) \/ Sync(c)
    PROVE  UNCHANGED Map!contract
<1> USE DEF StoreInv
<1>1. PICK s \in Working \ {"directory"}, t \in Working \ {"directory"} :
          Runs(c, s) /\ Continue(c, t) /\ UNCHANGED <<files, entries, request>>
  BY DEF MakeDirectory, Open, Write, Sync, Working
<1>2. /\ stage'[c] = t /\ stage[c] = s /\ answer' = answer
      /\ \A d \in Calls \ {c} : stage'[d] = stage[d]
  BY <1>1 DEF Continue, Types, Runs
<1>3. \A d \in Calls \ {c} : CallOf(d)' = CallOf(d)
  BY <1>1, <1>2, OtherCalls
<1>4. CallOf(c)' = CallOf(c)
  BY <1>1, <1>2 DEF CallOf, Working
<1>5. UNCHANGED [d \in Calls |-> CallOf(d)]
  BY <1>3, <1>4
<1> QED
  BY <1>1, <1>5 DEF Map!contract

LEMMA RenameMaps ==
    ASSUME StoreInv, NEW c \in Calls, Rename(c)
    PROVE  Map!Replace(c)
<1> USE DEF StoreInv
<1> DEFINE map == [k \in Ids |-> files[k].holds]
           shaky == [k \in Ids |-> {f.holds : f \in entries[k]}]
           new == CheckpointOf(c, request[c])
           id == request[c].id
<1>1. /\ Runs(c, "rename") /\ Continue(c, "directory") /\ UNCHANGED <<setting, request, crashes>>
      /\ files' = [files EXCEPT ![id] = temporary[c]]
      /\ entries' = [entries EXCEPT ![id] = @ \cup {temporary[c]}]
  BY DEF Rename
<1>2. stage[c] = "rename" /\ request[c].op = "save" /\ request[c] \in Requests
  BY <1>1, RequestFacts DEF Runs, Asked, Working
<1>3. id \in Ids /\ temporary[c].holds = new
  BY <1>2 DEF Staged, Requests
<1>4. /\ stage'[c] = "directory" /\ answer' = answer
      /\ \A d \in Calls \ {c} : stage'[d] = stage[d]
  BY <1>1 DEF Continue, Types
<1>5. \A d \in Calls \ {c} : CallOf(d)' = CallOf(d)
  BY <1>1, <1>4, OtherCalls
<1>6. /\ CallOf(c) = [state |-> "pending", req |-> request[c], done |-> FALSE]
      /\ CallOf(c)' = [state |-> "pending", req |-> request[c], done |-> TRUE]
  BY <1>1, <1>2, <1>4 DEF CallOf
<1>7. Seen[c].state = "pending" /\ Seen[c].req = request[c] /\ ~ Seen[c].done
  BY <1>6 DEF Seen
<1>8. Seen' = [Seen EXCEPT ![c].done = TRUE]
  <2> DEFINE no == FALSE
             yes == TRUE
  <2>1. CallOf(c) = [state |-> "pending", req |-> request[c], done |-> no]
    BY <1>6
  <2>2. CallOf(c)' = [state |-> "pending", req |-> request[c], done |-> yes]
    BY <1>6
  <2>3. Seen' = [Seen EXCEPT ![c].done = yes]
    <3> HIDE DEF no, yes
    <3>1. [CallOf(c) EXCEPT !.done = yes] = [state |-> "pending", req |-> request[c], done |-> yes]
      BY <2>1
    <3>2. Seen' = [Seen EXCEPT ![c] = CallOf(c)']
      BY <1>5 DEF Seen
    <3>3. Seen[c] = CallOf(c)
      BY DEF Seen
    <3>4. CallOf(c)' = [Seen[c] EXCEPT !.done = yes]
      BY <2>2, <3>1, <3>3
    <3> QED
      BY <3>2, <3>4
  <2> QED
    BY <2>3
<1>9. map' = [map EXCEPT ![id] = new]
  <2>1. \A k \in Ids : files'[k] = IF k = id THEN temporary[c] ELSE files[k]
    BY <1>1, <1>3 DEF Types
  <2> QED
    BY <1>3, <2>1
<1>10. shaky' = [shaky EXCEPT ![id] = @ \cup {new}]
  <2>1. \A k \in Ids : entries'[k] = IF k = id THEN entries[k] \cup {temporary[c]} ELSE entries[k]
    BY <1>1, <1>3 DEF Types
  <2>2. {f.holds : f \in entries'[id]} = {f.holds : f \in entries[id]} \cup {new}
    <3>1. entries'[id] = entries[id] \cup {temporary[c]}
      BY <1>3, <2>1
    <3> QED
      BY <1>3, <3>1
  <2>3. \A k \in Ids \ {id} : {f.holds : f \in entries'[k]} = {f.holds : f \in entries[k]}
    BY <2>1
  <2>4. shaky' = [k \in Ids |-> {f.holds : f \in entries'[k]}]
    OBVIOUS
  <2> QED
    BY <1>3, <2>2, <2>3, <2>4
<1> QED
  BY <1>2, <1>7, <1>8, <1>9, <1>10 DEF Map!Replace, Map!Pending, Seen

LEMMA SyncDirectoryMaps ==
    ASSUME StoreInv, NEW c \in Calls, SyncDirectory(c)
    PROVE  Map!Confirm(c)
<1> USE DEF StoreInv
<1> DEFINE map == [k \in Ids |-> files[k].holds]
           shaky == [k \in Ids |-> {f.holds : f \in entries[k]}]
<1>1. /\ Runs(c, "directory") /\ Answer(c, "ok", << >>)
      /\ entries' = [k \in Ids |-> {files[k]}] /\ UNCHANGED <<files, request>>
  BY DEF SyncDirectory, EntriesSynced
<1>2. request[c].op = "save"
  BY <1>1 DEF Runs, Asked, Working
<1>3. /\ Seen[c].state = "pending" /\ Seen[c].req = request[c] /\ Seen[c].done
      /\ Seen' = [Seen EXCEPT ![c] = [state |-> "answered", req |-> Seen[c].req, code |-> "ok", value |-> << >>]]
  BY <1>1, AnswerMaps DEF Working
<1>4. shaky' = [k \in Ids |-> {map[k]}]
  <2>1. \A k \in Ids : {f.holds : f \in entries'[k]} = {files[k].holds}
    BY <1>1
  <2> QED
    BY <2>1
<1>5. map' = map
  BY <1>1
<1> QED
  BY <1>2, <1>3, <1>4, <1>5 DEF Map!Confirm, Map!Pending, Map!Answered, Seen

\* Steps that leave every file and name alone leave map and shaky alone.
LEMMA SameDirectory ==
    ASSUME UNCHANGED <<files, entries>>
    PROVE  UNCHANGED <<[k \in Ids |-> files[k].holds], [k \in Ids |-> {f.holds : f \in entries[k]}]>>
  OBVIOUS

LEMMA LoadMaps ==
    ASSUME StoreInv, NEW c \in Calls, Load(c)
    PROVE  Map!Load(c)
<1> USE DEF StoreInv
<1> DEFINE found == files[request[c].id].holds
           code == IF found = Damaged THEN "CORRUPT_CHECKPOINT" ELSE "ok"
           value == IF found \in {Damaged, Nothing} THEN << >> ELSE <<found>>
           map == [k \in Ids |-> files[k].holds]
<1>1. /\ Runs(c, "queued") /\ request[c].op = "load" /\ Answer(c, code, value)
      /\ UNCHANGED <<setting, files, entries, temporary, request, crashes>>
  BY DEF Load
<1>2. request[c].id \in Ids
  BY <1>1, RequestFacts DEF Runs, Requests
<1>3. /\ Seen[c].state = "pending" /\ Seen[c].req = request[c]
      /\ Seen' = [Seen EXCEPT ![c] = [state |-> "answered", req |-> Seen[c].req, code |-> code, value |-> value]]
  <2> HIDE DEF code, value
  <2> QED
    BY <1>1, AnswerMaps DEF Working
<1>4. \/ found = Damaged /\ code = "CORRUPT_CHECKPOINT" /\ value = << >>
      \/ found = Nothing /\ code = "ok" /\ value = << >>
      \/ found \notin {Nothing, Damaged} /\ code = "ok" /\ value = <<found>>
  BY ContentFacts
<1>5. map[Seen[c].req.id] = found
  BY <1>2, <1>3
<1> HIDE DEF found, code, value
<1>6. UNCHANGED <<map, [k \in Ids |-> {f.holds : f \in entries[k]}]>>
  BY <1>1, SameDirectory
<1> QED
  BY <1>1, <1>3, <1>4, <1>5, <1>6 DEF Map!Load, Map!Pending, Map!Answered, Seen

LEMMA ListMaps ==
    ASSUME StoreInv, NEW c \in Calls, List(c)
    PROVE  Map!List(c)
<1> USE DEF StoreInv
<1> DEFINE found == {files[k].holds : k \in Ids} \ {Nothing}
           map == [k \in Ids |-> files[k].holds]
           Reply(code, value) == Seen' = [Seen EXCEPT ![c] = [state |-> "answered", req |-> Seen[c].req,
                                                              code |-> code, value |-> value]]
<1>1. /\ Runs(c, "queued") /\ request[c].op = "list"
      /\ UNCHANGED <<setting, files, entries, temporary, request, crashes>>
      /\ IF Damaged \in found THEN Answer(c, "CORRUPT_CHECKPOINT", << >>)
         ELSE Answer(c, "ok", Sorted(found))
  BY DEF List
<1>2. found = {map[k] : k \in Ids} \ {Nothing} /\ (Damaged \in found <=> \E k \in Ids : map[k] = Damaged)
  BY ContentFacts
<1>3. UNCHANGED <<map, [k \in Ids |-> {f.holds : f \in entries[k]}]>>
  BY <1>1, SameDirectory
<1>4. CASE Damaged \in found
  <2>1. Answer(c, "CORRUPT_CHECKPOINT", << >>)
    BY <1>1, <1>4
  <2>2. Seen[c].state = "pending" /\ Seen[c].req = request[c] /\ Reply("CORRUPT_CHECKPOINT", << >>)
    BY <1>1, <2>1, AnswerMaps DEF Working
  <2>3. \E k \in Ids : map[k] = Damaged
    BY <1>2, <1>4
  <2> QED
    BY <1>1, <1>3, <2>2, <2>3 DEF Map!List, Map!Pending, Map!Answered, Seen
<1>5. CASE Damaged \notin found
  <2> DEFINE list == Sorted(found)
  <2>1. Answer(c, "ok", list)
    BY <1>1, <1>5
  <2>2. /\ \A i, j \in DOMAIN list : i < j => Before(list[i], list[j])
        /\ {list[i] : i \in DOMAIN list} = found
    BY <1>5, ListFacts
  <2>3. found = {map[k] : k \in Ids} \ {Nothing} /\ \A k \in Ids : map[k] # Damaged
    BY <1>2, <1>5
  <2> HIDE DEF list, found, map
  <2>4. Seen[c].state = "pending" /\ Seen[c].req = request[c] /\ Reply("ok", list)
    BY <1>1, <2>1, AnswerMaps DEF Working
  <2>5. Seen'[c].state = "answered" /\ Seen'[c].value = list
    BY <2>4 DEF Seen
  <2>6. Map!Ordered(list)
    BY <2>2 DEF Map!Ordered, Before
  <2>7. /\ Seen'[c].state = "answered"
        /\ Reply("ok", Seen'[c].value)
        /\ Map!Ordered(Seen'[c].value)
        /\ {Seen'[c].value[i] : i \in DOMAIN Seen'[c].value} = {map[k] : k \in Ids} \ {Nothing}
    <3> HIDE DEF Reply, Map!Ordered
    <3>1. {Seen'[c].value[i] : i \in DOMAIN Seen'[c].value} = found
      BY <2>2, <2>5
    <3> QED
      BY <2>3, <2>4, <2>5, <2>6, <3>1
  <2>8. Seen[c].state = "pending" /\ Seen[c].req.op = "list"
    BY <1>1, <2>4
  <2> HIDE DEF Reply
  <2>9. UNCHANGED <<map, [k \in Ids |-> {f.holds : f \in entries[k]}]>>
    BY <1>3
  <2> QED
    BY <2>3, <2>7, <2>8, <2>9 DEF Map!List, Map!Pending, Map!Answered, Seen, map, Reply
<1> QED
  BY <1>4, <1>5

LEMMA IoFailsMaps ==
    ASSUME StoreInv, NEW c \in Calls, IoFails(c)
    PROVE  Map!Fail(c)
<1>1. PICK s \in Working : Runs(c, s)
  BY DEF IoFails, Working
<1>2. Answer(c, "PERSISTENCE_IO", << >>) /\ UNCHANGED <<files, entries, request>>
  BY DEF IoFails
<1>3. /\ Seen[c].state = "pending"
      /\ Seen' = [Seen EXCEPT ![c] = [state |-> "answered", req |-> Seen[c].req,
                                      code |-> "PERSISTENCE_IO", value |-> << >>]]
  BY <1>1, <1>2, AnswerMaps DEF StoreInv
<1>4. UNCHANGED <<[k \in Ids |-> files[k].holds], [k \in Ids |-> {f.holds : f \in entries[k]}]>>
  BY <1>2, SameDirectory
<1> QED
  BY <1>3, <1>4 DEF Map!Fail, Map!Answered, Seen

\* A crash loses the pending calls and no others.
LEMMA RestartMaps ==
    ASSUME StoreInv, Restart
    PROVE  Map!Interrupt
<1>1. /\ UNCHANGED <<request, answer>>
      /\ \A c \in Calls : stage'[c] = IF stage[c] \in {"idle", "answered"} THEN stage[c] ELSE "lost"
  BY DEF Restart
<1>2. ASSUME NEW c \in Calls
      PROVE  CallOf(c)' = IF Seen[c].state = "pending" THEN [state |-> "lost"] ELSE Seen[c]
  <2>1. Seen[c] = CallOf(c)
    BY DEF Seen
  <2>2. CASE stage[c] = "idle"
    <3>1. CallOf(c)' = [state |-> "idle"] /\ CallOf(c) = [state |-> "idle"]
      BY <1>1, <2>2 DEF CallOf
    <3> QED
      BY <2>1, <3>1
  <2>3. CASE stage[c] = "answered"
    <3>1. CallOf(c)' = CallOf(c) /\ CallOf(c).state = "answered"
      BY <1>1, <2>3 DEF CallOf
    <3> QED
      BY <2>1, <3>1
  <2>4. CASE stage[c] = "lost"
    <3>1. CallOf(c)' = [state |-> "lost"] /\ CallOf(c) = [state |-> "lost"]
      BY <1>1, <2>4 DEF CallOf
    <3> QED
      BY <2>1, <3>1
  <2>5. CASE stage[c] \in Working
    <3>1. CallOf(c)' = [state |-> "lost"]
      BY <1>1, <2>5 DEF CallOf, Working
    <3>2. CallOf(c).state = "pending"
      BY <2>5, CallOfFacts
    <3> QED
      BY <2>1, <3>1, <3>2
  <2>6. stage[c] \in Working \cup {"idle", "answered", "lost"}
    BY DEF StoreInv, Types, Stages, Working
  <2> QED
    BY <2>2, <2>3, <2>4, <2>5, <2>6
<1>3. Seen' = [c \in Calls |-> IF Seen[c].state = "pending" THEN [state |-> "lost"] ELSE Seen[c]]
  BY <1>2 DEF Seen
<1> QED
  BY <1>3 DEF Map!Interrupt, Seen

LEMMA PowerLossMaps ==
    ASSUME StoreInv, PowerLoss
    PROVE  Map!PowerCut
<1> DEFINE map == [k \in Ids |-> files[k].holds]
           shaky == [k \in Ids |-> {f.holds : f \in entries[k]}]
<1>1. Map!Interrupt
  BY RestartMaps DEF PowerLoss
<1>2. \A k \in Ids : files'[k] \in entries[k] /\ entries'[k] = {files'[k]}
  BY PowerLossFacts
<1>3. \A k \in Ids : map'[k] \in shaky[k]
  BY <1>2
<1>4. map' \in [Ids -> UNION {shaky[k] : k \in Ids}]
  <2>1. map' = [k \in Ids |-> map'[k]]
    OBVIOUS
  <2> HIDE DEF map, shaky
  <2> QED
    BY <1>3, <2>1
<1>5. shaky' = [k \in Ids |-> {map'[k]}]
  <2>1. \A k \in Ids : {f.holds : f \in entries'[k]} = {files'[k].holds}
    BY <1>2
  <2> QED
    BY <2>1
<1> QED
  BY <1>1, <1>3, <1>4, <1>5 DEF Map!PowerCut

LEMMA StepMaps == StoreInv /\ StoreInv' /\ [Next]_vars => [Map!MapNext]_Map!contract
<1> SUFFICES ASSUME StoreInv, StoreInv', [Next]_vars PROVE [Map!MapNext]_Map!contract
  OBVIOUS
<1>1. ASSUME NEW c \in Calls, Call(c) PROVE Map!MapNext
  BY <1>1, CallMaps DEF Map!MapNext
<1>2. ASSUME NEW c \in Calls, Operation(c) PROVE [Map!MapNext]_Map!contract
  <2>1. CASE MakeDirectory(c) \/ Open(c) \/ Write(c) \/ Sync(c)
    BY <2>1, PrepareMaps
  <2>2. CASE Rename(c)
    BY <2>2, RenameMaps DEF Map!MapNext
  <2>3. CASE SyncDirectory(c)
    BY <2>3, SyncDirectoryMaps DEF Map!MapNext
  <2>4. CASE Load(c)
    BY <2>4, LoadMaps DEF Map!MapNext
  <2>5. CASE List(c)
    BY <2>5, ListMaps DEF Map!MapNext
  <2> QED
    BY <1>2, <2>1, <2>2, <2>3, <2>4, <2>5 DEF Operation
<1>3. ASSUME NEW c \in Calls, IoFails(c) PROVE Map!MapNext
  BY <1>3, IoFailsMaps DEF Map!MapNext
<1>4. CASE ProcessCrash
  <2>1. Map!Interrupt
    BY <1>4, RestartMaps DEF ProcessCrash
  <2>2. UNCHANGED <<[k \in Ids |-> files[k].holds], [k \in Ids |-> {f.holds : f \in entries[k]}]>>
    BY <1>4, SameDirectory DEF ProcessCrash
  <2> QED
    BY <2>1, <2>2 DEF Map!MapNext, Map!Crash
<1>5. CASE PowerLoss
  BY <1>5, PowerLossMaps DEF Map!MapNext
<1>6. CASE UNCHANGED vars
  <2>1. UNCHANGED <<files, entries, stage, request, answer>>
    BY <1>6 DEF vars
  <2>2. \A c \in Calls : CallOf(c)' = CallOf(c)
    BY <2>1 DEF CallOf
  <2> QED
    BY <2>1, <2>2 DEF Map!contract
<1> QED
  BY <1>1, <1>2, <1>3, <1>4, <1>5, <1>6 DEF Next, Quiet

\* For every set of calls, identifiers and settings the store implements the
\* map of whole checkpoints: the seven awaits of a save replace a checkpoint in
\* one step, its rename, and are answered after the sync of the directory;
\* load and list read one snapshot, list in the order of sequence and
\* identifier; a failure, a crash and a power loss are the map's.
THEOREM StoreImplementsMap == Spec => ImplementsMap
<1>1. Init => StoreInv /\ Map!MapInit
  BY StoreInvInit, InitMaps
<1>2. StoreInv /\ [Next]_vars => StoreInv'
  BY StoreInvStep
<1>3. StoreInv /\ StoreInv' /\ [Next]_vars => [Map!MapNext]_Map!contract
  BY StepMaps
<1> QED
  BY <1>1, <1>2, <1>3, PTL DEF Spec, ImplementsMap, Map!MapSpec

=============================================================================
