----------------------- MODULE JsonlEventStoreProofs -----------------------
(***************************************************************************)
(* Theorems about the JSONL event store for every set of calls and         *)
(* settings: what a log holds and who wrote it, that an acknowledged       *)
(* append stays whatever fails after it, that a damaged log never grows,   *)
(* and that the store implements the event stream.                         *)
(***************************************************************************)
EXTENDS JsonlEventStore, TLAPS, SequenceTheorems

Record == [call : Calls \cup {Earlier}, sequence : Int]
Requests == [op : {"append", "read"}, expected : Int, size : Nat, from : Nat,
             shaped : BOOLEAN, wellFormed : BOOLEAN]
Codes == {"none", "ok", "PERSISTENCE_VALIDATION", "PERSISTENCE_IO", "VERSION_CONFLICT", "CORRUPT_EVENT_LOG"}
Begun == {"open", "write", "sync", "directory"}
Working == Begun \cup {"queued"}

Types ==
    /\ setting \in Settings
    /\ file \in [exists : BOOLEAN, torn : BOOLEAN, records : Seq(Record)]
    /\ durable \in [entry : BOOLEAN, count : Nat]
    /\ durable.count <= Len(file.records)
    /\ queue \in Seq(Calls)
    /\ stage \in [Calls -> Stages]
    /\ request \in [Calls -> Requests]
    /\ existed \in [Calls -> BOOLEAN]
    /\ written \in [Calls -> Nat]
    /\ answer \in [Calls -> [code : Codes, value : Seq(Record)]]
    /\ crashes \in 0..MaxCrashes

\* The arguments of a call are those of a request once it has been made.
Asked ==
    \A c \in Calls :
        /\ stage[c] # "idle" => request[c] \in setting.requests
        /\ stage[c] \in Working => request[c].shaped
        /\ stage[c] \in {"idle", "queued"} => written[c] = 0
        /\ written[c] <= request[c].size

\* The chain of the file: each call of it once, and only the first has begun.
Chained ==
    /\ \A i \in DOMAIN queue : /\ stage[queue[i]] \in Working
                               /\ i > 1 => stage[queue[i]] = "queued"
    /\ \A i, j \in DOMAIN queue : queue[i] = queue[j] => i = j
    /\ \A c \in Calls : stage[c] \in Begun => 1 \in DOMAIN queue /\ queue[1] = c

\* The log numbers its records from 0 on, and a missing file has none.
Sequenced ==
    /\ \A i \in DOMAIN file.records : file.records[i].sequence = i - 1
    /\ ~ file.exists => file.records = << >> /\ ~ file.torn

\* The append c passed its load: the log was whole and at its version, and has
\* grown by what c has written since.
Appending(c) ==
    /\ request[c].op = "append" /\ request[c].wellFormed /\ request[c].size > 0
    /\ ~ file.torn
    /\ request[c].expected + 1 + written[c] = Len(file.records)
    /\ \A i \in 1..written[c] : file.records[request[c].expected + 1 + i] = RecordOf(c, request[c], i)
    /\ existed[c] => file.exists /\ request[c].expected >= 0

Progress ==
    \A c \in Calls :
        /\ stage[c] \in Begun => Appending(c)
        /\ stage[c] = "open" => written[c] = 0 /\ (file.exists => existed[c])
        /\ stage[c] = "write" => written[c] < request[c].size /\ file.exists
        /\ stage[c] \in {"sync", "directory"} => written[c] = request[c].size /\ file.exists
        /\ stage[c] = "directory" => durable.count = Len(file.records)

StoreInv == Types /\ Asked /\ Chained /\ Sequenced /\ Progress

-----------------------------------------------------------------------------

LEMMA RequestFacts ==
    ASSUME Types, Asked, NEW c \in Calls
    PROVE  /\ request[c] \in Requests
           /\ request[c].expected \in Int /\ request[c].size \in Nat
           /\ stage[c] \in Working => request[c].expected >= -1
<1>1. request[c] \in Requests
  BY DEF Types
<1>2. request[c].expected \in Int /\ request[c].size \in Nat
  BY <1>1 DEF Requests
<1>3. ASSUME stage[c] \in Working PROVE request[c].expected >= -1
  <2>1. request[c] \in setting.requests /\ request[c].shaped /\ setting \in Settings
    BY <1>3 DEF Asked, Types, Working, Begun
  <2> QED
    BY <2>1, StoreAssumption
<1> QED
  BY <1>1, <1>2, <1>3

LEMMA AnswerFacts ==
    \A code \in Codes : [code |-> code, value |-> << >>] \in [code : Codes, value : Seq(Record)]
<1>1. << >> \in Seq(Record)
  OBVIOUS
<1> QED
  BY <1>1

\* The first of the chain is the one that runs, and no other call has begun.
LEMMA RunningFacts ==
    ASSUME Types, Chained, NEW c \in Calls, NEW s \in Stages, Runs(c, s)
    PROVE  /\ stage[c] = s /\ queue # << >> /\ Head(queue) = c
           /\ Tail(queue) \in Seq(Calls)
           /\ \A i \in DOMAIN Tail(queue) : i + 1 \in DOMAIN queue /\ Tail(queue)[i] = queue[i + 1]
           /\ 1 \in DOMAIN queue /\ queue[1] = c
           /\ \A i \in DOMAIN Tail(queue) : Tail(queue)[i] # c /\ stage[Tail(queue)[i]] = "queued"
           /\ \A d \in Calls \ {c} : stage[d] \notin Begun
<1>1. stage[c] = s /\ queue # << >> /\ Head(queue) = c /\ queue \in Seq(Calls)
  BY DEF Runs, Types
<1>2. 1 \in DOMAIN queue /\ queue[1] = c
  BY <1>1
<1>3. /\ Tail(queue) \in Seq(Calls)
      /\ \A i \in DOMAIN Tail(queue) : i \in Nat \ {0} /\ i + 1 \in DOMAIN queue /\ Tail(queue)[i] = queue[i + 1]
  BY <1>1
<1>4. ASSUME NEW i \in DOMAIN Tail(queue)
      PROVE  Tail(queue)[i] # c /\ stage[Tail(queue)[i]] = "queued"
  <2>1. i + 1 \in DOMAIN queue /\ i + 1 > 1 /\ i + 1 # 1 /\ Tail(queue)[i] = queue[i + 1]
    BY <1>3
  <2> QED
    BY <1>2, <2>1 DEF Chained
<1>5. \A d \in Calls \ {c} : stage[d] \notin Begun
  BY <1>2 DEF Chained
<1> QED
  BY <1>1, <1>2, <1>3, <1>4, <1>5

\* The next stage of the call that runs keeps the chain.
LEMMA ContinueKeeps ==
    ASSUME Types, Chained, NEW c \in Calls, NEW s \in Working, Runs(c, s),
           NEW t \in Working, Continue(c, t)
    PROVE  /\ stage' \in [Calls -> Stages] /\ queue' \in Seq(Calls) /\ answer' = answer
           /\ stage'[c] = t /\ \A d \in Calls \ {c} : stage'[d] = stage[d] /\ stage[d] \notin Begun
           /\ Chained'
<1> USE DEF Working, Begun, Stages
<1>1. /\ stage' = [stage EXCEPT ![c] = t] /\ queue' = queue /\ answer' = answer
      /\ stage \in [Calls -> Stages] /\ queue \in Seq(Calls)
  BY DEF Continue, Types
<1>2. /\ stage' \in [Calls -> Stages] /\ stage'[c] = t
      /\ \A d \in Calls \ {c} : stage'[d] = stage[d]
  BY <1>1
<1>3. /\ 1 \in DOMAIN queue /\ queue[1] = c
      /\ \A d \in Calls \ {c} : stage[d] \notin Begun
  BY RunningFacts
<1>4. \A i \in DOMAIN queue : queue[i] \in Calls /\ (i > 1 => i # 1) /\ (i # 1 => queue[i] # c)
  BY <1>1, <1>3 DEF Chained
<1>5. \A i \in DOMAIN queue : stage'[queue[i]] \in Working /\ (i > 1 => stage'[queue[i]] = "queued")
  BY <1>2, <1>3, <1>4 DEF Chained
<1>6. \A d \in Calls : stage'[d] \in Begun => 1 \in DOMAIN queue /\ queue[1] = d
  BY <1>2, <1>3
<1> QED
  BY <1>1, <1>2, <1>3, <1>5, <1>6 DEF Chained

\* The answer of the call that runs lets the next one begin.
LEMMA AnswerKeeps ==
    ASSUME Types, Chained, NEW c \in Calls, NEW s \in Working, Runs(c, s),
           NEW code \in Codes, NEW value \in Seq(Record), Answer(c, code, value)
    PROVE  /\ stage' \in [Calls -> Stages] /\ queue' \in Seq(Calls)
           /\ answer' \in [Calls -> [code : Codes, value : Seq(Record)]]
           /\ stage'[c] = "answered" /\ answer'[c] = [code |-> code, value |-> value]
           /\ \A d \in Calls \ {c} : stage'[d] = stage[d] /\ answer'[d] = answer[d] /\ stage[d] \notin Begun
           /\ Chained'
<1> USE DEF Working, Begun, Stages
<1>1. /\ stage' = [stage EXCEPT ![c] = "answered"] /\ queue' = Tail(queue)
      /\ answer' = [answer EXCEPT ![c] = [code |-> code, value |-> value]]
      /\ stage \in [Calls -> Stages] /\ answer \in [Calls -> [code : Codes, value : Seq(Record)]]
  BY DEF Answer, Types
<1>2. /\ stage' \in [Calls -> Stages] /\ stage'[c] = "answered"
      /\ answer' \in [Calls -> [code : Codes, value : Seq(Record)]]
      /\ answer'[c] = [code |-> code, value |-> value]
      /\ \A d \in Calls \ {c} : stage'[d] = stage[d] /\ answer'[d] = answer[d]
  BY <1>1
<1>3. /\ Tail(queue) \in Seq(Calls)
      /\ \A i \in DOMAIN Tail(queue) : i + 1 \in DOMAIN queue /\ Tail(queue)[i] = queue[i + 1]
      /\ \A i \in DOMAIN Tail(queue) : Tail(queue)[i] # c /\ stage[Tail(queue)[i]] = "queued"
      /\ \A d \in Calls \ {c} : stage[d] \notin Begun
  BY RunningFacts
<1>4. \A i \in DOMAIN queue' : stage'[queue'[i]] = "queued"
  BY <1>1, <1>2, <1>3
<1>5. \A i, j \in DOMAIN queue' : queue'[i] = queue'[j] => i = j
  <2> SUFFICES ASSUME NEW i \in DOMAIN Tail(queue), NEW j \in DOMAIN Tail(queue),
                      Tail(queue)[i] = Tail(queue)[j]
               PROVE  i = j
    BY <1>1
  <2>1. i + 1 = j + 1
    BY <1>3 DEF Chained
  <2>2. i \in Int /\ j \in Int
    BY <1>3
  <2> QED
    BY <2>1, <2>2
<1>6. \A d \in Calls : stage'[d] \notin Begun
  BY <1>2, <1>3
<1> QED
  BY <1>1, <1>2, <1>3, <1>4, <1>5, <1>6 DEF Chained

\* After an answer no call has begun: only the file and what is durable of it
\* are left to look at.
LEMMA AnsweredKeeps ==
    ASSUME StoreInv, NEW c \in Calls, NEW s \in Working, Runs(c, s),
           NEW code \in Codes, NEW value \in Seq(Record), Answer(c, code, value),
           UNCHANGED <<setting, request, written, crashes>>,
           existed' \in [Calls -> BOOLEAN],
           file' \in [exists : BOOLEAN, torn : BOOLEAN, records : Seq(Record)],
           durable' \in [entry : BOOLEAN, count : Nat], durable'.count <= Len(file'.records),
           Sequenced'
    PROVE  StoreInv'
<1> USE DEF StoreInv
<1>1. /\ stage' \in [Calls -> Stages] /\ queue' \in Seq(Calls)
      /\ answer' \in [Calls -> [code : Codes, value : Seq(Record)]]
      /\ stage'[c] = "answered"
      /\ \A d \in Calls \ {c} : stage'[d] = stage[d] /\ stage[d] \notin Begun
      /\ Chained'
  BY AnswerKeeps
<1>2. stage[c] \in Working
  BY DEF Runs
<1>3. Types'
  BY <1>1 DEF Types
<1>4. Asked'
  BY <1>1, <1>2 DEF Asked, Working, Begun
<1>5. Progress'
  BY <1>1 DEF Progress, Begun
<1> QED
  BY <1>1, <1>3, <1>4, <1>5

LEMMA StoreInvInit == Init => StoreInv
<1> SUFFICES ASSUME Init PROVE StoreInv
  OBVIOUS
<1> USE DEF Init
<1>1. setting \in Settings /\ setting.history \in Nat /\ MaxCrashes \in Nat
  BY StoreAssumption
<1>2. /\ file.records = [i \in 1..setting.history |-> [call |-> Earlier, sequence |-> i - 1]]
      /\ file.records \in Seq(Record) /\ Len(file.records) = setting.history
  <2>1. file.records = [i \in 1..setting.history |-> [call |-> Earlier, sequence |-> i - 1]]
    BY DEF HistoryOf
  <2>2. \A i \in 1..setting.history : [call |-> Earlier, sequence |-> i - 1] \in Record
    BY <1>1 DEF Record
  <2>3. file.records \in [1..setting.history -> Record]
    BY <2>1, <2>2
  <2> QED
    BY <1>1, <2>1, <2>3
<1>3. Types
  <2>1. NoRequest \in Requests
    BY DEF NoRequest, Requests
  <2>2. NoAnswer \in [code : Codes, value : Seq(Record)]
    BY AnswerFacts DEF NoAnswer, Codes
  <2>3. file \in [exists : BOOLEAN, torn : BOOLEAN, records : Seq(Record)]
    BY <1>1, <1>2
  <2>4. durable \in [entry : BOOLEAN, count : Nat] /\ durable.count = setting.history
    BY <1>1
  <2>5. queue \in Seq(Calls) /\ stage \in [Calls -> Stages]
    BY DEF Stages
  <2>6. request \in [Calls -> Requests] /\ answer \in [Calls -> [code : Codes, value : Seq(Record)]]
    BY <2>1, <2>2
  <2>7. existed \in [Calls -> BOOLEAN] /\ written \in [Calls -> Nat] /\ crashes \in 0..MaxCrashes
    BY <1>1
  <2> QED
    BY <1>1, <1>2, <2>3, <2>4, <2>5, <2>6, <2>7 DEF Types
<1>4. Asked
  BY DEF Asked, Working, Begun, NoRequest
<1>5. Chained
  BY DEF Chained, Begun
<1>6. Sequenced
  <2>1. \A i \in DOMAIN file.records : file.records[i].sequence = i - 1
    BY <1>1, <1>2
  <2>2. (file.exists <=> setting.history > 0) /\ ~ file.torn
    OBVIOUS
  <2>3. Len(file.records) = 0 => file.records = << >>
    BY <1>2
  <2>4. ~ file.exists => file.records = << >> /\ ~ file.torn
    BY <1>1, <1>2, <2>2, <2>3
  <2> QED
    BY <2>1, <2>4 DEF Sequenced
<1>7. Progress
  BY DEF Progress, Begun
<1> QED
  BY <1>3, <1>4, <1>5, <1>6, <1>7 DEF StoreInv

\* A call begins: it joins the chain, or is refused.
LEMMA CallKeeps ==
    ASSUME StoreInv, NEW c \in Calls, Call(c)
    PROVE  StoreInv'
<1> USE DEF StoreInv
<1>1. PICK req \in setting.requests :
          /\ request' = [request EXCEPT ![c] = req]
          /\ \/ /\ req.shaped
                /\ stage' = [stage EXCEPT ![c] = "queued"]
                /\ queue' = Append(queue, c)
                /\ UNCHANGED answer
             \/ /\ stage' = [stage EXCEPT ![c] = "answered"]
                /\ answer' = [answer EXCEPT ![c] = [code |-> "PERSISTENCE_VALIDATION", value |-> << >>]]
                /\ UNCHANGED queue
  BY DEF Call
<1>2. stage[c] = "idle" /\ UNCHANGED <<setting, file, durable, existed, written, crashes>>
  BY DEF Call
<1>3. req \in Requests
  BY StoreAssumption DEF Types, Requests
<1>4. /\ request' \in [Calls -> Requests] /\ request'[c] = req
      /\ \A d \in Calls \ {c} : request'[d] = request[d]
  BY <1>1, <1>3 DEF Types
<1>5. /\ stage' \in [Calls -> Stages] /\ stage'[c] \in {"queued", "answered"}
      /\ stage'[c] = "queued" => req.shaped
      /\ \A d \in Calls \ {c} : stage'[d] = stage[d]
  BY <1>1 DEF Types, Stages
<1>6. Types'
  <2>1. answer' \in [Calls -> [code : Codes, value : Seq(Record)]]
    BY <1>1, AnswerFacts DEF Types, Codes
  <2>2. queue' \in Seq(Calls)
    <3>1. queue \in Seq(Calls) /\ Append(queue, c) \in Seq(Calls)
      BY DEF Types
    <3> QED
      BY <1>1, <3>1
  <2> QED
    BY <1>2, <1>4, <1>5, <2>1, <2>2 DEF Types
<1>7. Asked'
  <2>1. written[c] = 0 /\ req.size \in Nat
    BY <1>2, <1>3 DEF Asked, Requests
  <2> QED
    BY <1>2, <1>4, <1>5, <2>1 DEF Asked, Working, Begun
<1>8. Chained'
  <2>1. \A i \in DOMAIN queue : queue[i] # c /\ queue[i] \in Calls
    <3>1. \A i \in DOMAIN queue : queue[i] \in Calls
      BY DEF Types
    <3> QED
      BY <1>2, <3>1 DEF Chained, Working, Begun
  <2>2. CASE stage'[c] = "queued"
    <3>1. queue' = Append(queue, c) /\ queue \in Seq(Calls)
      BY <1>1, <2>2 DEF Types
    <3>2. /\ \A i \in DOMAIN queue' : (i \in DOMAIN queue /\ queue'[i] = queue[i]) \/ (i = Len(queue) + 1 /\ queue'[i] = c)
          /\ \A i \in DOMAIN queue : i \in DOMAIN queue' /\ queue'[i] = queue[i]
      BY <3>1
    <3>3. \A i \in DOMAIN queue' : stage'[queue'[i]] \in Working /\ (i > 1 => stage'[queue'[i]] = "queued")
      BY <1>5, <2>1, <2>2, <3>2 DEF Chained, Working
    <3>4. \A i, j \in DOMAIN queue' : queue'[i] = queue'[j] => i = j
      BY <2>1, <3>2 DEF Chained
    <3>5. \A d \in Calls : stage'[d] \in Begun => 1 \in DOMAIN queue' /\ queue'[1] = d
      BY <1>5, <3>2 DEF Chained, Begun
    <3> QED
      BY <3>3, <3>4, <3>5 DEF Chained
  <2>3. CASE stage'[c] = "answered"
    <3>1. queue' = queue
      BY <1>1, <2>3 DEF Types
    <3> QED
      BY <1>5, <2>1, <2>3, <3>1 DEF Chained, Begun
  <2> QED
    BY <1>5, <2>2, <2>3
<1>9. Sequenced'
  BY <1>2 DEF Sequenced
<1>10. Progress'
  BY <1>2, <1>4, <1>5 DEF Progress, Appending, Begun
<1> QED
  BY <1>6, <1>7, <1>8, <1>9, <1>10

\* What a read returns.
LEMMA ReadFacts ==
    ASSUME Types, NEW from \in Nat
    PROVE  SubSeq(file.records, from + 1, Len(file.records)) \in Seq(Record)
<1>1. file.records \in Seq(Record)
  BY DEF Types
<1>2. Len(file.records) \in Nat /\ \A i \in (from + 1)..Len(file.records) : file.records[i] \in Record
  BY <1>1
<1> QED
  BY <1>2, SubSeqProperties

\* load, the compare-and-swap and the checks: answered, or the append may
\* write, over a whole log at its version.
LEMMA LoadKeeps ==
    ASSUME StoreInv, NEW c \in Calls, Load(c)
    PROVE  StoreInv'
<1> USE DEF StoreInv
<1>1. Runs(c, "queued") /\ UNCHANGED <<setting, file, durable, request, written, crashes>>
  BY DEF Load
<1>2. /\ "queued" \in Working /\ "open" \in Working
      /\ {"CORRUPT_EVENT_LOG", "ok", "VERSION_CONFLICT", "PERSISTENCE_VALIDATION"} \subseteq Codes
  BY DEF Working, Begun, Codes
<1>3. << >> \in Seq(Record) /\ SubSeq(file.records, request[c].from + 1, Len(file.records)) \in Seq(Record)
  <2>1. request[c].from \in Nat
    BY DEF Types, Requests
  <2> QED
    BY <2>1, ReadFacts
<1>4. Sequenced'
  BY <1>1 DEF Sequenced
<1>5. ASSUME NEW code \in Codes, NEW value \in Seq(Record), Answer(c, code, value), UNCHANGED existed
      PROVE  StoreInv'
  <2>1. /\ existed' \in [Calls -> BOOLEAN]
        /\ file' \in [exists : BOOLEAN, torn : BOOLEAN, records : Seq(Record)]
        /\ durable' \in [entry : BOOLEAN, count : Nat] /\ durable'.count <= Len(file'.records)
    BY <1>1, <1>5 DEF Types
  <2> QED
    BY <1>1, <1>2, <1>4, <1>5, <2>1, AnsweredKeeps
<1>6. ASSUME ~ LoadRejects, request[c].op = "append", VersionMatches(request[c]),
             request[c].wellFormed, request[c].size > 0, Continue(c, "open"),
             existed' = [existed EXCEPT ![c] = file.exists]
      PROVE  StoreInv'
  <2>1. /\ stage' \in [Calls -> Stages] /\ queue' \in Seq(Calls) /\ answer' = answer
        /\ stage'[c] = "open" /\ \A d \in Calls \ {c} : stage'[d] = stage[d] /\ stage[d] \notin Begun
        /\ Chained'
    BY <1>1, <1>2, <1>6, ContinueKeeps
  <2>2. /\ existed' \in [Calls -> BOOLEAN] /\ (existed'[c] <=> file.exists)
    BY <1>6 DEF Types
  <2>3. stage[c] = "queued"
    BY <1>1 DEF Runs
  <2>4. Types'
    BY <1>1, <2>1, <2>2 DEF Types
  <2>5. Asked'
    BY <1>1, <2>1, <2>3 DEF Asked, Working, Begun
  <2>6. Appending(c)'
    <3>1. written[c] = 0 /\ request[c].expected \in Int
      BY <2>3, RequestFacts DEF Asked
    <3>2. file.records \in Seq(Record) /\ request[c].expected = Len(file.records) - 1
      BY <1>6 DEF VersionMatches, Version, Types
    <3>3. ~ file.torn /\ (file.exists => request[c].expected >= 0)
      BY <1>6, <3>2 DEF LoadRejects, Sequenced
    <3>4. 1..written[c] = {} /\ request[c].expected + 1 + written[c] = Len(file.records)
      BY <3>1, <3>2
    <3> QED
      BY <1>1, <1>6, <2>2, <3>3, <3>4 DEF Appending
  <2>7. Progress'
    BY <1>1, <2>1, <2>2, <2>3, <2>6 DEF Progress, Asked, Begun
  <2> QED
    BY <1>4, <2>1, <2>4, <2>5, <2>7
<1> QED
  BY <1>2, <1>3, <1>5, <1>6 DEF Load

LEMMA OpenKeeps ==
    ASSUME StoreInv, NEW c \in Calls, Open(c)
    PROVE  StoreInv'
<1> USE DEF StoreInv
<1>1. /\ Runs(c, "open") /\ Continue(c, "write") /\ file' = [file EXCEPT !.exists = TRUE]
      /\ UNCHANGED <<setting, durable, request, existed, written, crashes>>
  BY DEF Open
<1>2. /\ stage' \in [Calls -> Stages] /\ queue' \in Seq(Calls) /\ answer' = answer
      /\ stage'[c] = "write" /\ \A d \in Calls \ {c} : stage'[d] = stage[d] /\ stage[d] \notin Begun
      /\ Chained'
  BY <1>1, ContinueKeeps DEF Working, Begun
<1>3. stage[c] = "open"
  BY <1>1 DEF Runs
<1>4. /\ file'.records = file.records /\ (file'.torn <=> file.torn) /\ file'.exists
      /\ file' \in [exists : BOOLEAN, torn : BOOLEAN, records : Seq(Record)]
  BY <1>1 DEF Types
<1>5. Types'
  BY <1>1, <1>2, <1>4 DEF Types
<1>6. Asked'
  BY <1>1, <1>2, <1>3 DEF Asked, Working, Begun
<1>7. Sequenced'
  BY <1>4 DEF Sequenced
<1>8. Appending(c)'
  BY <1>1, <1>3, <1>4 DEF Progress, Appending, Begun
<1>9. Progress'
  <2>1. written[c] < request[c].size
    BY <1>3, RequestFacts DEF Progress, Appending, Begun
  <2> QED
    BY <1>1, <1>2, <1>4, <1>8, <2>1 DEF Progress, Begun
<1> QED
  BY <1>2, <1>5, <1>6, <1>7, <1>9

LEMMA WriteRecordKeeps ==
    ASSUME StoreInv, NEW c \in Calls, WriteRecord(c)
    PROVE  StoreInv'
<1> USE DEF StoreInv
<1> DEFINE new == RecordOf(c, request[c], written[c] + 1)
           next == IF EndsBatch(c) THEN "sync" ELSE "write"
<1>1. /\ Runs(c, "write") /\ Continue(c, next)
      /\ file' = [file EXCEPT !.records = Append(@, new)]
      /\ written' = [written EXCEPT ![c] = @ + 1]
      /\ UNCHANGED <<setting, durable, request, existed, crashes>>
  BY DEF WriteRecord
<1>2. stage[c] = "write" /\ Appending(c) /\ written[c] < request[c].size /\ file.exists
  BY <1>1 DEF Runs, Progress, Begun
<1>3. /\ request[c].expected \in Int /\ request[c].size \in Nat /\ written[c] \in Nat
      /\ request[c].expected >= -1
  BY <1>2, RequestFacts DEF Types, Working, Begun
<1>4. /\ next \in Working /\ next \in {"sync", "write"}
      /\ next = "sync" => written[c] + 1 = request[c].size
      /\ next = "write" => written[c] + 1 < request[c].size
  <2>1. written[c] + 1 = request[c].size \/ written[c] + 1 < request[c].size
    BY <1>2, <1>3
  <2> QED
    BY <2>1 DEF EndsBatch, Working, Begun
<1> HIDE DEF next
<1>5. /\ stage' \in [Calls -> Stages] /\ queue' \in Seq(Calls) /\ answer' = answer
      /\ stage'[c] = next /\ \A d \in Calls \ {c} : stage'[d] = stage[d] /\ stage[d] \notin Begun
      /\ Chained'
  BY <1>1, <1>4, ContinueKeeps DEF Working, Begun
<1>6. new \in Record /\ new.sequence = request[c].expected + written[c] + 1
  BY <1>3 DEF RecordOf, Record
<1>7. file.records \in Seq(Record) /\ Len(file.records) \in Nat
  BY DEF Types
<1>8. /\ (file'.exists <=> file.exists) /\ (file'.torn <=> file.torn)
      /\ file'.records = Append(file.records, new)
      /\ file' \in [exists : BOOLEAN, torn : BOOLEAN, records : Seq(Record)]
  <2>1. Append(file.records, new) \in Seq(Record)
    BY <1>6, <1>7, AppendProperties
  <2> HIDE DEF new
  <2> QED
    BY <1>1, <2>1 DEF Types
<1>9. /\ Len(file'.records) = Len(file.records) + 1
      /\ \A i \in 1..Len(file.records) : file'.records[i] = file.records[i]
      /\ file'.records[Len(file.records) + 1] = new
      /\ DOMAIN file'.records = 1..(Len(file.records) + 1) /\ DOMAIN file.records = 1..Len(file.records)
  <2> HIDE DEF new
  <2> QED
    BY <1>6, <1>7, <1>8, AppendProperties
<1>10. /\ written' \in [Calls -> Nat] /\ written'[c] = written[c] + 1
       /\ \A d \in Calls \ {c} : written'[d] = written[d]
  BY <1>1, <1>3 DEF Types
<1>11. Types'
  BY <1>1, <1>5, <1>7, <1>8, <1>9, <1>10 DEF Types
<1>12. Asked'
  BY <1>1, <1>2, <1>3, <1>4, <1>5, <1>10 DEF Asked, Working, Begun
<1>13. Sequenced'
  <2>1. ASSUME NEW i \in DOMAIN file'.records
        PROVE  file'.records[i].sequence = i - 1
    <3>1. CASE i \in 1..Len(file.records)
      BY <1>9, <3>1 DEF Sequenced
    <3>2. CASE i = Len(file.records) + 1
      <4>1. request[c].expected + written[c] + 1 = Len(file.records)
        BY <1>2, <1>3 DEF Appending
      <4> QED
        BY <1>6, <1>7, <1>9, <3>2, <4>1
    <3> QED
      BY <1>7, <1>9, <3>1, <3>2
  <2> QED
    BY <1>2, <1>8, <2>1 DEF Sequenced
<1>14. Appending(c)'
  <2>1. request[c].expected + 1 + written[c] = Len(file.records)
    BY <1>2 DEF Appending
  <2>2. request[c].expected + 1 + written'[c] = Len(file'.records)
    <3>1. Len(file'.records) = Len(file.records) + 1 /\ written'[c] = written[c] + 1
      BY <1>9, <1>10
    <3> DEFINE e == request[c].expected
               w == written[c]
               n == Len(file.records)
    <3>2. e \in Int /\ w \in Int /\ n \in Int /\ e + 1 + w = n
      BY <1>3, <1>7, <2>1
    <3> HIDE DEF e, w, n
    <3>3. e + 1 + (w + 1) = n + 1
      BY <3>2
    <3> QED
      BY <3>1, <3>3 DEF e, w, n
  <2>3. ASSUME NEW i \in 1..written'[c]
        PROVE  file'.records[request[c].expected + 1 + i] = RecordOf(c, request[c], i)
    <3>1. CASE i \in 1..written[c]
      <4>1. request[c].expected + 1 + i \in 1..Len(file.records)
        BY <1>3, <2>1, <3>1
      <4>2. file.records[request[c].expected + 1 + i] = RecordOf(c, request[c], i)
        BY <1>2, <3>1 DEF Appending
      <4> QED
        BY <1>9, <4>1, <4>2
    <3>2. CASE i = written[c] + 1
      <4>1. request[c].expected + 1 + i = Len(file.records) + 1
        BY <1>3, <2>1, <3>2
      <4> QED
        BY <1>9, <3>2, <4>1
    <3> QED
      BY <1>3, <1>10, <3>1, <3>2
  <2>4. request' = request /\ existed' = existed
    BY <1>1
  <2>5. /\ request[c].op = "append" /\ request[c].wellFormed /\ request[c].size > 0
        /\ ~ file'.torn /\ (existed[c] => file'.exists /\ request[c].expected >= 0)
    BY <1>2, <1>8 DEF Appending
  <2> QED
    BY <2>2, <2>3, <2>4, <2>5 DEF Appending
<1>15. Progress'
  BY <1>1, <1>2, <1>4, <1>5, <1>8, <1>10, <1>14 DEF Progress, Begun
<1> QED
  BY <1>5, <1>11, <1>12, <1>13, <1>15

LEMMA SyncKeeps ==
    ASSUME StoreInv, NEW c \in Calls, Sync(c)
    PROVE  StoreInv'
<1> USE DEF StoreInv
<1>1. /\ Runs(c, "sync") /\ durable' = [durable EXCEPT !.count = Len(file.records)]
      /\ UNCHANGED <<setting, file, request, existed, written, crashes>>
  BY DEF Sync, Synced
<1>2. file.records \in Seq(Record) /\ Len(file.records) \in Nat
  BY DEF Types
<1>3. durable' \in [entry : BOOLEAN, count : Nat] /\ durable'.count = Len(file.records)
  BY <1>1, <1>2 DEF Types
<1>4. "ok" \in Codes /\ << >> \in Seq(Record) /\ "sync" \in Working /\ "directory" \in Working
  BY DEF Codes, Working, Begun
<1>5. Sequenced'
  BY <1>1 DEF Sequenced
<1>6. CASE Answer(c, "ok", << >>)
  <2>1. /\ existed' \in [Calls -> BOOLEAN]
        /\ file' \in [exists : BOOLEAN, torn : BOOLEAN, records : Seq(Record)]
        /\ durable'.count <= Len(file'.records)
    BY <1>1, <1>2, <1>3 DEF Types
  <2> QED
    BY <1>1, <1>3, <1>4, <1>5, <1>6, <2>1, AnsweredKeeps
<1>7. CASE Continue(c, "directory")
  <2>1. /\ stage' \in [Calls -> Stages] /\ queue' \in Seq(Calls) /\ answer' = answer
        /\ stage'[c] = "directory" /\ \A d \in Calls \ {c} : stage'[d] = stage[d] /\ stage[d] \notin Begun
        /\ Chained'
    BY <1>1, <1>4, <1>7, ContinueKeeps
  <2>2. stage[c] = "sync"
    BY <1>1 DEF Runs
  <2>3. Types'
    BY <1>1, <1>2, <1>3, <2>1 DEF Types
  <2>4. Asked'
    BY <1>1, <2>1, <2>2 DEF Asked, Working, Begun
  <2>5. Progress'
    BY <1>1, <1>3, <2>1, <2>2 DEF Progress, Appending, Begun
  <2> QED
    BY <1>5, <2>1, <2>3, <2>4, <2>5
<1> QED
  BY <1>6, <1>7 DEF Sync

LEMMA SyncDirectoryKeeps ==
    ASSUME StoreInv, NEW c \in Calls, SyncDirectory(c)
    PROVE  StoreInv'
<1> USE DEF StoreInv
<1>1. /\ Runs(c, "directory") /\ durable' = [durable EXCEPT !.entry = TRUE] /\ Answer(c, "ok", << >>)
      /\ UNCHANGED <<setting, file, request, existed, written, crashes>>
  BY DEF SyncDirectory
<1>2. durable' \in [entry : BOOLEAN, count : Nat] /\ durable'.count = durable.count
  BY <1>1 DEF Types
<1>3. "ok" \in Codes /\ << >> \in Seq(Record) /\ "directory" \in Working
  BY DEF Codes, Working, Begun
<1>4. Sequenced'
  BY <1>1 DEF Sequenced
<1>5. /\ existed' \in [Calls -> BOOLEAN]
      /\ file' \in [exists : BOOLEAN, torn : BOOLEAN, records : Seq(Record)]
      /\ durable'.count <= Len(file'.records)
  BY <1>1, <1>2 DEF Types
<1> QED
  BY <1>1, <1>2, <1>3, <1>4, <1>5, AnsweredKeeps

\* A torn tail changes nothing else of the file; a write that is under way has
\* created it.
LEMMA TornFacts ==
    ASSUME Types, Sequenced, NEW t \in BOOLEAN, t => file.exists, file' = [file EXCEPT !.torn = @ \/ t]
    PROVE  /\ file'.records = file.records /\ (file'.exists <=> file.exists)
           /\ (file'.torn <=> file.torn \/ t)
           /\ file' \in [exists : BOOLEAN, torn : BOOLEAN, records : Seq(Record)]
           /\ Sequenced'
<1> DEFINE torn == file.torn \/ t
<1>1. torn \in BOOLEAN
  BY DEF Types
<1>2. file' = [file EXCEPT !.torn = torn]
  OBVIOUS
<1>3. /\ file'.records = file.records /\ file'.exists = file.exists /\ file'.torn = torn
      /\ file' \in [exists : BOOLEAN, torn : BOOLEAN, records : Seq(Record)]
  <2> HIDE DEF torn
  <2> QED
    BY <1>1, <1>2 DEF Types
<1>4. Sequenced'
  BY <1>3 DEF Sequenced
<1> QED
  BY <1>3, <1>4

LEMMA IoFailsKeeps ==
    ASSUME StoreInv, NEW c \in Calls, IoFails(c)
    PROVE  StoreInv'
<1> USE DEF StoreInv
<1>1. PICK s \in Working : Runs(c, s)
  BY DEF IoFails, Working, Begun
<1>2. PICK t \in MayTear(c) : file' = [file EXCEPT !.torn = @ \/ t]
  BY DEF IoFails
<1>3. Answer(c, "PERSISTENCE_IO", << >>) /\ UNCHANGED <<setting, durable, request, existed, written, crashes>>
  BY DEF IoFails
<1>4. t \in BOOLEAN /\ (t => file.exists)
  BY DEF MayTear, Progress
<1>5. /\ file'.records = file.records
      /\ file' \in [exists : BOOLEAN, torn : BOOLEAN, records : Seq(Record)]
      /\ Sequenced'
  BY <1>2, <1>4, TornFacts
<1>6. "PERSISTENCE_IO" \in Codes /\ << >> \in Seq(Record)
  BY DEF Codes
<1>7. /\ durable' \in [entry : BOOLEAN, count : Nat] /\ durable'.count <= Len(file'.records)
      /\ existed' \in [Calls -> BOOLEAN]
  BY <1>3, <1>5 DEF Types
<1> QED
  BY <1>1, <1>3, <1>5, <1>6, <1>7, AnsweredKeeps

\* After a crash no call has begun.
LEMMA RestartKeeps ==
    ASSUME StoreInv, Restart, crashes < MaxCrashes,
           file' \in [exists : BOOLEAN, torn : BOOLEAN, records : Seq(Record)],
           durable' \in [entry : BOOLEAN, count : Nat], durable'.count <= Len(file'.records),
           Sequenced'
    PROVE  StoreInv'
<1> USE DEF StoreInv
<1>1. /\ crashes' = crashes + 1 /\ queue' = << >>
      /\ UNCHANGED <<setting, request, existed, written, answer>>
      /\ stage' = [c \in Calls |-> IF stage[c] \in {"idle", "answered"} THEN stage[c] ELSE "lost"]
  BY DEF Restart
<1>2. \A c \in Calls : /\ stage'[c] \in {"idle", "answered", "lost"}
                       /\ stage'[c] \in {"idle", "answered"} => stage'[c] = stage[c]
                       /\ stage[c] = "idle" => stage'[c] = "idle"
  BY <1>1
<1>3. Types'
  <2>1. crashes' \in 0..MaxCrashes
    BY <1>1, StoreAssumption DEF Types
  <2>2. stage' \in [Calls -> Stages]
    BY <1>1, <1>2 DEF Stages
  <2>3. queue' \in Seq(Calls)
    BY <1>1
  <2> QED
    BY <1>1, <2>1, <2>2, <2>3 DEF Types
<1>4. Asked'
  BY <1>1, <1>2 DEF Asked, Working, Begun
<1>5. Chained'
  <2>1. DOMAIN queue' = {}
    BY <1>1
  <2> QED
    BY <1>2, <2>1 DEF Chained, Begun
<1>6. Progress'
  BY <1>2 DEF Progress, Begun
<1> QED
  BY <1>3, <1>4, <1>5, <1>6

\* Which tail a crash may leave.
LEMMA CrashTears ==
    ASSUME StoreInv, NEW t \in (IF queue = << >> THEN {FALSE} ELSE MayTear(Head(queue)))
    PROVE  t \in BOOLEAN /\ (t => file.exists /\ queue # << >> /\ stage[Head(queue)] = "write")
<1>1. queue # << >> => Head(queue) \in Calls
  BY DEF StoreInv, Types
<1> QED
  BY <1>1 DEF MayTear, StoreInv, Progress

LEMMA ProcessCrashKeeps == ASSUME StoreInv, ProcessCrash PROVE StoreInv'
<1>1. PICK t \in (IF queue = << >> THEN {FALSE} ELSE MayTear(Head(queue))) : file' = [file EXCEPT !.torn = @ \/ t]
  BY DEF ProcessCrash
<1>2. t \in BOOLEAN /\ (t => file.exists)
  BY CrashTears
<1>3. /\ file'.records = file.records
      /\ file' \in [exists : BOOLEAN, torn : BOOLEAN, records : Seq(Record)]
      /\ Sequenced'
  BY <1>1, <1>2, TornFacts DEF StoreInv
<1>4. Restart /\ crashes < MaxCrashes /\ durable' = durable
  BY DEF ProcessCrash
<1>5. durable' \in [entry : BOOLEAN, count : Nat] /\ durable'.count <= Len(file'.records)
  BY <1>3, <1>4 DEF StoreInv, Types
<1> QED
  BY <1>3, <1>4, <1>5, RestartKeeps

\* A power loss keeps a prefix of the log that holds what is durable, or the
\* file goes when its entry was not durable.
LEMMA PowerLossFacts ==
    ASSUME StoreInv, PowerLoss
    PROVE  /\ file' \in [exists : BOOLEAN, torn : BOOLEAN, records : Seq(Record)]
           /\ durable' \in [entry : BOOLEAN, count : Nat] /\ durable'.count = Len(file'.records)
           /\ Len(file'.records) <= Len(file.records)
           /\ file'.records = SubSeq(file.records, 1, Len(file'.records))
           /\ \A i \in 1..Len(file'.records) : file'.records[i] = file.records[i]
           /\ durable.entry => /\ file.exists /\ file'.exists
                               /\ durable.count <= Len(file'.records) /\ durable'.entry
           /\ Sequenced'
<1> USE DEF StoreInv
<1>1. /\ file.records \in Seq(Record) /\ Len(file.records) \in Nat /\ durable.count \in Nat
      /\ durable.count <= Len(file.records) /\ \A i \in 1..Len(file.records) : file.records[i] \in Record
  BY DEF Types
<1>2. CASE file.exists /\ \E n \in durable.count..Len(file.records) :
                /\ \E t \in BOOLEAN : file' = [file EXCEPT !.records = SubSeq(@, 1, n), !.torn = t]
                /\ durable' = [entry |-> TRUE, count |-> n]
  <2>1. PICK n \in durable.count..Len(file.records), t \in BOOLEAN :
                /\ file' = [file EXCEPT !.records = SubSeq(@, 1, n), !.torn = t]
                /\ durable' = [entry |-> TRUE, count |-> n]
    BY <1>2
  <2>2. n \in Nat /\ n <= Len(file.records) /\ durable.count <= n
    BY <1>1
  <2>3. /\ SubSeq(file.records, 1, n) \in Seq(Record) /\ Len(SubSeq(file.records, 1, n)) = n
        /\ \A i \in 1..n : SubSeq(file.records, 1, n)[i] = file.records[i]
    BY <1>1, <2>2
  <2>4. /\ file'.records = SubSeq(file.records, 1, n) /\ file'.torn = t /\ file'.exists = file.exists
        /\ file' \in [exists : BOOLEAN, torn : BOOLEAN, records : Seq(Record)]
    BY <2>1, <2>3 DEF Types
  <2>5. Sequenced'
    BY <1>1, <1>2, <2>2, <2>3, <2>4 DEF Sequenced
  <2>6. durable' \in [entry : BOOLEAN, count : Nat] /\ durable'.count = n /\ durable'.entry
    BY <2>1, <2>2
  <2> QED
    BY <1>2, <2>2, <2>3, <2>4, <2>5, <2>6
<1>3. CASE ~ durable.entry /\ file' = NoFile /\ durable' = NothingDurable
  <2>1. /\ file'.records = << >> /\ ~ file'.torn /\ ~ file'.exists
        /\ file' \in [exists : BOOLEAN, torn : BOOLEAN, records : Seq(Record)]
    BY <1>3 DEF NoFile
  <2>2. durable' \in [entry : BOOLEAN, count : Nat] /\ durable'.count = 0
    BY <1>3 DEF NothingDurable
  <2>3. Sequenced'
    BY <2>1 DEF Sequenced
  <2>4. Len(file'.records) = 0 /\ SubSeq(file.records, 1, 0) = << >>
    BY <1>1, <2>1, SubSeqEmpty
  <2> QED
    BY <1>1, <1>3, <2>1, <2>2, <2>3, <2>4
<1> QED
  <2> DEFINE Tails(n) == IF n < Len(file.records) \/ file.torn THEN BOOLEAN
                         ELSE IF queue = << >> THEN {FALSE} ELSE MayTear(Head(queue))
  <2>1. \A n : Tails(n) \subseteq BOOLEAN
    BY DEF MayTear
  <2>2. \/ file.exists /\ \E n \in durable.count..Len(file.records) :
                /\ \E t \in Tails(n) : file' = [file EXCEPT !.records = SubSeq(@, 1, n), !.torn = t]
                /\ durable' = [entry |-> TRUE, count |-> n]
        \/ ~ durable.entry /\ file' = NoFile /\ durable' = NothingDurable
    BY DEF PowerLoss
  <2> HIDE DEF Tails
  <2> QED
    BY <1>2, <1>3, <2>1, <2>2

LEMMA StoreInvStep == StoreInv /\ [Next]_vars => StoreInv'
<1> SUFFICES ASSUME StoreInv, [Next]_vars PROVE StoreInv'
  OBVIOUS
<1>1. ASSUME NEW c \in Calls, Call(c) PROVE StoreInv'
  BY <1>1, CallKeeps
<1>2. ASSUME NEW c \in Calls, Operation(c) PROVE StoreInv'
  BY <1>2, LoadKeeps, OpenKeeps, WriteRecordKeeps, SyncKeeps, SyncDirectoryKeeps DEF Operation
<1>3. ASSUME NEW c \in Calls, IoFails(c) PROVE StoreInv'
  BY <1>3, IoFailsKeeps
<1>4. CASE ProcessCrash
  BY <1>4, ProcessCrashKeeps
<1>5. CASE PowerLoss
  <2>1. Restart /\ crashes < MaxCrashes
    BY <1>5 DEF PowerLoss
  <2>2. /\ file' \in [exists : BOOLEAN, torn : BOOLEAN, records : Seq(Record)]
        /\ durable' \in [entry : BOOLEAN, count : Nat] /\ durable'.count = Len(file'.records)
        /\ Sequenced'
    BY <1>5, PowerLossFacts
  <2>3. durable'.count <= Len(file'.records)
    BY <2>2
  <2> QED
    BY <2>1, <2>2, <2>3, RestartKeeps
<1>6. CASE UNCHANGED vars
  BY <1>6 DEF vars, StoreInv, Types, Asked, Chained, Sequenced, Progress, Appending
<1> QED
  BY <1>1, <1>2, <1>3, <1>4, <1>5, <1>6 DEF Next, Quiet

LEMMA StoreInvAlways == Spec => []StoreInv
<1>1. Init => StoreInv
  BY StoreInvInit
<1>2. StoreInv /\ [Next]_vars => StoreInv'
  BY StoreInvStep
<1> QED
  BY <1>1, <1>2, PTL DEF Spec

\* For every set of calls and settings the state keeps its types; in
\* particular no write puts out more than its batch and nothing is durable
\* that is not in the file.
THEOREM TypesAlways == Spec => []TypeOK
<1>1. StoreInv => TypeOK
  <2> SUFFICES ASSUME StoreInv PROVE TypeOK
    OBVIOUS
  <2> USE DEF StoreInv
  <2>1. durable \in [entry : BOOLEAN, count : 0..Len(file.records)]
    BY DEF Types
  <2>2. \A c \in Calls : written[c] \in 0..request[c].size
    BY RequestFacts DEF Types, Asked
  <2> QED
    BY <2>1, <2>2 DEF TypeOK, Types, Record
<1> QED
  BY <1>1, StoreInvAlways, PTL

\* Only a write lets the log grow.
LEMMA OnlyWriteGrows ==
    ASSUME StoreInv, [Next]_vars
    PROVE  \/ \E c \in Calls : WriteRecord(c)
           \/ Len(file'.records) <= Len(file.records)
<1> USE DEF StoreInv
<1>1. Len(file.records) \in Nat
  BY DEF Types
<1>2. ASSUME file'.records = file.records PROVE Len(file'.records) <= Len(file.records)
  BY <1>1, <1>2
<1>3. ASSUME NEW c \in Calls, Call(c) PROVE file'.records = file.records
  BY <1>3 DEF Call
<1>4. ASSUME NEW c \in Calls, Load(c) \/ Open(c) \/ Sync(c) \/ SyncDirectory(c)
      PROVE  file'.records = file.records
  BY <1>4 DEF Load, Open, Sync, SyncDirectory, Types
<1>5. ASSUME NEW c \in Calls, IoFails(c) PROVE file'.records = file.records
  BY <1>5 DEF IoFails, Types
<1>6. CASE ProcessCrash
  <2>1. file'.records = file.records
    BY <1>6 DEF ProcessCrash, Types
  <2> QED
    BY <1>2, <2>1
<1>7. CASE PowerLoss
  BY <1>7, PowerLossFacts
<1>8. CASE UNCHANGED vars
  BY <1>2, <1>8 DEF vars
<1> QED
  BY <1>2, <1>3, <1>4, <1>5, <1>6, <1>7, <1>8 DEF Next, Operation, Quiet

\* For every set of calls and settings: no append writes behind a torn tail,
\* or into a file that an earlier append created and never wrote, because
\* load refuses both and no other call runs between a load and its write.
THEOREM NeverAfterDamage == Spec => NothingAfterDamage
<1>1. StoreInv /\ [Next]_vars => (Damaged => Len(file'.records) <= Len(file.records))
  <2> SUFFICES ASSUME StoreInv, [Next]_vars, Damaged, NEW c \in Calls, WriteRecord(c) PROVE FALSE
    BY OnlyWriteGrows
  <2> USE DEF StoreInv
  <2>1. Runs(c, "write")
    BY DEF WriteRecord
  <2>2. stage[c] = "write" /\ queue # << >> /\ Head(queue) = c /\ Appending(c)
    BY <2>1 DEF Runs, Progress, Begun
  <2>3. InFlight
    BY <2>2 DEF InFlight
  <2>4. file.records = << >> /\ existed[c]
    BY <2>2, <2>3 DEF Damaged, Appending
  <2>5. Len(file.records) > 0
    <3>1. request[c].expected \in Int /\ written[c] \in Nat
      BY RequestFacts DEF Types
    <3>2. request[c].expected >= 0 /\ request[c].expected + 1 + written[c] = Len(file.records)
      BY <2>2, <2>4 DEF Appending
    <3> QED
      BY <3>1, <3>2
  <2> QED
    BY <2>4, <2>5
<1> QED
  BY <1>1, StoreInvAlways, PTL DEF Spec, NothingAfterDamage

-----------------------------------------------------------------------------
(* Acknowledged appends.  Where power may fail the file and its entry were *)
(* durable before the first call: a file created under these calls can be  *)
(* lost with its acknowledged records, which EventStoreEntryLost shows.    *)

EntryDurable == \A s \in Settings : s.powerFails => s.history > 0

\* The batch of append c is in the log, and durable where power may fail.
Holds(c) ==
    \A i \in 1..request[c].size :
        /\ request[c].expected + 1 + i <= Len(file.records)
        /\ file.records[request[c].expected + 1 + i] = RecordOf(c, request[c], i)
        /\ setting.powerFails => request[c].expected + 1 + i <= durable.count

\* An acknowledged append was in the chain.
Kept ==
    /\ setting.powerFails => durable.entry
    /\ \A c \in Calls : Acknowledged(c) => Holds(c) /\ request[c].expected >= -1
    /\ setting.powerFails => \A i \in DOMAIN file.records : file.records[i].call \notin Calls => i <= durable.count

LEMMA KeptInit == EntryDurable /\ Init => Kept
<1> SUFFICES ASSUME EntryDurable, Init PROVE Kept
  OBVIOUS
<1>1. StoreInv
  BY StoreInvInit
<1>2. setting.powerFails => durable.entry
  BY DEF EntryDurable, Init
<1>3. \A c \in Calls : ~ Acknowledged(c)
  BY DEF Init, Acknowledged
<1>4. \A i \in DOMAIN file.records : i <= durable.count
  BY StoreAssumption DEF Init, HistoryOf
<1> QED
  BY <1>2, <1>3, <1>4 DEF Kept

\* A step that takes nothing from the log or from what is durable keeps the
\* acknowledged batches; one it acknowledges has to be there.
LEMMA GrowthKeeps ==
    ASSUME StoreInv, Kept, StoreInv', setting' = setting,
           Len(file.records) <= Len(file'.records),
           \A i \in 1..Len(file.records) : file'.records[i] = file.records[i],
           \A i \in 1..Len(file'.records) : i > Len(file.records) => file'.records[i].call \in Calls,
           durable.count <= durable'.count, durable.entry => durable'.entry,
           \A c \in Calls : Acknowledged(c)' =>
               (Acknowledged(c) /\ request'[c] = request[c]) \/ (Holds(c)' /\ request'[c].expected >= -1)
    PROVE  Kept'
<1> USE DEF StoreInv
<1>1. /\ Len(file.records) \in Nat /\ durable.count \in Nat /\ Len(file'.records) \in Nat /\ durable'.count \in Nat
      /\ DOMAIN file'.records = 1..Len(file'.records) /\ DOMAIN file.records = 1..Len(file.records)
  BY DEF Types
<1>2. ASSUME NEW c \in Calls, Acknowledged(c), request'[c] = request[c]
      PROVE  Holds(c)' /\ request'[c].expected >= -1
  <2>1. request[c].expected >= -1 /\ request[c].expected \in Int /\ request[c].size \in Nat
    BY <1>2, RequestFacts DEF Kept
  <2>2. ASSUME NEW i \in 1..request[c].size
        PROVE  /\ request[c].expected + 1 + i <= Len(file'.records)
               /\ file'.records[request[c].expected + 1 + i] = RecordOf(c, request[c], i)
               /\ setting.powerFails => request[c].expected + 1 + i <= durable'.count
    <3> DEFINE at == request[c].expected + 1 + i
    <3>1. /\ at <= Len(file.records) /\ file.records[at] = RecordOf(c, request[c], i)
          /\ setting.powerFails => at <= durable.count
      BY <1>2, <2>2 DEF Kept, Holds
    <3>2. at \in Int /\ at >= 1
      BY <2>1
    <3> HIDE DEF at
    <3>3. at \in 1..Len(file.records)
      BY <1>1, <3>1, <3>2
    <3>4. /\ at <= Len(file'.records) /\ file'.records[at] = RecordOf(c, request[c], i)
          /\ setting.powerFails => at <= durable'.count
      BY <1>1, <3>1, <3>2, <3>3
    <3> QED
      BY <3>4 DEF at
  <2> QED
    BY <1>2, <2>1, <2>2 DEF Holds
<1>3. \A c \in Calls : Acknowledged(c)' => Holds(c)' /\ request'[c].expected >= -1
  BY <1>2
<1>4. ASSUME setting.powerFails, NEW i \in DOMAIN file'.records, file'.records[i].call \notin Calls
      PROVE  i <= durable'.count
  <2>1. i \in 1..Len(file.records)
    BY <1>1, <1>4
  <2>2. i <= durable.count
    BY <1>1, <1>4, <2>1 DEF Kept
  <2> QED
    BY <1>1, <2>1, <2>2
<1>5. setting.powerFails => durable'.entry
  BY DEF Kept
<1> QED
  BY <1>3, <1>4, <1>5 DEF Kept

\* The batch of an append that has written all of it and synced the file.
LEMMA WrittenHolds ==
    ASSUME StoreInv, NEW c \in Calls, stage[c] \in {"sync", "directory"},
           UNCHANGED <<setting, file, request>>, durable'.count = Len(file.records)
    PROVE  Holds(c)' /\ request'[c].expected >= -1
<1> USE DEF StoreInv
<1>1. Appending(c) /\ written[c] = request[c].size
  BY DEF Progress, Begun
<1>2. request[c].expected \in Int /\ request[c].size \in Nat /\ request[c].expected >= -1
  BY RequestFacts DEF Working, Begun
<1>3. ASSUME NEW i \in 1..request[c].size
      PROVE  /\ request[c].expected + 1 + i <= Len(file.records)
             /\ file.records[request[c].expected + 1 + i] = RecordOf(c, request[c], i)
  <2>1. request[c].expected + 1 + request[c].size = Len(file.records)
    BY <1>1 DEF Appending
  <2>2. request[c].expected + 1 + i <= Len(file.records)
    BY <1>2, <2>1
  <2>3. file.records[request[c].expected + 1 + i] = RecordOf(c, request[c], i)
    BY <1>1 DEF Appending
  <2> QED
    BY <2>2, <2>3
<1> QED
  BY <1>2, <1>3 DEF Holds

LEMMA KeptStep == StoreInv /\ StoreInv' /\ Kept /\ [Next]_vars => Kept'
<1> SUFFICES ASSUME StoreInv, StoreInv', Kept, [Next]_vars PROVE Kept'
  OBVIOUS
<1> USE DEF StoreInv
<1>1. /\ Len(file.records) \in Nat /\ durable.count \in Nat /\ durable.count <= Len(file.records)
      /\ DOMAIN file.records = 1..Len(file.records)
  BY DEF Types
\* Steps that change neither the log nor what is durable.
<1>2. ASSUME file'.records = file.records, durable' = durable, setting' = setting,
             \A c \in Calls : Acknowledged(c)' =>
               (Acknowledged(c) /\ request'[c] = request[c]) \/ (Holds(c)' /\ request'[c].expected >= -1)
      PROVE  Kept'
  BY <1>1, <1>2, GrowthKeeps
<1>3. ASSUME NEW c \in Calls, Call(c) PROVE Kept'
  <2>1. UNCHANGED <<setting, file, durable>> /\ stage[c] = "idle"
    BY <1>3 DEF Call
  <2>2. ASSUME NEW d \in Calls, Acknowledged(d)' PROVE Acknowledged(d) /\ request'[d] = request[d]
    <3>1. d # c
      <4> SUFFICES ASSUME d = c PROVE FALSE
        OBVIOUS
      <4>1. stage'[c] = "answered" => answer'[c].code = "PERSISTENCE_VALIDATION"
        BY <1>3 DEF Call, Types
      <4> QED
        BY <2>2, <4>1 DEF Acknowledged
    <3>2. stage'[d] = stage[d] /\ answer'[d] = answer[d] /\ request'[d] = request[d]
      BY <1>3, <3>1 DEF Call, Types
    <3> QED
      BY <2>2, <3>2 DEF Acknowledged
  <2> QED
    BY <1>2, <2>1, <2>2
<1>4. ASSUME NEW c \in Calls, Load(c) PROVE Kept'
  <2>1. UNCHANGED <<setting, file, durable, request>> /\ stage[c] = "queued"
    BY <1>4 DEF Load, Runs
  <2>2. ASSUME NEW d \in Calls \ {c}, Acknowledged(d)' PROVE Acknowledged(d)
    <3>1. stage'[d] = stage[d] /\ answer'[d] = answer[d]
      BY <1>4 DEF Load, Answer, Continue, Types
    <3> QED
      BY <2>1, <2>2, <3>1 DEF Acknowledged
  <2>3. Acknowledged(c)' => Holds(c)' /\ request'[c].expected >= -1
    <3> SUFFICES ASSUME Acknowledged(c)' PROVE Holds(c)' /\ request'[c].expected >= -1
      OBVIOUS
    <3>1. request[c].op = "append" /\ stage'[c] = "answered" /\ answer'[c].code = "ok"
      BY <2>1 DEF Acknowledged
    <3>2. request[c].size = 0
      BY <1>4, <3>1 DEF Load, Answer, Continue, Types
    <3>3. request[c].expected >= -1
      BY <2>1, RequestFacts DEF Working
    <3> QED
      BY <2>1, <3>2, <3>3 DEF Holds
  <2> QED
    BY <1>2, <2>1, <2>2, <2>3
<1>5. ASSUME NEW c \in Calls, Open(c) PROVE Kept'
  <2>1. file'.records = file.records /\ UNCHANGED <<setting, durable, request, answer>>
    BY <1>5 DEF Open, Continue, Types
  <2>2. \A d \in Calls : stage'[d] = "answered" => stage[d] = "answered"
    BY <1>5 DEF Open, Continue, Types
  <2> QED
    BY <1>2, <2>1, <2>2 DEF Acknowledged
<1>6. ASSUME NEW c \in Calls, WriteRecord(c) PROVE Kept'
  <2> DEFINE new == RecordOf(c, request[c], written[c] + 1)
  <2>1. /\ file' = [file EXCEPT !.records = Append(@, new)] /\ UNCHANGED <<setting, durable, request, answer>>
        /\ stage' = [stage EXCEPT ![c] = IF EndsBatch(c) THEN "sync" ELSE "write"]
    BY <1>6 DEF WriteRecord, Continue
  <2>2. \A d \in Calls : stage'[d] = "answered" => stage[d] = "answered"
    BY <2>1 DEF Types
  <2>3. \A d \in Calls : Acknowledged(d)' => Acknowledged(d) /\ request'[d] = request[d]
    BY <2>1, <2>2 DEF Acknowledged
  <2>4. new \in Record /\ new.call \in Calls
    <3>1. request[c].expected \in Int /\ written[c] + 1 \in Int
      BY RequestFacts DEF Types
    <3> QED
      BY <3>1 DEF RecordOf, Record
  <2> HIDE DEF new
  <2>5. file'.records = Append(file.records, new) /\ file.records \in Seq(Record)
    BY <2>1 DEF Types
  <2>6. /\ Len(file'.records) = Len(file.records) + 1
        /\ \A i \in 1..Len(file.records) : file'.records[i] = file.records[i]
        /\ file'.records[Len(file.records) + 1] = new
    BY <2>4, <2>5, AppendProperties
  <2>7. \A i \in 1..Len(file'.records) : i > Len(file.records) => file'.records[i].call \in Calls
    BY <1>1, <2>4, <2>6
  <2>8. Len(file.records) <= Len(file'.records) /\ durable.count <= durable'.count /\ (durable.entry => durable'.entry)
    BY <1>1, <2>1, <2>6
  <2> QED
    BY <2>1, <2>3, <2>6, <2>7, <2>8, GrowthKeeps
<1>7. ASSUME NEW c \in Calls, Sync(c) PROVE Kept'
  <2>1. /\ UNCHANGED <<setting, file, request>> /\ stage[c] = "sync"
        /\ durable' = [durable EXCEPT !.count = Len(file.records)]
    BY <1>7 DEF Sync, Synced, Runs
  <2>2. durable'.count = Len(file.records) /\ (durable'.entry <=> durable.entry)
    BY <2>1 DEF Types
  <2>3. Holds(c)' /\ request'[c].expected >= -1
    BY <2>1, <2>2, WrittenHolds
  <2>4. ASSUME NEW d \in Calls \ {c}, Acknowledged(d)' PROVE Acknowledged(d)
    <3>1. stage'[d] = stage[d] /\ answer'[d] = answer[d]
      BY <1>7 DEF Sync, Answer, Continue, Types
    <3> QED
      BY <2>1, <2>4, <3>1 DEF Acknowledged
  <2>5. /\ Len(file.records) <= Len(file'.records) /\ durable.count <= durable'.count
        /\ \A i \in 1..Len(file'.records) : ~ (i > Len(file.records))
    BY <1>1, <2>1, <2>2
  <2> QED
    BY <2>1, <2>2, <2>3, <2>4, <2>5, GrowthKeeps
<1>8. ASSUME NEW c \in Calls, SyncDirectory(c) PROVE Kept'
  <2>1. /\ UNCHANGED <<setting, file, request>> /\ stage[c] = "directory"
        /\ durable' = [durable EXCEPT !.entry = TRUE] /\ durable.count = Len(file.records)
    BY <1>8 DEF SyncDirectory, Runs, Progress
  <2>2. durable'.count = Len(file.records) /\ durable'.entry
    BY <2>1 DEF Types
  <2>3. Holds(c)' /\ request'[c].expected >= -1
    BY <2>1, <2>2, WrittenHolds
  <2>4. ASSUME NEW d \in Calls \ {c}, Acknowledged(d)' PROVE Acknowledged(d)
    <3>1. stage'[d] = stage[d] /\ answer'[d] = answer[d]
      BY <1>8 DEF SyncDirectory, Answer, Types
    <3> QED
      BY <2>1, <2>4, <3>1 DEF Acknowledged
  <2>5. /\ Len(file.records) <= Len(file'.records) /\ durable.count <= durable'.count
        /\ \A i \in 1..Len(file'.records) : ~ (i > Len(file.records))
    BY <1>1, <2>1, <2>2
  <2> QED
    BY <2>1, <2>2, <2>3, <2>4, <2>5, GrowthKeeps
<1>9. ASSUME NEW c \in Calls, IoFails(c) PROVE Kept'
  <2>1. file'.records = file.records /\ UNCHANGED <<setting, durable, request>>
    BY <1>9 DEF IoFails, Types
  <2>2. ASSUME NEW d \in Calls, Acknowledged(d)' PROVE Acknowledged(d)
    <3>1. d # c /\ stage'[d] = stage[d] /\ answer'[d] = answer[d]
      BY <1>9, <2>2 DEF IoFails, Answer, Types, Acknowledged
    <3> QED
      BY <2>1, <2>2, <3>1 DEF Acknowledged
  <2> QED
    BY <1>2, <2>1, <2>2
<1>10. ASSUME Restart, NEW d \in Calls, Acknowledged(d)'
       PROVE  Acknowledged(d) /\ request'[d] = request[d] /\ setting' = setting
  BY <1>10 DEF Restart, Acknowledged
<1>11. CASE ProcessCrash
  <2>1. file'.records = file.records /\ UNCHANGED <<setting, durable>> /\ Restart
    BY <1>11 DEF ProcessCrash, Restart, Types
  <2> QED
    BY <1>2, <1>10, <2>1
<1>12. CASE PowerLoss
  <2>1. Restart /\ setting.powerFails /\ setting' = setting /\ request' = request
    BY <1>12 DEF PowerLoss, Restart
  <2>2. durable.entry
    BY <2>1 DEF Kept
  <2>3. /\ durable'.count = Len(file'.records) /\ Len(file'.records) <= Len(file.records)
        /\ \A i \in 1..Len(file'.records) : file'.records[i] = file.records[i]
        /\ durable.count <= Len(file'.records) /\ durable'.entry
    BY <1>12, <2>2, PowerLossFacts
  <2>4. Len(file'.records) \in Nat /\ DOMAIN file'.records = 1..Len(file'.records)
    BY DEF Types
  <2>5. ASSUME NEW c \in Calls, Acknowledged(c)'
        PROVE  Holds(c)' /\ request'[c].expected >= -1
    <3>1. Acknowledged(c) /\ request'[c] = request[c]
      BY <1>10, <2>1, <2>5
    <3>2. request[c].expected >= -1 /\ request[c].expected \in Int /\ request[c].size \in Nat
      BY <3>1, RequestFacts DEF Kept
    <3>3. ASSUME NEW i \in 1..request[c].size
          PROVE  /\ request[c].expected + 1 + i <= Len(file'.records)
                 /\ file'.records[request[c].expected + 1 + i] = RecordOf(c, request[c], i)
      <4> DEFINE at == request[c].expected + 1 + i
      <4>1. at <= durable.count /\ file.records[at] = RecordOf(c, request[c], i)
        BY <2>1, <3>1, <3>3 DEF Kept, Holds
      <4>2. at \in Int /\ at >= 1
        BY <3>2
      <4> HIDE DEF at
      <4>3. at \in 1..Len(file'.records)
        BY <1>1, <2>3, <2>4, <4>1, <4>2
      <4>4. at <= Len(file'.records) /\ file'.records[at] = RecordOf(c, request[c], i)
        BY <2>3, <2>4, <4>1, <4>3
      <4> QED
        BY <4>4 DEF at
    <3> QED
      BY <2>3, <3>1, <3>2, <3>3 DEF Holds
  <2>6. \A i \in DOMAIN file'.records : i <= durable'.count
    BY <2>3, <2>4
  <2> QED
    BY <2>1, <2>3, <2>5, <2>6 DEF Kept
<1>13. CASE UNCHANGED vars
  <2>1. UNCHANGED <<setting, file, durable, request, stage, answer>>
    BY <1>13 DEF vars
  <2> QED
    BY <1>2, <2>1 DEF Acknowledged
<1> QED
  BY <1>3, <1>4, <1>5, <1>6, <1>7, <1>8, <1>9, <1>11, <1>12, <1>13 DEF Next, Operation, Quiet

\* For every set of calls and settings in which a log that power may take was
\* durable at the start: an append that returned has its whole batch in the
\* log at the positions its compare-and-swap gave it, whatever calls, failing
\* filesystem calls, crashes and power losses follow.
THEOREM AcknowledgedAlwaysStay == EntryDurable /\ Spec => []AcknowledgedStay
<1>1. EntryDurable /\ Init => StoreInv /\ Kept
  BY StoreInvInit, KeptInit
<1>2. StoreInv /\ Kept /\ [Next]_vars => StoreInv' /\ Kept'
  BY StoreInvStep, KeptStep
<1>3. Kept => AcknowledgedStay
  BY DEF Kept, Holds, AcknowledgedStay
<1> QED
  BY <1>1, <1>2, <1>3, PTL DEF Spec

-----------------------------------------------------------------------------
(* The store implements the event stream.                                  *)

\* The calls as the stream sees them.
Seen == [c \in Calls |-> CallOf(c)]

LEMMA CallOfFacts ==
    ASSUME NEW c \in Calls
    PROVE  /\ stage[c] = "idle" => CallOf(c) = [state |-> "idle"]
           /\ stage[c] = "lost" => CallOf(c) = [state |-> "lost"]
           /\ stage[c] = "answered" => CallOf(c) = [state |-> "answered", req |-> request[c],
                                                    code |-> answer[c].code, value |-> answer[c].value]
           /\ stage[c] \in Working => CallOf(c) = [state |-> "pending", req |-> request[c]]
  BY DEF CallOf, Working, Begun

LEMMA OtherCalls ==
    ASSUME NEW c, request' = request,
           \A d \in Calls \ {c} : stage'[d] = stage[d] /\ answer'[d] = answer[d]
    PROVE  \A d \in Calls \ {c} : CallOf(d)' = CallOf(d)
  BY DEF CallOf

\* While no write is under way the stream's log is the file's.
LEMMA Resting ==
    ASSUME ~ InFlight
    PROVE  /\ VisibleLog = file.records
           /\ Damaged = (file.exists /\ (file.torn \/ file.records = << >>))
  BY DEF VisibleLog, Damaged

LEMMA BatchFacts ==
    ASSUME StoreInv, NEW c \in Calls
    PROVE  /\ BatchOf(c, request[c]) \in Seq(Record) /\ Len(BatchOf(c, request[c])) = request[c].size
           /\ \A i \in 1..request[c].size : BatchOf(c, request[c])[i] = RecordOf(c, request[c], i)
<1>1. request[c].expected \in Int /\ request[c].size \in Nat
  BY RequestFacts DEF StoreInv
<1>2. \A i \in 1..request[c].size : RecordOf(c, request[c], i) \in Record
  BY <1>1 DEF RecordOf, Record
<1>3. BatchOf(c, request[c]) = [i \in 1..request[c].size |-> RecordOf(c, request[c], i)]
  BY DEF BatchOf
<1>4. BatchOf(c, request[c]) \in [1..request[c].size -> Record]
  BY <1>2, <1>3
<1> QED
  BY <1>1, <1>3, <1>4

\* A write under way: the log was whole and at its version, and the file holds
\* as much of its batch as is written.
LEMMA Writing ==
    ASSUME StoreInv, NEW c \in Calls, queue # << >>, Head(queue) = c,
           stage[c] \in {"write", "sync", "directory"}
    PROVE  /\ InFlight /\ ~ Damaged
           /\ VisibleLog = SubSeq(file.records, 1, request[c].expected + 1)
           /\ VisibleLog \in Seq(Record) /\ Len(VisibleLog) = request[c].expected + 1
           /\ request[c].expected + 1 + written[c] = Len(file.records)
           /\ written[c] \in 0..request[c].size /\ request[c].expected \in Int /\ request[c].expected >= -1
           /\ file.records = VisibleLog \o SubSeq(BatchOf(c, request[c]), 1, written[c])
<1> USE DEF StoreInv
<1> DEFINE base == request[c].expected + 1
           w == written[c]
           batch == SubSeq(BatchOf(c, request[c]), 1, w)
<1>1. InFlight /\ Appending(c)
  BY DEF InFlight, Progress, Begun
<1>2. /\ base \in Nat /\ w \in Nat /\ w <= request[c].size /\ request[c].size \in Nat
      /\ request[c].expected \in Int /\ request[c].expected >= -1
  <2>1. request[c].expected \in Int /\ request[c].expected >= -1 /\ request[c].size \in Nat
    BY RequestFacts DEF Working, Begun
  <2>2. w \in Nat /\ w <= request[c].size
    BY DEF Types, Asked
  <2> QED
    BY <2>1, <2>2
<1>3. /\ file.records \in Seq(Record) /\ Len(file.records) = base + w
      /\ \A i \in 1..w : file.records[base + i] = RecordOf(c, request[c], i)
  BY <1>1 DEF Appending, Types
<1>4. ~ Damaged
  <2>1. ASSUME existed[c] PROVE file.records # << >>
    BY <1>1, <1>2, <1>3, <2>1 DEF Appending
  <2> QED
    BY <1>1, <2>1 DEF Damaged, Appending
<1>5. VisibleLog = SubSeq(file.records, 1, base)
  BY <1>1 DEF VisibleLog
<1> HIDE DEF base, w
<1>6. /\ SubSeq(file.records, 1, base) \in Seq(Record) /\ Len(SubSeq(file.records, 1, base)) = base
      /\ \A i \in 1..base : SubSeq(file.records, 1, base)[i] = file.records[i]
  BY <1>2, <1>3
<1>7. /\ batch \in Seq(Record) /\ Len(batch) = w
      /\ \A i \in 1..w : batch[i] = RecordOf(c, request[c], i)
  <2> DEFINE full == BatchOf(c, request[c])
  <2>1. full \in Seq(Record) /\ Len(full) = request[c].size /\ \A i \in 1..request[c].size : full[i] = RecordOf(c, request[c], i)
    BY BatchFacts
  <2> HIDE DEF full
  <2>2. SubSeq(full, 1, w) \in Seq(Record) /\ Len(SubSeq(full, 1, w)) = w /\ \A i \in 1..w : SubSeq(full, 1, w)[i] = full[i]
    BY <1>2, <2>1
  <2> QED
    BY <1>2, <2>1, <2>2 DEF full
<1>8. file.records = VisibleLog \o batch
  <2> HIDE DEF batch
  <2> DEFINE both == VisibleLog \o batch
  <2>1. /\ both \in Seq(Record) /\ Len(both) = base + w
        /\ \A i \in 1..(base + w) : both[i] = IF i <= base THEN VisibleLog[i] ELSE batch[i - base]
    BY <1>5, <1>6, <1>7, ConcatProperties
  <2> HIDE DEF both
  <2>2. ASSUME NEW i \in 1..(base + w) PROVE both[i] = file.records[i]
    <3>1. CASE i <= base
      BY <1>2, <1>5, <1>6, <2>1, <3>1
    <3>2. CASE ~ (i <= base)
      <4>1. i - base \in 1..w /\ base + (i - base) = i
        BY <1>2, <3>2
      <4>2. batch[i - base] = RecordOf(c, request[c], i - base)
        BY <1>7, <4>1
      <4>3. file.records[base + (i - base)] = RecordOf(c, request[c], i - base)
        BY <1>3, <4>1
      <4> QED
        BY <2>1, <3>2, <4>1, <4>2, <4>3
    <3> QED
      BY <3>1, <3>2
  <2>3. both = file.records
    BY <1>3, <2>1, <2>2, SeqEqual
  <2> QED
    BY <2>3 DEF both
<1>9. VisibleLog \in Seq(Record) /\ Len(VisibleLog) = base
  BY <1>5, <1>6
<1>10. w \in 0..request[c].size /\ base + w = Len(file.records)
  BY <1>2, <1>3
<1> HIDE DEF batch
<1>11. /\ VisibleLog \in Seq(Record) /\ Len(VisibleLog) = request[c].expected + 1
       /\ VisibleLog = SubSeq(file.records, 1, request[c].expected + 1)
       /\ written[c] \in 0..request[c].size /\ request[c].expected + 1 + written[c] = Len(file.records)
  BY <1>5, <1>9, <1>10 DEF base, w
<1>12. file.records = VisibleLog \o SubSeq(BatchOf(c, request[c]), 1, written[c])
  BY <1>8 DEF batch, w
<1> QED
  BY <1>1, <1>2, <1>4, <1>11, <1>12

\* The same after a step.
WritingView ==
    \A c \in Calls : queue # << >> /\ Head(queue) = c /\ stage[c] \in {"write", "sync", "directory"} =>
        /\ ~ Damaged
        /\ VisibleLog = SubSeq(file.records, 1, request[c].expected + 1)
        /\ VisibleLog \in Seq(Record) /\ Len(VisibleLog) = request[c].expected + 1

LEMMA WritingNext == StoreInv' => WritingView'
<1>1. StoreInv => WritingView
  BY Writing DEF WritingView
<1> QED
  BY <1>1, PTL

\* Nothing is being written once a call is answered, or after a crash.
LEMMA AnswerRests ==
    ASSUME StoreInv, NEW c \in Calls, NEW s \in Working, Runs(c, s), NEW code, NEW value, Answer(c, code, value)
    PROVE  ~ InFlight'
<1> USE DEF StoreInv
<1>1. queue' = Tail(queue) /\ stage' = [stage EXCEPT ![c] = "answered"]
  BY DEF Answer
<1>2. /\ Tail(queue) \in Seq(Calls)
      /\ \A i \in DOMAIN Tail(queue) : Tail(queue)[i] # c /\ stage[Tail(queue)[i]] = "queued"
  BY RunningFacts DEF Working, Begun, Stages
<1>3. Tail(queue) # << >> => 1 \in DOMAIN Tail(queue) /\ Head(Tail(queue)) = Tail(queue)[1] /\ Tail(queue)[1] \in Calls
  BY <1>2
<1>4. queue' # << >> => stage'[Head(queue')] = "queued"
  <2> DEFINE rest == Tail(queue)
  <2>1. rest # << >> => stage[rest[1]] = "queued" /\ rest[1] # c /\ rest[1] \in Calls /\ Head(rest) = rest[1]
    BY <1>2, <1>3
  <2>2. queue' = rest
    BY <1>1
  <2> HIDE DEF rest
  <2>3. rest # << >> => stage'[rest[1]] = "queued"
    BY <1>1, <2>1 DEF Types
  <2> QED
    BY <2>1, <2>2, <2>3
<1> QED
  BY <1>4 DEF InFlight

\* The call that runs is pending for the stream, and its answer there is the
\* same.
LEMMA AnswerMaps ==
    ASSUME Types, NEW c \in Calls, NEW s \in Working, Runs(c, s),
           NEW code, NEW value, Answer(c, code, value), request' = request
    PROVE  /\ Seen[c] = [state |-> "pending", req |-> request[c]]
           /\ Seen' = [Seen EXCEPT ![c] = [state |-> "answered", req |-> Seen[c].req,
                                           code |-> code, value |-> value]]
<1>1. CallOf(c) = [state |-> "pending", req |-> request[c]]
  BY CallOfFacts DEF Runs
<1>2. /\ stage'[c] = "answered" /\ answer'[c] = [code |-> code, value |-> value]
      /\ \A d \in Calls \ {c} : stage'[d] = stage[d] /\ answer'[d] = answer[d]
  BY DEF Answer, Types
<1>3. \A d \in Calls \ {c} : CallOf(d)' = CallOf(d)
  BY <1>2, OtherCalls
<1>4. CallOf(c)' = [state |-> "answered", req |-> request[c], code |-> code, value |-> value]
  BY <1>2 DEF CallOf
<1>5. Seen[c] = [state |-> "pending", req |-> request[c]]
  BY <1>1 DEF Seen
<1>6. Seen' = [Seen EXCEPT ![c] = [state |-> "answered", req |-> request[c],
                                   code |-> code, value |-> value]]
  BY <1>3, <1>4 DEF Seen
<1> QED
  BY <1>5, <1>6

\* A call that goes on stays pending for the stream.
LEMMA ContinueMaps ==
    ASSUME Types, NEW c \in Calls, NEW s \in Working, Runs(c, s), NEW t \in Working, Continue(c, t),
           request' = request
    PROVE  Seen' = Seen
<1>1. /\ stage'[c] = t /\ stage[c] = s /\ answer' = answer
      /\ \A d \in Calls \ {c} : stage'[d] = stage[d]
  BY DEF Continue, Types, Runs
<1>2. \A d \in Calls \ {c} : CallOf(d)' = CallOf(d)
  BY <1>1, OtherCalls
<1>3. CallOf(c)' = CallOf(c)
  BY <1>1 DEF CallOf, Working, Begun
<1> QED
  BY <1>2, <1>3 DEF Seen

LEMMA InitMaps == Init => Stream!StreamInit
<1> SUFFICES ASSUME Init PROVE Stream!StreamInit
  OBVIOUS
<1>1. StoreInv /\ ~ InFlight
  BY StoreInvInit DEF Init, InFlight
<1>2. VisibleLog = HistoryOf(setting.history) /\ setting \in Settings
  BY <1>1, Resting DEF Init
<1>3. ~ Damaged
  <2>1. (file.exists <=> setting.history > 0) /\ ~ file.torn /\ file.records = HistoryOf(setting.history)
    BY DEF Init
  <2>2. setting.history \in Nat
    BY <1>2, StoreAssumption
  <2>3. setting.history > 0 => 1 \in DOMAIN HistoryOf(setting.history)
    BY <2>2 DEF HistoryOf
  <2>4. setting.history > 0 => HistoryOf(setting.history) # << >>
    BY <2>3
  <2> QED
    BY <2>1, <2>4 DEF Damaged
<1>4. Damaged = FALSE
  BY <1>3 DEF Damaged
<1>5. \A c \in Calls : CallOf(c) = [state |-> "idle"]
  BY CallOfFacts DEF Init
<1>6. Seen = [c \in Calls |-> [state |-> "idle"]]
  BY <1>5 DEF Seen
<1>7. VisibleLog \in {HistoryOf(s.history) : s \in Settings}
  BY <1>2
<1> QED
  BY <1>4, <1>6, <1>7 DEF Stream!StreamInit, Stream!Idle, Seen

\* What the stream sees of the file when a step leaves it, and the write under
\* way, alone.
LEMMA SameView ==
    ASSUME UNCHANGED file, InFlight' <=> InFlight,
           InFlight => /\ Head(queue') = Head(queue)
                       /\ request'[Head(queue)] = request[Head(queue)]
                       /\ existed'[Head(queue)] = existed[Head(queue)]
    PROVE  VisibleLog' = VisibleLog /\ Damaged' = Damaged
<1>1. VisibleLog' = VisibleLog
  BY DEF VisibleLog
<1>2. Damaged' = Damaged
  BY DEF Damaged
<1> QED
  BY <1>1, <1>2

LEMMA CallMaps ==
    ASSUME StoreInv, NEW c \in Calls, Call(c)
    PROVE  Stream!Invoke(c) \/ Stream!Refuse(c)
<1> USE DEF StoreInv
<1>1. PICK req \in setting.requests :
          /\ request' = [request EXCEPT ![c] = req]
          /\ \/ /\ stage' = [stage EXCEPT ![c] = "queued"]
                /\ queue' = Append(queue, c)
                /\ UNCHANGED answer
             \/ /\ ~ req.shaped
                /\ stage' = [stage EXCEPT ![c] = "answered"]
                /\ answer' = [answer EXCEPT ![c] = [code |-> "PERSISTENCE_VALIDATION", value |-> << >>]]
                /\ UNCHANGED queue
  BY DEF Call
<1>2. stage[c] = "idle" /\ UNCHANGED <<setting, file, durable, existed, written, crashes>>
  BY DEF Call
<1>3. req \in UNION {s.requests : s \in Settings}
  BY DEF Types
<1>4. Seen[c] = [state |-> "idle"]
  BY <1>2, CallOfFacts DEF Seen
<1>5. \A d \in Calls \ {c} : stage'[d] = stage[d] /\ answer'[d] = answer[d] /\ request'[d] = request[d]
  BY <1>1 DEF Types
<1>6. \A d \in Calls \ {c} : CallOf(d)' = CallOf(d)
  BY <1>5 DEF CallOf
<1>7. request'[c] = req
  BY <1>1 DEF Types
<1>8. /\ queue # << >> => Head(queue) \in Calls \ {c} /\ queue' # << >> /\ Head(queue') = Head(queue)
      /\ queue = << >> /\ queue' # << >> => Head(queue') = c /\ stage'[c] = "queued"
  <2>1. queue \in Seq(Calls) /\ (queue # << >> => 1 \in DOMAIN queue /\ Head(queue) = queue[1] /\ queue[1] \in Calls)
    BY DEF Types
  <2>2. queue # << >> => queue[1] # c
    BY <1>2, <2>1 DEF Chained, Working, Begun
  <2>3. Append(queue, c) # << >> /\ (queue # << >> => Head(Append(queue, c)) = Head(queue))
    BY <2>1
  <2>4. queue = << >> => Head(Append(queue, c)) = c
    OBVIOUS
  <2>5. CASE queue' = Append(queue, c) /\ stage' = [stage EXCEPT ![c] = "queued"]
    <3>1. stage'[c] = "queued"
      BY <2>5 DEF Types
    <3> QED
      BY <2>1, <2>2, <2>3, <2>4, <2>5, <3>1
  <2>6. CASE queue' = queue
    BY <2>1, <2>2, <2>6
  <2> QED
    BY <1>1, <2>5, <2>6
<1>9. VisibleLog' = VisibleLog /\ Damaged' = Damaged
  <2>1. InFlight' <=> InFlight
    BY <1>5, <1>8 DEF InFlight
  <2>2. InFlight => queue # << >>
    BY DEF InFlight
  <2> QED
    BY <1>2, <1>5, <1>8, <2>1, <2>2, SameView
<1>10. CASE stage' = [stage EXCEPT ![c] = "queued"]
  <2>1. stage'[c] = "queued"
    BY <1>10 DEF Types
  <2>2. CallOf(c)' = [state |-> "pending", req |-> req]
    BY <1>7, <2>1 DEF CallOf
  <2>3. Seen' = [Seen EXCEPT ![c] = [state |-> "pending", req |-> req]]
    BY <1>6, <2>2 DEF Seen
  <2> QED
    BY <1>3, <1>4, <1>9, <2>3 DEF Stream!Invoke, Stream!Idle, Stream!Pending, Seen
<1>11. CASE /\ ~ req.shaped
            /\ stage' = [stage EXCEPT ![c] = "answered"]
            /\ answer' = [answer EXCEPT ![c] = [code |-> "PERSISTENCE_VALIDATION", value |-> << >>]]
  <2>1. stage'[c] = "answered" /\ answer'[c] = [code |-> "PERSISTENCE_VALIDATION", value |-> << >>]
    BY <1>11 DEF Types
  <2>2. CallOf(c)' = [state |-> "answered", req |-> req, code |-> "PERSISTENCE_VALIDATION", value |-> << >>]
    BY <1>7, <2>1 DEF CallOf
  <2>3. Seen' = [Seen EXCEPT ![c] = [state |-> "answered", req |-> req, code |-> "PERSISTENCE_VALIDATION", value |-> << >>]]
    BY <1>6, <2>2 DEF Seen
  <2> QED
    BY <1>3, <1>4, <1>9, <1>11, <2>3 DEF Stream!Refuse, Stream!Idle, Stream!Answered, Seen
<1> QED
  BY <1>1, <1>10, <1>11

\* The load sees the stream's log, and refuses it exactly when the stream is
\* corrupt.
LEMMA LoadMaps ==
    ASSUME StoreInv, NEW c \in Calls, Load(c)
    PROVE  \/ Stream!ReportCorruption(c) \/ Stream!Read(c) \/ Stream!Conflict(c) \/ Stream!Reject(c)
           \/ Stream!Commit(c) \/ UNCHANGED Stream!stream
<1> USE DEF StoreInv
<1> DEFINE Reply(code, value) == Seen' = [Seen EXCEPT ![c] = [state |-> "answered", req |-> Seen[c].req,
                                                              code |-> code, value |-> value]]
<1>1. Runs(c, "queued") /\ UNCHANGED <<setting, file, durable, request, written, crashes>>
  BY DEF Load
<1>2. ~ InFlight /\ "queued" \in Working /\ "open" \in Working
  BY <1>1 DEF Runs, InFlight, Working, Begun
<1>3. VisibleLog = file.records /\ Damaged = (file.exists /\ (file.torn \/ file.records = << >>))
  BY <1>2, Resting
<1>4. Damaged <=> LoadRejects
  BY <1>3 DEF LoadRejects, Sequenced
<1>5. ASSUME NEW code, NEW value, Answer(c, code, value)
      PROVE  /\ Seen[c] = [state |-> "pending", req |-> request[c]] /\ Reply(code, value)
             /\ VisibleLog' = VisibleLog /\ Damaged' = Damaged
  <2>1. ~ InFlight'
    BY <1>1, <1>2, <1>5, AnswerRests
  <2>2. VisibleLog' = VisibleLog /\ Damaged' = Damaged
    BY <1>1, <1>2, <2>1, SameView
  <2> QED
    BY <1>1, <1>2, <1>5, <2>2, AnswerMaps
<1>6. VersionMatches(request[c]) <=> request[c].expected = Len(VisibleLog) - 1
  BY <1>3 DEF VersionMatches, Version
<1> HIDE DEF Reply
<1>7. CASE LoadRejects /\ Answer(c, "CORRUPT_EVENT_LOG", << >>)
  <2>1. /\ Seen[c] = [state |-> "pending", req |-> request[c]] /\ Reply("CORRUPT_EVENT_LOG", << >>)
        /\ VisibleLog' = VisibleLog /\ Damaged' = Damaged
    BY <1>5, <1>7
  <2>2. Damaged
    BY <1>4, <1>7
  <2>3. Seen[c].state = "pending"
    BY <2>1
  <2> QED
    BY <2>1, <2>2, <2>3 DEF Stream!ReportCorruption, Stream!Answer, Stream!Answered, Seen, Reply
<1>8. CASE ~ LoadRejects /\ request[c].op = "read" /\ Answer(c, "ok", SubSeq(file.records, request[c].from + 1, Len(file.records)))
  <2>1. /\ Seen[c].state = "pending" /\ Seen[c].req = request[c] /\ Seen[c].req.op = "read" /\ ~ Damaged
        /\ Reply("ok", SubSeq(VisibleLog, request[c].from + 1, Len(VisibleLog)))
        /\ VisibleLog' = VisibleLog /\ Damaged' = Damaged
    BY <1>3, <1>4, <1>5, <1>8
  <2> QED
    BY <2>1 DEF Stream!Read, Stream!IsPending, Stream!Answer, Stream!Answered, Seen, Reply
<1>9. CASE ~ LoadRejects /\ request[c].op = "append" /\ ~ VersionMatches(request[c]) /\ Answer(c, "VERSION_CONFLICT", << >>)
  <2>1. /\ Seen[c].state = "pending" /\ Seen[c].req = request[c] /\ Seen[c].req.op = "append" /\ ~ Damaged
        /\ Seen[c].req.expected # Len(VisibleLog) - 1
        /\ Reply("VERSION_CONFLICT", << >>) /\ VisibleLog' = VisibleLog /\ Damaged' = Damaged
    BY <1>4, <1>5, <1>6, <1>9
  <2> QED
    BY <2>1 DEF Stream!Conflict, Stream!IsPending, Stream!Version, Stream!Answer, Stream!Answered, Seen, Reply
<1>10. CASE ~ LoadRejects /\ request[c].op = "append" /\ VersionMatches(request[c]) /\ ~ request[c].wellFormed
            /\ Answer(c, "PERSISTENCE_VALIDATION", << >>)
  <2>1. /\ Seen[c].state = "pending" /\ Seen[c].req = request[c] /\ Seen[c].req.op = "append" /\ ~ Damaged
        /\ Seen[c].req.expected = Len(VisibleLog) - 1 /\ ~ Seen[c].req.wellFormed
        /\ Reply("PERSISTENCE_VALIDATION", << >>) /\ VisibleLog' = VisibleLog /\ Damaged' = Damaged
    BY <1>4, <1>5, <1>6, <1>10
  <2> QED
    BY <2>1 DEF Stream!Reject, Stream!IsPending, Stream!Version, Stream!Answer, Stream!Answered, Seen, Reply
<1>11. CASE ~ LoadRejects /\ request[c].op = "append" /\ VersionMatches(request[c]) /\ request[c].wellFormed
            /\ request[c].size = 0 /\ Answer(c, "ok", << >>)
  <2>1. BatchOf(c, request[c]) = << >>
    BY <1>11, BatchFacts
  <2>2. VisibleLog \o BatchOf(c, request[c]) = VisibleLog
    BY <1>3, <2>1, ConcatEmptySeq DEF Types
  <2>3. /\ Seen[c] = [state |-> "pending", req |-> request[c]] /\ Reply("ok", << >>)
        /\ VisibleLog' = VisibleLog /\ Damaged' = Damaged
    BY <1>5, <1>11
  <2>4. Seen[c].state = "pending" /\ Seen[c].req = request[c]
    BY <2>3
  <2>5. VisibleLog' = VisibleLog \o BatchOf(c, Seen[c].req)
    BY <2>2, <2>3, <2>4
  <2> QED
    BY <1>4, <1>6, <1>11, <2>3, <2>4, <2>5
    DEF Stream!Commit, Stream!IsPending, Stream!Version, Stream!Answer, Stream!Answered, Seen, Reply
<1>12. CASE Continue(c, "open")
  <2>1. Seen' = Seen
    BY <1>1, <1>2, <1>12, ContinueMaps
  <2>2. queue' = queue /\ stage'[c] = "open"
    BY <1>12 DEF Continue, Types
  <2>3. ~ InFlight'
    BY <1>1, <2>2 DEF InFlight, Runs
  <2>4. VisibleLog' = VisibleLog /\ Damaged' = Damaged
    BY <1>1, <1>2, <2>3, SameView
  <2> QED
    BY <2>1, <2>4 DEF Stream!stream, Seen
<1> QED
  BY <1>7, <1>8, <1>9, <1>10, <1>11, <1>12 DEF Load

\* open creates the file, or finds it whole.
LEMMA OpenMaps ==
    ASSUME StoreInv, StoreInv', NEW c \in Calls, Open(c)
    PROVE  UNCHANGED Stream!stream
<1> USE DEF StoreInv
<1>1. /\ Runs(c, "open") /\ Continue(c, "write") /\ file' = [file EXCEPT !.exists = TRUE]
      /\ UNCHANGED <<setting, durable, request, existed, written, crashes>>
  BY DEF Open
<1>2. /\ stage[c] = "open" /\ stage'[c] = "write" /\ queue' = queue /\ queue # << >> /\ Head(queue) = c
      /\ Appending(c) /\ written[c] = 0
  BY <1>1 DEF Runs, Continue, Types, Progress, Begun
<1>3. Seen' = Seen
  BY <1>1, ContinueMaps DEF Working, Begun
<1>4. ~ InFlight
  BY <1>2 DEF InFlight
<1>5. VisibleLog = file.records /\ Damaged = (file.exists /\ (file.torn \/ file.records = << >>))
  BY <1>4, Resting
<1>6. ~ Damaged
  <2>1. file.exists => existed[c]
    BY <1>2 DEF Progress
  <2>2. existed[c] => file.records # << >>
    <3>1. request[c].expected \in Int /\ request[c].expected + 1 = Len(file.records)
      BY <1>2, RequestFacts DEF Appending
    <3>2. existed[c] => request[c].expected >= 0
      BY <1>2 DEF Appending
    <3> QED
      BY <3>1, <3>2
  <2>3. ~ file.torn
    BY <1>2 DEF Appending
  <2> QED
    BY <1>5, <2>1, <2>2, <2>3
<1>7. /\ file'.records = file.records /\ file.records \in Seq(Record)
      /\ request[c].expected + 1 = Len(file.records) /\ request[c].expected \in Int
  <2>1. file'.records = file.records /\ file.records \in Seq(Record)
    BY <1>1 DEF Types
  <2>2. request[c].expected \in Int
    BY RequestFacts
  <2>3. request[c].expected + 1 + written[c] = Len(file.records) /\ written[c] = 0
    BY <1>2 DEF Appending
  <2> QED
    BY <2>1, <2>2, <2>3
<1>8. ~ Damaged' /\ VisibleLog' = SubSeq(file'.records, 1, request[c].expected + 1)
  BY <1>1, <1>2, WritingNext DEF WritingView
<1>9. SubSeq(file.records, 1, Len(file.records)) = file.records
  BY <1>7, SubSeqFull
<1>10. VisibleLog' = VisibleLog
  BY <1>5, <1>7, <1>8, <1>9
<1>11. Damaged' = Damaged
  BY <1>6, <1>8 DEF Damaged
<1> QED
  BY <1>3, <1>10, <1>11 DEF Stream!stream, Seen

\* Records of a write under way are not in the stream's log yet.
LEMMA WriteRecordMaps ==
    ASSUME StoreInv, StoreInv', NEW c \in Calls, WriteRecord(c)
    PROVE  UNCHANGED Stream!stream
<1> USE DEF StoreInv
<1> DEFINE next == IF EndsBatch(c) THEN "sync" ELSE "write"
           base == request[c].expected + 1
<1>1. /\ Runs(c, "write") /\ Continue(c, next) /\ request' = request
      /\ file' = [file EXCEPT !.records = Append(@, RecordOf(c, request[c], written[c] + 1))]
  BY DEF WriteRecord
<1>2. next \in Working /\ next \in {"write", "sync", "directory"} /\ "write" \in Working
  BY DEF Working, Begun
<1> HIDE DEF next
<1>3. /\ stage[c] = "write" /\ stage'[c] = next /\ queue' = queue /\ queue # << >> /\ Head(queue) = c
  BY <1>1 DEF Runs, Continue, Types
<1>4. Seen' = Seen
  BY <1>1, <1>2, ContinueMaps
<1>5. /\ ~ Damaged /\ VisibleLog = SubSeq(file.records, 1, base) /\ VisibleLog \in Seq(Record)
      /\ Len(VisibleLog) = base /\ base \in Nat /\ base <= Len(file.records)
  <2>1. /\ ~ Damaged /\ VisibleLog = SubSeq(file.records, 1, base) /\ VisibleLog \in Seq(Record)
        /\ Len(VisibleLog) = base /\ base + written[c] = Len(file.records) /\ written[c] \in 0..request[c].size
        /\ request[c].expected \in Int /\ request[c].expected >= -1
    BY <1>3, Writing
  <2>2. base \in Nat /\ written[c] \in Nat
    <3>1. written[c] \in Nat
      BY DEF Types
    <3> QED
      BY <2>1, <3>1
  <2> HIDE DEF base
  <2>3. base <= Len(file.records)
    BY <2>1, <2>2
  <2> QED
    BY <2>1, <2>2, <2>3
<1>6. /\ ~ Damaged' /\ VisibleLog' = SubSeq(file'.records, 1, base) /\ VisibleLog' \in Seq(Record)
      /\ Len(VisibleLog') = base
  BY <1>1, <1>2, <1>3, WritingNext DEF WritingView
<1>7. /\ file.records \in Seq(Record)
      /\ \A i \in 1..Len(file.records) : file'.records[i] = file.records[i]
  <2>1. RecordOf(c, request[c], written[c] + 1) \in Record
    <3>1. request[c].expected \in Int /\ written[c] + 1 \in Int
      BY RequestFacts DEF Types
    <3> QED
      BY <3>1 DEF RecordOf, Record
  <2>2. file.records \in Seq(Record) /\ file'.records = Append(file.records, RecordOf(c, request[c], written[c] + 1))
    BY <1>1 DEF Types
  <2> QED
    BY <2>1, <2>2, AppendProperties
<1> HIDE DEF base
<1>8. ASSUME NEW i \in 1..base PROVE VisibleLog'[i] = VisibleLog[i]
  <2>1. i \in 1..Len(file.records)
    BY <1>5, <1>7
  <2>2. SubSeq(file.records, 1, base)[i] = file.records[i]
    BY <1>5, <1>7
  <2>3. file'.records \in Seq(Record) /\ base <= Len(file'.records)
    <3>1. file'.records \in Seq(Record)
      BY DEF Types
    <3>2. Len(SubSeq(file'.records, 1, base)) = base
      BY <1>6
    <3>3. Len(file'.records) = Len(file.records) + 1
      BY <1>1, <1>7 DEF Types
    <3> QED
      BY <1>5, <1>7, <3>1, <3>3
  <2>4. SubSeq(file'.records, 1, base)[i] = file'.records[i]
    BY <1>5, <2>3
  <2> QED
    BY <1>5, <1>6, <1>7, <2>1, <2>2, <2>4
<1>9. VisibleLog' = VisibleLog
  BY <1>5, <1>6, <1>8, SeqEqual
<1>10. Damaged' = Damaged
  BY <1>5, <1>6 DEF Damaged
<1> QED
  BY <1>4, <1>9, <1>10 DEF Stream!stream, Seen

\* The answer of an append that is written and synced is the commit.
LEMMA CommitMaps ==
    ASSUME StoreInv, NEW c \in Calls, NEW s \in {"sync", "directory"}, Runs(c, s),
           Answer(c, "ok", << >>), UNCHANGED <<file, request>>
    PROVE  Stream!Commit(c)
<1> USE DEF StoreInv
<1>1. /\ stage[c] = s /\ queue # << >> /\ Head(queue) = c /\ Appending(c)
      /\ written[c] = request[c].size /\ file.exists
  BY DEF Runs, Progress, Begun
<1>2. /\ ~ Damaged /\ Len(VisibleLog) = request[c].expected + 1
      /\ request[c].expected \in Int
      /\ file.records = VisibleLog \o SubSeq(BatchOf(c, request[c]), 1, written[c])
  BY <1>1, Writing
<1>3. SubSeq(BatchOf(c, request[c]), 1, written[c]) = BatchOf(c, request[c])
  BY <1>1, BatchFacts, SubSeqFull
<1>4. ~ InFlight'
  BY AnswerRests DEF Working, Begun
<1>5. VisibleLog' = file'.records /\ Damaged' = (file'.exists /\ (file'.torn \/ file'.records = << >>))
  BY <1>4 DEF VisibleLog, Damaged
<1>6. VisibleLog' = VisibleLog \o BatchOf(c, request[c])
  BY <1>2, <1>3, <1>5
<1>7. file.records # << >> /\ ~ file.torn
  <2>1. Len(file.records) > 0
    <3> DEFINE e == request[c].expected
               n == request[c].size
               m == Len(file.records)
    <3>1. e \in Int /\ e >= -1 /\ n \in Nat /\ n > 0 /\ e + 1 + n = m
      BY <1>1, RequestFacts DEF Appending, Working, Begun
    <3> HIDE DEF e, n, m
    <3>2. m > 0
      BY <3>1
    <3> QED
      BY <3>2 DEF m
  <2> QED
    BY <1>1, <2>1 DEF Appending
<1>8. Damaged' = Damaged
  BY <1>2, <1>5, <1>7 DEF Damaged
<1>9. /\ Seen[c] = [state |-> "pending", req |-> request[c]]
      /\ Seen' = [Seen EXCEPT ![c] = [state |-> "answered", req |-> Seen[c].req, code |-> "ok", value |-> << >>]]
  BY AnswerMaps DEF Working, Begun
<1>10. /\ Seen[c].state = "pending" /\ Seen[c].req = request[c] /\ request[c].op = "append" /\ request[c].wellFormed
       /\ request[c].expected = Len(VisibleLog) - 1
  BY <1>1, <1>2, <1>9 DEF Appending
<1> QED
  BY <1>2, <1>6, <1>8, <1>9, <1>10
  DEF Stream!Commit, Stream!IsPending, Stream!Version, Stream!Answer, Stream!Answered, Seen

LEMMA SyncMaps ==
    ASSUME StoreInv, NEW c \in Calls, Sync(c)
    PROVE  Stream!Commit(c) \/ UNCHANGED Stream!stream
<1> USE DEF StoreInv
<1>1. Runs(c, "sync") /\ UNCHANGED <<file, request, existed>>
  BY DEF Sync
<1>2. CASE Answer(c, "ok", << >>)
  BY <1>1, <1>2, CommitMaps
<1>3. CASE Continue(c, "directory")
  <2>1. Seen' = Seen
    BY <1>1, <1>3, ContinueMaps DEF Working, Begun
  <2>2. stage[c] = "sync" /\ stage'[c] = "directory" /\ queue' = queue /\ queue # << >> /\ Head(queue) = c
    BY <1>1, <1>3 DEF Runs, Continue, Types
  <2>3. InFlight /\ InFlight'
    BY <2>2 DEF InFlight
  <2>4. VisibleLog' = VisibleLog /\ Damaged' = Damaged
    BY <1>1, <2>2, <2>3, SameView
  <2> QED
    BY <2>1, <2>4 DEF Stream!stream, Seen
<1> QED
  BY <1>2, <1>3 DEF Sync

\* What an interrupted write leaves: the log and the first records of its
\* batch.
LEMMA InterruptMaps ==
    ASSUME StoreInv, NEW c \in Calls, queue # << >>, Head(queue) = c,
           stage[c] \in {"write", "sync", "directory"}, ~ InFlight',
           NEW m \in (request[c].expected + 1)..Len(file.records),
           file'.records = SubSeq(file.records, 1, m)
    PROVE  Stream!Interrupted(c)
<1> USE DEF StoreInv
<1> DEFINE base == request[c].expected + 1
           full == BatchOf(c, request[c])
           w == written[c]
           k == m - base
<1>1. /\ ~ Damaged /\ VisibleLog \in Seq(Record) /\ Len(VisibleLog) = base
      /\ base + w = Len(file.records) /\ w \in 0..request[c].size /\ base \in Nat
      /\ file.records = VisibleLog \o SubSeq(full, 1, w)
  <2>1. request[c].expected \in Int /\ request[c].expected >= -1
    BY RequestFacts DEF Working, Begun
  <2>2. base \in Nat
    BY <2>1
  <2> QED
    BY <2>2, Writing
<1>2. full \in Seq(Record) /\ Len(full) = request[c].size /\ request[c].size \in Nat
  BY BatchFacts, RequestFacts
<1>3. file.records \in Seq(Record)
  BY DEF Types
<1>4. m \in base..Len(file.records)
  OBVIOUS
<1> HIDE DEF base, full, w
<1>5. m \in Nat /\ m <= Len(file.records) /\ k \in 0..w /\ base + k = m /\ w \in Nat /\ w <= Len(full)
  BY <1>1, <1>2, <1>4
<1>6. /\ SubSeq(file.records, 1, m) \in Seq(Record) /\ Len(SubSeq(file.records, 1, m)) = m
      /\ \A i \in 1..m : SubSeq(file.records, 1, m)[i] = file.records[i]
  BY <1>3, <1>5
<1> HIDE DEF k
<1>7. /\ SubSeq(full, 1, w) \in Seq(Record) /\ Len(SubSeq(full, 1, w)) = w
      /\ \A i \in 1..w : SubSeq(full, 1, w)[i] = full[i]
  BY <1>2, <1>5
<1>8. /\ SubSeq(full, 1, k) \in Seq(Record) /\ Len(SubSeq(full, 1, k)) = k
      /\ \A i \in 1..k : SubSeq(full, 1, k)[i] = full[i]
  BY <1>2, <1>5
<1>9. \A i \in 1..(base + w) : file.records[i] = IF i <= base THEN VisibleLog[i] ELSE SubSeq(full, 1, w)[i - base]
  <2> DEFINE old == VisibleLog
             part == SubSeq(full, 1, w)
             all == file.records
  <2>1. old \in Seq(Record) /\ part \in Seq(Record) /\ Len(old) = base /\ Len(part) = w /\ all = old \o part
    BY <1>1, <1>7
  <2> HIDE DEF old, part, all
  <2>2. \A i \in 1..(base + w) : all[i] = IF i <= base THEN old[i] ELSE part[i - base]
    BY <2>1, ConcatProperties
  <2> QED
    BY <2>2 DEF old, part, all
<1>10. /\ VisibleLog \o SubSeq(full, 1, k) \in Seq(Record) /\ Len(VisibleLog \o SubSeq(full, 1, k)) = base + k
       /\ \A i \in 1..(base + k) : (VisibleLog \o SubSeq(full, 1, k))[i] =
                                      IF i <= base THEN VisibleLog[i] ELSE SubSeq(full, 1, k)[i - base]
  BY <1>1, <1>8, ConcatProperties
<1>11. SubSeq(file.records, 1, m) = VisibleLog \o SubSeq(full, 1, k)
  <2> DEFINE left == SubSeq(file.records, 1, m)
             right == VisibleLog \o SubSeq(full, 1, k)
  <2>1. ASSUME NEW i \in 1..m PROVE left[i] = right[i]
    <3>1. i \in 1..(base + w) /\ i \in 1..(base + k)
      BY <1>1, <1>5
    <3>2. CASE i <= base
      BY <1>6, <1>9, <1>10, <3>1, <3>2
    <3>3. CASE ~ (i <= base)
      <4>1. i - base \in 1..k /\ i - base \in 1..w
        BY <1>1, <1>5, <3>1, <3>3
      <4>2. SubSeq(full, 1, w)[i - base] = SubSeq(full, 1, k)[i - base]
        BY <1>7, <1>8, <4>1
      <4> QED
        BY <1>6, <1>9, <1>10, <3>1, <3>3, <4>2
    <3> QED
      BY <3>2, <3>3
  <2>2. left \in Seq(Record) /\ right \in Seq(Record) /\ Len(left) = m /\ Len(right) = m
    BY <1>5, <1>6, <1>10
  <2> HIDE DEF left, right
  <2>3. left = right
    BY <2>1, <2>2, SeqEqual
  <2> QED
    BY <2>3 DEF left, right
<1>12. VisibleLog' = VisibleLog \o SubSeq(full, 1, k)
  BY <1>11 DEF VisibleLog
<1>13. k \in 0..Len(full)
  BY <1>2, <1>5
<1>14. Damaged' \in BOOLEAN
  BY DEF Damaged
<1>15. Seen[c] = [state |-> "pending", req |-> request[c]]
  BY CallOfFacts DEF Seen, Working, Begun
<1>16. /\ Seen[c].state = "pending" /\ Seen[c].req = request[c] /\ request[c].op = "append"
       /\ request[c].expected = Len(VisibleLog) - 1
  <2>1. request[c].op = "append"
    BY DEF Progress, Appending, Begun
  <2>2. request[c].expected = Len(VisibleLog) - 1
    BY <1>1, RequestFacts DEF base
  <2> QED
    BY <1>15, <2>1, <2>2
<1>17. \E j \in 0..Len(BatchOf(c, Seen[c].req)) : VisibleLog' = VisibleLog \o SubSeq(BatchOf(c, Seen[c].req), 1, j)
  BY <1>12, <1>13, <1>16 DEF full
<1> QED
  BY <1>1, <1>14, <1>16, <1>17 DEF Stream!Interrupted, Stream!IsPending, Stream!Version, Seen

LEMMA IoFailsMaps ==
    ASSUME StoreInv, NEW c \in Calls, IoFails(c)
    PROVE  Stream!Fail(c)
<1> USE DEF StoreInv
<1>1. PICK s \in Working : Runs(c, s)
  BY DEF IoFails, Working, Begun
<1>2. PICK t \in MayTear(c) : file' = [file EXCEPT !.torn = @ \/ t]
  BY DEF IoFails
<1>3. Answer(c, "PERSISTENCE_IO", << >>) /\ UNCHANGED <<request, existed>>
  BY DEF IoFails
<1>4. /\ Seen[c] = [state |-> "pending", req |-> request[c]]
      /\ Seen' = [Seen EXCEPT ![c] = [state |-> "answered", req |-> Seen[c].req,
                                      code |-> "PERSISTENCE_IO", value |-> << >>]]
  BY <1>1, <1>3, AnswerMaps
<1>5. ~ InFlight'
  BY <1>1, <1>3, AnswerRests
<1>6. t \in BOOLEAN /\ (t => stage[c] = "write" /\ file.exists)
  BY DEF MayTear, Progress
<1>7. file'.records = file.records /\ (file'.exists <=> file.exists) /\ (file'.torn <=> file.torn \/ t)
  BY <1>2, <1>6, TornFacts
<1>8. stage[c] = s /\ queue # << >> /\ Head(queue) = c
  BY <1>1 DEF Runs
<1>9. Stream!Interrupted(c)
  <2>1. CASE s \in {"write", "sync", "directory"}
    <3>1. SubSeq(file.records, 1, Len(file.records)) = file.records
      BY SubSeqFull DEF Types
    <3>2. Len(file.records) \in (request[c].expected + 1)..Len(file.records)
      <4> DEFINE e == request[c].expected
                 w == written[c]
                 n == request[c].size
                 m == Len(file.records)
      <4>1. e \in Int /\ e >= -1 /\ n \in Nat
        BY <1>1, RequestFacts DEF Runs, Working, Begun
      <4>2. w \in 0..n /\ e + 1 + w = m
        BY <1>8, <2>1, Writing
      <4> HIDE DEF e, w, n, m
      <4>3. m \in (e + 1)..m
        BY <4>1, <4>2
      <4> QED
        BY <4>3 DEF e, m
    <3> QED
      BY <1>5, <1>7, <1>8, <2>1, <3>1, <3>2, InterruptMaps
  <2>2. CASE s \notin {"write", "sync", "directory"}
    <3>1. ~ InFlight
      BY <1>8, <2>2 DEF InFlight
    <3>2. VisibleLog' = VisibleLog
      BY <1>5, <1>7, <3>1 DEF VisibleLog
    <3>3. Damaged' = Damaged
      BY <1>5, <1>6, <1>7, <1>8, <2>2, <3>1 DEF Damaged
    <3> QED
      BY <3>2, <3>3 DEF Stream!Interrupted
  <2> QED
    BY <2>1, <2>2
<1> QED
  BY <1>4, <1>9 DEF Stream!Fail, Stream!Answer, Stream!Answered, Seen

\* A crash loses the pending calls and no others.
LEMMA RestartMaps ==
    ASSUME StoreInv, Restart
    PROVE  /\ Seen' = [c \in Calls |-> IF Seen[c].state = "pending" THEN [state |-> "lost"] ELSE Seen[c]]
           /\ ~ InFlight'
<1>1. /\ UNCHANGED <<request, answer>> /\ queue' = << >>
      /\ \A c \in Calls : stage'[c] = IF stage[c] \in {"idle", "answered"} THEN stage[c] ELSE "lost"
  BY DEF Restart
<1>2. ASSUME NEW c \in Calls
      PROVE  CallOf(c)' = IF Seen[c].state = "pending" THEN [state |-> "lost"] ELSE Seen[c]
  <2>1. Seen[c] = CallOf(c)
    BY DEF Seen
  <2>2. CASE stage[c] = "idle"
    <3>1. CallOf(c)' = [state |-> "idle"] /\ CallOf(c) = [state |-> "idle"]
      BY <1>1, <2>2 DEF CallOf
    <3> QED
      BY <2>1, <3>1
  <2>3. CASE stage[c] = "answered"
    <3>1. CallOf(c)' = CallOf(c) /\ CallOf(c).state = "answered"
      BY <1>1, <2>3 DEF CallOf
    <3> QED
      BY <2>1, <3>1
  <2>4. CASE stage[c] = "lost"
    <3>1. CallOf(c)' = [state |-> "lost"] /\ CallOf(c) = [state |-> "lost"]
      BY <1>1, <2>4 DEF CallOf
    <3> QED
      BY <2>1, <3>1
  <2>5. CASE stage[c] \in Working
    <3>1. CallOf(c)' = [state |-> "lost"]
      BY <1>1, <2>5 DEF CallOf, Working, Begun
    <3>2. CallOf(c).state = "pending"
      BY <2>5, CallOfFacts
    <3> QED
      BY <2>1, <3>1, <3>2
  <2>6. stage[c] \in Working \cup {"idle", "answered", "lost"}
    BY DEF StoreInv, Types, Stages, Working, Begun
  <2> QED
    BY <2>2, <2>3, <2>4, <2>5, <2>6
<1>3. Seen' = [c \in Calls |-> IF Seen[c].state = "pending" THEN [state |-> "lost"] ELSE Seen[c]]
  BY <1>2 DEF Seen
<1> QED
  BY <1>1, <1>3 DEF InFlight

LEMMA ProcessCrashMaps ==
    ASSUME StoreInv, ProcessCrash
    PROVE  Stream!Crash
<1> USE DEF StoreInv
<1>1. PICK t \in (IF queue = << >> THEN {FALSE} ELSE MayTear(Head(queue))) : file' = [file EXCEPT !.torn = @ \/ t]
  BY DEF ProcessCrash
<1>2. t \in BOOLEAN /\ (t => file.exists)
  BY CrashTears
<1>3. file'.records = file.records /\ (file'.exists <=> file.exists) /\ (file'.torn <=> file.torn \/ t)
  BY <1>1, <1>2, TornFacts
<1>4. /\ Seen' = [c \in Calls |-> IF Seen[c].state = "pending" THEN [state |-> "lost"] ELSE Seen[c]]
      /\ ~ InFlight'
  BY RestartMaps DEF ProcessCrash
<1>5. CASE InFlight
  <2> DEFINE c == Head(queue)
  <2>1. c \in Calls /\ queue # << >> /\ stage[c] \in {"write", "sync", "directory"}
    BY <1>5 DEF InFlight, Types
  <2> HIDE DEF c
  <2>2. Head(queue) = c
    BY DEF c
  <2>3. SubSeq(file.records, 1, Len(file.records)) = file.records
    BY SubSeqFull DEF Types
  <2>4. Len(file.records) \in (request[c].expected + 1)..Len(file.records)
    <3> DEFINE e == request[c].expected
               w == written[c]
               n == request[c].size
               m == Len(file.records)
    <3>1. e \in Int /\ e >= -1 /\ n \in Nat /\ w \in 0..n /\ e + 1 + w = m
      BY <2>1, <2>2, RequestFacts, Writing
    <3> HIDE DEF e, w, n, m
    <3>2. m \in (e + 1)..m
      BY <3>1
    <3> QED
      BY <3>2 DEF e, m
  <2>5. Stream!Interrupted(c)
    BY <1>3, <1>4, <2>1, <2>2, <2>3, <2>4, InterruptMaps
  <2> QED
    BY <1>4, <2>1, <2>5 DEF Stream!Crash, Stream!Lost, Seen
<1>6. CASE ~ InFlight
  <2>1. VisibleLog' = VisibleLog
    BY <1>3, <1>4, <1>6 DEF VisibleLog
  <2>2. t = FALSE
    <3>1. CASE queue = << >>
      BY <3>1
    <3>2. CASE queue # << >>
      <4>1. MayTear(Head(queue)) = {FALSE}
        BY <1>6, <3>2 DEF MayTear, InFlight
      <4> QED
        BY <3>2, <4>1
    <3> QED
      BY <3>1, <3>2
  <2>3. Damaged' = Damaged
    BY <1>3, <1>4, <1>6, <2>2 DEF Damaged
  <2> QED
    BY <1>4, <2>1, <2>3 DEF Stream!Crash, Stream!Lost, Seen
<1> QED
  BY <1>5, <1>6

\* Where the entry of the file is durable, power loss keeps a prefix of the
\* log that holds all that was acknowledged.
LEMMA PowerLossMaps ==
    ASSUME StoreInv, Kept, PowerLoss
    PROVE  Stream!Crash \/ Stream!PowerCut
<1> USE DEF StoreInv
<1> DEFINE n == Len(file'.records)
           v == Len(VisibleLog)
<1>1. /\ file' \in [exists : BOOLEAN, torn : BOOLEAN, records : Seq(Record)]
      /\ n <= Len(file.records) /\ file'.records = SubSeq(file.records, 1, n)
      /\ \A i \in 1..n : file'.records[i] = file.records[i]
  BY PowerLossFacts
<1>2. setting.powerFails /\ durable.count <= n
  BY PowerLossFacts DEF PowerLoss, Kept
<1>3. n \in Nat /\ durable.count \in Nat
  BY <1>1 DEF Types
<1>4. /\ Seen' = [c \in Calls |-> IF Seen[c].state = "pending" THEN [state |-> "lost"] ELSE Seen[c]]
      /\ ~ InFlight'
  BY RestartMaps DEF PowerLoss
<1>5. VisibleLog' = file'.records
  BY <1>4 DEF VisibleLog
<1>6. /\ VisibleLog \in Seq(Record) /\ v \in Nat /\ v <= Len(file.records)
      /\ \A i \in 1..v : VisibleLog[i] = file.records[i]
  <2>1. CASE InFlight
    <3> DEFINE c == Head(queue)
               b == request[c].expected + 1
    <3>1. c \in Calls /\ queue # << >> /\ stage[c] \in {"write", "sync", "directory"}
      BY <2>1 DEF InFlight, Types
    <3>2. VisibleLog = SubSeq(file.records, 1, b) /\ VisibleLog \in Seq(Record) /\ Len(VisibleLog) = b
      BY <3>1, Writing
    <3>3. b + written[c] = Len(file.records) /\ written[c] \in Nat
      BY <3>1, Writing DEF Types
    <3>4. b \in Nat
      BY <3>2
    <3> HIDE DEF b
    <3>5. b <= Len(file.records)
      BY <3>3, <3>4
    <3>6. file.records \in Seq(Record)
      BY DEF Types
    <3>7. \A i \in 1..b : SubSeq(file.records, 1, b)[i] = file.records[i]
      BY <3>4, <3>5, <3>6
    <3> QED
      BY <3>2, <3>4, <3>5, <3>7
  <2>2. CASE ~ InFlight
    BY <2>2 DEF VisibleLog, Types
  <2> QED
    BY <2>1, <2>2
<1> HIDE DEF n, v
<1>7. CASE InFlight /\ v <= n
  <2> DEFINE c == Head(queue)
  <2>1. c \in Calls /\ queue # << >> /\ stage[c] \in {"write", "sync", "directory"}
    BY <1>7 DEF InFlight, Types
  <2> HIDE DEF c
  <2>2. Head(queue) = c
    BY DEF c
  <2>3. v = request[c].expected + 1
    BY <2>1, <2>2, Writing DEF v
  <2>4. n \in (request[c].expected + 1)..Len(file.records)
    <3>1. n \in v..Len(file.records)
      BY <1>1, <1>3, <1>6, <1>7 DEF Types
    <3> QED
      BY <2>3, <3>1
  <2>5. Stream!Interrupted(c)
    BY <1>1, <1>4, <2>1, <2>2, <2>4, InterruptMaps
  <2> QED
    BY <1>4, <2>1, <2>5 DEF Stream!Crash, Stream!Lost, Seen
<1>8. CASE n <= v
  <2>1. VisibleLog' = SubSeq(VisibleLog, 1, n)
    <3> DEFINE left == file'.records
               right == SubSeq(VisibleLog, 1, n)
    <3>1. /\ right \in Seq(Record) /\ Len(right) = n
          /\ \A i \in 1..n : right[i] = VisibleLog[i]
      BY <1>3, <1>6, <1>8 DEF v
    <3>2. left \in Seq(Record) /\ Len(left) = n
      BY <1>1 DEF n
    <3>3. \A i \in 1..n : left[i] = right[i]
      <4>1. \A i \in 1..n : i \in 1..v
        BY <1>3, <1>6, <1>8
      <4> QED
        BY <1>1, <1>6, <3>1, <4>1
    <3> HIDE DEF left, right
    <3>4. left = right
      BY <3>1, <3>2, <3>3, SeqEqual
    <3> QED
      BY <1>5, <3>4 DEF left, right
  <2>2. ASSUME NEW c \in Calls, Seen[c].state = "answered", Seen[c].req.op = "append", Seen[c].code = "ok"
        PROVE  \/ BatchOf(c, Seen[c].req) = << >>
               \/ Seen[c].req.expected + 1 + Len(BatchOf(c, Seen[c].req)) <= n
    <3>1. stage[c] = "answered"
      <4>1. stage[c] \in Working \cup {"idle", "answered", "lost"}
        BY DEF Types, Stages, Working, Begun
      <4> QED
        BY <2>2, <4>1, CallOfFacts DEF Seen
    <3>2. Seen[c].req = request[c] /\ Acknowledged(c)
      BY <2>2, <3>1, CallOfFacts DEF Seen, Acknowledged
    <3>3. Holds(c) /\ request[c].expected \in Int /\ request[c].size \in Nat
      BY <3>2, RequestFacts DEF Kept
    <3>4. BatchOf(c, request[c]) \in Seq(Record) /\ Len(BatchOf(c, request[c])) = request[c].size
      BY <3>3, BatchFacts
    <3>5. CASE request[c].size = 0
      BY <3>2, <3>4, <3>5, EmptySeq
    <3>6. CASE request[c].size > 0
      <4>1. request[c].size \in 1..request[c].size
        BY <3>3, <3>6
      <4>2. request[c].expected + 1 + request[c].size <= durable.count
        BY <1>2, <3>3, <4>1 DEF Holds
      <4> DEFINE e == request[c].expected
                 k == request[c].size
      <4>3. e \in Int /\ k \in Nat /\ e + 1 + k <= durable.count
        BY <3>3, <4>2
      <4> HIDE DEF e, k
      <4>4. e + 1 + k <= n
        BY <1>2, <1>3, <4>3
      <4> QED
        BY <3>2, <3>4, <4>4 DEF e, k
    <3> QED
      BY <3>3, <3>5, <3>6
  <2>3. ASSUME NEW i \in DOMAIN VisibleLog, OwnerOf(VisibleLog[i]) \notin Calls PROVE i <= n
    <3>1. i \in 1..v /\ VisibleLog[i] = file.records[i]
      BY <1>6 DEF v
    <3>2. i \in DOMAIN file.records /\ i \in Nat
      BY <1>6, <3>1 DEF Types
    <3>3. file.records[i].call \notin Calls
      BY <2>3, <3>1 DEF OwnerOf
    <3>4. i <= durable.count
      BY <1>2, <3>2, <3>3 DEF Kept
    <3> QED
      BY <1>2, <1>3, <3>2, <3>4
  <2>4. Stream!Safe(n)
    BY <2>2, <2>3 DEF Stream!Safe, Seen
  <2>5. n \in 0..Len(VisibleLog)
    BY <1>3, <1>6, <1>8 DEF v
  <2>6. Damaged' \in BOOLEAN
    BY DEF Damaged
  <2> QED
    BY <1>4, <2>1, <2>4, <2>5, <2>6 DEF Stream!PowerCut, Stream!Lost, Seen
<1>9. CASE ~ InFlight
  <2>1. v = Len(file.records)
    BY <1>9 DEF v, VisibleLog
  <2> QED
    BY <1>1, <1>8, <2>1
<1>10. n <= v \/ v <= n
  BY <1>3, <1>6
<1> QED
  BY <1>7, <1>8, <1>9, <1>10

LEMMA StepMaps == StoreInv /\ StoreInv' /\ Kept /\ [Next]_vars => [Stream!StreamNext]_(Stream!stream)
<1> SUFFICES ASSUME StoreInv, StoreInv', Kept, [Next]_vars PROVE Stream!StreamNext \/ UNCHANGED Stream!stream
  OBVIOUS
<1>1. ASSUME NEW c \in Calls, Call(c) PROVE Stream!StreamNext
  BY <1>1, CallMaps DEF Stream!StreamNext
<1>2. ASSUME NEW c \in Calls, Load(c) PROVE Stream!StreamNext \/ UNCHANGED Stream!stream
  BY <1>2, LoadMaps DEF Stream!StreamNext
<1>3. ASSUME NEW c \in Calls, Open(c) PROVE UNCHANGED Stream!stream
  BY <1>3, OpenMaps
<1>4. ASSUME NEW c \in Calls, WriteRecord(c) PROVE UNCHANGED Stream!stream
  BY <1>4, WriteRecordMaps
<1>5. ASSUME NEW c \in Calls, Sync(c) PROVE Stream!StreamNext \/ UNCHANGED Stream!stream
  BY <1>5, SyncMaps DEF Stream!StreamNext
<1>6. ASSUME NEW c \in Calls, SyncDirectory(c) PROVE Stream!StreamNext
  <2>1. Runs(c, "directory") /\ Answer(c, "ok", << >>) /\ UNCHANGED <<file, request>>
    BY <1>6 DEF SyncDirectory
  <2>2. Stream!Commit(c)
    BY <2>1, CommitMaps
  <2> QED
    BY <2>2 DEF Stream!StreamNext
<1>7. ASSUME NEW c \in Calls, IoFails(c) PROVE Stream!StreamNext
  BY <1>7, IoFailsMaps DEF Stream!StreamNext
<1>8. ASSUME ProcessCrash PROVE Stream!StreamNext
  BY <1>8, ProcessCrashMaps DEF Stream!StreamNext
<1>9. ASSUME PowerLoss PROVE Stream!StreamNext
  BY <1>9, PowerLossMaps DEF Stream!StreamNext
<1>10. ASSUME UNCHANGED vars PROVE UNCHANGED Stream!stream
  <2>1. VisibleLog' = VisibleLog
    BY <1>10 DEF vars, VisibleLog, InFlight
  <2>2. Damaged' = Damaged
    BY <1>10 DEF vars, Damaged, InFlight
  <2>3. Seen' = Seen
    BY <1>10 DEF vars, Seen, CallOf
  <2> QED
    BY <2>1, <2>2, <2>3 DEF Stream!stream, Seen
<1> QED
  BY <1>1, <1>2, <1>3, <1>4, <1>5, <1>6, <1>7, <1>8, <1>9, <1>10 DEF Next, Operation, Quiet

\* The store implements the contract of an event stream for every set of calls
\* and settings in which power fails only where the file's entry is durable:
\* each append and each read of jsonl-event-store.ts takes effect at one
\* moment between its call and its answer, and what failures, crashes and
\* power losses leave is what the contract allows.
THEOREM StoreImplementsStream == EntryDurable /\ Spec => ImplementsStream
<1>1. Init => Stream!StreamInit
  BY InitMaps
<1>2. EntryDurable /\ Init => Kept
  BY KeptInit
<1>3. StoreInv /\ StoreInv' /\ Kept /\ [Next]_vars => Kept'
  BY KeptStep
<1>4. StoreInv /\ StoreInv' /\ Kept /\ [Next]_vars => [Stream!StreamNext]_(Stream!stream)
  BY StepMaps
<1>5. Spec => []StoreInv
  BY StoreInvAlways
<1> QED
  BY <1>1, <1>2, <1>3, <1>4, <1>5, PTL DEF Spec, ImplementsStream, Stream!StreamSpec

=============================================================================
