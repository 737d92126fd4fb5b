-------------------------- MODULE ProjectInitProofs --------------------------
(***************************************************************************)
(* What concurrent invocations of init leave behind, for every number of   *)
(* invocations and of failing filesystem calls: nothing that is another's  *)
(* goes away, a reported success is true, a failure cleans up, and when    *)
(* nothing interferes one invocation wins.                                 *)
(***************************************************************************)
EXTENDS ProjectInit, TLAPS, SequenceTheorems

Inspecting == {"lstat", "readdir", "recheck", "ancestor", "missing", "missingParent"}
Making == {"mkdir", "verify", "raced"}
Before == Inspecting \cup Making \cup {"open"}
Filing == {"stat", "write", "check"}
Unfiling == {"unfile", "unlink"}
Ending == {"cleanup", "rmdir", "done"}
Errors == {"GECLI_INIT_TARGET_CHANGED", "GECLI_INIT_TARGET_NOT_DIRECTORY", "GECLI_INIT_TARGET_ACCESS",
           "GECLI_INIT_TARGET_NOT_EMPTY", "GECLI_INIT_PARENT_NOT_DIRECTORY", "GECLI_INIT_CREATE_DIRECTORY",
           "GECLI_INIT_CREATE_FILE", "GECLI_INIT_EXCLUSIVE_CREATE", "GECLI_INIT_WRITE_FILE",
           "GECLI_INIT_TARGET_SYMLINK"}

Actors == Processes \cup {User}
Objects == {Nothing, Other} \cup (Actors \X Paths)
Ours(p, path) == <<path, Dir(p, path)>>
CreatedBy(p) == {<< >>, <<Ours(p, Parent)>>, <<Ours(p, Target)>>, <<Ours(p, Parent), Ours(p, Target)>>}
In(list, entry) == \E i \in DOMAIN list : list[i] = entry
Owns(p, path) == In(created[p], Ours(p, path))

Types ==
    /\ at \in [Paths -> Objects]
    /\ \A path \in Paths : at[path] \in {Nothing, Other} \cup {Dir(actor, path) : actor \in Actors}
    /\ file \in [by : Actors \cup {Nothing}, content : {"none", "empty", "partial", "whole"}]
    /\ file.by = Nothing => file = NoFile
    /\ foreign \in BOOLEAN
    /\ stage \in [Processes -> Before \cup Filing \cup Unfiling \cup Ending]
    /\ phase \in [Processes -> {1, 2}]
    /\ dryRun \in [Processes -> BOOLEAN]
    /\ before \in [Processes -> Objects]
    /\ sawEntries \in [Processes -> BOOLEAN]
    /\ missing \in [Processes -> {<< >>, <<Target>>, <<Parent, Target>>}]
    /\ DOMAIN created = Processes /\ \A p \in Processes : created[p] \in CreatedBy(p)
    /\ created = [p \in Processes |-> created[p]]
    /\ directory \in [Processes -> Objects]
    /\ identified \in [Processes -> BOOLEAN]
    /\ result \in [Processes -> Errors \cup {"none", "dry", "created"}]
    /\ faults \in Nat
    /\ acted \in BOOLEAN

\* The target lies in the parent, and entries lie in the target.
Nested ==
    /\ at[Target] # Nothing => IsDir(at[Parent])
    /\ HasEntries => IsDir(at[Target])

\* How far p is: what it has still to make and has made, and what it reports.
Local(p) ==
    /\ stage[p] \in Inspecting /\ phase[p] = 1 => created[p] = << >> /\ missing[p] = << >>
    /\ stage[p] \in {"ancestor", "missing", "missingParent"} \cup Making => phase[p] = 1
    /\ stage[p] \in {"verify", "raced"} => missing[p] # << >>
    /\ stage[p] \in Making => /\ missing[p] = <<Parent, Target>> => created[p] = << >>
                              /\ missing[p] = <<Target>> => created[p] \in {<< >>, <<Ours(p, Parent)>>}
    /\ dryRun[p] => /\ stage[p] \in {"lstat", "readdir", "recheck", "ancestor", "cleanup", "done"}
                    /\ stage[p] \in Inspecting => phase[p] = 1
                    /\ created[p] = << >>
    /\ stage[p] \in Before \cup Filing => result[p] = "none"
    /\ stage[p] \in Unfiling \cup {"cleanup", "rmdir"} => result[p] \in Errors
    /\ stage[p] = "done" => result[p] # "none"
    /\ result[p] = "dry" => dryRun[p]
    /\ stage[p] \in {"write", "check", "unfile"} => identified[p]
    /\ stage[p] = "rmdir" => created[p] # << >>
    /\ stage[p] = "done" /\ result[p] \notin {"created", "dry"} => created[p] = << >>

\* What of the file system is p's: its list names directories of its own, and
\* all of them until it cleans up.
Holding(p) ==
    /\ stage[p] \in Filing \cup Unfiling \/ result[p] = "created" => file.by = p
    /\ stage[p] = "check" \/ result[p] = "created" => file.content = "whole"
    /\ stage[p] \in Before => file.by # p
    /\ result[p] = "created" => at[Target] = directory[p]
    /\ stage[p] = "verify" => at[Head(missing[p])] = Dir(p, Head(missing[p]))
    /\ \A path \in Paths : Owns(p, path) => at[path] = Dir(p, path)
    /\ \A path \in Paths : at[path] = Dir(p, path) /\ stage[p] \notin Ending =>
          Owns(p, path) \/ (stage[p] = "verify" /\ Head(missing[p]) = path)
    /\ dryRun[p] => file.by # p /\ \A path \in Paths : at[path] # Dir(p, path)

\* What p has still to clean up, the target before the parent.
Cleaning(p) ==
    p \notin hit /\ stage[p] \in Ending /\ result[p] \notin {"created", "dry"} =>
        /\ file.by = p => at[Target] # directory[p]
        /\ at[Parent] = Dir(p, Parent) /\ Owns(p, Target) => Owns(p, Parent)
        /\ OnlyOne(p) => \A path \in Paths : at[path] = Dir(p, path) => Owns(p, path) \/ ~ IsEmpty(path)

Mine(p) == Local(p) /\ Holding(p) /\ Cleaning(p)

InitInv == Types /\ Nested /\ \A p \in Processes : Mine(p)

\* Nobody but the invocations acts, no call fails, and there is nothing in
\* their way.
Free == faults = 0 /\ ~ acted /\ ~ foreign /\ at[Parent] # Other /\ at[Target] # Other

\* Then, while there is no graph.json, nobody fails and nothing is removed:
\* what p has seen to be there still is.
Smooth(p) ==
    /\ stage[p] \in Before \cup {"done"}
    /\ stage[p] = "done" => result[p] = "dry"
    /\ stage[p] \in {"readdir", "recheck"} => IsDir(at[Target]) /\ before[p] = at[Target]
    /\ stage[p] = "recheck" => ~ sawEntries[p]
    /\ stage[p] = "lstat" /\ phase[p] = 2 => IsDir(at[Target])
    /\ stage[p] = "open" => IsDir(at[Target]) /\ directory[p] = at[Target]
    /\ stage[p] \in Making => /\ missing[p] # <<Parent, Target>> => IsDir(at[Parent])
                              /\ missing[p] = << >> => IsDir(at[Target])
    /\ stage[p] = "raced" => IsDir(at[Head(missing[p])])

\* And the invocation that made graph.json finds its directory as it was.
Wins(p) == file.by = p /\ at[Target] = directory[p] /\ (stage[p] \in Filing \/ result[p] = "created")

FreeInv == Free => \/ file = NoFile /\ \A p \in Processes : Smooth(p)
                   \/ \E p \in Processes : Wins(p)

-----------------------------------------------------------------------------

\* Nothing, Other and the directories of the actors differ from each other.
LEMMA Identities ==
    /\ \A a, b \in Actors, path, path2 \in Paths : Dir(a, path) = Dir(b, path2) => a = b /\ path = path2
    /\ \A a \in Actors, path \in Paths : Dir(a, path) # Nothing /\ Dir(a, path) # Other /\ IsDir(Dir(a, path))
    /\ Nothing # Other /\ Nothing \notin Actors /\ User \notin Processes
    /\ Parent \in Paths /\ Target \in Paths /\ Parent # Target
    /\ \A path \in Paths : path = Parent \/ path = Target
  BY InitAssumption DEF Dir, IsDir, Actors, Paths, Parent, Target

\* What another step may do that the invariant of q does not mind.
Unharmed(q) ==
    /\ \A path \in Paths : at'[path] = Dir(q, path) <=> at[path] = Dir(q, path)
    /\ file'.by = q <=> file.by = q
    /\ file.by = q => file' = file /\ at'[Target] = at[Target]
    /\ \/ ~ OnlyOne(q)'
       \/ OnlyOne(q) /\ \A path \in Paths : IsEmpty(path)' => IsEmpty(path)

Same(q) ==
    /\ stage'[q] = stage[q] /\ phase'[q] = phase[q] /\ dryRun'[q] = dryRun[q] /\ missing'[q] = missing[q]
    /\ created'[q] = created[q] /\ directory'[q] = directory[q] /\ identified'[q] = identified[q]
    /\ result'[q] = result[q] /\ (q \in hit' <=> q \in hit)

LEMMA UnharmedKeeps ==
    ASSUME NEW q \in Processes, Types, Mine(q), Same(q), Unharmed(q)
    PROVE  Mine(q)'
<1>1. Local(q)'
  BY DEF Mine, Same, Local
<1>2. \A path \in Paths : Owns(q, path)' <=> Owns(q, path)
  BY DEF Same, Owns
<1>3. missing[q] # << >> => Head(missing[q]) \in Paths
  BY DEF Types, Paths, Parent, Target
<1>4. Holding(q)'
  <2>1. Local(q) /\ Holding(q)
    BY DEF Mine
  <2>2. stage[q] = "verify" => Head(missing[q]) \in Paths
    BY <1>3, <2>1 DEF Local
  <2>3. result[q] = "created" => file.by = q
    BY <2>1 DEF Holding
  <2>4. stage'[q] = "verify" => at'[Head(missing'[q])] = Dir(q, Head(missing'[q]))
    <3> DEFINE path == Head(missing[q])
    <3>1. stage[q] = "verify" => at[path] = Dir(q, path) /\ path \in Paths
      BY <2>1, <2>2 DEF Holding
    <3>2. Head(missing'[q]) = path
      BY DEF Same
    <3> HIDE DEF path
    <3> QED
      BY <3>1, <3>2 DEF Same, Unharmed
  <2>5. \A path \in Paths : Owns(q, path)' => at'[path] = Dir(q, path)
    BY <1>2, <2>1 DEF Unharmed, Holding
  <2>6. \A path \in Paths : at'[path] = Dir(q, path) /\ stage'[q] \notin Ending =>
          Owns(q, path)' \/ (stage'[q] = "verify" /\ Head(missing'[q]) = path)
    BY <1>2, <2>1 DEF Same, Unharmed, Holding
  <2>7. dryRun'[q] => file'.by # q /\ \A path \in Paths : at'[path] # Dir(q, path)
    BY <2>1 DEF Same, Unharmed, Holding
  <2>8. /\ stage'[q] \in Filing \cup Unfiling \/ result'[q] = "created" => file'.by = q
        /\ stage'[q] = "check" \/ result'[q] = "created" => file'.content = "whole"
        /\ stage'[q] \in Before => file'.by # q
        /\ result'[q] = "created" => at'[Target] = directory'[q]
    BY <2>1, <2>3 DEF Same, Unharmed, Holding, Filing
  <2> QED
    BY <2>4, <2>5, <2>6, <2>7, <2>8 DEF Holding
<1>5. Cleaning(q)'
  BY <1>2, Identities DEF Mine, Same, Unharmed, Cleaning
<1> QED
  BY <1>1, <1>4, <1>5 DEF Mine

\* A step of p that leaves what is another's alone.
LEMMA StepKeeps ==
    ASSUME InitInv, NEW p \in Processes, Types', Nested', Mine(p)',
           \A q \in Processes \ {p} : Same(q),
           ~ (stage'[p] = "lstat" /\ phase'[p] = 1),
           \A q \in Processes \ {p} :
               /\ \A path \in Paths : at'[path] = Dir(q, path) <=> at[path] = Dir(q, path)
               /\ file'.by = q <=> file.by = q
               /\ file.by = q => file' = file /\ at'[Target] = at[Target]
    PROVE  InitInv'
<1>1. ASSUME NEW q \in Processes \ {p} PROVE Mine(q)'
  <2>1. ~ OnlyOne(q)'
    BY DEF OnlyOne
  <2>2. Unharmed(q) /\ Same(q)
    BY <2>1 DEF Unharmed
  <2> QED
    BY <2>2, UnharmedKeeps DEF InitInv
<1> QED
  BY <1>1 DEF InitInv

\* A step of p before it opens its file: it goes on or fails.
Moves(p) ==
    /\ UNCHANGED <<fs, created, dryRun>>
    /\ \A q \in Processes \ {p} : Same(q)
    /\ stage[p] \in Before /\ (stage[p] = "verify" => p \in hit')
    /\ p \in hit => p \in hit'
    /\ \/ stage'[p] = "cleanup" /\ result'[p] \in Errors
       \/ stage'[p] \in Before \ {"verify"} /\ stage[p] # "verify" /\ result'[p] = result[p]
       \/ stage'[p] = "done" /\ result'[p] = "dry" /\ dryRun[p] /\ stage[p] # "verify"
    /\ ~ (stage'[p] = "lstat" /\ phase'[p] = 1)

LEMMA MovesKeeps ==
    ASSUME InitInv, NEW p \in Processes, Types', Local(p)', Moves(p)
    PROVE  InitInv'
<1>1. Types /\ Nested /\ Local(p) /\ Holding(p)
  BY DEF InitInv, Mine
<1>2. at' = at /\ file' = file /\ foreign' = foreign /\ created' = created /\ dryRun' = dryRun
  BY DEF Moves, fs
<1>3. stage[p] \in Before /\ result[p] = "none" /\ file.by # p
  BY <1>1 DEF Moves, Local, Holding
<1>4. \A path \in Paths : Owns(p, path)' <=> Owns(p, path)
  BY <1>2 DEF Owns
<1>5. /\ stage'[p] \notin Filing \cup Unfiling /\ stage'[p] # "verify"
      /\ result'[p] # "created"
  BY <1>3 DEF Moves, Filing, Unfiling, Before, Inspecting, Making, Errors
<1>6. Holding(p)'
  <2>1. stage[p] \notin Ending
    BY <1>3 DEF Before, Inspecting, Making, Ending
  <2>2. \A path \in Paths : at'[path] = Dir(p, path) /\ stage'[p] \notin Ending => Owns(p, path)'
    BY <1>1, <1>2, <1>4, <2>1 DEF Moves, Holding, Ending
  <2>3. \A path \in Paths : Owns(p, path)' => at'[path] = Dir(p, path)
    BY <1>1, <1>2, <1>4 DEF Holding
  <2>4. dryRun'[p] => file'.by # p /\ \A path \in Paths : at'[path] # Dir(p, path)
    BY <1>1, <1>2 DEF Holding
  <2>5. stage'[p] # "check"
    BY <1>5 DEF Filing
  <2> QED
    BY <1>2, <1>3, <1>5, <2>2, <2>3, <2>4, <2>5 DEF Holding
<1>7. Cleaning(p)'
  <2>1. SUFFICES ASSUME p \notin hit', stage'[p] \in Ending, result'[p] \notin {"created", "dry"}
                 PROVE  \A path \in Paths : at[path] = Dir(p, path) => Owns(p, path)
    BY <1>2, <1>3, <1>4, Identities DEF Cleaning
  <2>2. stage[p] \notin Ending /\ stage[p] # "verify"
    BY <1>3, <2>1 DEF Moves, Before, Inspecting, Making, Ending
  <2> QED
    BY <1>1, <2>2 DEF Holding
<1>8. Nested'
  BY <1>1, <1>2 DEF Nested, IsDir, HasEntries
<1> QED
  BY <1>2, <1>6, <1>7, <1>8, StepKeeps DEF Mine, Moves

\* Where Go, Abort and Report leave the invocations.
LEMMA StageFacts ==
    ASSUME Types, NEW p \in Processes, NEW s, NEW code
    PROVE  /\ Go(p, s) => stage'[p] = s /\ result' = result
           /\ Abort(p, code) => stage'[p] = "cleanup" /\ result'[p] = code
           /\ Report(p, code) => stage'[p] = "done" /\ result'[p] = code
           /\ Go(p, s) \/ Abort(p, code) \/ Report(p, code) =>
                 \A q \in Processes \ {p} : stage'[q] = stage[q] /\ result'[q] = result[q]
  BY DEF Types, Go, Abort, Report

LEMMA TargetFacts == Types => at[Target] \in Objects /\ at[Parent] \in Objects
  BY Identities DEF Types

LEMMA StageTypes ==
    ASSUME Types, NEW p \in Processes, NEW s, NEW code
    PROVE  /\ Go(p, s) /\ s \in Before \cup Filing \cup Unfiling \cup Ending =>
                 /\ stage' \in [Processes -> Before \cup Filing \cup Unfiling \cup Ending]
                 /\ result' \in [Processes -> Errors \cup {"none", "dry", "created"}]
           /\ Abort(p, code) /\ code \in Errors =>
                 /\ stage' \in [Processes -> Before \cup Filing \cup Unfiling \cup Ending]
                 /\ result' \in [Processes -> Errors \cup {"none", "dry", "created"}]
           /\ Report(p, code) /\ code \in {"dry", "created"} =>
                 /\ stage' \in [Processes -> Before \cup Filing \cup Unfiling \cup Ending]
                 /\ result' \in [Processes -> Errors \cup {"none", "dry", "created"}]
<1> DEFINE Stages == Before \cup Filing \cup Unfiling \cup Ending
           Results == Errors \cup {"none", "dry", "created"}
<1>1. "cleanup" \in Stages /\ "done" \in Stages
  BY DEF Ending
<1>2. stage \in [Processes -> Stages] /\ result \in [Processes -> Results]
  BY DEF Types
<1>3. code \in Errors \/ code \in {"dry", "created"} => code \in Results
  OBVIOUS
<1>4. s \in Before \cup Filing \cup Unfiling \cup Ending <=> s \in Stages
  OBVIOUS
<1> SUFFICES ASSUME \/ Go(p, s) /\ s \in Stages
                    \/ Abort(p, code) /\ code \in Results
                    \/ Report(p, code) /\ code \in Results
             PROVE  stage' \in [Processes -> Stages] /\ result' \in [Processes -> Results]
  BY <1>3, <1>4
<1> HIDE DEF Stages, Results
<1> QED
  BY <1>1, <1>2 DEF Go, Abort, Report

LEMMA LstatKeeps == ASSUME InitInv, NEW p \in Processes, Lstat(p) PROVE InitInv'
<1> USE DEF InitInv
<1>1. /\ stage[p] = "lstat"
      /\ UNCHANGED <<fs, phase, sawEntries, missing, created, directory, identified, dryRun, hit, faults, acted>>
      /\ before' = [before EXCEPT ![p] = at[Target]]
  BY DEF Lstat, Others
<1>2. \/ phase[p] = 1 /\ Go(p, "ancestor")
      \/ Go(p, "readdir")
      \/ \E code \in {"GECLI_INIT_TARGET_ACCESS", "GECLI_INIT_TARGET_CHANGED", "GECLI_INIT_TARGET_SYMLINK",
                     "GECLI_INIT_TARGET_NOT_DIRECTORY"} : Abort(p, code)
  BY DEF Lstat
<1>3. \A q \in Processes \ {p} : stage'[q] = stage[q] /\ result'[q] = result[q]
  BY <1>2, StageFacts
<1>4. \/ stage'[p] \in {"ancestor", "readdir"} /\ result'[p] = result[p] /\ (stage'[p] = "ancestor" => phase[p] = 1)
      \/ stage'[p] = "cleanup" /\ result'[p] \in Errors
  BY <1>2, StageFacts DEF Errors
<1>5. Types'
  <2>1. /\ stage' \in [Processes -> Before \cup Filing \cup Unfiling \cup Ending]
        /\ result' \in [Processes -> Errors \cup {"none", "dry", "created"}]
    BY <1>2, StageTypes DEF Errors, Before, Inspecting
  <2> QED
    BY <1>1, <2>1, TargetFacts DEF Types, fs
<1>6. Local(p)'
  BY <1>1, <1>4 DEF Mine, Local, Before, Inspecting, Making, Filing, Unfiling, Errors
<1>7. Moves(p)
  BY <1>1, <1>3, <1>4 DEF Moves, Same, Before, Inspecting, Making
<1> QED
  BY <1>5, <1>6, <1>7, MovesKeeps

LEMMA ReadEntriesKeeps == ASSUME InitInv, NEW p \in Processes, ReadEntries(p) PROVE InitInv'
<1> USE DEF InitInv
<1>1. /\ stage[p] = "readdir"
      /\ UNCHANGED <<fs, phase, before, missing, created, directory, identified, dryRun, hit, faults, acted>>
      /\ sawEntries' = [sawEntries EXCEPT ![p] = HasEntries]
  BY DEF ReadEntries, Others
<1>2. Go(p, "recheck") \/ Abort(p, "GECLI_INIT_TARGET_ACCESS")
  BY DEF ReadEntries
<1>3. \A q \in Processes \ {p} : stage'[q] = stage[q] /\ result'[q] = result[q]
  BY <1>2, StageFacts
<1>4. \/ stage'[p] = "recheck" /\ result'[p] = result[p]
      \/ stage'[p] = "cleanup" /\ result'[p] \in Errors
  BY <1>2, StageFacts DEF Errors
<1>5. Types'
  <2>1. /\ stage' \in [Processes -> Before \cup Filing \cup Unfiling \cup Ending]
        /\ result' \in [Processes -> Errors \cup {"none", "dry", "created"}]
    BY <1>2, StageTypes DEF Errors, Before, Inspecting
  <2>2. HasEntries \in BOOLEAN
    BY DEF HasEntries, Types
  <2>3. sawEntries' \in [Processes -> BOOLEAN]
    BY <1>1, <2>2 DEF Types
  <2> QED
    BY <1>1, <2>1, <2>3, Identities DEF Types, fs
<1>6. Local(p)'
  BY <1>1, <1>4 DEF Mine, Local, Before, Inspecting, Making, Filing, Unfiling, Errors
<1>7. Moves(p)
  BY <1>1, <1>3, <1>4 DEF Moves, Same, Before, Inspecting, Making
<1> QED
  BY <1>5, <1>6, <1>7, MovesKeeps

LEMMA AncestorKeeps == ASSUME InitInv, NEW p \in Processes, Ancestor(p) PROVE InitInv'
<1> USE DEF InitInv
<1>1. /\ stage[p] = "ancestor"
      /\ UNCHANGED <<fs, phase, before, sawEntries, missing, created, directory, identified, dryRun, hit, faults, acted>>
  BY DEF Ancestor, Others
<1>2. \/ Abort(p, "GECLI_INIT_PARENT_NOT_DIRECTORY")
      \/ dryRun[p] /\ Report(p, "dry")
      \/ ~ dryRun[p] /\ Go(p, "missing")
  BY DEF Ancestor
<1>3. \A q \in Processes \ {p} : stage'[q] = stage[q] /\ result'[q] = result[q]
  BY <1>2, StageFacts
<1>4. \/ stage'[p] = "missing" /\ result'[p] = result[p] /\ ~ dryRun[p]
      \/ stage'[p] = "cleanup" /\ result'[p] \in Errors
      \/ stage'[p] = "done" /\ result'[p] = "dry" /\ dryRun[p]
  BY <1>2, StageFacts DEF Errors
<1>5. Types'
  <2>1. /\ stage' \in [Processes -> Before \cup Filing \cup Unfiling \cup Ending]
        /\ result' \in [Processes -> Errors \cup {"none", "dry", "created"}]
    BY <1>2, StageTypes DEF Errors, Before, Inspecting
  <2> QED
    BY <1>1, <2>1 DEF Types, fs
<1>6. Local(p)'
  BY <1>1, <1>4 DEF Mine, Local, Before, Inspecting, Making, Filing, Unfiling, Errors
<1>7. Moves(p)
  BY <1>1, <1>3, <1>4 DEF Moves, Same, Before, Inspecting, Making
<1> QED
  BY <1>5, <1>6, <1>7, MovesKeeps

LEMMA RecheckKeeps == ASSUME InitInv, NEW p \in Processes, Recheck(p) PROVE InitInv'
<1> USE DEF InitInv
<1>1. /\ stage[p] = "recheck"
      /\ UNCHANGED <<fs, before, sawEntries, missing, created, identified, dryRun, hit, faults, acted>>
  BY DEF Recheck, Others
<1>2. \/ /\ \E code \in {"GECLI_INIT_TARGET_ACCESS", "GECLI_INIT_TARGET_CHANGED", "GECLI_INIT_TARGET_NOT_EMPTY"} :
               Abort(p, code)
         /\ UNCHANGED <<phase, directory>>
      \/ /\ dryRun[p] /\ Report(p, "dry")
         /\ phase' = [phase EXCEPT ![p] = 2] /\ UNCHANGED directory
      \/ /\ ~ dryRun[p] /\ Go(p, "lstat")
         /\ phase' = [phase EXCEPT ![p] = 2] /\ UNCHANGED directory
      \/ /\ phase[p] = 2 /\ Go(p, "open")
         /\ directory' = [directory EXCEPT ![p] = at[Target]] /\ UNCHANGED phase
  BY DEF Recheck
<1>3. \A q \in Processes \ {p} : /\ stage'[q] = stage[q] /\ result'[q] = result[q]
                                 /\ phase'[q] = phase[q] /\ directory'[q] = directory[q]
  <2>1. \A q \in Processes \ {p} : stage'[q] = stage[q] /\ result'[q] = result[q]
    BY <1>2, StageFacts
  <2> QED
    BY <1>2, <2>1 DEF Types
<1>4. \/ stage'[p] = "lstat" /\ phase'[p] = 2 /\ result'[p] = result[p] /\ ~ dryRun[p]
      \/ stage'[p] = "open" /\ phase[p] = 2 /\ phase'[p] = 2 /\ result'[p] = result[p]
      \/ stage'[p] = "cleanup" /\ result'[p] \in Errors /\ phase'[p] = phase[p]
      \/ stage'[p] = "done" /\ result'[p] = "dry" /\ dryRun[p]
  <2>1. phase' = [phase EXCEPT ![p] = 2] => phase'[p] = 2
    BY DEF Types
  <2>2. \A code \in {"GECLI_INIT_TARGET_ACCESS", "GECLI_INIT_TARGET_CHANGED", "GECLI_INIT_TARGET_NOT_EMPTY"} :
          code \in Errors
    BY DEF Errors
  <2> QED
    BY <1>2, <2>1, <2>2, StageFacts
<1>5. Types'
  <2>1. /\ stage' \in [Processes -> Before \cup Filing \cup Unfiling \cup Ending]
        /\ result' \in [Processes -> Errors \cup {"none", "dry", "created"}]
    BY <1>2, StageTypes DEF Errors, Before, Inspecting
  <2>2. /\ phase' \in [Processes -> {1, 2}]
        /\ directory' \in [Processes -> Objects]
    BY <1>2, TargetFacts DEF Types
  <2> QED
    BY <1>1, <2>1, <2>2 DEF Types, fs
<1>6. Local(p)'
  BY <1>1, <1>4 DEF Mine, Local, Before, Inspecting, Making, Filing, Unfiling, Errors
<1>7. Moves(p)
  BY <1>1, <1>3, <1>4 DEF Moves, Same, Before, Inspecting, Making
<1> QED
  BY <1>5, <1>6, <1>7, MovesKeeps

LEMMA MissingFacts ==
    /\ << >> # <<Target>> /\ << >> # <<Parent, Target>> /\ <<Target>> # <<Parent, Target>>
    /\ Head(<<Target>>) = Target /\ Tail(<<Target>>) = << >>
    /\ Head(<<Parent, Target>>) = Parent /\ Tail(<<Parent, Target>>) = <<Target>>
  OBVIOUS

LEMMA FindTargetKeeps == ASSUME InitInv, NEW p \in Processes, FindTarget(p) PROVE InitInv'
<1> USE DEF InitInv
<1>1. /\ stage[p] = "missing"
      /\ UNCHANGED <<fs, before, sawEntries, missing, created, directory, identified, dryRun, hit, faults, acted>>
  BY DEF FindTarget, Others
<1>2. \/ /\ \E code \in {"GECLI_INIT_TARGET_SYMLINK", "GECLI_INIT_PARENT_NOT_DIRECTORY",
                       "GECLI_INIT_CREATE_DIRECTORY"} : Abort(p, code)
         /\ UNCHANGED phase
      \/ Go(p, "lstat") /\ phase' = [phase EXCEPT ![p] = 2]
      \/ Go(p, "missingParent") /\ UNCHANGED phase
  BY DEF FindTarget, SecondInspection
<1>3. \A q \in Processes \ {p} : stage'[q] = stage[q] /\ result'[q] = result[q] /\ phase'[q] = phase[q]
  <2>1. \A q \in Processes \ {p} : stage'[q] = stage[q] /\ result'[q] = result[q]
    BY <1>2, StageFacts
  <2> QED
    BY <1>2, <2>1 DEF Types
<1>4. \/ stage'[p] = "lstat" /\ phase'[p] = 2 /\ result'[p] = result[p]
      \/ stage'[p] = "missingParent" /\ phase'[p] = phase[p] /\ result'[p] = result[p]
      \/ stage'[p] = "cleanup" /\ result'[p] \in Errors /\ phase'[p] = phase[p]
  <2>1. phase' = [phase EXCEPT ![p] = 2] => phase'[p] = 2
    BY DEF Types
  <2>2. {"GECLI_INIT_TARGET_SYMLINK", "GECLI_INIT_PARENT_NOT_DIRECTORY",
         "GECLI_INIT_CREATE_DIRECTORY"} \subseteq Errors
    BY DEF Errors
  <2> QED
    BY <1>2, <2>1, <2>2, StageFacts
<1>5. Types'
  <2>1. /\ stage' \in [Processes -> Before \cup Filing \cup Unfiling \cup Ending]
        /\ result' \in [Processes -> Errors \cup {"none", "dry", "created"}]
    BY <1>2, StageTypes DEF Errors, Before, Inspecting
  <2>2. phase' \in [Processes -> {1, 2}]
    BY <1>2 DEF Types
  <2> QED
    BY <1>1, <2>1, <2>2 DEF Types, fs
<1>6. Local(p)'
  BY <1>1, <1>4 DEF Mine, Local, Before, Inspecting, Making, Filing, Unfiling, Errors
<1>7. Moves(p)
  BY <1>1, <1>3, <1>4 DEF Moves, Same, Before, Inspecting, Making
<1> QED
  BY <1>5, <1>6, <1>7, MovesKeeps

LEMMA FindParentKeeps == ASSUME InitInv, NEW p \in Processes, FindParent(p) PROVE InitInv'
<1> USE DEF InitInv
<1>1. /\ stage[p] = "missingParent"
      /\ UNCHANGED <<fs, phase, before, sawEntries, created, directory, identified, dryRun, hit, faults, acted>>
  BY DEF FindParent, Others
<1>2. \/ Abort(p, "GECLI_INIT_PARENT_NOT_DIRECTORY") /\ UNCHANGED missing
      \/ /\ Go(p, "mkdir")
         /\ \E list \in {<<Target>>, <<Parent, Target>>} : missing' = [missing EXCEPT ![p] = list]
  BY DEF FindParent
<1>3. \A q \in Processes \ {p} : stage'[q] = stage[q] /\ result'[q] = result[q] /\ missing'[q] = missing[q]
  <2>1. \A q \in Processes \ {p} : stage'[q] = stage[q] /\ result'[q] = result[q]
    BY <1>2, StageFacts
  <2> QED
    BY <1>2, <2>1 DEF Types
<1>4. \/ stage'[p] = "mkdir" /\ result'[p] = result[p]
      \/ stage'[p] = "cleanup" /\ result'[p] \in Errors
  BY <1>2, StageFacts DEF Errors
<1>5. Types'
  <2>1. /\ stage' \in [Processes -> Before \cup Filing \cup Unfiling \cup Ending]
        /\ result' \in [Processes -> Errors \cup {"none", "dry", "created"}]
    BY <1>2, StageTypes DEF Errors, Before, Making
  <2>2. missing' \in [Processes -> {<< >>, <<Target>>, <<Parent, Target>>}]
    BY <1>2 DEF Types
  <2> QED
    BY <1>1, <2>1, <2>2 DEF Types, fs
<1>6. Local(p)'
  <2>1. Local(p)
    BY DEF Mine
  <2>2. created[p] = << >> /\ ~ dryRun[p] /\ phase[p] = 1 /\ result[p] = "none"
    BY <1>1, <2>1 DEF Local, Inspecting, Before
  <2> QED
    BY <1>1, <1>4, <2>1, <2>2 DEF Local, Before, Inspecting, Making, Filing, Unfiling, Errors
<1>7. Moves(p)
  BY <1>1, <1>3, <1>4 DEF Moves, Same, Before, Inspecting, Making
<1> QED
  BY <1>5, <1>6, <1>7, MovesKeeps

LEMMA AllMadeKeeps == ASSUME InitInv, NEW p \in Processes, AllMade(p) PROVE InitInv'
<1> USE DEF InitInv
<1>1. /\ stage[p] = "mkdir"
      /\ UNCHANGED <<fs, before, sawEntries, missing, created, directory, identified, dryRun, hit, faults, acted>>
      /\ Go(p, "lstat") /\ phase' = [phase EXCEPT ![p] = 2]
  BY DEF AllMade, Others, SecondInspection
<1>2. /\ stage'[p] = "lstat" /\ phase'[p] = 2 /\ result' = result
      /\ \A q \in Processes \ {p} : stage'[q] = stage[q] /\ phase'[q] = phase[q]
  BY <1>1, StageFacts DEF Types
<1>3. Types'
  <2>1. /\ stage' \in [Processes -> Before \cup Filing \cup Unfiling \cup Ending]
        /\ result' \in [Processes -> Errors \cup {"none", "dry", "created"}]
    BY <1>1, StageTypes DEF Before, Inspecting
  <2>2. phase' \in [Processes -> {1, 2}]
    BY <1>1 DEF Types
  <2> QED
    BY <1>1, <2>1, <2>2 DEF Types, fs
<1>4. Local(p)'
  BY <1>1, <1>2 DEF Mine, Local, Before, Inspecting, Making, Filing, Unfiling
<1>5. Moves(p)
  BY <1>1, <1>2 DEF Moves, Same, Before, Inspecting, Making
<1> QED
  BY <1>3, <1>4, <1>5, MovesKeeps

LEMMA RacedKeeps == ASSUME InitInv, NEW p \in Processes, Raced(p) PROVE InitInv'
<1> USE DEF InitInv
<1>1. /\ stage[p] = "raced"
      /\ UNCHANGED <<fs, phase, before, sawEntries, directory, identified, dryRun, hit, faults, acted>>
  BY DEF Raced, Others
<1>2. \/ /\ created' = [created EXCEPT ![p] = created[p]]
         /\ missing' = [missing EXCEPT ![p] = Tail(@)]
         /\ Go(p, "mkdir")
      \/ Abort(p, "GECLI_INIT_CREATE_DIRECTORY") /\ UNCHANGED <<created, missing>>
  BY DEF Raced, RacedCreated
<1>3. created' = created
  BY <1>2 DEF Types
<1>4. Local(p) /\ missing[p] \in {<<Target>>, <<Parent, Target>>} /\ result[p] = "none" /\ phase[p] = 1 /\ ~ dryRun[p]
  BY <1>1 DEF Mine, Local, Types, Making, Before
<1>5. \A q \in Processes \ {p} : stage'[q] = stage[q] /\ result'[q] = result[q] /\ missing'[q] = missing[q]
  <2>1. \A q \in Processes \ {p} : stage'[q] = stage[q] /\ result'[q] = result[q]
    BY <1>2, StageFacts
  <2> QED
    BY <1>2, <2>1 DEF Types
<1>6. \/ stage'[p] = "mkdir" /\ result'[p] = result[p] /\ missing'[p] = Tail(missing[p])
      \/ stage'[p] = "cleanup" /\ result'[p] \in Errors /\ missing' = missing
  <2>1. missing' = [missing EXCEPT ![p] = Tail(@)] => missing'[p] = Tail(missing[p])
    BY DEF Types
  <2>2. "GECLI_INIT_CREATE_DIRECTORY" \in Errors
    BY DEF Errors
  <2> QED
    BY <1>2, <2>1, <2>2, StageFacts
<1>7. Tail(missing[p]) \in {<< >>, <<Target>>}
  BY <1>4, MissingFacts
<1>8. Types'
  <2>1. /\ stage' \in [Processes -> Before \cup Filing \cup Unfiling \cup Ending]
        /\ result' \in [Processes -> Errors \cup {"none", "dry", "created"}]
    BY <1>2, StageTypes DEF Errors, Before, Making
  <2>2. missing' \in [Processes -> {<< >>, <<Target>>, <<Parent, Target>>}]
    BY <1>2, <1>7 DEF Types
  <2> QED
    BY <1>1, <1>3, <2>1, <2>2 DEF Types, fs
<1>9. Local(p)'
  <2>1. missing[p] = <<Target>> => Tail(missing[p]) = << >>
    BY MissingFacts
  <2>2. stage'[p] = "mkdir" => /\ missing'[p] # <<Parent, Target>>
                               /\ missing'[p] = <<Target>> => created[p] \in {<< >>, <<Ours(p, Parent)>>}
    <3>1. missing[p] = <<Parent, Target>> => created[p] = << >>
      BY <1>1, <1>4 DEF Local, Making
    <3> QED
      BY <1>4, <1>6, <1>7, <2>1, <3>1, MissingFacts
  <2> QED
    BY <1>1, <1>3, <1>4, <1>6, <2>2 DEF Local, Before, Inspecting, Making, Filing, Unfiling, Errors
<1>10. Moves(p)
  BY <1>1, <1>3, <1>5, <1>6 DEF Moves, Same, Before, Inspecting, Making
<1> QED
  BY <1>8, <1>9, <1>10, MovesKeeps

LEMMA CreatedFacts ==
    ASSUME NEW p \in Processes, NEW list \in CreatedBy(p), list # << >>
    PROVE  /\ Len(list) \in Nat /\ Len(list) > 0 /\ DOMAIN list = 1..Len(list)
           /\ SubSeq(list, 1, Len(list) - 1) \in CreatedBy(p)
           /\ \/ /\ list[Len(list)] = Ours(p, Target)
                 /\ SubSeq(list, 1, Len(list) - 1) \in {<< >>, <<Ours(p, Parent)>>}
                 /\ list = <<Ours(p, Parent), Ours(p, Target)>> => SubSeq(list, 1, Len(list) - 1) = <<Ours(p, Parent)>>
              \/ /\ list[Len(list)] = Ours(p, Parent) /\ list = <<Ours(p, Parent)>>
                 /\ SubSeq(list, 1, Len(list) - 1) = << >>
<1>1. CASE list = <<Ours(p, Parent)>>
  <2>1. Len(list) = 1 /\ list[1] = Ours(p, Parent)
    BY <1>1
  <2>2. SubSeq(list, 1, 0) = << >>
    BY <1>1
  <2> QED
    BY <1>1, <2>1, <2>2 DEF CreatedBy
<1>2. CASE list = <<Ours(p, Target)>>
  <2>1. Len(list) = 1 /\ list[1] = Ours(p, Target)
    BY <1>2
  <2>2. SubSeq(list, 1, 0) = << >>
    BY <1>2
  <2>3. list # <<Ours(p, Parent), Ours(p, Target)>>
    BY <1>2
  <2> QED
    BY <1>2, <2>1, <2>2, <2>3 DEF CreatedBy
<1>3. CASE list = <<Ours(p, Parent), Ours(p, Target)>>
  <2>1. Len(list) = 2 /\ list[2] = Ours(p, Target)
    BY <1>3
  <2>2. SubSeq(list, 1, 1) = <<Ours(p, Parent)>>
    <3> DEFINE a == Ours(p, Parent)
               b == Ours(p, Target)
               left == SubSeq(list, 1, 1)
    <3>1. list = <<a, b>>
      BY <1>3
    <3> HIDE DEF a, b
    <3>2. list \in Seq({a, b}) /\ Len(list) = 2 /\ list[1] = a
      BY <3>1
    <3>3. left \in Seq({a, b}) /\ Len(left) = 1 /\ left[1] = list[1]
      BY <3>2
    <3>4. <<a>> \in Seq({a, b}) /\ Len(<<a>>) = 1 /\ <<a>>[1] = a
      OBVIOUS
    <3> HIDE DEF left
    <3>5. \A i \in 1..Len(left) : left[i] = <<a>>[i]
      BY <3>2, <3>3, <3>4
    <3>6. left = <<a>>
      BY <3>3, <3>4, <3>5, SeqEqual
    <3> QED
      BY <3>6 DEF left, a
  <2> QED
    BY <1>3, <2>1, <2>2 DEF CreatedBy
<1> QED
  BY <1>1, <1>2, <1>3 DEF CreatedBy

LEMMA InFacts ==
    /\ \A e : ~ In(<< >>, e)
    /\ \A a, e : In(<<a>>, e) <=> e = a
    /\ \A a, b, e : In(<<a, b>>, e) <=> e = a \/ e = b
<1>1. \A e : ~ In(<< >>, e)
  BY DEF In
<1>2. ASSUME NEW a, NEW e PROVE In(<<a>>, e) <=> e = a
  <2>1. DOMAIN <<a>> = {1} /\ <<a>>[1] = a
    OBVIOUS
  <2> QED
    BY <2>1 DEF In
<1>3. ASSUME NEW a, NEW b, NEW e PROVE In(<<a, b>>, e) <=> e = a \/ e = b
  <2>1. DOMAIN <<a, b>> = {1, 2} /\ <<a, b>>[1] = a /\ <<a, b>>[2] = b
    OBVIOUS
  <2> QED
    BY <2>1 DEF In
<1> QED
  BY <1>1, <1>2, <1>3

\* What a list of p's directories names.
LEMMA OursFacts ==
    ASSUME NEW p \in Processes, NEW path \in Paths
    PROVE  /\ Ours(p, path) = Ours(p, Parent) <=> path = Parent
           /\ Ours(p, path) = Ours(p, Target) <=> path = Target
           /\ ~ In(<< >>, Ours(p, path))
           /\ In(<<Ours(p, Parent)>>, Ours(p, path)) <=> path = Parent
           /\ In(<<Ours(p, Target)>>, Ours(p, path)) <=> path = Target
           /\ In(<<Ours(p, Parent), Ours(p, Target)>>, Ours(p, path))
<1>1. /\ Ours(p, path) = Ours(p, Parent) <=> path = Parent
      /\ Ours(p, path) = Ours(p, Target) <=> path = Target
  BY DEF Ours
<1>2. path = Parent \/ path = Target
  BY Identities
<1> QED
  BY <1>1, <1>2, InFacts

LEMMA MkdirKeeps == ASSUME InitInv, NEW p \in Processes, Mkdir(p) PROVE InitInv'
<1> USE DEF InitInv
<1> DEFINE path == Head(missing[p])
<1>1. /\ stage[p] = "mkdir" /\ missing[p] # << >>
      /\ UNCHANGED <<file, foreign, phase, before, sawEntries, missing, created, directory, identified,
                     dryRun, hit, faults, acted>>
  BY DEF Mkdir, Others
<1>2. \/ /\ at[path] = Nothing /\ (path = Target => IsDir(at[Parent]))
         /\ at' = [at EXCEPT ![path] = Dir(p, path)]
         /\ Go(p, "verify")
      \/ Abort(p, "GECLI_INIT_CREATE_DIRECTORY") /\ UNCHANGED at
      \/ Go(p, "raced") /\ UNCHANGED at
  BY DEF Mkdir, CanMake
<1>3. Local(p) /\ Holding(p) /\ result[p] = "none" /\ phase[p] = 1 /\ ~ dryRun[p] /\ path \in Paths
  <2>1. path \in Paths
    BY <1>1, MissingFacts, Identities DEF Types
  <2> QED
    BY <1>1, <2>1 DEF Mine, Local, Types, Making, Before
<1>4. /\ stage' \in [Processes -> Before \cup Filing \cup Unfiling \cup Ending]
      /\ result' \in [Processes -> Errors \cup {"none", "dry", "created"}]
  BY <1>2, StageTypes DEF Errors, Before, Making
<1>5. \A q \in Processes \ {p} : stage'[q] = stage[q] /\ result'[q] = result[q]
  BY <1>2, StageFacts
<1>6. CASE UNCHANGED at
  <2>1. \/ stage'[p] \in {"raced", "verify"} /\ result'[p] = result[p]
        \/ stage'[p] = "cleanup" /\ result'[p] \in Errors
    BY <1>2, StageFacts DEF Errors
  <2>2. stage'[p] # "verify"
    <3>1. at' = [at EXCEPT ![path] = Dir(p, path)] => at'[path] = Dir(p, path)
      BY <1>3 DEF Types
    <3> QED
      BY <1>2, <1>3, <1>6, <3>1, StageFacts, Identities DEF Actors
  <2>3. Types'
    BY <1>1, <1>4, <1>6 DEF Types
  <2>4. Local(p)'
    BY <1>1, <1>3, <2>1, <2>2 DEF Local, Before, Inspecting, Making, Filing, Unfiling, Errors
  <2>5. Moves(p)
    BY <1>1, <1>5, <1>6, <2>1, <2>2 DEF Moves, Same, Before, Inspecting, Making, fs
  <2> QED
    BY <2>3, <2>4, <2>5, MovesKeeps
<1>7. CASE /\ at[path] = Nothing /\ (path = Target => IsDir(at[Parent]))
           /\ at' = [at EXCEPT ![path] = Dir(p, path)]
           /\ Go(p, "verify")
  <2>1. stage'[p] = "verify" /\ result' = result
    BY <1>7, StageFacts
  <2>2. path \in Paths /\ Dir(p, path) \in Objects
    BY <1>3 DEF Objects, Dir, Actors
  <2> HIDE DEF path
  <2>3. at'[path] = Dir(p, path) /\ \A other \in Paths \ {path} : at'[other] = at[other]
    BY <1>7, <2>2 DEF Types
  <2>4. Types'
    <3>1. at' \in [Paths -> Objects]
      BY <1>7, <2>2 DEF Types
    <3>2. \A x \in Paths : at'[x] \in {Nothing, Other} \cup {Dir(actor, x) : actor \in Actors}
      BY <2>3 DEF Types, Actors
    <3> QED
      BY <1>1, <1>4, <3>1, <3>2 DEF Types
  <2>5. IsDir(Dir(p, path))
    BY <2>2, Identities DEF Actors
  <2>6. Nested'
    <3>1. Nested /\ (HasEntries' <=> HasEntries)
      BY <1>1 DEF HasEntries
    <3>2. path = Target \/ path = Parent
      BY <2>2, Identities
    <3>3. Target # Parent /\ Target \in Paths /\ Parent \in Paths
      BY Identities
    <3> QED
      BY <1>7, <2>3, <2>5, <3>1, <3>2, <3>3 DEF Nested, IsDir
  <2>7. Local(p)'
    BY <1>1, <1>3, <2>1 DEF Local, Before, Inspecting, Making, Filing, Unfiling
  <2>8. path = Head(missing[p])
    BY DEF path
  <2>9. \A x \in Paths : Owns(p, x)' <=> Owns(p, x)
    BY <1>1 DEF Owns
  <2>10. \A x \in Paths : at[x] = Dir(p, x) => Owns(p, x)
    BY <1>1, <1>3 DEF Holding, Ending
  <2>11. file.by # p
    BY <1>1, <1>3 DEF Holding, Before, Making
  <2>12. Holding(p)'
    <3>1. \A x \in Paths : Owns(p, x) => at[x] = Dir(p, x) /\ x # path
      BY <1>3, <1>7, <2>2, Identities DEF Holding, Actors
    <3>2. \A x \in Paths : Owns(p, x)' => at'[x] = Dir(p, x)
      BY <2>3, <2>9, <3>1
    <3>3. \A x \in Paths : at'[x] = Dir(p, x) => Owns(p, x)' \/ Head(missing'[p]) = x
      BY <1>1, <2>3, <2>8, <2>9, <2>10
    <3>4. at'[Head(missing'[p])] = Dir(p, Head(missing'[p]))
      BY <1>1, <2>3, <2>8
    <3> QED
      BY <1>1, <1>3, <2>1, <2>11, <3>2, <3>3, <3>4 DEF Holding, Filing, Unfiling
  <2>13. Cleaning(p)'
    BY <2>1 DEF Cleaning, Ending
  <2>14. ASSUME NEW q \in Processes \ {p}
         PROVE  /\ \A x \in Paths : at'[x] = Dir(q, x) <=> at[x] = Dir(q, x)
                /\ file'.by = q <=> file.by = q
                /\ file.by = q => file' = file /\ at'[Target] = at[Target]
    <3>1. at'[path] # Dir(q, path) /\ at[path] # Dir(q, path)
      BY <1>7, <2>2, <2>3, Identities DEF Actors
    <3>2. file.by = q => IsDir(at[Target])
      <4>1. file.by = q => file # NoFile
        BY Identities DEF NoFile, Actors
      <4> QED
        BY <4>1 DEF Nested, HasEntries
    <3>3. file.by = q => path # Target
      BY <1>7, <3>2 DEF IsDir
    <3>4. Target \in Paths
      BY Identities
    <3> QED
      BY <1>1, <2>3, <3>1, <3>3, <3>4
  <2>15. \A q \in Processes \ {p} : Same(q)
    BY <1>1, <1>5 DEF Same
  <2> QED
    BY <2>1, <2>4, <2>6, <2>7, <2>12, <2>13, <2>14, <2>15, StepKeeps DEF Mine
<1> QED
  BY <1>2, <1>6, <1>7

\* A step of p that leaves the directories alone.
LEMMA FileKeeps ==
    ASSUME InitInv, NEW p \in Processes, Types', Local(p)',
           UNCHANGED <<at, foreign, created, dryRun>>,
           \A q \in Processes \ {p} : Same(q),
           ~ (stage'[p] = "lstat" /\ phase'[p] = 1),
           stage[p] # "verify", stage'[p] # "verify", stage[p] \in Ending => stage'[p] \in Ending,
           file' = file \/ (file.by \in {p, Nothing} /\ file'.by \in {p, Nothing}),
           file' # NoFile => IsDir(at[Target]),
           dryRun[p] => file' = file,
           stage'[p] \in Filing \cup Unfiling \/ result'[p] = "created" => file'.by = p,
           stage'[p] = "check" \/ result'[p] = "created" => file'.content = "whole",
           stage'[p] \in Before => file'.by # p,
           result'[p] = "created" => at[Target] = directory'[p],
           Cleaning(p)'
    PROVE  InitInv'
<1> USE DEF InitInv
<1>1. Holding(p)
  BY DEF Mine
<1>2. \A path \in Paths : Owns(p, path)' <=> Owns(p, path)
  BY DEF Owns
<1>3. Holding(p)'
  <2>1. \A path \in Paths : Owns(p, path)' => at'[path] = Dir(p, path)
    BY <1>1, <1>2 DEF Holding
  <2>2. \A path \in Paths : at'[path] = Dir(p, path) /\ stage'[p] \notin Ending => Owns(p, path)'
    BY <1>1, <1>2 DEF Holding
  <2>3. dryRun'[p] => file'.by # p /\ \A path \in Paths : at'[path] # Dir(p, path)
    BY <1>1 DEF Holding
  <2> QED
    BY <2>1, <2>2, <2>3 DEF Holding
<1>4. Nested'
  <2>1. Nested
    OBVIOUS
  <2>2. foreign => IsDir(at[Target])
    BY <2>1 DEF Nested, HasEntries
  <2> QED
    BY <2>1, <2>2 DEF Nested, HasEntries, IsDir
<1>5. ASSUME NEW q \in Processes \ {p}
      PROVE  /\ \A x \in Paths : at'[x] = Dir(q, x) <=> at[x] = Dir(q, x)
             /\ file'.by = q <=> file.by = q
             /\ file.by = q => file' = file /\ at'[Target] = at[Target]
  BY Identities DEF Actors
<1> QED
  BY <1>3, <1>4, <1>5, StepKeeps DEF Mine

\* p turns to its cleanup: all that is its own is on the list.
LEMMA StartsCleaning ==
    ASSUME InitInv, NEW p \in Processes, UNCHANGED <<at, created>>,
           stage[p] \notin Ending, stage[p] # "verify",
           file'.by = p => p \in hit' \/ at[Target] # directory'[p]
    PROVE  Cleaning(p)'
<1>1. \A path \in Paths : Owns(p, path)' <=> Owns(p, path)
  BY DEF Owns
<1>2. \A path \in Paths : at[path] = Dir(p, path) => Owns(p, path)
  BY DEF InitInv, Mine, Holding
<1> QED
  BY <1>1, <1>2, Identities DEF Cleaning

LEMMA OpenKeeps == ASSUME InitInv, NEW p \in Processes, Open(p) PROVE InitInv'
<1> USE DEF InitInv
<1>1. /\ stage[p] = "open"
      /\ UNCHANGED <<at, foreign, phase, before, sawEntries, missing, created, directory, identified,
                     dryRun, hit, faults, acted>>
  BY DEF Open, Others
<1>2. \/ (\E code \in {"GECLI_INIT_CREATE_FILE", "GECLI_INIT_EXCLUSIVE_CREATE"} : Abort(p, code)) /\ UNCHANGED file
      \/ /\ IsDir(at[Target]) /\ file = NoFile
         /\ file' = FileOf(p, "empty") /\ Go(p, "stat")
  BY DEF Open, MayCreate
<1>3. Local(p) /\ result[p] = "none" /\ ~ dryRun[p]
  BY <1>1 DEF Mine, Local, Before, Inspecting
<1>4. /\ stage' \in [Processes -> Before \cup Filing \cup Unfiling \cup Ending]
      /\ result' \in [Processes -> Errors \cup {"none", "dry", "created"}]
  BY <1>2, StageTypes DEF Errors, Filing
<1>5. \A q \in Processes \ {p} : Same(q)
  <2>1. \A q \in Processes \ {p} : stage'[q] = stage[q] /\ result'[q] = result[q]
    BY <1>2, StageFacts
  <2> QED
    BY <1>1, <2>1 DEF Same
<1>6. CASE (\E code \in {"GECLI_INIT_CREATE_FILE", "GECLI_INIT_EXCLUSIVE_CREATE"} : Abort(p, code)) /\ UNCHANGED file
  <2>1. stage'[p] = "cleanup" /\ result'[p] \in Errors
    BY <1>6, StageFacts DEF Errors
  <2>2. Types'
    BY <1>1, <1>4, <1>6 DEF Types
  <2>3. Local(p)'
    BY <1>1, <1>3, <2>1 DEF Local, Before, Inspecting, Making, Filing, Unfiling, Errors
  <2>4. Moves(p)
    BY <1>1, <1>5, <1>6, <2>1 DEF Moves, Before, fs
  <2> QED
    BY <2>2, <2>3, <2>4, MovesKeeps
<1>7. CASE IsDir(at[Target]) /\ file = NoFile /\ file' = FileOf(p, "empty") /\ Go(p, "stat")
  <2>1. stage'[p] = "stat" /\ result'[p] = "none"
    BY <1>3, <1>7, StageFacts
  <2>2. file'.by = p /\ file.by = Nothing /\ file' \in [by : Actors \cup {Nothing}, content : {"none", "empty", "partial", "whole"}]
    BY <1>7 DEF FileOf, NoFile, Actors
  <2>3. Types'
    BY <1>1, <1>4, <2>2, Identities DEF Types, Actors
  <2>4. Local(p)'
    BY <1>1, <1>3, <2>1 DEF Local, Before, Inspecting, Making, Filing, Unfiling
  <2>5. Cleaning(p)'
    BY <2>1 DEF Cleaning, Ending
  <2> QED
    BY <1>1, <1>3, <1>5, <1>7, <2>1, <2>2, <2>3, <2>4, <2>5, FileKeeps DEF Ending, Before, Inspecting, Making
<1> QED
  BY <1>2, <1>6, <1>7

\* A graph.json lies in a directory.
LEMMA FileInTarget == ASSUME InitInv PROVE file # NoFile => IsDir(at[Target])
  BY DEF InitInv, Nested, HasEntries

LEMMA StatFileKeeps == ASSUME InitInv, NEW p \in Processes, StatFile(p) PROVE InitInv'
<1> USE DEF InitInv
<1>1. /\ stage[p] = "stat" /\ identified' = [identified EXCEPT ![p] = TRUE] /\ Go(p, "write")
      /\ UNCHANGED <<at, file, foreign, phase, before, sawEntries, missing, created, directory, dryRun, hit, faults, acted>>
  BY DEF StatFile, Others, fs
<1>2. stage'[p] = "write" /\ result' = result /\ identified'[p] = TRUE
  BY <1>1, StageFacts DEF Types
<1>3. Local(p) /\ Holding(p) /\ result[p] = "none" /\ ~ dryRun[p] /\ file.by = p
  BY <1>1 DEF Mine, Local, Holding, Filing
<1>4. Types'
  <2>1. stage' \in [Processes -> Before \cup Filing \cup Unfiling \cup Ending]
    BY <1>1, StageTypes DEF Filing
  <2> QED
    BY <1>1, <1>2, <2>1 DEF Types
<1>5. \A q \in Processes \ {p} : Same(q)
  <2>1. \A q \in Processes \ {p} : stage'[q] = stage[q] /\ result'[q] = result[q]
    BY <1>1, StageFacts
  <2>2. \A q \in Processes \ {p} : identified'[q] = identified[q]
    BY <1>1
  <2> QED
    BY <1>1, <2>1, <2>2 DEF Same
<1>6. Local(p)'
  BY <1>1, <1>2, <1>3 DEF Local, Before, Inspecting, Making, Filing, Unfiling
<1>7. Cleaning(p)'
  BY <1>2 DEF Cleaning, Ending
<1>8. file' # NoFile => IsDir(at[Target])
  BY <1>1, FileInTarget
<1> QED
  BY <1>1, <1>2, <1>3, <1>4, <1>5, <1>6, <1>7, <1>8, FileKeeps DEF Ending, Before, Inspecting, Making

LEMMA WriteFileKeeps == ASSUME InitInv, NEW p \in Processes, WriteFile(p) PROVE InitInv'
<1> USE DEF InitInv
<1>1. /\ stage[p] = "write" /\ file' = [file EXCEPT !.content = "whole"] /\ Go(p, "check")
      /\ UNCHANGED <<at, foreign, phase, before, sawEntries, missing, created, directory, identified, dryRun, hit, faults, acted>>
  BY DEF WriteFile, Others
<1>2. stage'[p] = "check" /\ result' = result
  BY <1>1, StageFacts
<1>3. Local(p) /\ Holding(p) /\ result[p] = "none" /\ ~ dryRun[p] /\ file.by = p
  BY <1>1 DEF Mine, Local, Holding, Filing
<1>4. file'.by = p /\ file'.content = "whole" /\ file' \in [by : Actors \cup {Nothing}, content : {"none", "empty", "partial", "whole"}]
  BY <1>1, <1>3 DEF Types
<1>5. Types'
  <2>1. stage' \in [Processes -> Before \cup Filing \cup Unfiling \cup Ending]
    BY <1>1, StageTypes DEF Filing
  <2> QED
    BY <1>1, <1>2, <1>4, <2>1, Identities DEF Types, Actors
<1>6. \A q \in Processes \ {p} : Same(q)
  BY <1>1, <1>2, StageFacts DEF Same
<1>7. Local(p)'
  BY <1>1, <1>2, <1>3 DEF Local, Before, Inspecting, Making, Filing, Unfiling
<1>8. Cleaning(p)'
  BY <1>2 DEF Cleaning, Ending
<1>9. IsDir(at[Target])
  <2>1. file # NoFile
    BY <1>3, Identities DEF NoFile, Actors
  <2> QED
    BY <2>1, FileInTarget
<1> QED
  BY <1>1, <1>2, <1>3, <1>4, <1>5, <1>6, <1>7, <1>8, <1>9, FileKeeps DEF Ending, Before, Inspecting, Making

LEMMA CheckKeeps == ASSUME InitInv, NEW p \in Processes, Check(p) PROVE InitInv'
<1> USE DEF InitInv
<1>1. /\ stage[p] = "check"
      /\ UNCHANGED <<at, file, foreign, phase, before, sawEntries, missing, created, directory, identified,
                     dryRun, hit, faults, acted>>
  BY DEF Check, Others, fs
<1>2. \/ at[Target] = directory[p] /\ Report(p, "created")
      \/ /\ stage' = [stage EXCEPT ![p] = "unfile"]
         /\ result' = [result EXCEPT ![p] = "GECLI_INIT_TARGET_CHANGED"]
  BY DEF Check
<1>3. Local(p) /\ Holding(p) /\ ~ dryRun[p] /\ file.by = p /\ file.content = "whole" /\ identified[p]
  BY <1>1 DEF Mine, Local, Holding, Filing
<1>4. \/ at[Target] = directory[p] /\ stage'[p] = "done" /\ result'[p] = "created"
      \/ stage'[p] = "unfile" /\ result'[p] = "GECLI_INIT_TARGET_CHANGED"
  <2>1. Report(p, "created") => stage'[p] = "done" /\ result'[p] = "created"
    BY StageFacts
  <2> QED
    BY <1>2, <2>1 DEF Types
<1>5. Types'
  <2>1. /\ stage' \in [Processes -> Before \cup Filing \cup Unfiling \cup Ending]
        /\ result' \in [Processes -> Errors \cup {"none", "dry", "created"}]
    <3>1. "unfile" \in Unfiling /\ "GECLI_INIT_TARGET_CHANGED" \in Errors
      BY DEF Unfiling, Errors
    <3>2. CASE Report(p, "created")
      BY <3>2, StageTypes
    <3>3. CASE /\ stage' = [stage EXCEPT ![p] = "unfile"]
               /\ result' = [result EXCEPT ![p] = "GECLI_INIT_TARGET_CHANGED"]
      BY <3>1, <3>3 DEF Types
    <3> QED
      BY <1>2, <3>2, <3>3
  <2> QED
    BY <1>1, <2>1 DEF Types
<1>6. \A q \in Processes \ {p} : Same(q)
  <2>1. \A q \in Processes \ {p} : stage'[q] = stage[q] /\ result'[q] = result[q]
    <3>1. CASE Report(p, "created")
      BY <3>1, StageFacts
    <3>2. CASE /\ stage' = [stage EXCEPT ![p] = "unfile"]
               /\ result' = [result EXCEPT ![p] = "GECLI_INIT_TARGET_CHANGED"]
      BY <3>2 DEF Types
    <3> QED
      BY <1>2, <3>1, <3>2
  <2> QED
    BY <1>1, <2>1 DEF Same
<1>7. Local(p)'
  BY <1>1, <1>3, <1>4 DEF Local, Before, Inspecting, Making, Filing, Unfiling, Errors
<1>8. Cleaning(p)'
  BY <1>4 DEF Cleaning, Ending
<1>9. file' # NoFile => IsDir(at[Target])
  BY <1>1, FileInTarget
<1> QED
  BY <1>1, <1>3, <1>4, <1>5, <1>6, <1>7, <1>8, <1>9, FileKeeps DEF Ending, Before, Inspecting, Making

LEMMA CheckFileKeeps == ASSUME InitInv, NEW p \in Processes, CheckFile(p) PROVE InitInv'
<1> USE DEF InitInv
<1>1. /\ stage[p] = "unfile"
      /\ UNCHANGED <<at, file, foreign, phase, before, sawEntries, missing, created, directory, identified,
                     dryRun, hit, faults, acted>>
  BY DEF CheckFile, Others, fs
<1>2. Local(p) /\ Holding(p) /\ ~ dryRun[p] /\ file.by = p /\ identified[p] /\ result[p] \in Errors
  BY <1>1 DEF Mine, Local, Holding, Filing, Unfiling
<1>3. \/ Go(p, "unlink")
      \/ at[Target] # directory[p] /\ Go(p, "cleanup")
  BY <1>2 DEF CheckFile
<1>4. /\ \/ stage'[p] = "unlink"
         \/ at[Target] # directory[p] /\ stage'[p] = "cleanup"
      /\ result' = result
  BY <1>3, StageFacts
<1>5. Types'
  <2>1. /\ stage' \in [Processes -> Before \cup Filing \cup Unfiling \cup Ending]
        /\ result' \in [Processes -> Errors \cup {"none", "dry", "created"}]
    BY <1>3, StageTypes DEF Unfiling, Ending
  <2> QED
    BY <1>1, <2>1 DEF Types
<1>6. \A q \in Processes \ {p} : Same(q)
  BY <1>1, <1>3, <1>4, StageFacts DEF Same
<1>7. Local(p)'
  BY <1>1, <1>2, <1>4 DEF Local, Before, Inspecting, Making, Filing, Unfiling, Errors
<1>8. Cleaning(p)'
  <2>1. CASE stage'[p] = "unlink"
    BY <2>1 DEF Cleaning, Ending
  <2>2. CASE stage'[p] = "cleanup"
    BY <1>1, <1>4, <2>2, StartsCleaning DEF Ending
  <2> QED
    BY <1>4, <2>1, <2>2
<1>9. (file' # NoFile => IsDir(at[Target])) /\ result'[p] # "created"
  BY <1>1, <1>2, <1>4, FileInTarget DEF Errors
<1> QED
  BY <1>1, <1>2, <1>4, <1>5, <1>6, <1>7, <1>8, <1>9, FileKeeps DEF Ending, Before, Inspecting, Making, Filing

LEMMA UnlinkKeeps == ASSUME InitInv, NEW p \in Processes, Unlink(p) PROVE InitInv'
<1> USE DEF InitInv
<1>1. /\ stage[p] = "unlink" /\ file' = NoFile /\ Go(p, "cleanup")
      /\ UNCHANGED <<at, foreign, phase, before, sawEntries, missing, created, directory, identified,
                     dryRun, hit, faults, acted>>
  BY DEF Unlink, Others
<1>2. Local(p) /\ Holding(p) /\ ~ dryRun[p] /\ file.by = p /\ result[p] \in Errors
  BY <1>1 DEF Mine, Local, Holding, Filing, Unfiling
<1>3. stage'[p] = "cleanup" /\ result' = result
  BY <1>1, StageFacts
<1>4. file'.by = Nothing /\ file' \in [by : Actors \cup {Nothing}, content : {"none", "empty", "partial", "whole"}]
  BY <1>1 DEF NoFile
<1>5. Types'
  <2>1. /\ stage' \in [Processes -> Before \cup Filing \cup Unfiling \cup Ending]
        /\ result' \in [Processes -> Errors \cup {"none", "dry", "created"}]
    BY <1>1, StageTypes DEF Ending
  <2> QED
    BY <1>1, <1>4, <2>1 DEF Types
<1>6. \A q \in Processes \ {p} : Same(q)
  BY <1>1, <1>3, StageFacts DEF Same
<1>7. Local(p)'
  BY <1>1, <1>2, <1>3 DEF Local, Before, Inspecting, Making, Filing, Unfiling, Errors
<1>8. file'.by # p
  BY <1>4, Identities DEF Actors
<1>9. Cleaning(p)'
  BY <1>1, <1>8, StartsCleaning DEF Ending
<1>10. result'[p] # "created"
  BY <1>2, <1>3 DEF Errors
<1> QED
  BY <1>1, <1>2, <1>3, <1>4, <1>5, <1>6, <1>7, <1>9, <1>10, FileKeeps DEF Ending, Before, Inspecting, Making, Filing, Unfiling

\* p goes on with its cleanup.
LEMMA GoesOnCleaning ==
    ASSUME InitInv, NEW p \in Processes, UNCHANGED <<at, file, foreign, created, directory, result, hit>>,
           stage[p] \in Ending,
           \A q \in Processes \ {p} : stage'[q] = stage[q] /\ phase'[q] = phase[q]
    PROVE  Cleaning(p)'
<1>1. \A path \in Paths : Owns(p, path)' <=> Owns(p, path)
  BY DEF Owns
<1>2. \A path \in Paths : IsEmpty(path)' <=> IsEmpty(path)
  BY DEF IsEmpty, HasEntries
<1>3. OnlyOne(p)' <=> OnlyOne(p)
  BY DEF OnlyOne
<1>4. Cleaning(p)
  BY DEF InitInv, Mine
<1> QED
  BY <1>1, <1>2, <1>3, <1>4, Identities DEF Cleaning

LEMMA ThrowKeeps == ASSUME InitInv, NEW p \in Processes, Throw(p) PROVE InitInv'
<1> USE DEF InitInv
<1>1. /\ stage[p] = "cleanup" /\ created[p] = << >> /\ Go(p, "done")
      /\ UNCHANGED <<at, file, foreign, phase, before, sawEntries, missing, created, directory, identified,
                     dryRun, hit, faults, acted>>
  BY DEF Throw, Others, fs
<1>2. Local(p) /\ result[p] \in Errors
  BY <1>1 DEF Mine, Local
<1>3. stage'[p] = "done" /\ result' = result
  BY <1>1, StageFacts
<1>4. Types'
  <2>1. /\ stage' \in [Processes -> Before \cup Filing \cup Unfiling \cup Ending]
        /\ result' \in [Processes -> Errors \cup {"none", "dry", "created"}]
    BY <1>1, StageTypes DEF Ending
  <2> QED
    BY <1>1, <2>1 DEF Types
<1>5. \A q \in Processes \ {p} : Same(q)
  BY <1>1, <1>3, StageFacts DEF Same
<1>6. Local(p)'
  BY <1>1, <1>2, <1>3 DEF Local, Before, Inspecting, Making, Filing, Unfiling, Errors
<1>7. Cleaning(p)'
  BY <1>1, <1>3, <1>5, GoesOnCleaning DEF Ending, Same
<1>8. (file' # NoFile => IsDir(at[Target])) /\ result'[p] # "created"
  BY <1>1, <1>2, <1>3, FileInTarget DEF Errors
<1> QED
  BY <1>1, <1>3, <1>4, <1>5, <1>6, <1>7, <1>8, FileKeeps DEF Ending, Before, Inspecting, Making, Filing, Unfiling

LEMMA VerifyKeeps == ASSUME InitInv, NEW p \in Processes, Verify(p) PROVE InitInv'
<1> USE DEF InitInv
<1> DEFINE path == Head(missing[p])
           list == Append(created[p], Ours(p, path))
<1>1. /\ stage[p] = "verify" /\ Go(p, "mkdir")
      /\ created' = [created EXCEPT ![p] = Append(@, <<path, at[path]>>)]
      /\ missing' = [missing EXCEPT ![p] = Tail(@)]
      /\ UNCHANGED <<at, file, foreign, phase, before, sawEntries, directory, identified, dryRun, hit, faults, acted>>
  BY DEF Verify, Others, fs
<1>2. /\ Local(p) /\ Holding(p) /\ missing[p] \in {<<Target>>, <<Parent, Target>>}
      /\ result[p] = "none" /\ phase[p] = 1 /\ ~ dryRun[p] /\ file.by # p
  BY <1>1 DEF Mine, Local, Holding, Types, Making, Before
<1>3. at[path] = Dir(p, path)
  BY <1>1, <1>2 DEF Holding
<1>4. created' = [created EXCEPT ![p] = list]
  BY <1>1, <1>3 DEF Ours
<1>5. stage'[p] = "mkdir" /\ result' = result
  BY <1>1, StageFacts
<1>6. created'[p] = list /\ missing'[p] = Tail(missing[p])
  BY <1>1, <1>4 DEF Types
<1>7. /\ missing[p] = <<Parent, Target>> =>
            created[p] = << >> /\ path = Parent /\ missing'[p] = <<Target>> /\ list = <<Ours(p, Parent)>>
      /\ missing[p] = <<Target>> =>
            /\ path = Target /\ missing'[p] = << >>
            /\ \/ created[p] = << >> /\ list = <<Ours(p, Target)>>
               \/ created[p] = <<Ours(p, Parent)>> /\ list = <<Ours(p, Parent), Ours(p, Target)>>
  <2>1. /\ missing[p] = <<Parent, Target>> => created[p] = << >>
        /\ missing[p] = <<Target>> => created[p] \in {<< >>, <<Ours(p, Parent)>>}
    BY <1>1, <1>2 DEF Local, Making
  <2>2. ASSUME NEW a PROVE Append(<< >>, a) = <<a>>
    OBVIOUS
  <2>3. ASSUME NEW a, NEW b PROVE Append(<<a>>, b) = <<a, b>>
    <3> DEFINE left == Append(<<a>>, b)
               right == <<a, b>>
    <3>1. <<a>> \in Seq({a, b}) /\ Len(<<a>>) = 1 /\ <<a>>[1] = a /\ b \in {a, b}
      OBVIOUS
    <3>2. left \in Seq({a, b}) /\ Len(left) = 2 /\ left[1] = a /\ left[2] = b
      BY <3>1, AppendProperties
    <3>3. right \in Seq({a, b}) /\ Len(right) = 2 /\ right[1] = a /\ right[2] = b
      OBVIOUS
    <3> HIDE DEF left, right
    <3>4. \A i \in 1..Len(left) : left[i] = right[i]
      BY <3>2, <3>3
    <3>5. left = right
      BY <3>2, <3>3, <3>4, SeqEqual
    <3> QED
      BY <3>5 DEF left, right
  <2> QED
    BY <1>6, <2>1, <2>2, <2>3, MissingFacts
<1>8. list \in CreatedBy(p)
  BY <1>2, <1>7 DEF CreatedBy
<1>9. \A x \in Paths : Owns(p, x)' <=> Owns(p, x) \/ x = path
  <2>1. \A x \in Paths : In(list, Ours(p, x)) <=> In(created[p], Ours(p, x)) \/ x = path
    <3>1. ASSUME NEW x \in Paths PROVE In(list, Ours(p, x)) <=> In(created[p], Ours(p, x)) \/ x = path
      <4>1. CASE missing[p] = <<Parent, Target>>
        BY <1>7, <4>1, OursFacts
      <4>2. CASE missing[p] = <<Target>> /\ created[p] = << >>
        <5>1. list = <<Ours(p, Target)>> /\ path = Target
          BY <1>7, <4>2, MissingFacts
        <5> QED
          BY <4>2, <5>1, OursFacts
      <4>3. CASE missing[p] = <<Target>> /\ created[p] = <<Ours(p, Parent)>>
        <5>1. list = <<Ours(p, Parent), Ours(p, Target)>> /\ path = Target
          BY <1>7, <4>3
        <5> QED
          BY <4>3, <5>1, OursFacts, Identities
      <4> QED
        BY <1>2, <1>7, <4>1, <4>2, <4>3
    <3> QED
      BY <3>1
  <2> QED
    BY <1>6, <2>1 DEF Owns
<1> HIDE DEF path, list
<1>10. Types'
  <2>1. /\ stage' \in [Processes -> Before \cup Filing \cup Unfiling \cup Ending]
        /\ result' \in [Processes -> Errors \cup {"none", "dry", "created"}]
    BY <1>1, StageTypes DEF Before, Making
  <2>2. missing' \in [Processes -> {<< >>, <<Target>>, <<Parent, Target>>}]
    <3>1. Tail(missing[p]) \in {<< >>, <<Target>>, <<Parent, Target>>}
      BY <1>2, MissingFacts
    <3> QED
      BY <1>1, <3>1 DEF Types
  <2>3. /\ DOMAIN created' = Processes /\ created' = [q \in Processes |-> created'[q]]
        /\ \A q \in Processes : created'[q] \in CreatedBy(q)
    BY <1>4, <1>8 DEF Types
  <2> QED
    BY <1>1, <2>1, <2>2, <2>3 DEF Types
<1>11. Local(p)'
  <2>1. /\ missing'[p] # <<Parent, Target>>
        /\ missing'[p] = <<Target>> => created'[p] = <<Ours(p, Parent)>>
    BY <1>2, <1>6, <1>7, MissingFacts
  <2> QED
    BY <1>1, <1>2, <1>5, <2>1 DEF Local, Before, Inspecting, Making, Filing, Unfiling
<1>12. Holding(p)'
  <2>1. \A x \in Paths : Owns(p, x)' => at'[x] = Dir(p, x)
    BY <1>1, <1>2, <1>3, <1>9 DEF Holding
  <2>2. \A x \in Paths : at'[x] = Dir(p, x) => Owns(p, x)'
    BY <1>1, <1>2, <1>9 DEF Holding, Ending, path
  <2> QED
    BY <1>1, <1>2, <1>5, <2>1, <2>2 DEF Holding, Filing, Unfiling
<1>13. Cleaning(p)'
  BY <1>5 DEF Cleaning, Ending
<1>14. \A q \in Processes \ {p} : Same(q)
  <2>1. \A q \in Processes \ {p} : stage'[q] = stage[q] /\ result'[q] = result[q]
    BY <1>1, StageFacts
  <2>2. \A q \in Processes \ {p} : missing'[q] = missing[q] /\ created'[q] = created[q]
    BY <1>1, <1>4 DEF Types
  <2> QED
    BY <1>1, <2>1, <2>2 DEF Same
<1>15. Nested'
  BY <1>1 DEF Nested, HasEntries, IsDir
<1> QED
  BY <1>1, <1>5, <1>10, <1>11, <1>12, <1>13, <1>14, <1>15, StepKeeps DEF Mine

\* Dropping the last entry of the list.
LEMMA DropFacts ==
    ASSUME InitInv, NEW p \in Processes, created[p] # << >>, Drop(p)
    PROVE  /\ DOMAIN created' = Processes /\ created' = [q \in Processes |-> created'[q]]
           /\ \A q \in Processes : created'[q] \in CreatedBy(q)
           /\ \A q \in Processes \ {p} : created'[q] = created[q]
           /\ LastOwned(p) \in {Ours(p, Parent), Ours(p, Target)}
           /\ LastOwned(p) = Ours(p, Target) =>
                 /\ Owns(p, Target) /\ ~ Owns(p, Target)'
                 /\ Owns(p, Parent)' <=> Owns(p, Parent)
           /\ LastOwned(p) = Ours(p, Parent) =>
                 /\ Owns(p, Parent) /\ ~ Owns(p, Parent)' /\ ~ Owns(p, Target) /\ ~ Owns(p, Target)'
<1> DEFINE list == SubSeq(created[p], 1, Len(created[p]) - 1)
<1>1. created[p] \in CreatedBy(p) /\ created' = [created EXCEPT ![p] = list]
  BY DEF InitInv, Types, Drop
<1>2. list \in CreatedBy(p)
  BY <1>1, CreatedFacts
<1>3. /\ DOMAIN created' = Processes /\ created' = [q \in Processes |-> created'[q]]
      /\ \A q \in Processes : created'[q] \in CreatedBy(q)
      /\ \A q \in Processes \ {p} : created'[q] = created[q]
      /\ created'[p] = list
  <2> HIDE DEF list
  <2> QED
    BY <1>1, <1>2 DEF InitInv, Types
<1>4. /\ Ours(p, Parent) # Ours(p, Target) /\ ~ In(<< >>, Ours(p, Parent)) /\ ~ In(<< >>, Ours(p, Target))
      /\ In(<<Ours(p, Parent)>>, Ours(p, Parent)) /\ ~ In(<<Ours(p, Parent)>>, Ours(p, Target))
      /\ In(<<Ours(p, Target)>>, Ours(p, Target)) /\ ~ In(<<Ours(p, Target)>>, Ours(p, Parent))
      /\ In(<<Ours(p, Parent), Ours(p, Target)>>, Ours(p, Target))
      /\ In(<<Ours(p, Parent), Ours(p, Target)>>, Ours(p, Parent))
  BY OursFacts, Identities
<1>5. CASE created[p] = <<Ours(p, Parent)>>
  <2>1. LastOwned(p) = Ours(p, Parent) /\ list = << >>
    BY <1>5 DEF LastOwned
  <2> QED
    BY <1>3, <1>4, <1>5, <2>1 DEF Owns
<1>6. CASE created[p] = <<Ours(p, Target)>>
  <2>1. LastOwned(p) = Ours(p, Target) /\ list = << >>
    BY <1>6 DEF LastOwned
  <2> QED
    BY <1>3, <1>4, <1>6, <2>1 DEF Owns
<1>7. CASE created[p] = <<Ours(p, Parent), Ours(p, Target)>>
  <2>1. LastOwned(p) = Ours(p, Target) /\ list = <<Ours(p, Parent)>>
    <3>1. Len(created[p]) = 2 /\ created[p][2] = Ours(p, Target)
      BY <1>7
    <3>2. LastOwned(p) = Ours(p, Target)
      BY <3>1 DEF LastOwned
    <3>3. list = <<Ours(p, Parent)>>
      BY <1>1, <1>4, <1>7, <3>2, CreatedFacts DEF LastOwned
    <3> QED
      BY <3>2, <3>3
  <2> QED
    BY <1>3, <1>4, <1>7, <2>1 DEF Owns
<1> QED
  BY <1>1, <1>5, <1>6, <1>7 DEF CreatedBy

LEMMA LastFacts ==
    ASSUME InitInv, NEW p \in Processes, created[p] # << >>
    PROVE  \E x \in Paths : LastOwned(p) = Ours(p, x) /\ LastOwned(p)[1] = x /\ LastOwned(p)[2] = Dir(p, x)
                            /\ at[x] = Dir(p, x)
<1>1. created[p] \in CreatedBy(p)
  BY DEF InitInv, Types
<1>2. PICK x \in Paths : LastOwned(p) = Ours(p, x)
  BY <1>1, CreatedFacts, Identities DEF LastOwned
<1>3. Len(created[p]) \in DOMAIN created[p]
  BY <1>1, CreatedFacts
<1>4. Owns(p, x)
  BY <1>2, <1>3 DEF Owns, In, LastOwned
<1>5. at[x] = Dir(p, x)
  BY <1>4 DEF InitInv, Mine, Holding
<1>6. LastOwned(p)[1] = x /\ LastOwned(p)[2] = Dir(p, x)
  BY <1>2 DEF Ours
<1> QED
  BY <1>2, <1>5, <1>6

LEMMA CheckDirectoryKeeps == ASSUME InitInv, NEW p \in Processes, CheckDirectory(p) PROVE InitInv'
<1> USE DEF InitInv
<1>1. stage[p] = "cleanup" /\ created[p] # << >>
  BY DEF CheckDirectory
<1>2. at[LastOwned(p)[1]] = LastOwned(p)[2]
  BY <1>1, LastFacts
<1>3. /\ Go(p, "rmdir")
      /\ UNCHANGED <<at, file, foreign, phase, before, sawEntries, missing, created, directory, identified,
                     dryRun, hit, faults, acted>>
  BY <1>2 DEF CheckDirectory, Others, fs
<1>4. Local(p) /\ result[p] \in Errors /\ ~ dryRun[p]
  BY <1>1 DEF Mine, Local
<1>5. stage'[p] = "rmdir" /\ result' = result
  BY <1>3, StageFacts
<1>6. Types'
  <2>1. /\ stage' \in [Processes -> Before \cup Filing \cup Unfiling \cup Ending]
        /\ result' \in [Processes -> Errors \cup {"none", "dry", "created"}]
    BY <1>3, StageTypes DEF Ending
  <2> QED
    BY <1>3, <2>1 DEF Types
<1>7. \A q \in Processes \ {p} : Same(q)
  BY <1>3, <1>5, StageFacts DEF Same
<1>8. Local(p)'
  BY <1>1, <1>3, <1>4, <1>5 DEF Local, Before, Inspecting, Making, Filing, Unfiling, Errors
<1>9. Cleaning(p)'
  BY <1>1, <1>3, <1>5, <1>7, GoesOnCleaning DEF Ending, Same
<1>10. (file' # NoFile => IsDir(at[Target])) /\ result'[p] # "created"
  BY <1>3, <1>4, <1>5, FileInTarget DEF Errors
<1> QED
  BY <1>1, <1>3, <1>5, <1>6, <1>7, <1>8, <1>9, <1>10, FileKeeps DEF Ending, Before, Inspecting, Making, Filing, Unfiling

LEMMA RmdirKeeps == ASSUME InitInv, NEW p \in Processes, Rmdir(p) PROVE InitInv'
<1> USE DEF InitInv
<1>1. /\ stage[p] = "rmdir" /\ Go(p, "cleanup") /\ Drop(p)
      /\ UNCHANGED <<file, foreign, phase, before, sawEntries, missing, directory, identified,
                     dryRun, hit, faults, acted>>
  BY DEF Rmdir, Others
<1>2. Local(p) /\ Holding(p) /\ Cleaning(p) /\ created[p] # << >> /\ result[p] \in Errors /\ ~ dryRun[p]
  BY <1>1 DEF Mine, Local
<1>3. PICK x \in Paths : /\ LastOwned(p) = Ours(p, x) /\ LastOwned(p)[1] = x /\ LastOwned(p)[2] = Dir(p, x)
                         /\ at[x] = Dir(p, x)
  BY <1>2, LastFacts
<1>4. \/ IsEmpty(x) /\ at' = [at EXCEPT ![x] = Nothing]
      \/ ~ IsEmpty(x) /\ at' = at
  BY <1>3 DEF Rmdir
<1>5. stage'[p] = "cleanup" /\ result' = result /\ \A q \in Processes \ {p} : stage'[q] = stage[q]
  BY <1>1, StageFacts
<1>6. \/ IsEmpty(x) /\ at'[x] = Nothing /\ \A y \in Paths \ {x} : at'[y] = at[y]
      \/ ~ IsEmpty(x) /\ at' = at
  BY <1>4 DEF Types
<1>7. x = Target \/ x = Parent
  BY Identities
<1>8. /\ DOMAIN created' = Processes /\ created' = [q \in Processes |-> created'[q]]
      /\ \A q \in Processes : created'[q] \in CreatedBy(q)
      /\ \A q \in Processes \ {p} : created'[q] = created[q]
      /\ x = Target => /\ Owns(p, Target) /\ ~ Owns(p, Target)'
                       /\ Owns(p, Parent)' <=> Owns(p, Parent)
      /\ x = Parent => ~ Owns(p, Parent)' /\ ~ Owns(p, Target) /\ ~ Owns(p, Target)'
  BY <1>1, <1>2, <1>3, DropFacts
<1>9. Types'
  <2>1. /\ stage' \in [Processes -> Before \cup Filing \cup Unfiling \cup Ending]
        /\ result' \in [Processes -> Errors \cup {"none", "dry", "created"}]
    BY <1>1, StageTypes DEF Ending
  <2>2. at' \in [Paths -> Objects]
    BY <1>4 DEF Types, Objects
  <2>3. \A y \in Paths : at'[y] \in {Nothing, Other} \cup {Dir(actor, y) : actor \in Actors}
    BY <1>6 DEF Types
  <2> QED
    BY <1>1, <1>8, <2>1, <2>2, <2>3 DEF Types
<1>10. IsEmpty(Target) => ~ HasEntries
  BY DEF IsEmpty
<1>11. IsEmpty(Parent) => at[Target] = Nothing
  BY Identities DEF IsEmpty
<1>12. HasEntries => at'[Target] = at[Target]
  BY <1>6, <1>7, <1>10, Identities
<1>13. HasEntries' <=> HasEntries
  BY <1>1 DEF HasEntries
<1>14. Nested'
  <2>1. Nested
    OBVIOUS
  <2>2. at'[Target] # Nothing => at'[Target] = at[Target] /\ at'[Parent] = at[Parent]
    BY <1>6, <1>7, <1>11, Identities
  <2> QED
    BY <1>12, <1>13, <2>1, <2>2 DEF Nested, IsDir
<1>15. file.by \in Actors => HasEntries
  BY Identities DEF HasEntries, NoFile
<1>16. Local(p)'
  BY <1>1, <1>2, <1>5 DEF Local, Before, Inspecting, Making, Filing, Unfiling, Errors
<1>17. Holding(p)'
  <2>1. \A y \in Paths : Owns(p, y)' => Owns(p, y) /\ y # x
    BY <1>7, <1>8, Identities
  <2>2. \A y \in Paths : Owns(p, y)' => at'[y] = Dir(p, y)
    BY <1>2, <1>6, <2>1 DEF Holding
  <2>3. result'[p] # "created"
    BY <1>2, <1>5 DEF Errors
  <2> QED
    BY <1>1, <1>2, <1>5, <2>2, <2>3 DEF Holding, Ending, Before, Inspecting, Making, Filing, Unfiling
<1>18. Cleaning(p)'
  <2>1. SUFFICES ASSUME p \notin hit
                 PROVE  /\ file.by = p => at'[Target] # directory[p]
                        /\ ~ Owns(p, Target)'
                        /\ OnlyOne(p) => \A y \in Paths : at'[y] = Dir(p, y) => Owns(p, y)' \/ ~ IsEmpty(y)'
    BY <1>1, <1>5, <1>8 DEF Cleaning, OnlyOne
  <2>2. /\ file.by = p => at[Target] # directory[p]
        /\ at[Parent] = Dir(p, Parent) /\ Owns(p, Target) => Owns(p, Parent)
        /\ OnlyOne(p) => \A y \in Paths : at[y] = Dir(p, y) => Owns(p, y) \/ ~ IsEmpty(y)
    BY <1>1, <1>2, <2>1 DEF Cleaning, Ending, Errors
  <2>3. file.by = p => at'[Target] # directory[p]
    BY <1>12, <1>15, <2>2 DEF Actors
  <2>4. ~ Owns(p, Target)'
    BY <1>7, <1>8
  <2>5. ASSUME OnlyOne(p), NEW y \in Paths, at'[y] = Dir(p, y) PROVE Owns(p, y)' \/ ~ IsEmpty(y)'
    <3>1. Dir(p, y) # Nothing
      BY Identities DEF Actors
    <3>2. CASE x = Target /\ y = Parent
      <4>1. at[Parent] = Dir(p, Parent)
        BY <1>6, <2>5, <3>2, Identities
      <4> QED
        BY <1>8, <2>2, <3>2, <4>1
    <3>3. CASE x = y
      <4>1. ~ IsEmpty(x) /\ at' = at
        BY <1>6, <2>5, <3>1, <3>3
      <4> QED
        BY <1>1, <3>3, <4>1 DEF IsEmpty, HasEntries
    <3>4. CASE x = Parent /\ y = Target
      <4>1. at[Target] = Dir(p, Target) /\ at'[Target] = at[Target]
        BY <1>6, <2>5, <3>4, Identities
      <4>2. ~ IsEmpty(Target)
        BY <1>8, <2>2, <2>5, <3>4, <4>1
      <4> QED
        BY <1>1, <3>4, <4>2 DEF IsEmpty, HasEntries
    <3> QED
      BY <1>7, <3>2, <3>3, <3>4, Identities
  <2> QED
    BY <2>3, <2>4, <2>5
<1>19. ASSUME NEW q \in Processes \ {p}
       PROVE  /\ \A y \in Paths : at'[y] = Dir(q, y) <=> at[y] = Dir(q, y)
              /\ file'.by = q <=> file.by = q
              /\ file.by = q => file' = file /\ at'[Target] = at[Target]
  <2>1. at[x] # Dir(q, x) /\ Nothing # Dir(q, x)
    BY <1>3, Identities DEF Actors
  <2>2. \A y \in Paths : at'[y] = Dir(q, y) <=> at[y] = Dir(q, y)
    BY <1>6, <2>1
  <2> QED
    BY <1>1, <1>12, <1>15, <2>2 DEF Actors
<1>20. \A q \in Processes \ {p} : Same(q)
  BY <1>1, <1>5, <1>8 DEF Same
<1> QED
  BY <1>5, <1>9, <1>14, <1>16, <1>17, <1>18, <1>19, <1>20, StepKeeps DEF Mine

LEMMA FaultKeeps == ASSUME InitInv, NEW p \in Processes, Fault(p) PROVE InitInv'
<1> USE DEF InitInv
<1>1. /\ faults' = faults + 1 /\ hit' = hit \cup {p}
      /\ UNCHANGED <<at, foreign, phase, dryRun, before, sawEntries, missing, directory, identified, acted>>
  BY DEF Fault
<1>2. faults' \in Nat /\ p \in hit' /\ \A q \in Processes \ {p} : q \in hit' <=> q \in hit
  BY <1>1 DEF Types
<1>3. FaultCode(p) \in Errors
  BY DEF FaultCode, Errors
<1>4. Local(p) /\ Holding(p)
  BY DEF Mine
<1>5. ASSUME UNCHANGED <<file, created>>, stage[p] # "done", stage[p] \notin {"cleanup", "rmdir"},
             Abort(p, FaultCode(p)) \/ (stage[p] \in Unfiling /\ Go(p, "cleanup"))
      PROVE  InitInv'
  <2>1. stage'[p] = "cleanup" /\ result'[p] \in Errors
    <3>1. CASE Abort(p, FaultCode(p))
      BY <1>3, <3>1, StageFacts
    <3>2. CASE stage[p] \in Unfiling /\ Go(p, "cleanup")
      <4>1. result[p] \in Errors
        BY <1>4, <3>2 DEF Local
      <4> QED
        BY <3>2, <4>1, StageFacts
    <3> QED
      BY <1>5, <3>1, <3>2
  <2>2. Types'
    <3>1. /\ stage' \in [Processes -> Before \cup Filing \cup Unfiling \cup Ending]
          /\ result' \in [Processes -> Errors \cup {"none", "dry", "created"}]
      BY <1>3, <1>5, StageTypes DEF Ending
    <3> QED
      BY <1>1, <1>2, <1>5, <3>1 DEF Types
  <2>3. \A q \in Processes \ {p} : Same(q)
    <3>1. \A q \in Processes \ {p} : stage'[q] = stage[q] /\ result'[q] = result[q]
      BY <1>5, StageFacts
    <3> QED
      BY <1>1, <1>2, <1>5, <3>1 DEF Same
  <2>4. Local(p)'
    <3>1. dryRun[p] => created[p] = << >>
      BY <1>4 DEF Local
    <3> QED
      BY <1>1, <1>5, <2>1, <3>1 DEF Local, Before, Inspecting, Making, Filing, Unfiling, Errors
  <2>5. CASE stage[p] \in Before
    <3>1. Moves(p)
      BY <1>1, <1>2, <1>5, <2>1, <2>3, <2>5 DEF Moves, fs
    <3> QED
      BY <2>2, <2>4, <3>1, MovesKeeps
  <2>6. CASE stage[p] \notin Before
    <3>1. stage[p] \notin Ending /\ stage[p] # "verify"
      BY <1>5, <2>6 DEF Ending, Before, Making
    <3>2. Cleaning(p)'
      BY <1>2 DEF Cleaning
    <3>3. (file' # NoFile => IsDir(at[Target])) /\ result'[p] # "created"
      BY <1>5, <2>1, FileInTarget DEF Errors
    <3> QED
      BY <1>1, <1>5, <2>1, <2>2, <2>3, <2>4, <3>1, <3>2, <3>3, FileKeeps
      DEF Before, Inspecting, Making, Filing, Unfiling
  <2> QED
    BY <2>5, <2>6
<1>6. ASSUME stage[p] \in {"write", "check"},
             stage' = [stage EXCEPT ![p] = "unfile"], result' = [result EXCEPT ![p] = FaultCode(p)],
             \E left \in IF stage[p] = "write" THEN {"empty", "partial"} ELSE {file.content} :
                file' = [file EXCEPT !.content = left],
             UNCHANGED created
      PROVE  InitInv'
  <2>1. PICK left \in {"empty", "partial", file.content} : file' = [file EXCEPT !.content = left]
    BY <1>6
  <2>2. file.by = p /\ ~ dryRun[p] /\ identified[p]
    BY <1>4, <1>6 DEF Holding, Local, Filing
  <2>3. file'.by = p /\ file' \in [by : Actors \cup {Nothing}, content : {"none", "empty", "partial", "whole"}]
    BY <2>1, <2>2 DEF Types
  <2>4. stage'[p] = "unfile" /\ result'[p] \in Errors
        /\ \A q \in Processes \ {p} : stage'[q] = stage[q] /\ result'[q] = result[q]
    BY <1>3, <1>6 DEF Types
  <2>5. Types'
    <3>1. stage' \in [Processes -> Before \cup Filing \cup Unfiling \cup Ending]
      BY <1>6 DEF Types, Unfiling
    <3>2. result' \in [Processes -> Errors \cup {"none", "dry", "created"}]
      BY <1>3, <1>6 DEF Types
    <3> QED
      BY <1>1, <1>2, <1>6, <2>3, <3>1, <3>2, Identities DEF Types, Actors
  <2>6. \A q \in Processes \ {p} : Same(q)
    BY <1>1, <1>2, <1>6, <2>4 DEF Same
  <2>7. Local(p)'
    BY <1>1, <2>2, <2>4 DEF Local, Before, Inspecting, Making, Filing, Unfiling, Errors
  <2>8. Cleaning(p)'
    BY <1>2 DEF Cleaning
  <2>9. IsDir(at[Target]) /\ result'[p] # "created"
    <3>1. file # NoFile
      BY <2>2, Identities DEF NoFile, Actors
    <3> QED
      BY <2>4, <3>1, FileInTarget DEF Errors
  <2> QED
    BY <1>1, <1>6, <2>2, <2>3, <2>4, <2>5, <2>6, <2>7, <2>8, <2>9, FileKeeps
    DEF Ending, Before, Inspecting, Making
<1>7. ASSUME stage[p] \in {"cleanup", "rmdir"}, created[p] # << >>, Go(p, "cleanup"), Drop(p), UNCHANGED file
      PROVE  InitInv'
  <2>1. stage'[p] = "cleanup" /\ result' = result /\ result[p] \in Errors /\ ~ dryRun[p]
        /\ \A q \in Processes \ {p} : stage'[q] = stage[q]
    BY <1>4, <1>7, StageFacts DEF Local
  <2>2. /\ DOMAIN created' = Processes /\ created' = [q \in Processes |-> created'[q]]
        /\ \A q \in Processes : created'[q] \in CreatedBy(q)
        /\ \A q \in Processes \ {p} : created'[q] = created[q]
        /\ \A y \in Paths : Owns(p, y)' => Owns(p, y)
    BY <1>7, DropFacts, Identities
  <2>3. Types'
    <3>1. /\ stage' \in [Processes -> Before \cup Filing \cup Unfiling \cup Ending]
          /\ result' \in [Processes -> Errors \cup {"none", "dry", "created"}]
      BY <1>7, StageTypes DEF Ending
    <3> QED
      BY <1>1, <1>2, <1>7, <2>2, <3>1 DEF Types
  <2>4. \A q \in Processes \ {p} : Same(q)
    BY <1>1, <1>2, <2>1, <2>2 DEF Same
  <2>5. Local(p)'
    BY <1>1, <2>1 DEF Local, Before, Inspecting, Making, Filing, Unfiling, Errors
  <2>6. Holding(p)'
    <3>1. result'[p] # "created"
      BY <2>1 DEF Errors
    <3>2. \A y \in Paths : Owns(p, y)' => at'[y] = Dir(p, y)
      BY <1>1, <1>4, <2>2 DEF Holding
    <3> QED
      BY <1>1, <2>1, <3>1, <3>2 DEF Holding, Ending, Before, Inspecting, Making, Filing, Unfiling
  <2>7. Cleaning(p)'
    BY <1>2 DEF Cleaning
  <2>8. Nested'
    BY <1>1, <1>7 DEF Nested, HasEntries, IsDir
  <2> QED
    BY <1>1, <1>7, <2>1, <2>3, <2>4, <2>5, <2>6, <2>7, <2>8, StepKeeps DEF Mine
<1> QED
  BY <1>5, <1>6, <1>7 DEF Fault, Unfiling

LEMMA UserActsKeeps == ASSUME InitInv, UserActs PROVE InitInv'
<1> USE DEF InitInv
<1>1. UNCHANGED <<stage, phase, dryRun, before, sawEntries, missing, created, directory, identified,
                  result, hit, faults>> /\ acted' = TRUE
  BY DEF UserActs
<1>2. ASSUME NEW q \in Processes PROVE Same(q) /\ (OnlyOne(q)' <=> OnlyOne(q))
  BY <1>1 DEF Same, OnlyOne
<1>3. ASSUME UserAdds PROVE InitInv'
  <2>1. at' = at /\ IsDir(at[Target])
    BY <1>3 DEF UserAdds
  <2>2. \/ foreign' = TRUE /\ file' = file
        \/ file = NoFile /\ file' = FileOf(User, "whole") /\ foreign' = foreign
    BY <1>3 DEF UserAdds
  <2>3. /\ file' \in [by : Actors \cup {Nothing}, content : {"none", "empty", "partial", "whole"}]
        /\ file'.by = Nothing => file' = NoFile
        /\ foreign' \in BOOLEAN
    <3>1. CASE foreign' = TRUE /\ file' = file
      BY <3>1 DEF Types
    <3>2. CASE file' = FileOf(User, "whole") /\ foreign' = foreign
      <4>1. file'.by = User /\ file' \in [by : Actors \cup {Nothing}, content : {"none", "empty", "partial", "whole"}]
        BY <3>2 DEF FileOf, Actors
      <4> QED
        BY <3>2, <4>1, Identities DEF Types, Actors
    <3> QED
      BY <2>2, <3>1, <3>2
  <2>4. Types'
    BY <1>1, <2>1, <2>3 DEF Types
  <2>5. HasEntries'
    <3>1. FileOf(User, "whole") # NoFile
      BY Identities DEF FileOf, NoFile, Actors
    <3> QED
      BY <2>2, <3>1 DEF HasEntries
  <2>6. Nested'
    BY <2>1 DEF Nested, IsDir
  <2>7. ASSUME NEW q \in Processes PROVE Unharmed(q)
    <3>1. file'.by = q <=> file.by = q
      BY <2>2, Identities DEF FileOf, NoFile, Actors
    <3>2. file.by = q => file' = file
      BY <2>2, Identities DEF NoFile, Actors
    <3>3. \A path \in Paths : IsEmpty(path)' => IsEmpty(path)
      BY <2>1, <2>5 DEF IsEmpty
    <3> QED
      BY <1>2, <2>1, <3>1, <3>2, <3>3 DEF Unharmed
  <2> QED
    BY <1>2, <2>4, <2>6, <2>7, UnharmedKeeps
<1>4. ASSUME NEW path \in Paths, UserMakes(path) PROVE InitInv'
  <2>1. /\ at[path] = Nothing /\ (path = Target => IsDir(at[Parent]))
        /\ file' = file /\ foreign' = foreign
    BY <1>4 DEF UserMakes, CanMake
  <2>2. PICK object \in {Dir(User, path), Other} : at' = [at EXCEPT ![path] = object]
    BY <1>4 DEF UserMakes
  <2>3. object \in Objects /\ object # Nothing /\ \A q \in Processes : object # Dir(q, path)
    BY <2>2, Identities DEF Objects, Dir, Actors
  <2>4. at'[path] = object /\ \A y \in Paths \ {path} : at'[y] = at[y]
    BY <2>2 DEF Types
  <2>5. Types'
    <3>1. at' \in [Paths -> Objects]
      BY <2>2, <2>3 DEF Types
    <3>2. \A y \in Paths : at'[y] \in {Nothing, Other} \cup {Dir(actor, y) : actor \in Actors}
      BY <2>2, <2>4 DEF Types, Actors
    <3> QED
      BY <1>1, <2>1, <3>1, <3>2 DEF Types
  <2>6. HasEntries' <=> HasEntries
    BY <2>1 DEF HasEntries
  <2>7. at[Target] # Nothing => path # Parent /\ at'[Target] = at[Target] /\ at'[Parent] = at[Parent]
    BY <2>1, <2>4, Identities DEF Nested, IsDir
  <2>8. HasEntries => at[Target] # Nothing
    BY DEF Nested, IsDir
  <2>9. Nested'
    <3>1. CASE at[Target] # Nothing
      BY <2>6, <2>7, <3>1 DEF Nested, IsDir
    <3>2. CASE at[Target] = Nothing
      <4>1. at'[Target] # Nothing => path = Target /\ at'[Parent] = at[Parent]
        BY <2>4, <3>2, Identities
      <4> QED
        BY <2>1, <2>6, <2>8, <3>2, <4>1 DEF Nested, IsDir
    <3> QED
      BY <3>1, <3>2
  <2>10. ASSUME NEW q \in Processes PROVE Unharmed(q)
    <3>1. \A y \in Paths : at'[y] = Dir(q, y) <=> at[y] = Dir(q, y)
      <4>1. at[path] # Dir(q, path)
        BY <2>1, Identities DEF Actors
      <4> QED
        BY <2>3, <2>4, <4>1
    <3>2. file.by = q => HasEntries
      BY Identities DEF HasEntries, NoFile, Actors
    <3>3. \A y \in Paths : IsEmpty(y)' => IsEmpty(y)
      <4>1. at'[Target] = Nothing => at[Target] = Nothing
        BY <2>7
      <4> QED
        BY <2>6, <4>1 DEF IsEmpty
    <3> QED
      BY <1>2, <2>1, <2>7, <2>8, <3>1, <3>2, <3>3 DEF Unharmed
  <2> QED
    BY <1>2, <2>5, <2>9, <2>10, UnharmedKeeps
<1> QED
  BY <1>3, <1>4 DEF UserActs

LEMMA InitInvInit == Init => InitInv
<1> SUFFICES ASSUME Init PROVE InitInv
  OBVIOUS
<1>1. PICK s \in Starts : /\ at = [p \in Paths |-> IF p = Parent THEN Object(s.parent, p) ELSE Object(s.target, p)]
                          /\ foreign = s.entries
  BY DEF Init
<1>2. /\ s.parent \in {Nothing, Other, User} /\ s.target \in {Nothing, Other, User}
      /\ (s.target # Nothing => s.parent = User) /\ s.entries \in BOOLEAN /\ (s.entries => s.target = User)
      /\ User # Nothing /\ User # Other
  BY InitAssumption
<1>3. at[Parent] = Object(s.parent, Parent) /\ at[Target] = Object(s.target, Target)
  BY <1>1, Identities
<1>4. /\ at[Parent] \in {Nothing, Other, Dir(User, Parent)}
      /\ at[Target] \in {Nothing, Other, Dir(User, Target)}
      /\ at[Target] # Nothing => at[Parent] = Dir(User, Parent)
      /\ foreign => at[Target] = Dir(User, Target)
  BY <1>1, <1>2, <1>3 DEF Object
<1>5. at = [p \in Paths |-> at[p]]
  BY <1>1
<1>6. Types
  <2>1. \A path \in Paths : /\ at[path] \in {Nothing, Other} \cup {Dir(actor, path) : actor \in Actors}
                            /\ at[path] \in Objects
    BY <1>4, Identities DEF Objects, Dir, Actors
  <2>2. /\ file \in [by : Actors \cup {Nothing}, content : {"none", "empty", "partial", "whole"}]
        /\ file.by = Nothing => file = NoFile
    BY DEF Init, NoFile
  <2>3. \A p \in Processes : created[p] \in CreatedBy(p)
    BY DEF Init, CreatedBy
  <2> QED
    BY <1>1, <1>2, <1>5, <2>1, <2>2, <2>3 DEF Types, Init, Before, Inspecting, Objects
<1>7. Nested
  <2>1. HasEntries => foreign
    BY DEF HasEntries, Init
  <2> QED
    BY <1>4, <2>1, Identities DEF Nested, Actors
<1>8. ASSUME NEW p \in Processes PROVE Mine(p)
  <2>1. /\ stage[p] = "lstat" /\ phase[p] = 1 /\ created[p] = << >> /\ missing[p] = << >> /\ result[p] = "none"
        /\ file.by = Nothing
    BY DEF Init, NoFile
  <2>2. \A path \in Paths : ~ Owns(p, path)
    BY <2>1, OursFacts DEF Owns
  <2>3. file.by # p /\ \A path \in Paths : at[path] # Dir(p, path)
    BY <1>4, <2>1, Identities DEF Actors
  <2>4. Local(p)
    BY <2>1 DEF Local, Before, Inspecting, Making, Filing, Unfiling
  <2>5. Holding(p) /\ Cleaning(p)
    BY <2>1, <2>2, <2>3 DEF Holding, Cleaning, Filing, Unfiling, Ending
  <2> QED
    BY <2>4, <2>5 DEF Mine
<1> QED
  BY <1>6, <1>7, <1>8 DEF InitInv

LEMMA InitInvStep == InitInv /\ [Next]_vars => InitInv'
<1> SUFFICES ASSUME InitInv, [Next]_vars PROVE InitInv'
  OBVIOUS
<1>1. ASSUME NEW p \in Processes, Call(p) PROVE InitInv'
  BY <1>1, LstatKeeps, ReadEntriesKeeps, RecheckKeeps, AncestorKeeps, FindTargetKeeps, FindParentKeeps,
     MkdirKeeps, VerifyKeeps, RacedKeeps, AllMadeKeeps, OpenKeeps, StatFileKeeps, WriteFileKeeps,
     CheckKeeps, CheckFileKeeps, UnlinkKeeps, CheckDirectoryKeeps, RmdirKeeps, ThrowKeeps DEF Call
<1>2. ASSUME UNCHANGED vars PROVE InitInv'
  BY <1>2 DEF vars, InitInv, Types, Nested, HasEntries, IsDir, IsEmpty, Mine, Local, Holding, Cleaning, Owns, OnlyOne
<1> QED
  BY <1>1, <1>2, FaultKeeps, UserActsKeeps DEF Next, AllDone

LEMMA InitInvAlways == Spec => []InitInv
<1>1. Init => InitInv
  BY InitInvInit
<1>2. InitInv /\ [Next]_vars => InitInv'
  BY InitInvStep
<1> QED
  BY <1>1, <1>2, PTL DEF Spec

-----------------------------------------------------------------------------
(* What one step does to the file system.                                  *)

Makes(p, y) == stage[p] = "mkdir" /\ at[y] = Nothing /\ at'[y] = Dir(p, y)
Removes(p, y) == stage[p] = "rmdir" /\ at[y] = Dir(p, y) /\ at'[y] = Nothing /\ IsEmpty(y)

LEMMA DirectoryFacts ==
    ASSUME InitInv, NEW p \in Processes, Call(p) \/ Fault(p), NEW y \in Paths, at'[y] # at[y]
    PROVE  Makes(p, y) \/ Removes(p, y)
<1>1. Mkdir(p) \/ Rmdir(p)
  BY DEF Call, Fault, Lstat, ReadEntries, Recheck, Ancestor, FindTarget, FindParent, Verify, Raced, AllMade,
         Open, StatFile, WriteFile, Check, CheckFile, Unlink, CheckDirectory, Throw, fs
<1>2. CASE Mkdir(p)
  <2>1. missing[p] # << >> => Head(missing[p]) \in Paths
    BY MissingFacts, Identities DEF InitInv, Types
  <2> QED
    BY <1>2, <2>1 DEF Mkdir, Makes, InitInv, Types
<1>3. CASE Rmdir(p)
  <2>1. stage[p] = "rmdir" /\ created[p] # << >>
    BY <1>3 DEF Rmdir, InitInv, Mine, Local
  <2>2. PICK x \in Paths : LastOwned(p)[1] = x /\ at[x] = Dir(p, x)
    BY <2>1, LastFacts
  <2>3. IsEmpty(x) /\ at' = [at EXCEPT ![x] = Nothing]
    BY <1>3, <2>2 DEF Rmdir
  <2>4. y = x /\ at'[x] = Nothing
    BY <2>3 DEF InitInv, Types
  <2> QED
    BY <2>1, <2>2, <2>3, <2>4 DEF Removes
<1> QED
  BY <1>1, <1>2, <1>3

LEMMA FileFacts ==
    ASSUME InitInv, NEW p \in Processes, Call(p) \/ Fault(p), file' # file
    PROVE  \/ stage[p] = "open" /\ stage'[p] = "stat" /\ file = NoFile /\ file'.by = p
              /\ UNCHANGED <<at, result, directory>>
           \/ stage[p] \in Filing /\ file.by = p /\ file'.by = p
           \/ stage[p] = "unlink" /\ file.by = p /\ file' = NoFile
<1>1. Open(p) \/ WriteFile(p) \/ Unlink(p) \/ Fault(p)
  BY DEF Call, Lstat, ReadEntries, Recheck, Ancestor, FindTarget, FindParent, Mkdir, Verify, Raced, AllMade,
         StatFile, Check, CheckFile, CheckDirectory, Rmdir, Throw, fs
<1>2. CASE Open(p)
  <2>1. stage[p] = "open" /\ file = NoFile /\ file' = FileOf(p, "empty") /\ Go(p, "stat") /\ UNCHANGED <<at, directory>>
    BY <1>2 DEF Open, MayCreate
  <2>2. file'.by = p /\ stage'[p] = "stat" /\ result' = result
    BY <2>1, StageFacts DEF FileOf, InitInv
  <2> QED
    BY <2>1, <2>2
<1>3. stage[p] \in Filing \cup Unfiling => file.by = p
  BY DEF InitInv, Mine, Holding
<1>4. \A content : [file EXCEPT !.content = content].by = file.by
  BY DEF InitInv, Types
<1>5. CASE WriteFile(p)
  BY <1>3, <1>4, <1>5 DEF WriteFile, Filing
<1>6. CASE Unlink(p)
  BY <1>3, <1>6 DEF Unlink, Unfiling
<1>7. CASE Fault(p)
  BY <1>3, <1>4, <1>7 DEF Fault, Filing
<1> QED
  BY <1>1, <1>2, <1>5, <1>6, <1>7

LEMMA UserFacts ==
    ASSUME InitInv, UserActs
    PROVE  /\ \A y \in Paths : at'[y] # at[y] => at[y] = Nothing
           /\ file' # file => file = NoFile
<1>1. CASE UserAdds
  BY <1>1 DEF UserAdds
<1>2. ASSUME NEW path \in Paths, UserMakes(path)
      PROVE  (\A y \in Paths : at'[y] # at[y] => at[y] = Nothing) /\ file' = file
  BY <1>2 DEF UserMakes, InitInv, Types
<1> QED
  BY <1>1, <1>2 DEF UserActs

\* For every number of invocations and failing calls: init removes or changes
\* only what the same invocation created, whatever the others and the user do
\* in between.
THEOREM OnlyOwnRemovedAlways == Spec => OnlyOwnRemoved
<1>1. Spec => []InitInv
  BY InitInvAlways
<1>2. ASSUME InitInv, Next
      PROVE  /\ \A path \in Paths : at[path] # Nothing /\ at'[path] # at[path] =>
                   \E p \in Processes : at[path] = Dir(p, path) /\ stage[p] = "rmdir" /\ at'[path] = Nothing
             /\ file # NoFile /\ file' # file =>
                   /\ file.by \in Processes
                   /\ file'.by = file.by \/ (file' = NoFile /\ stage[file.by] = "unlink")
  <2>1. ASSUME NEW p \in Processes, Call(p) \/ Fault(p), NEW path \in Paths,
               at[path] # Nothing, at'[path] # at[path]
        PROVE  at[path] = Dir(p, path) /\ stage[p] = "rmdir" /\ at'[path] = Nothing
    BY <1>2, <2>1, DirectoryFacts DEF Makes, Removes
  <2>2. ASSUME NEW p \in Processes, Call(p) \/ Fault(p), file # NoFile, file' # file
        PROVE  /\ file.by \in Processes
               /\ file'.by = file.by \/ (file' = NoFile /\ stage[file.by] = "unlink")
    BY <1>2, <2>2, FileFacts
  <2>3. CASE UserActs
    BY <1>2, <2>3, UserFacts
  <2>4. CASE AllDone
    BY <2>4 DEF AllDone, vars
  <2> QED
    BY <1>2, <2>1, <2>2, <2>3, <2>4 DEF Next
<1>3. InitInv /\ [Next]_vars =>
        [/\ \A path \in Paths : at[path] # Nothing /\ at'[path] # at[path] =>
             \E p \in Processes : at[path] = Dir(p, path) /\ stage[p] = "rmdir" /\ at'[path] = Nothing
         /\ file # NoFile /\ file' # file =>
             /\ file.by \in Processes
             /\ file'.by = file.by \/ (file' = NoFile /\ stage[file.by] = "unlink")]_vars
  BY <1>2
<1> QED
  BY <1>1, <1>3, PTL DEF Spec, OnlyOwnRemoved

-----------------------------------------------------------------------------
(* One invocation wins when nothing interferes.                            *)

Untouched(q) ==
    /\ stage'[q] = stage[q] /\ phase'[q] = phase[q] /\ missing'[q] = missing[q] /\ directory'[q] = directory[q]
    /\ result'[q] = result[q] /\ before'[q] = before[q] /\ sawEntries'[q] = sawEntries[q]

LEMMA CallTouchesOwn ==
    ASSUME InitInv, NEW p \in Processes, Call(p), NEW q \in Processes \ {p}
    PROVE  Untouched(q)
<1>1. Types
  BY DEF InitInv
<1>2. \A s, code : Go(p, s) \/ Abort(p, code) \/ Report(p, code) => stage'[q] = stage[q] /\ result'[q] = result[q]
  BY <1>1, StageFacts
<1> USE <1>1, <1>2 DEF Untouched, Types
<1>3. CASE Lstat(p)
  BY <1>3 DEF Lstat
<1>4. CASE ReadEntries(p)
  BY <1>4 DEF ReadEntries
<1>5. CASE Recheck(p)
  BY <1>5 DEF Recheck
<1>6. CASE Ancestor(p) \/ FindTarget(p) \/ FindParent(p) \/ AllMade(p)
  BY <1>6 DEF Ancestor, FindTarget, FindParent, AllMade, SecondInspection
<1>7. CASE Mkdir(p) \/ Verify(p) \/ Raced(p)
  BY <1>7 DEF Mkdir, Verify, Raced
<1>8. CASE Open(p) \/ StatFile(p) \/ WriteFile(p) \/ CheckFile(p) \/ Unlink(p)
  BY <1>8 DEF Open, StatFile, WriteFile, CheckFile, Unlink
<1>9. CASE Check(p)
  BY <1>9 DEF Check
<1>10. CASE CheckDirectory(p) \/ Rmdir(p) \/ Throw(p)
  BY <1>10 DEF CheckDirectory, Rmdir, Throw
<1> QED
  BY <1>3, <1>4, <1>5, <1>6, <1>7, <1>8, <1>9, <1>10 DEF Call

LEMMA CallKeepsRest ==
    ASSUME NEW p \in Processes, Call(p)
    PROVE  UNCHANGED <<foreign, dryRun, hit, faults, acted>>
  BY DEF Call, Lstat, ReadEntries, Recheck, Ancestor, FindTarget, FindParent, Mkdir, Verify, Raced, AllMade,
         Open, StatFile, WriteFile, Check, CheckFile, Unlink, CheckDirectory, Rmdir, Throw, fs, Others

LEMMA FreeBackwards ==
    ASSUME InitInv, Next, Free'
    PROVE  Free /\ (UNCHANGED vars \/ \E p \in Processes : Call(p))
<1>1. ~ UserActs
  BY DEF UserActs, Free
<1>2. ASSUME NEW p \in Processes, Fault(p) PROVE FALSE
  BY <1>2 DEF Fault, Free, InitInv, Types
<1>3. ASSUME NEW p \in Processes, Call(p) PROVE Free
  <2>1. \A y \in Paths : at'[y] # at[y] => at[y] # Other
    BY <1>3, DirectoryFacts, Identities DEF Makes, Removes, Actors
  <2> QED
    BY <1>3, <2>1, CallKeepsRest, Identities DEF Free
<1>4. ASSUME UNCHANGED vars PROVE Free
  BY <1>4 DEF vars, Free
<1> QED
  BY <1>1, <1>2, <1>3, <1>4 DEF Next, AllDone

\* The invocation that wins keeps winning.
LEMMA WinnerKeeps ==
    ASSUME InitInv, Free, NEW q \in Processes, Wins(q), NEW p \in Processes, Call(p)
    PROVE  Wins(q)'
<1>1. file.by = q /\ at[Target] = directory[q] /\ (stage[q] \in Filing \/ result[q] = "created") /\ ~ foreign
  BY DEF Wins, Free
<1>2. HasEntries /\ file # NoFile
  BY <1>1, Identities DEF HasEntries, NoFile, Actors
<1>3. at'[Target] = at[Target]
  <2>1. ~ IsEmpty(Target) /\ at[Target] # Nothing
    BY <1>2 DEF IsEmpty, InitInv, Nested, IsDir
  <2> QED
    BY <2>1, DirectoryFacts, Identities DEF Makes, Removes
<1>4. CASE p # q
  <2>1. Untouched(q)
    BY <1>4, CallTouchesOwn
  <2>2. file' = file
    BY <1>1, <1>2, <1>4, FileFacts
  <2> QED
    BY <1>1, <1>3, <2>1, <2>2 DEF Untouched, Wins
<1>5. CASE p = q
  <2>1. Local(q) /\ Types
    BY DEF InitInv, Mine
  <2>2. result[q] = "created" => stage[q] = "done"
    BY <2>1 DEF Local, Types, Errors, Unfiling, Ending
  <2>3. stage[q] # "done"
    BY <1>5 DEF Call, Lstat, ReadEntries, Recheck, Ancestor, FindTarget, FindParent, Mkdir, Verify, Raced, AllMade,
         Open, StatFile, WriteFile, Check, CheckFile, Unlink, CheckDirectory, Rmdir, Throw
  <2>4. stage[q] \in {"stat", "write", "check"}
    BY <1>1, <2>2, <2>3 DEF Filing
  <2>5. StatFile(q) \/ WriteFile(q) \/ Check(q)
    BY <1>5, <2>4 DEF Call, Lstat, ReadEntries, Recheck, Ancestor, FindTarget, FindParent, Mkdir, Verify, Raced,
         AllMade, Open, CheckFile, Unlink, CheckDirectory, Rmdir, Throw
  <2>6. CASE StatFile(q)
    <3>1. Go(q, "write") /\ file' = file /\ directory' = directory
      BY <2>6 DEF StatFile, fs
    <3>2. stage'[q] = "write"
      BY <2>1, <3>1, StageFacts
    <3> QED
      BY <1>1, <1>3, <3>1, <3>2 DEF Wins, Filing
  <2>7. CASE WriteFile(q)
    <3>1. Go(q, "check") /\ file' = [file EXCEPT !.content = "whole"] /\ directory' = directory
      BY <2>7 DEF WriteFile
    <3>2. stage'[q] = "check"
      BY <2>1, <3>1, StageFacts
    <3>3. file'.by = q
      BY <1>1, <2>1, <3>1 DEF Types
    <3> QED
      BY <1>1, <1>3, <3>1, <3>2, <3>3 DEF Wins, Filing
  <2>8. CASE Check(q)
    <3>1. Report(q, "created") /\ file' = file /\ directory' = directory
      BY <1>1, <2>8 DEF Check, fs
    <3>2. result'[q] = "created"
      BY <2>1, <3>1, StageFacts
    <3> QED
      BY <1>1, <1>3, <3>1, <3>2 DEF Wins
  <2> QED
    BY <2>5, <2>6, <2>7, <2>8
<1> QED
  BY <1>4, <1>5

\* While there is no graph.json and nobody has failed, directories only come.
LEMMA OnlyMade ==
    ASSUME InitInv, NEW p \in Processes, Call(p), Smooth(p)
    PROVE  \A y \in Paths : IsDir(at[y]) => IsDir(at'[y]) /\ at'[y] = at[y]
<1>1. stage[p] # "rmdir"
  BY DEF Smooth, Before, Inspecting, Making
<1> QED
  BY <1>1, DirectoryFacts DEF Makes, Removes, IsDir

\* No entry stands in the way of p, so none of its checks fails.
LEMMA SmoothKeeps ==
    ASSUME InitInv, Free, Free', file = NoFile, NEW p \in Processes, Smooth(p), Call(p)
    PROVE  (file' = NoFile /\ Smooth(p)') \/ Wins(p)'
<1> USE DEF InitInv
<1>1. Types /\ Local(p) /\ Holding(p) /\ ~ HasEntries
  BY DEF Mine, HasEntries, Free
<1>2. \A y \in Paths : at[y] = Nothing \/ IsDir(at[y])
  BY Identities DEF Free, IsDir
<1>3. \A y \in Paths : IsDir(at[y]) => IsDir(at'[y]) /\ at'[y] = at[y]
  BY OnlyMade
<1>4. Target \in Paths /\ Parent \in Paths /\ Target # Parent
  BY Identities
<1> USE DEF Smooth, Before, Inspecting, Making
<1>5. ASSUME Lstat(p) PROVE file' = NoFile /\ Smooth(p)'
  <2>1. /\ stage[p] = "lstat" /\ before' = [before EXCEPT ![p] = at[Target]]
        /\ UNCHANGED <<at, file, phase>>
    BY <1>5 DEF Lstat, fs
  <2>2. IsDir(at[Target]) => at[Target] # Nothing /\ at[Target] # Other
    BY DEF IsDir
  <2>3. phase[p] \in {1, 2} /\ before'[p] = at[Target]
    BY <1>1, <2>1 DEF Types
  <2>4. Go(p, "ancestor") \/ (IsDir(at[Target]) /\ Go(p, "readdir"))
    BY <1>2, <1>4, <1>5, <2>1, <2>2, <2>3 DEF Lstat, Free
  <2>5. stage'[p] = "ancestor" \/ (IsDir(at[Target]) /\ stage'[p] = "readdir")
    BY <1>1, <2>4, StageFacts
  <2> QED
    BY <2>1, <2>3, <2>5
<1>6. ASSUME ReadEntries(p) PROVE file' = NoFile /\ Smooth(p)'
  <2>1. /\ stage[p] = "readdir" /\ sawEntries' = [sawEntries EXCEPT ![p] = HasEntries]
        /\ UNCHANGED <<at, file, before>> /\ IsDir(at[Target])
    BY <1>6 DEF ReadEntries, fs
  <2>2. Go(p, "recheck")
    BY <1>6, <2>1 DEF ReadEntries
  <2>3. stage'[p] = "recheck"
    BY <1>1, <2>2, StageFacts
  <2>4. ~ sawEntries'[p]
    BY <1>1, <2>1 DEF Types
  <2> QED
    BY <2>1, <2>3, <2>4
<1>7. ASSUME Recheck(p) PROVE file' = NoFile /\ Smooth(p)'
  <2>1. /\ stage[p] = "recheck" /\ UNCHANGED <<at, file>> /\ IsDir(at[Target])
        /\ at[Target] = before[p] /\ ~ sawEntries[p] /\ at[Target] # Nothing
    BY <1>7 DEF Recheck, fs, IsDir
  <2>2. \/ Report(p, "dry")
        \/ Go(p, "lstat")
        \/ Go(p, "open") /\ directory' = [directory EXCEPT ![p] = at[Target]]
    BY <1>7, <2>1 DEF Recheck
  <2>3. directory' = [directory EXCEPT ![p] = at[Target]] => directory'[p] = at[Target]
    BY <1>1 DEF Types
  <2>4. \/ stage'[p] = "done" /\ result'[p] = "dry"
        \/ stage'[p] = "lstat"
        \/ stage'[p] = "open" /\ directory'[p] = at[Target]
    BY <1>1, <2>2, <2>3, StageFacts
  <2> QED
    BY <2>1, <2>4
<1>8. ASSUME Ancestor(p) PROVE file' = NoFile /\ Smooth(p)'
  <2>1. file' = file /\ (Report(p, "dry") \/ Go(p, "missing"))
    BY <1>8 DEF Ancestor, fs, Free
  <2>2. (stage'[p] = "done" /\ result'[p] = "dry") \/ stage'[p] = "missing"
    BY <1>1, <2>1, StageFacts
  <2> QED
    BY <2>1, <2>2
<1>9. ASSUME FindTarget(p) PROVE file' = NoFile /\ Smooth(p)'
  <2>1. UNCHANGED <<at, file>> /\ (Go(p, "missingParent") \/ (IsDir(at[Target]) /\ Go(p, "lstat")))
    BY <1>9 DEF FindTarget, fs, Free, SecondInspection
  <2>2. stage'[p] = "missingParent" \/ (IsDir(at[Target]) /\ stage'[p] = "lstat")
    BY <1>1, <2>1, StageFacts
  <2> QED
    BY <2>1, <2>2
<1>10. ASSUME FindParent(p) PROVE file' = NoFile /\ Smooth(p)'
  <2>1. /\ UNCHANGED <<at, file>> /\ Go(p, "mkdir")
        /\ missing' = [missing EXCEPT ![p] = IF IsDir(at[Parent]) THEN <<Target>> ELSE <<Parent, Target>>]
    BY <1>10 DEF FindParent, fs, Free
  <2>2. stage'[p] = "mkdir"
    BY <1>1, <2>1, StageFacts
  <2>3. missing'[p] = IF IsDir(at[Parent]) THEN <<Target>> ELSE <<Parent, Target>>
    BY <1>1, <2>1 DEF Types
  <2> QED
    BY <2>1, <2>2, <2>3, MissingFacts
<1>11. ASSUME Mkdir(p) PROVE file' = NoFile /\ Smooth(p)'
  <2> DEFINE path == Head(missing[p])
  <2>1. stage[p] = "mkdir" /\ missing[p] # << >> /\ UNCHANGED <<file, missing>>
    BY <1>11 DEF Mkdir
  <2>2. path \in Paths /\ (path = Target => IsDir(at[Parent]))
    BY <1>1, <1>4, <2>1, MissingFacts DEF Types
  <2>3. \/ at[path] = Nothing /\ at' = [at EXCEPT ![path] = Dir(p, path)] /\ Go(p, "verify")
        \/ at[path] # Nothing /\ at' = at /\ Go(p, "raced")
    BY <1>11, <2>2 DEF Mkdir, CanMake
  <2>4. stage'[p] = "verify" \/ (stage'[p] = "raced" /\ IsDir(at'[path]))
    BY <1>1, <1>2, <2>2, <2>3, StageFacts
  <2> QED
    BY <1>3, <1>4, <2>1, <2>4
\* A directory that was made or found is there.
<1>12. ASSUME stage[p] \in {"verify", "raced"}, Go(p, "mkdir"), missing' = [missing EXCEPT ![p] = Tail(@)],
              UNCHANGED <<at, file>>, IsDir(at[Head(missing[p])])
       PROVE  file' = NoFile /\ Smooth(p)'
  <2>1. missing[p] \in {<<Target>>, <<Parent, Target>>} /\ missing'[p] = Tail(missing[p])
    BY <1>1, <1>12 DEF Local, Types
  <2>2. stage'[p] = "mkdir"
    BY <1>1, <1>12, StageFacts
  <2>3. IsDir(at[Parent]) /\ (missing'[p] = << >> => IsDir(at[Target]))
    BY <1>12, <2>1, MissingFacts
  <2> QED
    BY <1>12, <2>2, <2>3
<1>13. ASSUME Verify(p) PROVE file' = NoFile /\ Smooth(p)'
  <2>1. stage[p] = "verify" /\ Go(p, "mkdir") /\ missing' = [missing EXCEPT ![p] = Tail(@)] /\ UNCHANGED <<at, file>>
    BY <1>13 DEF Verify, fs
  <2>2. missing[p] \in {<<Target>>, <<Parent, Target>>}
    BY <1>1, <2>1 DEF Local, Types
  <2>3. Head(missing[p]) \in Paths
    BY <1>4, <2>2, MissingFacts
  <2>4. IsDir(at[Head(missing[p])])
    BY <1>1, <2>1, <2>3, Identities DEF Holding, Actors
  <2> QED
    BY <1>12, <2>1, <2>4
<1>14. ASSUME Raced(p) PROVE file' = NoFile /\ Smooth(p)'
  <2>1. stage[p] = "raced" /\ UNCHANGED <<at, file>> /\ IsDir(at[Head(missing[p])])
    BY <1>14 DEF Raced, fs
  <2>2. Go(p, "mkdir") /\ missing' = [missing EXCEPT ![p] = Tail(@)]
    BY <1>14, <2>1 DEF Raced
  <2> QED
    BY <1>12, <2>1, <2>2
<1>15. ASSUME AllMade(p) PROVE file' = NoFile /\ Smooth(p)'
  <2>1. stage[p] = "mkdir" /\ missing[p] = << >> /\ UNCHANGED <<at, file>> /\ Go(p, "lstat")
    BY <1>15 DEF AllMade, fs, SecondInspection
  <2>2. stage'[p] = "lstat"
    BY <1>1, <2>1, StageFacts
  <2> QED
    BY <2>1, <2>2, MissingFacts
<1>16. ASSUME Open(p) PROVE Wins(p)'
  <2>1. /\ stage[p] = "open" /\ IsDir(at[Target]) /\ directory[p] = at[Target] /\ UNCHANGED <<at, directory>>
        /\ file' = FileOf(p, "empty") /\ Go(p, "stat")
    BY <1>16 DEF Open, MayCreate
  <2>2. stage'[p] = "stat" /\ file'.by = p
    BY <1>1, <2>1, StageFacts DEF FileOf
  <2> QED
    BY <2>1, <2>2 DEF Wins, Filing
<1> QED
  BY <1>5, <1>6, <1>7, <1>8, <1>9, <1>10, <1>11, <1>13, <1>14, <1>15, <1>16
  DEF Call, StatFile, WriteFile, Check, CheckFile, Unlink, CheckDirectory, Rmdir, Throw

LEMMA FreeInvStep == InitInv /\ FreeInv /\ [Next]_vars => FreeInv'
<1> SUFFICES ASSUME InitInv, FreeInv, [Next]_vars, Free'
             PROVE  \/ file' = NoFile /\ \A p \in Processes : Smooth(p)'
                    \/ \E p \in Processes : Wins(p)'
  BY DEF FreeInv
<1>1. CASE UNCHANGED vars
  BY <1>1 DEF vars, FreeInv, Free, Smooth, Wins, IsDir
<1>2. CASE Next /\ ~ UNCHANGED vars
  <2>1. Free
    BY <1>2, FreeBackwards
  <2>2. PICK p \in Processes : Call(p)
    BY <1>2, FreeBackwards
  <2>3. CASE \E q \in Processes : Wins(q)
    BY <2>1, <2>2, <2>3, WinnerKeeps
  <2>4. CASE file = NoFile /\ \A q \in Processes : Smooth(q)
    <3>1. (file' = NoFile /\ Smooth(p)') \/ Wins(p)'
      BY <2>1, <2>2, <2>4, SmoothKeeps
    <3>2. ASSUME NEW q \in Processes \ {p} PROVE Smooth(q)'
      <4>1. Untouched(q) /\ Smooth(q)
        BY <2>2, <2>4, CallTouchesOwn
      <4>2. \A y \in Paths : IsDir(at[y]) => IsDir(at'[y]) /\ at'[y] = at[y]
        BY <2>2, <2>4, OnlyMade
      <4>3. stage[q] \in Making /\ missing[q] # << >> => Head(missing[q]) \in Paths
        BY MissingFacts, Identities DEF InitInv, Types
      <4>4. stage[q] = "raced" => missing[q] # << >>
        BY DEF InitInv, Mine, Local
      <4>5. stage[q] = "raced" => IsDir(at'[Head(missing[q])])
        BY <4>1, <4>2, <4>3, <4>4 DEF Smooth, Making
      <4> QED
        BY <4>1, <4>2, <4>5, Identities DEF Untouched, Smooth
    <3> QED
      BY <3>1, <3>2
  <2> QED
    BY <2>1, <2>3, <2>4 DEF FreeInv
<1> QED
  BY <1>1, <1>2

LEMMA FreeInvInit == Init => FreeInv
<1> SUFFICES ASSUME Init PROVE file = NoFile /\ \A p \in Processes : Smooth(p)
  BY DEF FreeInv
<1> QED
  BY DEF Init, Smooth, Before, Inspecting, Making

LEMMA InvIsSound == InitInv /\ FreeInv => InitSound
<1> SUFFICES ASSUME InitInv, FreeInv PROVE InitSound
  OBVIOUS
<1>1. SuccessTrue
  <2>1. ASSUME NEW p \in Processes, result[p] = "created" PROVE file = FileOf(p, "whole") /\ at[Target] = directory[p]
    <3>1. file.by = p /\ file.content = "whole" /\ at[Target] = directory[p]
      BY <2>1 DEF InitInv, Mine, Holding
    <3>2. file = [by |-> file.by, content |-> file.content]
      BY DEF InitInv, Types
    <3> QED
      BY <3>1, <3>2 DEF FileOf
  <2>2. ASSUME NEW p \in Processes, result[p] = "dry"
        PROVE  file.by # p /\ \A path \in Paths : at[path] # Dir(p, path)
    BY <2>2 DEF InitInv, Mine, Local, Holding
  <2> QED
    BY <2>1, <2>2 DEF SuccessTrue
<1>2. FailureClean
  <2>1. ASSUME NEW p \in Processes, Failed(p), p \notin hit
        PROVE  /\ file.by = p => at[Target] # directory[p]
               /\ OnlyOne(p) => \A path \in Paths : at[path] = Dir(p, path) => ~ IsEmpty(path)
    <3>1. stage[p] = "done" /\ result[p] \notin {"created", "dry"}
      BY <2>1 DEF Failed
    <3>2. /\ file.by = p => at[Target] # directory[p]
          /\ OnlyOne(p) => \A path \in Paths : at[path] = Dir(p, path) => Owns(p, path) \/ ~ IsEmpty(path)
      BY <2>1, <3>1 DEF InitInv, Mine, Cleaning, Ending
    <3>3. \A path \in Paths : ~ Owns(p, path)
      <4>1. created[p] = << >>
        BY <3>1 DEF InitInv, Mine, Local
      <4> QED
        BY <4>1, InFacts DEF Owns
    <3> QED
      BY <3>2, <3>3
  <2> QED
    BY <2>1 DEF FailureClean
<1>3. OneWins
  <2>1. SUFFICES ASSUME \A p \in Processes : stage[p] = "done", Free
                 PROVE  (\A p \in Processes : dryRun[p]) \/ \E p \in Processes : result[p] = "created"
    BY DEF OneWins, Free
  <2>2. CASE \E p \in Processes : Wins(p)
    BY <2>1, <2>2 DEF Wins, Filing
  <2>3. CASE \A p \in Processes : Smooth(p)
    BY <2>1, <2>3 DEF Smooth, InitInv, Mine, Local
  <2> QED
    BY <2>1, <2>2, <2>3 DEF FreeInv
<1> QED
  BY <1>1, <1>2, <1>3 DEF InitSound

\* For every number of invocations and failing calls: an invocation that
\* reports success has its own complete graph.json in the directory it
\* inspected, a dry run leaves nothing, a failed invocation cleans up what is
\* its own, and when nobody else interferes and no call fails one of the
\* invocations creates the project.
THEOREM InitAlwaysSound == Spec => []InitSound
<1>1. Init => InitInv /\ FreeInv
  BY InitInvInit, FreeInvInit
<1>2. InitInv /\ FreeInv /\ [Next]_vars => InitInv' /\ FreeInv'
  BY InitInvStep, FreeInvStep
<1>3. InitInv /\ FreeInv => InitSound
  BY InvIsSound
<1> QED
  BY <1>1, <1>2, <1>3, PTL DEF Spec
=============================================================================
