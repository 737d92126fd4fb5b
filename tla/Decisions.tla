------------------------------ MODULE Decisions ------------------------------
(***************************************************************************)
(* The parts that keep no state between calls: the barrier, the router and *)
(* the command line.  Each answers one question; the properties compare    *)
(* the answer with an independent statement of what it should be.          *)
(***************************************************************************)
EXTENDS Router, CommandLine

CONSTANTS BarrierQuestions, RouterQuestions, CliQuestions

IsArray(array) ==
  \/ array = Other
  \/ /\ array = [slots |-> array.slots, extra |-> array.extra] /\ array.extra \in BOOLEAN
     /\ Len(array.slots) \in Nat /\ array.slots = [i \in 1 .. Len(array.slots) |-> array.slots[i]]

\* The fields whose numbers are compared, where the object has them.
Numbers(record, names) == \A name \in names \cap DOMAIN record : record[name] \in Int \cup {Hidden}

Success(id) == [id |-> id, status |-> "succeeded", value |-> "json"]

\* The request with its routes in the reverse order.
Reversed(request) ==
  LET routes == request.requestedRoutes.slots
  IN [request EXCEPT !.requestedRoutes.slots = [i \in DOMAIN routes |-> routes[Len(routes) + 1 - i]]]

\* What a question is made of; Hidden, Hole, Other and Throws are no objects and
\* no arrays, those that a property builds from a question included.
IsBarrierQuestion(q) ==
  /\ q.part = "barrier" /\ (q.items = Throws \/ IsArray(q.items))
  /\ q.items \notin {Other, Throws} =>
       \A i \in DOMAIN q.items.slots, id \in SafeIds :
         {Success(id), [q.items EXCEPT !.slots[i] = Success(id)]} \cap {Hidden, Hole, Other, Throws} = {}
  /\ q.policy \in {Other, Throws} \/ Numbers(q.policy, {"minimum", "basisPoints"})

IsRouterQuestion(q) ==
  /\ q.part = "router"
  /\ \/ q.request \in {Other, Throws}
     \/ Readable(q.request, "requestedRoutes") =>
          /\ IsArray(q.request.requestedRoutes)
          /\ q.request.requestedRoutes # Other =>
               {Reversed(q.request), Reversed(q.request).requestedRoutes} \cap {Hidden, Other, Throws} = {}
  /\ \/ q.policy \in {Other, Throws}
     \/ /\ Numbers(q.policy, {"maxMulticast"})
        /\ Readable(q.policy, "allowedRoutes") => IsArray(q.policy.allowedRoutes)

\* What the file, init and the installation turn out to be.
IsCliQuestion(q) ==
  /\ q.part = "cli"
  /\ Len(q.argv) \in Nat /\ q.argv = [i \in 1 .. Len(q.argv) |-> q.argv[i]]
  /\ q.world.source \in {"unreadable", "notJson", "throws", "invalid", "valid"}
  /\ q.world.init \in {"ready", "refused", "throws"}

ASSUME QuestionAssumption ==
  /\ \A q \in BarrierQuestions : IsBarrierQuestion(q)
  /\ \A q \in RouterQuestions : IsRouterQuestion(q)
  /\ \A q \in CliQuestions : IsCliQuestion(q)

VARIABLES question, decision

decisionVars == <<question, decision>>

Undecided == [undecided |-> TRUE]
AtRest == [part |-> "none"]

DecisionsInit ==
  /\ question \in BarrierQuestions \/ question \in RouterQuestions \/ question \in CliQuestions
  /\ decision = Undecided

DecisionsRest == question = AtRest /\ decision = Undecided

Asked(part) == question.part = part /\ decision = Undecided /\ UNCHANGED question

DecideBarrier ==
  Asked("barrier") /\ decision' = evaluateSettledBarrier(question.items, question.policy)

DecideRoute ==
  Asked("router") /\ decision' = evaluateRouteSelection(question.request, question.policy)

DecideCommand ==
  Asked("cli") /\ decision' = run(question.argv, question.world)

DecisionsNext == DecideBarrier \/ DecideRoute \/ DecideCommand

DecisionsSpec == (DecisionsInit \/ DecisionsRest) /\ [][DecisionsNext]_decisionVars

Answered(part) == question.part = part /\ decision # Undecided

Elements(seq) == {seq[i] : i \in DOMAIN seq}

\* The record has exactly these names and hides none of them.
Exactly(record, names) == DOMAIN record = names /\ \A name \in names : record[name] # Hidden

Dense(array) ==
  array # Other /\ ~ array.extra /\ \A i \in DOMAIN array.slots : array.slots[i] \notin {Hole, Hidden, Other}

------------------------------------------------------------------------------
WellFormedItem(item) ==
  /\ \/ Exactly(item, {"id", "status", "value"}) /\ item.status = "succeeded" /\ item.value # Unportable
     \/ Exactly(item, {"id", "status"}) /\ item.status \in Statuses \ {"succeeded"}
  /\ item.id \in SafeIds

WellFormedBarrier(items, policy) ==
  /\ Throws \notin {items, policy} /\ policy # Other
  /\ Dense(items)
  /\ \A i \in DOMAIN items.slots : WellFormedItem(items.slots[i])
  /\ \A i, j \in DOMAIN items.slots : items.slots[i].id = items.slots[j].id => i = j
  /\ \/ Exactly(policy, {"kind"}) /\ policy.kind = "all"
     \/ Exactly(policy, {"kind", "minimum"}) /\ policy.kind = "minimum" /\ policy.minimum >= 1
     \/ /\ Exactly(policy, {"kind", "basisPoints"}) /\ policy.kind = "percentage"
        /\ policy.basisPoints \in 1 .. BasisPoints

\* How many successes out of n the policy asks for.
Needed(policy, n) ==
  CASE policy.kind = "all" -> n
    [] policy.kind = "minimum" -> policy.minimum
    [] policy.kind = "percentage" -> (n * policy.basisPoints + BasisPoints - 1) \div BasisPoints

\* The ids of the items with that status, all of them, each once and in the
\* order of the items, whose ids are distinct.
Lists(ids, slots, status) ==
  LET these == {i \in DOMAIN slots : slots[i].status = status}
  IN /\ Elements(ids) = {slots[i].id : i \in these}
     /\ \A k, l \in DOMAIN ids :
          k < l => \E i, j \in these : i < j /\ ids[k] = slots[i].id /\ ids[l] = slots[j].id

(* evaluateSettledBarrier refuses exactly the inputs that are not well     *)
(* formed and never counts anything of them.  Of the others it lists every *)
(* id once, under its status and in the order of the items, and opens the  *)
(* barrier exactly when there are items and as many of them succeeded as   *)
(* the policy needs; a share exactly at the threshold is enough.  Another  *)
(* success never closes an open barrier.                                   *)
BarrierCorrect ==
  Answered("barrier") =>
    LET items == question.items
        policy == question.policy
        slots == items.slots
        won == Cardinality({i \in DOMAIN slots : slots[i].status = "succeeded"})
        Promoted(i) == [items EXCEPT !.slots[i] = Success(slots[i].id)]
    IN IF ~ WellFormedBarrier(items, policy)
       THEN decision.issues # {} /\ DOMAIN decision = {"issues"}
       ELSE /\ decision.issues = {} /\ decision.total = Len(slots)
            /\ decision.satisfied <=> slots # <<>> /\ won >= Needed(policy, Len(slots))
            /\ Lists(decision.acceptedIds, slots, "succeeded")
            /\ Lists(decision.failedIds, slots, "failed")
            /\ Lists(decision.missingIds, slots, "missing")
            /\ Lists(decision.timedOutIds, slots, "timed_out")
            /\ decision.satisfied =>
                 \A i \in DOMAIN slots : evaluateSettledBarrier(Promoted(i), policy).satisfied

------------------------------------------------------------------------------
WellFormedRoutes(array) ==
  /\ Dense(array)
  /\ \A i \in DOMAIN array.slots : array.slots[i] \in SafeIds
  /\ \A i, j \in DOMAIN array.slots : array.slots[i] = array.slots[j] => i = j

\* The names a policy of its kind must have; the others it may have are
\* defaultRoute and confidence.
RequiredNames(policy) ==
  {"kind", "allowedRoutes"} \cup (IF policy.kind = "multi" THEN {"maxMulticast"} ELSE {})

WellFormedConfidence(confidence, allowed) ==
  /\ confidence # Other
  /\ Exactly(confidence, {"minimumBasisPoints", "escalationRoute"})
  /\ confidence.minimumBasisPoints \in 1 .. BasisPoints
  /\ confidence.escalationRoute \in allowed

WellFormedRouting(request, policy) ==
  /\ {request, policy} \cap {Throws, Other} = {}
  /\ {"requestedRoutes"} \subseteq DOMAIN request /\ {"kind", "allowedRoutes"} \subseteq DOMAIN policy
  /\ policy.kind \in {"single", "multi"}
  /\ \E optional \in SUBSET {"confidenceBasisPoints"} :
       Exactly(request, {"requestedRoutes"} \cup optional)
  /\ \E optional \in SUBSET {"defaultRoute", "confidence"} :
       Exactly(policy, RequiredNames(policy) \cup optional)
  /\ WellFormedRoutes(request.requestedRoutes) /\ WellFormedRoutes(policy.allowedRoutes)
  /\ ("confidenceBasisPoints" \in DOMAIN request) = ("confidence" \in DOMAIN policy)
  /\ LET allowed == Elements(policy.allowedRoutes.slots)
     IN /\ allowed # {}
        /\ policy.kind = "multi" => policy.maxMulticast \in 1 .. Cardinality(allowed)
        /\ "defaultRoute" \in DOMAIN policy => policy.defaultRoute \in allowed
        /\ "confidence" \in DOMAIN policy =>
             /\ WellFormedConfidence(policy.confidence, allowed)
             /\ request.confidenceBasisPoints \in 0 .. BasisPoints

(* evaluateRouteSelection refuses exactly the inputs that are not well     *)
(* formed.  Of the others it routes all or nothing: either exactly the     *)
(* requested routes, all of them allowed and no more than the policy's     *)
(* limit, or the default route alone, or, exactly when the confidence is   *)
(* below the minimum, the escalation route alone, or nothing, the last     *)
(* only when there is no request or it breaks the policy.  The order of    *)
(* the request changes neither what is selected nor its order.             *)
RouterCorrect ==
  Answered("router") =>
    LET request == question.request
        policy == question.policy
        requested == request.requestedRoutes.slots
        allowed == Elements(policy.allowedRoutes.slots)
        limit == IF policy.kind = "single" THEN 1 ELSE policy.maxMulticast
        low == /\ "confidence" \in DOMAIN policy
               /\ request.confidenceBasisPoints < policy.confidence.minimumBasisPoints
        fits == Elements(requested) \subseteq allowed /\ Len(requested) \in 1 .. limit
        selected == decision.selectedRoutes
        again == evaluateRouteSelection(Reversed(request), policy)
    IN IF ~ WellFormedRouting(request, policy)
       THEN decision.issues # {} /\ DOMAIN decision = {"issues"}
       ELSE /\ decision.issues = {}
            /\ decision.routed <=> selected # <<>>
            /\ decision.escalated <=> low
            /\ low => selected = <<policy.confidence.escalationRoute>> /\ ~ decision.usedDefault
            /\ decision.usedDefault => selected = <<policy.defaultRoute>> /\ ~ fits
            /\ ~ low /\ ~ decision.usedDefault =>
                 Elements(selected) = IF fits THEN Elements(requested) ELSE {}
            /\ Cardinality(Elements(selected)) = Len(selected) /\ Len(selected) <= limit
            /\ Elements(decision.unknownRoutes) \subseteq Elements(requested) \ allowed
            /\ again.selectedRoutes = selected /\ again.reasonCode = decision.reasonCode

------------------------------------------------------------------------------
(* One invocation of the command line.  With --json, unless help or the    *)
(* version is asked for, it writes one envelope to stdout and nothing to   *)
(* stderr, also when the arguments are refused; the envelope's exit code   *)
(* is the process's, ok says that it is 0, and exactly the usage, input    *)
(* and internal errors carry an error instead of data.  Without --json     *)
(* there is one text, on stderr exactly for errors and invalid graphs.     *)
(* The arguments without their --json exit with the same code, but for two *)
(* vectors that are refused, with the code of an input error, because of   *)
(* it: a repeated --json, and a --json right behind --format, which is     *)
(* taken for a missing format.  Exit code 1 means an invalid graph, 3 a    *)
(* probe of doctor that is not as it should be; the doctor is healthy      *)
(* exactly when all of them are and otherwise names one to three remedies. *)
(* Help and version exit with 0; of what they write with --json, where the *)
(* README of packages/cli promises a document, nothing is asserted.        *)
CliCorrect ==
  Answered("cli") =>
    LET argv == question.argv
        world == question.world
        json == "--json" \in Elements(argv)
        info == Elements(argv) \cap {"--help", "-h", "--version", "-v"} # {}
        isError == decision.exit \in {EXIT_CODES.input, EXIT_CODES.internal}
        envelope == decision.envelope
        plain == Kept(argv, {i \in DOMAIN argv : argv[i] # "--json"})
        repeated == \E i, j \in DOMAIN argv : i # j /\ argv[i] = "--json" /\ argv[j] = "--json"
        displaced == \E i \in DOMAIN argv : argv[i] = "--json" /\ i > 1 /\ argv[i - 1] = "--format"
        good == /\ world.node >= 20 /\ world.schema = "supported" /\ world.fixture = "graph"
                /\ world.core = "canonical" /\ world.runtime = "runs"
        doctor == runDoctor(world)
    IN /\ decision.stdout + decision.stderr = 1
       /\ json /\ ~ info =>
            /\ decision.stdout = 1 /\ envelope # NoEnvelope
            /\ envelope.exitCode = decision.exit /\ envelope.ok = (decision.exit = 0)
            /\ (envelope.error # "null") = isError /\ (envelope.data = "null") = isError
       /\ ~ json =>
            envelope = NoEnvelope /\ (decision.stderr = 1) = (isError \/ decision.exit = 1)
       /\ run(plain, world).exit # decision.exit =>
            decision.exit = EXIT_CODES.input /\ (repeated \/ displaced)
       /\ info => decision.exit = 0
       /\ decision.exit = 1 => world.source = "invalid"
       /\ decision.exit = 3 => ~ good
       /\ "doctor" \in Elements(argv) /\ decision.exit = 0 /\ Len(argv) = 1 => good
       /\ doctor.healthy <=> good
       /\ Len(doctor.remediations) \in (IF good THEN {0} ELSE 1 .. 3)
=============================================================================
