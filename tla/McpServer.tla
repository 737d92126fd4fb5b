------------------------------ MODULE McpServer ------------------------------
(***************************************************************************)
(* The tools of packages/mcp-server: graph_validate and graph_plan compile *)
(* a supplied graph in a worker thread under a deadline (limits.ts), and   *)
(* graph_get_schema serves one cached file (schema.ts).                    *)
(*                                                                         *)
(* compileGraphBounded runs on one JavaScript thread up to the first       *)
(* await, so its checks, the start of the worker, the timer and the abort  *)
(* listener are one step (no signal can change in between, so the second   *)
(* look at signal.aborted in the code never finds anything).  After it,    *)
(* the worker's events, the timer and the caller's abort race.             *)
(*                                                                         *)
(* worker[r] is the thread as the event loop knows it: "absent",           *)
(* "running", "posted" (a message is due), "threw" (an error is due),      *)
(* "died" (an exit with another code than 0 is due), "mute" (an exit with  *)
(* code 0 and no message), "gone" and "terminated".                        *)
(***************************************************************************)
EXTENDS Naturals

CONSTANTS Requests, Calls

\* What inputLimitIssue and the compiler tell apart of a supplied graph.
GraphKinds == {"cyclic", "undefined", "manyBytes", "manyParts", "uncloneable", "valid", "invalid"}

ASSUME CallsAssumption ==
  Calls \subseteq [tool : {"graph_validate", "graph_plan"}, graph : GraphKinds, badTimeout : BOOLEAN]
                     \cup [tool : {"graph_get_schema"}, graph : {"none"}, badTimeout : {FALSE}]

VARIABLES asked, aborted, worker, timer, listener, settled, answer,
          schemaCache, schemaReads, serving

mcpVars == <<asked, aborted, worker, timer, listener, settled, answer,
             schemaCache, schemaReads, serving>>

NoAnswer == [isError |-> FALSE, issue |-> "pending", valid |-> FALSE, planned |-> FALSE]
NoCall == [tool |-> "none", graph |-> "none", badTimeout |-> FALSE]

McpInit ==
  /\ asked = [r \in Requests |-> NoCall]
  /\ aborted \in [Requests -> BOOLEAN]
  /\ worker = [r \in Requests |-> "absent"]
  /\ timer = [r \in Requests |-> FALSE]
  /\ listener = [r \in Requests |-> FALSE]
  /\ settled = [r \in Requests |-> FALSE]
  /\ answer = [r \in Requests |-> NoAnswer]
  /\ schemaCache = "none"
  /\ schemaReads = 0
  /\ serving = TRUE

schemaVars == <<schemaCache, schemaReads>>

------------------------------------------------------------------------------
(* The answer of a tool for the outcome of a bounded compilation.          *)

\* compilationIssueRecord, and graphPlan's empty plan around it.
issueAnswer(code) == [isError |-> TRUE, issue |-> code, valid |-> FALSE, planned |-> FALSE]

\* validationRecord; graphPlan adds layers only to a valid compilation.
compiledAnswer(call) ==
  [isError |-> FALSE, issue |-> "none", valid |-> call.graph = "valid",
   planned |-> call.tool = "graph_plan" /\ call.graph = "valid"]

\* The order of inputLimitIssue's returns; an uncloneable or a compilable graph
\* passes it.
inputLimitIssue(graph) ==
  CASE graph \in {"cyclic", "undefined"} -> "MCP_INTERNAL_ERROR"
    [] graph = "manyBytes" -> "MCP_INPUT_TOO_LARGE"
    [] graph = "manyParts" -> "MCP_GRAPH_TOO_LARGE"
    [] OTHER -> "none"

\* What compileGraphBounded answers before it has a worker, "none" when it gets
\* one: a graph with a function in it is JSON to stringify, which drops the
\* function, and makes the constructor of the worker throw.
startIssue(call, isAborted) ==
  IF inputLimitIssue(call.graph) # "none" THEN inputLimitIssue(call.graph)
  ELSE IF isAborted THEN "MCP_REQUEST_CANCELLED"
  ELSE IF call.badTimeout \/ call.graph = "uncloneable" THEN "MCP_INTERNAL_ERROR"
  ELSE "none"

Ask(r, call) ==
  /\ serving /\ asked[r] = NoCall
  /\ call.tool # "graph_get_schema"
  /\ asked' = [asked EXCEPT ![r] = call]
  /\ LET issue == startIssue(call, aborted[r])
     IN IF issue # "none"
        THEN /\ settled' = [settled EXCEPT ![r] = TRUE]
             /\ answer' = [answer EXCEPT ![r] = issueAnswer(issue)]
             /\ UNCHANGED <<worker, timer, listener>>
        ELSE /\ worker' = [worker EXCEPT ![r] = "running"]
             /\ timer' = [timer EXCEPT ![r] = TRUE]
             /\ listener' = [listener EXCEPT ![r] = TRUE]
             /\ UNCHANGED <<settled, answer>>
  /\ UNCHANGED <<aborted, serving, schemaVars>>

------------------------------------------------------------------------------
(* finish: only the first outcome counts; it disarms the timer, the abort  *)
(* listener and every listener of the worker.                              *)

\* Mutation: the deadline answers but leaves the worker computing.
LeaveWorker(r, terminate, state) == worker' = [worker EXCEPT ![r] = state]

StopWorker(r, terminate, state) ==
  worker' = [worker EXCEPT ![r] = IF terminate /\ state = "running" THEN "terminated" ELSE state]

finish(r, outcome, terminate, state) ==
  /\ StopWorker(r, terminate, state)
  /\ settled' = [settled EXCEPT ![r] = TRUE]
  /\ timer' = [timer EXCEPT ![r] = FALSE]
  /\ listener' = [listener EXCEPT ![r] = FALSE]
  /\ answer' = IF settled[r] THEN answer ELSE [answer EXCEPT ![r] = outcome]
  /\ UNCHANGED <<asked, serving, schemaVars>>

\* The caller's signal; the listener is registered until the first outcome.
Abort(r) ==
  /\ serving /\ ~ aborted[r]
  /\ aborted' = [aborted EXCEPT ![r] = TRUE]
  /\ IF listener[r] THEN finish(r, issueAnswer("MCP_REQUEST_CANCELLED"), TRUE, worker[r])
     ELSE UNCHANGED <<asked, worker, timer, listener, settled, answer, serving, schemaVars>>

\* Mutation: the deadline looks whether the worker still computes.
TimerDueWhileRunning(r) == timer[r] /\ worker[r] = "running"

TimerDue(r) == timer[r]

Timeout(r) ==
  /\ serving /\ TimerDue(r)
  /\ finish(r, issueAnswer("MCP_TOOL_TIMEOUT"), TRUE, worker[r])
  /\ UNCHANGED aborted

\* compile-worker.ts posts one result or throws; the thread may also be stopped
\* with another code than 0, or end without a message that can be read.
WorkerEnds(r) ==
  /\ serving /\ worker[r] = "running"
  /\ \E end \in {"posted", "threw", "died", "mute"} : worker' = [worker EXCEPT ![r] = end]
  /\ UNCHANGED <<asked, aborted, timer, listener, settled, answer, serving, schemaVars>>

\* The listeners of the worker are there until the first outcome.
OnMessage(r) ==
  /\ serving /\ worker[r] = "posted" /\ ~ settled[r]
  /\ finish(r, compiledAnswer(asked[r]), FALSE, "gone")
  /\ UNCHANGED aborted

OnError(r) ==
  /\ serving /\ worker[r] = "threw" /\ ~ settled[r]
  /\ finish(r, issueAnswer("MCP_INTERNAL_ERROR"), TRUE, "gone")
  /\ UNCHANGED aborted

OnExit(r) ==
  /\ serving /\ worker[r] \in {"died", "mute"} /\ ~ settled[r]
  /\ IF worker[r] = "died" THEN finish(r, issueAnswer("MCP_INTERNAL_ERROR"), FALSE, "gone")
     ELSE /\ worker' = [worker EXCEPT ![r] = "gone"]
          /\ UNCHANGED <<asked, timer, listener, settled, answer, serving, schemaVars>>
  /\ UNCHANGED aborted

\* An event of a worker whose listeners were removed: nobody hears it, except
\* that node throws an "error" event nobody listens to, which ends the process.
Unheard(r) ==
  /\ serving /\ settled[r] /\ worker[r] \in {"posted", "threw", "died", "mute"}
  /\ serving' = (worker[r] # "threw")
  /\ worker' = [worker EXCEPT ![r] = "gone"]
  /\ UNCHANGED <<asked, aborted, timer, listener, settled, answer, schemaVars>>

------------------------------------------------------------------------------
(* graph_get_schema: the first call starts the read and every call awaits  *)
(* the one cached promise, also when it was rejected.                      *)

schemaAnswer(cache) ==
  IF cache = "loaded" THEN [NoAnswer EXCEPT !.issue = "none"] ELSE issueAnswer("MCP_INTERNAL_ERROR")

AskSchema(r, call) ==
  /\ serving /\ asked[r] = NoCall
  /\ call.tool = "graph_get_schema"
  /\ asked' = [asked EXCEPT ![r] = call]
  /\ schemaCache' = IF schemaCache = "none" THEN "loading" ELSE schemaCache
  /\ schemaReads' = IF schemaCache = "none" THEN schemaReads + 1 ELSE schemaReads
  /\ UNCHANGED <<aborted, worker, timer, listener, settled, answer, serving>>

readBundledSchema ==
  /\ serving /\ schemaCache = "loading"
  /\ schemaCache' \in {"loaded", "failed"}
  /\ UNCHANGED <<asked, aborted, worker, timer, listener, settled, answer, schemaReads, serving>>

AnswerSchema(r) ==
  /\ serving /\ asked[r].tool = "graph_get_schema" /\ ~ settled[r]
  /\ schemaCache \in {"loaded", "failed"}
  /\ settled' = [settled EXCEPT ![r] = TRUE]
  /\ answer' = [answer EXCEPT ![r] = schemaAnswer(schemaCache)]
  /\ UNCHANGED <<asked, aborted, worker, timer, listener, serving, schemaVars>>

------------------------------------------------------------------------------
Events(r) == Timeout(r) \/ OnMessage(r) \/ OnError(r) \/ OnExit(r) \/ Unheard(r) \/ AnswerSchema(r)

McpNext ==
  \/ \E r \in Requests, call \in Calls : Ask(r, call) \/ AskSchema(r, call)
  \/ \E r \in Requests : Abort(r) \/ WorkerEnds(r) \/ Events(r)
  \/ readBundledSchema

McpSpec == McpInit /\ [][McpNext]_mcpVars

\* The event loop delivers what is due and timers fire; neither the worker, nor
\* the caller's abort, nor a second request is ever assumed.
McpFairness == WF_mcpVars(readBundledSchema) /\ \A r \in Requests : WF_mcpVars(Events(r))

------------------------------------------------------------------------------
(* A request is answered by its first outcome and leaves nothing behind:   *)
(* once compileGraphBounded has an answer its timer and abort listener are *)
(* disarmed and its worker no longer computes, and until then both are     *)
(* armed, so a worker that never answers is always cut off.  A compilation *)
(* is reported only if the worker posted one, an invalid graph gets no     *)
(* plan, and no worker is started for a request that was over the limits   *)
(* or cancelled beforehand.  The schema file is read at most once and all  *)
(* callers are told the same.  The server itself dies only of a worker's   *)
(* error that arrives after the timeout or the cancellation of its request.*)
RequestsSound ==
  /\ \A r \in Requests :
       LET compiling == asked[r].tool \in {"graph_validate", "graph_plan"}
           code == answer[r].issue
       IN /\ settled[r] => ~ timer[r] /\ ~ listener[r] /\ worker[r] # "running"
          /\ compiling /\ ~ settled[r] => timer[r] /\ listener[r] /\ worker[r] # "terminated"
          /\ settled[r] <=> code # "pending"
          /\ compiling /\ code = "none" => worker[r] = "gone" /\ asked[r].graph \in {"valid", "invalid"}
          /\ answer[r].planned => answer[r].valid /\ code = "none"
          /\ worker[r] = "terminated" => code \in {"MCP_TOOL_TIMEOUT", "MCP_REQUEST_CANCELLED"}
          /\ code \in {"MCP_INPUT_TOO_LARGE", "MCP_GRAPH_TOO_LARGE"} => worker[r] = "absent"
          /\ code = "MCP_REQUEST_CANCELLED" => aborted[r]
  /\ schemaReads <= 1
  /\ \A q, r \in Requests :
       /\ asked[q].tool = "graph_get_schema" /\ asked[r].tool = "graph_get_schema"
       /\ settled[q] /\ settled[r]
       => answer[q] = answer[r]
  /\ serving \/ \E r \in Requests :
                   worker[r] = "gone" /\ answer[r].issue \in {"MCP_TOOL_TIMEOUT", "MCP_REQUEST_CANCELLED"}

(* Every request is answered, also when its worker hangs, ends without a   *)
(* message or fails, as long as the server lives.                          *)
RequestsAnswered == \A r \in Requests : asked[r] # NoCall ~> settled[r] \/ ~ serving
=============================================================================
