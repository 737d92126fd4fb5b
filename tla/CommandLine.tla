----------------------------- MODULE CommandLine -----------------------------
(***************************************************************************)
(* packages/cli/src/cli.ts, with doctor.ts, validation.ts and planner.ts:  *)
(* what one invocation of `graph` writes, and its exit code, for an        *)
(* argument vector and a world (what the file, the compiler, init and the  *)
(* probes of doctor turn out to be).                                       *)
(*                                                                         *)
(* An argument is a string; Dashed are those that start with "-".  What is *)
(* written is abstracted to [stdout, stderr, envelope]: two counts, and    *)
(* the fields of the machine envelope.                                     *)
(***************************************************************************)
EXTENDS Loops

CONSTANT Dashed

Commands == {"validate", "plan", "compile", "visualize", "doctor", "init"}

EXIT_CODES == [success |-> 0, invalidGraph |-> 1, input |-> 2, unhealthy |-> 3, internal |-> 70]

Has(argv, arguments) == \E i \in DOMAIN argv : argv[i] \in arguments

Count(argv, argument) == Cardinality({i \in DOMAIN argv : argv[i] = argument})

\* Mutation: a repeated --json is not taken for machine mode.
requestedJsonOnce(argv) == Count(argv, "--json") = 1

requestedJson(argv) == Has(argv, {"--json"})

inferCommand(argv) ==
  LET named == Kept(argv, {i \in DOMAIN argv : argv[i] \in Commands})
  IN IF named = <<>> THEN "null" ELSE named[1]

------------------------------------------------------------------------------
(* parseArguments.  Every refusal has the code GECLI_USAGE.                *)

FormatOf ==
  [argument \in {"--format=mermaid", "--format=dot", "--format=png"} |->
     CASE argument = "--format=mermaid" -> "mermaid"
       [] argument = "--format=dot" -> "dot"
       [] argument = "--format=png" -> "png"]

\* The options start with "-".
ASSUME DashedAssumption ==
  {"--json", "--dry-run", "--format", "--help", "-h", "--version", "-v"} \cup DOMAIN FormatOf
    \subseteq Dashed

\* A value that itself starts with a dash is refused, so the argument behind
\* "--format" is a value and never another option.
IsValue(argv, i) == i > 1 /\ argv[i - 1] = "--format"

FormatAt(argv) == {i \in DOMAIN argv : argv[i] = "--format" \/ argv[i] \in DOMAIN FormatOf}

FormatUnvalued(argv) ==
  \E i \in DOMAIN argv : argv[i] = "--format" /\ (i = Len(argv) \/ argv[i + 1] \in Dashed)

Formats(argv) ==
  {IF argv[i] = "--format" THEN argv[i + 1] ELSE FormatOf[argv[i]] : i \in FormatAt(argv)}

\* What is neither a flag, nor a format, nor the value of one.
Positionals(argv) ==
  Kept(argv, {i \in DOMAIN argv : /\ argv[i] \notin {"--json", "--dry-run", "--format"}
                                  /\ argv[i] \notin DOMAIN FormatOf
                                  /\ ~ IsValue(argv, i)})

OperandsFit(command, operands) ==
  CASE command = "doctor" -> operands = <<>>
    [] command = "init" ->
         /\ Len(operands) <= 1
         /\ operands # <<>> => operands[1] \notin Dashed \/ operands[1] = "-"
    [] OTHER -> Len(operands) = 1 /\ operands[1] # ""

parseArguments(argv) ==
  LET positionals == Positionals(argv)
      command == positionals[1]
      operands == Tail(positionals)
      accepted == /\ Count(argv, "--json") <= 1 /\ Count(argv, "--dry-run") <= 1
                  /\ ~ FormatUnvalued(argv) /\ Cardinality(FormatAt(argv)) <= 1
                  /\ positionals # <<>> /\ command \in Commands
                  /\ Has(argv, {"--dry-run"}) => command = "init"
                  /\ FormatAt(argv) # {} => command = "visualize"
                  /\ command = "visualize" => Formats(argv) \subseteq {"mermaid", "dot"}
                  /\ OperandsFit(command, operands)
  IN IF Has(argv, {"--help", "-h"}) THEN [kind |-> "help"]
     ELSE IF Has(argv, {"--version", "-v"}) THEN [kind |-> "version"]
     ELSE IF ~ accepted THEN [kind |-> "GECLI_USAGE"]
     ELSE [kind |-> "command", command |-> command, json |-> requestedJson(argv),
           dryRun |-> Has(argv, {"--dry-run"}),
           file |-> IF operands # <<>> THEN operands[1] ELSE IF command = "init" THEN "." ELSE "null",
           format |-> IF command # "visualize" THEN "null"
                      ELSE IF Formats(argv) = {} THEN "mermaid"
                      ELSE CHOOSE format \in Formats(argv) : TRUE]

------------------------------------------------------------------------------
(* doctor.ts.  A probe of a file or a package is one of a few outcomes;    *)
(* "fails" is an attempt that threw.                                       *)

nodeVersionCheck(probes) == probes.node >= 20
schemaCheck(probes) == probes.schema = "supported"
coreExports(probes) == probes.core \notin {"fails", "noCompiler"}
coreCheck(probes) == coreExports(probes)

\* Without a compiler a readable graph passes: the core check reports that.
fixtureCheck(probes) == probes.fixture = "graph" /\ (coreExports(probes) => probes.core = "canonical")

runtimeCheck(probes) == probes.runtime = "runs"

checks(probes) ==
  <<nodeVersionCheck(probes), schemaCheck(probes), fixtureCheck(probes),
    coreCheck(probes), runtimeCheck(probes)>>

remediations(results) ==
  (IF ~ results[1] THEN <<"node">> ELSE <<>>)
    \o (IF ~ results[2] \/ ~ results[3] THEN <<"assets">> ELSE <<>>)
    \o (IF ~ results[4] \/ ~ results[5] THEN <<"dependencies">> ELSE <<>>)

runDoctor(probes) ==
  [healthy |-> \A i \in DOMAIN checks(probes) : checks(probes)[i],
   remediations |-> remediations(checks(probes))]

------------------------------------------------------------------------------
(* The output of run.                                                      *)

NoEnvelope == [command |-> "none"]

writeEnvelope(command, exitCode, data, error) ==
  [exit |-> exitCode, stdout |-> 1, stderr |-> 0,
   envelope |-> [command |-> command, ok |-> exitCode = EXIT_CODES.success, exitCode |-> exitCode,
                 data |-> data, error |-> error]]

writeStdout(exitCode) == [exit |-> exitCode, stdout |-> 1, stderr |-> 0, envelope |-> NoEnvelope]
writeStderr(exitCode) == [exit |-> exitCode, stdout |-> 0, stderr |-> 1, envelope |-> NoEnvelope]

emitCliError(code, command, json) ==
  IF json THEN writeEnvelope(command, EXIT_CODES.input, "null", code) ELSE writeStderr(EXIT_CODES.input)

emitInternalError(command, json) ==
  IF json THEN writeEnvelope(command, EXIT_CODES.internal, "null", "GECLI_INTERNAL")
  ELSE writeStderr(EXIT_CODES.internal)

\* data goes into the envelope, or a text to the stream the command prints on.
report(parsed, exitCode, data, onStdout) ==
  IF parsed.json THEN writeEnvelope(parsed.command, exitCode, data, "null")
  ELSE IF onStdout THEN writeStdout(exitCode) ELSE writeStderr(exitCode)

runInit(parsed, world) ==
  CASE world.init = "ready" -> report(parsed, EXIT_CODES.success, "init", TRUE)
    [] world.init = "refused" -> emitCliError("GEINIT", parsed.command, parsed.json)
    [] world.init = "throws" -> emitInternalError(parsed.command, parsed.json)

\* The report of an unhealthy installation goes to stdout too.
runDoctorCommand(parsed, world) ==
  LET healthy == runDoctor(world).healthy
  IN report(parsed, IF healthy THEN EXIT_CODES.success ELSE EXIT_CODES.unhealthy, "doctor", TRUE)

\* readGraph, validateGraphDocument and the command on its result.  A semantic
\* error leaves a graph with a hash and no validity; planGraph and visualizeGraph
\* are reached by valid graphs only.
runGraphCommand(parsed, world) ==
  CASE world.source = "unreadable" -> emitCliError("GECLI_INPUT_READ", parsed.command, parsed.json)
    [] world.source = "notJson" -> emitCliError("GECLI_INPUT_JSON", parsed.command, parsed.json)
    [] world.source = "throws" -> emitInternalError(parsed.command, parsed.json)
    [] world.source = "valid" -> report(parsed, EXIT_CODES.success, parsed.command, TRUE)
    [] world.source = "invalid" ->
         report(parsed, EXIT_CODES.invalidGraph,
                IF parsed.command = "compile" THEN "compile" ELSE "validate", FALSE)

run(argv, world) ==
  LET parsed == parseArguments(argv)
  IN CASE parsed.kind = "GECLI_USAGE" ->
            emitCliError("GECLI_USAGE", inferCommand(argv), requestedJson(argv))
       [] parsed.kind \in {"help", "version"} -> writeStdout(EXIT_CODES.success)
       [] parsed.kind = "command" /\ parsed.command = "init" -> runInit(parsed, world)
       [] parsed.kind = "command" /\ parsed.command = "doctor" -> runDoctorCommand(parsed, world)
       [] parsed.kind = "command" /\ parsed.command \notin {"init", "doctor"} ->
            runGraphCommand(parsed, world)
=============================================================================
