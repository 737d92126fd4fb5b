SPECIFICATION Spec
CONSTANTS
  a = a
  b = b
  c = c
  SafeIds = {a, b, c}
  Hidden = Hidden
  Hole = Hole
  Other = Other
  Throws = Throws
  Requests = {r1, r2}
  Calls <- MCCalls
  Dashed <- MCDashed
  BarrierQuestions <- MCBarrierQuestions
  RouterQuestions <- MCRouterQuestions
  CliQuestions <- MCCliQuestions
INVARIANTS RequestsSound BarrierCorrect RouterCorrect CliCorrect
PROPERTIES RequestsAnswered
CHECK_DEADLOCK FALSE
