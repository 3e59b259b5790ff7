SPECIFICATION MCNodesSpec
CONSTANTS
  N = 2
  Host = {h1, h2}
  NoHost = none
  EnvHost = h1
  Job = job
  Refresh = {r1}
  Calls = 2
  AtOnce = 3
  Kind = {"create", "edit", "bind", "unbind", "promote", "delete", "dedupe", "retry"}
  Budget = 2
INVARIANTS
  NodesSafe
PROPERTIES
  GateOpensOnAnswer
  HealthSettles
