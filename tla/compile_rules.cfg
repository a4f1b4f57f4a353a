\* Every sequence of up to three rules.
SPECIFICATION Spec
CONSTANTS
    p = p  q = q  agent = agent  bin = bin  gone = gone
    Pids = {p, q}  Comms = {agent}  Exes = {bin, gone}
    Ids <- MCIds  Priorities <- MCPriorities  None = None  MaxRules = 3
    ExeOf <- MCExeOf  CommOf <- MCCommOf
INVARIANTS TypeOK DocumentedRuleWins LosersReported
\* The loop ends with its last rule.
CHECK_DEADLOCK FALSE
