\* One handler; room in both maps.
\* A closed service, or one with no request left to serve, stops.
CHECK_DEADLOCK FALSE
SPECIFICATION Spec
CONSTANTS
    p1 = p1  p2 = p2  c1 = c1  c2 = c2  hide = hide  rewrite = rewrite
    v1 = v1  v2 = v2  byComm = byComm  byPid = byPid  byBoth = byBoth  byExe = byExe
    NoPolicy = NoPolicy  NoRuleset = NoRuleset
    PidKeys <- MCPidKeys  CommKeys <- MCCommKeys  Policies <- MCPolicies
    CompileOf <- MCCompileOf
    Handlers = {h1}  Rulesets = {byComm, byPid, byBoth}  Scanning = {}  Views = {v1}
    PidMax = 2  CommMax = 1  MaxRevision = 4  MaxMoves = 1  MaxFaults = 0
INVARIANT NoPolicyGap
