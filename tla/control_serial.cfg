\* One handler and no executable rule: no two writers.  policy_map and comm_policy_map
\* are full with one entry, so that an apply can fail half way.
\* A closed service, or one with no request left to serve, stops.
CHECK_DEADLOCK FALSE
SPECIFICATION Spec
CONSTANTS
    p1 = p1  p2 = p2  c1 = c1  c2 = c2  hide = hide  rewrite = rewrite
    v1 = v1  v2 = v2  byComm = byComm  byPid = byPid  byBoth = byBoth  byExe = byExe
    NoPolicy = NoPolicy  NoRuleset = NoRuleset
    PidKeys <- MCPidKeys  CommKeys <- MCCommKeys  Policies <- MCPolicies
    CompileOf <- MCCompileOf
    Handlers = {h1}  Rulesets = {byComm, byPid, byBoth}  Scanning = {}  Views = {v1}
    PidMax = 1  CommMax = 1  MaxRevision = 5  MaxMoves = 0  MaxFaults = 0
INVARIANTS SnapshotInstalled OldOrNew GapOnlyFromPidToName
