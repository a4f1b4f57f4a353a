\* Two handlers and the sync loops of executable rules, all at once, with processes that
\* move once and a failed listing of /proc, under the fairness of FairSpec.
\* A closed service, or one with no request left to serve, stops.
CHECK_DEADLOCK FALSE
SPECIFICATION FairSpec
CONSTANTS
    p1 = p1  p2 = p2  c1 = c1  c2 = c2  hide = hide  rewrite = rewrite
    v1 = v1  v2 = v2  byComm = byComm  byPid = byPid  byBoth = byBoth  byExe = byExe
    NoPolicy = NoPolicy  NoRuleset = NoRuleset
    PidKeys <- MCPidKeys  CommKeys <- MCCommKeys  Policies <- MCPolicies
    CompileOf <- MCCompileOf
    Handlers = {h1, h2}  Rulesets = {byComm, byExe}  Scanning = {byExe}  Views = {v1, v2}
    PidMax = 2  CommMax = 1  MaxRevision = 2  MaxMoves = 1  MaxFaults = 1
INVARIANTS TypeOK RecordCoherent SyncLoopMatchesRuntime
PROPERTIES SnapshotSpec ReplacementSpec RecordFollowsProcesses CancelledLoopsEnd RequestsAnswered
