\* Both modes, with processes that move three times and a failed listing of /proc.
\* A program that has ended, or has no ticks, stops.
CHECK_DEADLOCK FALSE
SPECIFICATION FairSpec
CONSTANTS
    p = p  q = q  r = r  cat = cat  less = less  bin = bin  tool = tool
    v1 = v1  v2 = v2  v3 = v3  byComm = byComm  byExe = byExe  byPid = byPid
    NoPolicy = NoPolicy  None = None  Hide = Hide  Rewrite = Rewrite
    PidKeys <- MCPidKeys  CommKeys <- MCCommKeys  Policies <- MCPolicies
    Rulesets = {byComm, byExe, byPid}  Scanning = {byExe}  Configs <- MCConfigs
    Exes = {bin, tool}  Views = {v1, v2, v3}  CompileOf <- MCCompileOf  ExeOf <- MCExeOf
    PidMax = 2  CommMax = 2  MaxMoves = 3  MaxFaults = 1
INVARIANTS TypeOK StaticKept OneListing
PROPERTIES ReplacementSpec MapsFollowProcesses
