\* Two threads, of one process or of two, each with a policy of its own, one change of
\* policies or of a descriptor by an untraced call, copies of the path that fail, two open
\* files, room for one tracked descriptor and for one thread in each of the maps keyed by
\* thread.
SPECIFICATION Spec
CONSTANTS
    t1 = t1  t2 = t2  P = P  Q = Q  target = target  other = other  longer = longer
    Threads = {t1, t2}  Paths = {longer, other}  Names <- MCNames  Copied <- MCCopied
    Fds <- MCFds  None = None
    LsmAttached = TRUE
    Procs = {P, Q}  Buffers = {b1}  Policies <- TargetPolicies
    MaxTracked = 1  MaxOpen = 2  MaxCalls = 1  MaxChanges = 1
SYMMETRY MCSymmetry
INVARIANTS TypeOK CallStateFresh OpenDecidedAtEntry ReadsScannedAsOpened
