\* Two threads of one process under a policy that stays.
SPECIFICATION Spec
CONSTANTS
    t1 = t1  t2 = t2  P = P  Q = Q  target = target  other = other  longer = longer
    Threads = {t1, t2}  Paths = {longer, other}  Names <- MCNames  Copied <- MCCopied
    Fds <- MCFds  None = None
    LsmAttached = TRUE
    Procs = {P}  Buffers = {b1}  Policies <- TargetPolicies
    MaxTracked = 2  MaxOpen = 2  MaxCalls = 2  MaxChanges = 0
INVARIANT NonTargetUnchanged
