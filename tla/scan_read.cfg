\* Every buffer and every return value, with one change of the policy.
SPECIFICATION Spec
CONSTANTS
    a = a  b = b  Chars = {a, b}  Nul = b  Texts <- MCTexts  None = None
    TextSize = 4  Chunk = 2  MaxScan = 5  MaxTailCalls = 2  BufferLen = 7  MaxChanges = 1
INVARIANTS TypeOK WritesInsideRead TailCallsSuffice LeftmostReplaced RewritesReported
\* The scan ends.
CHECK_DEADLOCK FALSE
