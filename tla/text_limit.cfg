\* A text as long as its field, among others.
SPECIFICATION Spec
CONSTANTS
    a = a  b = b  Chars = {a, b}  Nul = b  Texts <- MCTexts  None = None
    TextSize = 4  Chunk = 2  MaxScan = 5  MaxTailCalls = 2  BufferLen = 7  MaxChanges = 1
INVARIANT AdmittedTextsReplaced
\* The scan ends.
CHECK_DEADLOCK FALSE
