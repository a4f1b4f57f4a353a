----------------------------- MODULE ScanBuffer -----------------------------
(***************************************************************************)
(* The scan of a read buffer, agentguardian.bpf.c.  One program looks at   *)
(* AG_SCAN_CHUNK positions; it then tail-calls itself, which the kernel    *)
(* refuses after a number of times.  Each program looks its policy up      *)
(* again, so the text may change from one program to the next.             *)
(***************************************************************************)
EXTENDS Integers, Sequences, FiniteSets

CONSTANTS
    Chars,
    Nul,            \* the byte that ends a string
    Texts,          \* texts of rewriting rules: records [find, replace]
    None,           \* no policy, or one that does not rewrite
    TextSize,       \* AG_MAX_TEXT_LEN
    Chunk,          \* AG_SCAN_CHUNK
    MaxScan,        \* AG_MAX_SCAN_BYTES
    MaxTailCalls,   \* the kernel's MAX_TAIL_CALL_CNT
    BufferLen,      \* bytes of the user's buffer
    MaxChanges      \* bound: changes of the policy during the scan

(* What validateRule admits. *)
ASSUME TextsAssumption ==
    \A t \in Texts : /\ t.find \in Seq(Chars) /\ t.replace \in Seq(Chars)
                     /\ Len(t.find) = Len(t.replace)
                     /\ Len(t.find) > 0 /\ Len(t.find) <= TextSize
ASSUME NulAssumption == Nul \in Chars
ASSUME NoneAssumption == None \notin Texts
ASSUME SizesAssumption ==
    /\ Chunk \in Nat \ {0} /\ MaxScan \in Nat /\ MaxTailCalls \in Nat /\ TextSize \in Nat
    /\ BufferLen \in Nat /\ MaxChanges \in Nat
ASSUME TailCallsAssumption == MaxScan <= Chunk * (MaxTailCalls + 1)

VARIABLES
    policy,         \* the rule of what lookup_policy returns
    changes,        \* what is left of MaxChanges
    original,       \* the buffer as the read returned it
    ret,            \* the bytes it says it read
    buffer,         \* the buffer
    bytes_to_scan,  \* rewrite_state
    offset,         \* rewrite_state
    replacements,   \* rewrite_state
    reported,       \* the bytes that the event for submit_event says were rewritten
    text,           \* the policy of the running program
    i,              \* the positions it has looked at
    tailCalls,      \* programs run so far but for the first
    pc

scanVars == <<bytes_to_scan, offset, replacements>>
vars == <<policy, changes, original, ret, buffer, scanVars, reported, text, i, tailCalls, pc>>

Buffers == [1..BufferLen -> Chars]

Init ==
    /\ policy \in Texts \cup {None}
    /\ changes = MaxChanges
    /\ original \in Buffers
    /\ ret \in -1..BufferLen
    /\ buffer = original
    /\ bytes_to_scan = 0 /\ offset = 0 /\ replacements = 0
    /\ reported = 0
    /\ text = None
    /\ i = 0
    /\ tailCalls = 0
    /\ pc = "exit"

(* Mutant: long reads are scanned whole. *)
ClampScanLenUnbounded(n) == IF n <= 0 THEN 0 ELSE n

ClampScanLen(n) == IF n <= 0 THEN 0 ELSE IF n > MaxScan THEN MaxScan ELSE n

(* clear_read_state, and the program's end. *)
Clear ==
    /\ pc' = "ended"
    /\ bytes_to_scan' = 0 /\ offset' = 0 /\ replacements' = 0

(* prepare_read_rewrite_state *)
ReadExit ==
    LET bytes == ClampScanLen(ret) IN
    /\ pc = "exit"
    /\ IF policy = None \/ bytes < Len(policy.find)
       THEN Clear
       ELSE /\ pc' = "load"
            /\ bytes_to_scan' = bytes
            /\ UNCHANGED <<offset, replacements>>
    /\ UNCHANGED <<policy, changes, original, ret, buffer, reported, text, i, tailCalls>>

(* load_rewrite_context: under a policy that is gone the scan ends, and what *)
(* it has rewritten is not reported.                                        *)
LoadContext ==
    /\ pc = "load"
    /\ IF policy = None
       THEN Clear /\ UNCHANGED <<text, i>>
       ELSE /\ pc' = "loop"
            /\ text' = policy
            /\ i' = 0
            /\ UNCHANGED scanVars
    /\ UNCHANGED <<policy, changes, original, ret, buffer, reported, tailCalls>>

(* NewPolicy: the field of a policy for a text, of which the last byte is    *)
(* kept for a NUL.  text_len is the length of the text all the same.        *)
CopyString(s) == [n \in 1..TextSize |-> IF n <= Len(s) /\ n < TextSize THEN s[n] ELSE Nul]

Matches(b, t, at) == \A n \in 1..Len(t.find) : b[at + n] = CopyString(t.find)[n]

Overwrite(b, t, at) ==
    [k \in 1..BufferLen |->
        IF k - at \in 1..Len(t.find) THEN CopyString(t.replace)[k - at] ELSE b[k]]

Looking == pc = "loop" /\ i < Chunk /\ offset < bytes_to_scan

(* Mutant: after a match the scan goes on at the next byte. *)
RewriteHereByOne ==
    /\ Looking
    /\ offset + Len(text.find) <= bytes_to_scan
    /\ Matches(buffer, text, offset)
    /\ buffer' = Overwrite(buffer, text, offset)
    /\ offset' = offset + 1
    /\ replacements' = replacements + 1
    /\ i' = i + 1
    /\ UNCHANGED <<policy, changes, original, ret, bytes_to_scan, reported, text, tailCalls, pc>>

(* Mutant: a text may reach past the bytes to scan. *)
RewriteHereUnchecked ==
    /\ Looking
    /\ Matches(buffer, text, offset)
    /\ buffer' = Overwrite(buffer, text, offset)
    /\ offset' = offset + Len(text.find)
    /\ replacements' = replacements + 1
    /\ i' = i + 1
    /\ UNCHANGED <<policy, changes, original, ret, bytes_to_scan, reported, text, tailCalls, pc>>

(* One turn of the loop of scan_read_buffer_impl: a match is overwritten     *)
(* in place and stepped over.                                                *)
RewriteHere ==
    /\ Looking
    /\ offset + Len(text.find) <= bytes_to_scan
    /\ Matches(buffer, text, offset)
    /\ buffer' = Overwrite(buffer, text, offset)
    /\ offset' = offset + Len(text.find)
    /\ replacements' = replacements + 1
    /\ i' = i + 1
    /\ UNCHANGED <<policy, changes, original, ret, bytes_to_scan, reported, text, tailCalls, pc>>

StepOver ==
    /\ Looking
    /\ offset + Len(text.find) <= bytes_to_scan
    /\ ~ Matches(buffer, text, offset)
    /\ offset' = offset + 1
    /\ i' = i + 1
    /\ UNCHANGED <<policy, changes, original, ret, buffer, bytes_to_scan, replacements, reported,
                   text, tailCalls, pc>>

(* What is left is shorter than the text. *)
SkipRest ==
    /\ Looking
    /\ offset + Len(text.find) > bytes_to_scan
    /\ offset' = bytes_to_scan
    /\ UNCHANGED <<policy, changes, original, ret, buffer, bytes_to_scan, replacements, reported,
                   text, i, tailCalls, pc>>

(* submit_event, of the count since the state was last cleared. *)
Report == reported' = reported + replacements * Len(text.find)

(* Mutant: every program reports. *)
EndOfEveryProgram ==
    /\ pc = "loop"
    /\ ~ Looking
    /\ Report
    /\ IF offset < bytes_to_scan /\ tailCalls < MaxTailCalls
       THEN /\ pc' = "load"
            /\ tailCalls' = tailCalls + 1
            /\ UNCHANGED scanVars
       ELSE Clear /\ UNCHANGED tailCalls
    /\ UNCHANGED <<policy, changes, original, ret, buffer, text, i>>

(* After the loop: go on in another program, or report and end; a tail call *)
(* that the kernel refuses falls through to the end.                        *)
EndOfProgram ==
    /\ pc = "loop"
    /\ ~ Looking
    /\ IF offset < bytes_to_scan /\ tailCalls < MaxTailCalls
       THEN /\ pc' = "load"
            /\ tailCalls' = tailCalls + 1
            /\ UNCHANGED <<scanVars, reported>>
       ELSE Clear /\ Report /\ UNCHANGED tailCalls
    /\ UNCHANGED <<policy, changes, original, ret, buffer, text, i>>

PolicyChange ==
    /\ changes > 0
    /\ pc # "ended"
    /\ changes' = changes - 1
    /\ \E p \in (Texts \cup {None}) \ {policy} : policy' = p
    /\ UNCHANGED <<original, ret, buffer, scanVars, reported, text, i, tailCalls, pc>>

Next ==
    \/ ReadExit \/ LoadContext
    \/ RewriteHere \/ StepOver \/ SkipRest
    \/ EndOfProgram
    \/ PolicyChange

Spec == Init /\ [][Next]_vars

-----------------------------------------------------------------------------
(* Properties *)

(* Types of every variable, and the scan within the buffer. *)
TypeOK ==
    /\ policy \in Texts \cup {None}
    /\ changes \in 0..MaxChanges
    /\ original \in Buffers
    /\ buffer \in Buffers
    /\ ret \in -1..BufferLen
    /\ bytes_to_scan \in 0..BufferLen
    /\ offset \in 0..bytes_to_scan
    /\ replacements \in Nat
    /\ reported \in Nat
    /\ text \in Texts \cup {None}
    /\ i \in 0..Chunk
    /\ tailCalls \in 0..MaxTailCalls
    /\ pc \in {"exit", "load", "loop", "ended"}

(* However the policy and its text change between programs, no byte past     *)
(* what the read returned, or past AG_MAX_SCAN_BYTES, is written             *)
(* (agentguardian.bpf.c:171-185, 262-265).                                   *)
WritesInsideRead ==
    \A k \in 1..BufferLen : k > ret \/ k > MaxScan => buffer[k] = original[k]

(* The kernel refuses no tail call the scan needs: no buffer is left half    *)
(* scanned (agentguardian.bpf.c:15-16, 278-280).                             *)
TailCallsSuffice ==
    pc = "loop" /\ i = Chunk /\ offset < bytes_to_scan => tailCalls < MaxTailCalls

(* The scanned bytes, and the occurrences of a text in them as it was read. *)
Scanned == ClampScanLen(ret)
Occurrences(t) ==
    {at \in 0..(Scanned - Len(t.find)) : \A n \in 1..Len(t.find) : original[at + n] = t.find[n]}

(* It begins inside an occurrence of a set. *)
Overlapped(t, at, occs) == \E before \in occs : before < at /\ at < before + Len(t.find)

(* The buffer is the original with a set of occurrences overwritten. *)
Rewritten(t, occs) ==
    /\ \A at \in occs : \A n \in 1..Len(t.find) : buffer[at + n] = t.replace[n]
    /\ \A k \in 1..BufferLen :
          (\A at \in occs : k - at \notin 1..Len(t.find)) => buffer[k] = original[k]

Leftmost(t, occs) == \A at \in Occurrences(t) : at \notin occs <=> Overlapped(t, at, occs)

(* A scan under a rule that stayed; and a rule whose text keeps its last byte. *)
Scan == pc = "ended" /\ changes = MaxChanges /\ policy # None
Whole(t) == Len(t.find) < TextSize

(* Under a policy that stays, exactly the leftmost occurrences that do not   *)
(* overlap are replaced, at chunk borders as elsewhere: an occurrence that   *)
(* is not replaced overlaps one that begins before it                        *)
(* (agentguardian.bpf.c:254-276).                                            *)
LeftmostReplaced ==
    Scan /\ Whole(policy) =>
        \E replaced \in SUBSET Occurrences(policy) :
            Leftmost(policy, replaced) /\ Rewritten(policy, replaced)

(* ... and the event says how many bytes that are, once, however many        *)
(* programs it took (agentguardian.bpf.c:270, 278-286).                      *)
RewritesReported ==
    Scan /\ Whole(policy) =>
        \E replaced \in SUBSET Occurrences(policy) :
            /\ Leftmost(policy, replaced)
            /\ reported = Cardinality(replaced) * Len(policy.find)

(* validate.go:119: "action.find length must be at most 64 bytes".  So a     *)
(* text of that length is found and replaced too.                            *)
AdmittedTextsReplaced ==
    Scan => \E replaced \in SUBSET Occurrences(policy) :
        Leftmost(policy, replaced) /\ Rewritten(policy, replaced)

=============================================================================
