-------------------------- MODULE ScanBufferProofs --------------------------
(***************************************************************************)
(* The scan of a read buffer, for any sizes of buffer, chunk and text.     *)
(***************************************************************************)
EXTENDS ScanBuffer, FiniteSetTheorems, TLAPS

(* What the scan is about: the clamped bytes, the policy of its program. *)
InScan ==
    /\ pc \in {"load", "loop"} => bytes_to_scan = Scanned
    /\ pc = "exit" => bytes_to_scan = 0 /\ offset = 0 /\ tailCalls = 0 /\ buffer = original
    /\ pc = "exit" => replacements = 0
    /\ pc # "ended" => reported = 0
    /\ pc = "loop" => text # None
    /\ pc = "loop" /\ changes = MaxChanges => text = policy

(* Every turn of the loop moves the offset on. *)
Advanced ==
    /\ pc = "load" => offset >= Chunk * tailCalls
    /\ pc = "loop" => offset >= Chunk * tailCalls + i \/ offset = bytes_to_scan

(* The occurrences before the offset are settled. *)
ReplacedSoFar ==
    pc \in {"load", "loop"} /\ changes = MaxChanges /\ policy # None /\ Whole(policy) =>
        \E replaced \in SUBSET Occurrences(policy) :
            /\ \A at \in replaced : at + Len(policy.find) <= offset
            /\ \A at \in Occurrences(policy) : at < offset =>
                  (at \notin replaced <=> Overlapped(policy, at, replaced))
            /\ Rewritten(policy, replaced)
            /\ Cardinality(replaced) = replacements

(* What the scan leaves: the buffer, and the event about it. *)
Finished ==
    Scan /\ Whole(policy) =>
        \E replaced \in SUBSET Occurrences(policy) :
            /\ Leftmost(policy, replaced)
            /\ Rewritten(policy, replaced)
            /\ reported = Cardinality(replaced) * Len(policy.find)

Inv == TypeOK /\ InScan /\ Advanced /\ WritesInsideRead /\ ReplacedSoFar /\ Finished

LEMMA TextFacts ==
    ASSUME NEW t \in Texts
    PROVE  /\ Len(t.find) \in Nat /\ Len(t.find) > 0
           /\ Len(t.find) <= TextSize
           /\ \A n \in 1..Len(t.find) : t.find[n] \in Chars /\ t.replace[n] \in Chars
           /\ t # None
BY TextsAssumption, NoneAssumption

(* A whole text is in its field; no text is anything but bytes. *)
LEMMA FieldFacts ==
    ASSUME NEW t \in Texts, NEW n \in 1..Len(t.find)
    PROVE  /\ CopyString(t.replace)[n] \in Chars
           /\ Whole(t) => CopyString(t.find)[n] = t.find[n] /\ CopyString(t.replace)[n] = t.replace[n]
<1>1. /\ Len(t.find) \in Nat /\ Len(t.replace) = Len(t.find) /\ TextSize \in Nat
      /\ n \in 1..TextSize /\ n <= Len(t.find) /\ t.replace[n] \in Chars
  BY TextFacts, TextsAssumption, SizesAssumption
<1> QED
  BY <1>1, NulAssumption DEF CopyString, Whole

LEMMA ScannedFacts ==
    ASSUME ret \in -1..BufferLen
    PROVE  /\ Scanned \in 0..BufferLen
           /\ Scanned <= MaxScan
           /\ \A k \in 1..Scanned : k <= ret
BY SizesAssumption DEF Scanned, ClampScanLen

LEMMA InitInv == Init => Inv
<1> SUFFICES ASSUME Init PROVE Inv
  OBVIOUS
<1>1. TypeOK
  BY SizesAssumption DEF Init, TypeOK
<1>2. InScan /\ Advanced /\ WritesInsideRead /\ ReplacedSoFar /\ Finished
  BY DEF Init, InScan, Advanced, WritesInsideRead, ReplacedSoFar, Finished, Scan
<1> QED
  BY <1>1, <1>2 DEF Inv

LEMMA OverwriteType ==
    ASSUME NEW b \in Buffers, NEW t \in Texts, NEW at \in Int
    PROVE  Overwrite(b, t, at) \in Buffers
BY TextFacts, FieldFacts DEF Overwrite, Buffers

LEMMA StepTypes == ASSUME TypeOK, InScan, Next PROVE TypeOK'
<1> USE SizesAssumption DEF TypeOK, scanVars
<1>0. 0 \in 0..bytes_to_scan /\ ret \in -1..BufferLen /\ bytes_to_scan \in Nat /\ offset \in Nat
  OBVIOUS
<1>1. CASE ReadExit
  <2>1. Scanned \in 0..BufferLen /\ 0 \in 0..Scanned /\ 0 \in 0..0 /\ 0 \in 0..BufferLen
    BY ScannedFacts
  <2>2. CASE pc' = "load"
    <3>1. bytes_to_scan' = Scanned /\ offset' = 0 /\ replacements' \in Nat
      BY <1>1, <2>2 DEF ReadExit, Clear, Scanned, InScan
    <3> QED
      BY <1>1, <2>1, <2>2, <3>1 DEF ReadExit
  <2>3. CASE pc' # "load"
    <3>1. pc' = "ended" /\ bytes_to_scan' = 0 /\ offset' = 0 /\ replacements' \in Nat
      BY <1>1, <2>3 DEF ReadExit, Clear
    <3> QED
      BY <1>1, <2>1, <3>1 DEF ReadExit
  <2> QED
    BY <2>2, <2>3
<1>2. CASE LoadContext
  BY <1>0, <1>2 DEF LoadContext, Clear
<1>3. CASE RewriteHere
  <2>1. text \in Texts
    BY <1>3 DEF RewriteHere, Looking, InScan
  <2>2. buffer' \in Buffers
    BY <1>0, <1>3, <2>1, OverwriteType DEF RewriteHere
  <2>3. offset' \in 0..bytes_to_scan /\ i' \in 0..Chunk
    BY <1>3, <2>1, TextFacts DEF RewriteHere, Looking
  <2> QED
    BY <1>3, <2>2, <2>3 DEF RewriteHere
<1>4. CASE StepOver
  <2>1. text \in Texts
    BY <1>4 DEF StepOver, Looking, InScan
  <2>2. offset' \in 0..bytes_to_scan /\ i' \in 0..Chunk
    BY <1>4, <2>1, TextFacts DEF StepOver, Looking
  <2> QED
    BY <1>4, <2>2 DEF StepOver
<1>5. CASE SkipRest
  BY <1>0, <1>5 DEF SkipRest
<1>6. CASE EndOfProgram
  <2>1. replacements * Len(text.find) \in Nat
    <3>1. text \in Texts
      BY <1>6 DEF EndOfProgram, InScan
    <3>2. Len(text.find) \in Nat /\ replacements \in Nat
      BY <3>1, TextFacts
    <3> QED
      BY <3>2
  <2>2. reported' \in Nat
    BY <1>6, <2>1 DEF EndOfProgram, Report
  <2> QED
    BY <1>0, <1>6, <2>2 DEF EndOfProgram, Clear
<1>7. CASE PolicyChange
  BY <1>7 DEF PolicyChange
<1> QED
  BY <1>1, <1>2, <1>3, <1>4, <1>5, <1>6, <1>7 DEF Next

LEMMA StepInScan == ASSUME TypeOK, InScan, Next PROVE InScan'
<1> USE SizesAssumption, NoneAssumption DEF TypeOK, InScan, Scanned, ClampScanLen, scanVars
<1>1. CASE ReadExit
  BY <1>1 DEF ReadExit, Clear
<1>2. CASE LoadContext
  BY <1>2 DEF LoadContext, Clear
<1>3. CASE RewriteHere
  BY <1>3 DEF RewriteHere, Looking
<1>4. CASE StepOver
  BY <1>4 DEF StepOver, Looking
<1>5. CASE SkipRest
  BY <1>5 DEF SkipRest, Looking
<1>6. CASE EndOfProgram
  BY <1>6 DEF EndOfProgram, Clear
<1>7. CASE PolicyChange
  <2>1. changes' # MaxChanges
    BY <1>7 DEF PolicyChange
  <2> QED
    BY <1>7, <2>1 DEF PolicyChange
<1> QED
  BY <1>1, <1>2, <1>3, <1>4, <1>5, <1>6, <1>7 DEF Next

LEMMA NextChunk == ASSUME NEW c \in Nat, NEW n \in Nat PROVE c * (n + 1) = c * n + c
BY SMT

LEMMA StepAdvanced == ASSUME TypeOK, InScan, Advanced, Next PROVE Advanced'
<1> DEFINE done == Chunk * tailCalls
<1>0. /\ done \in Nat /\ Chunk \in Nat /\ tailCalls \in Nat
      /\ offset \in Nat /\ bytes_to_scan \in Nat /\ i \in Nat
      /\ Chunk * (tailCalls + 1) = done + Chunk
      /\ Chunk * 0 = 0
  BY SizesAssumption, NextChunk DEF TypeOK
<1>a. /\ pc = "load" => offset >= done
      /\ pc = "loop" => offset >= done + i \/ offset = bytes_to_scan
  BY DEF Advanced
<1>b. ASSUME /\ pc' = "load" => offset' >= Chunk * tailCalls'
             /\ pc' = "loop" => offset' >= Chunk * tailCalls' + i' \/ offset' = bytes_to_scan'
      PROVE  Advanced'
  BY <1>b DEF Advanced
<1>1. CASE ReadExit
  <2>1. pc' # "loop" /\ (pc' = "load" => offset' = 0 /\ tailCalls' = 0)
    BY <1>1 DEF ReadExit, Clear, InScan
  <2> QED
    BY <1>0, <1>b, <2>1
<1>2. CASE LoadContext
  <2>1. pc = "load" /\ tailCalls' = tailCalls
        /\ (pc' = "ended" \/ (pc' = "loop" /\ i' = 0 /\ offset' = offset))
    BY <1>2 DEF LoadContext, Clear, scanVars
  <2> HIDE DEF done
  <2>2. pc' = "loop" => offset' >= done + i'
    BY <1>0, <1>a, <2>1
  <2> QED
    BY <1>b, <2>1, <2>2 DEF done
<1>3. CASE RewriteHere \/ StepOver
  <2>1. pc = "loop" /\ pc' = "loop" /\ tailCalls' = tailCalls /\ i' = i + 1
        /\ offset < bytes_to_scan /\ offset' \in Nat /\ offset' > offset
    <3>1. text \in Texts
      BY <1>3 DEF RewriteHere, StepOver, Looking, InScan, TypeOK
    <3>2. Len(text.find) \in Nat /\ Len(text.find) > 0
      BY <3>1, TextFacts
    <3>3. CASE RewriteHere
      BY <1>0, <3>2, <3>3 DEF RewriteHere, Looking
    <3>4. CASE StepOver
      BY <1>0, <3>4 DEF StepOver, Looking
    <3> QED
      BY <1>3, <3>3, <3>4
  <2> HIDE DEF done
  <2>2. offset' >= done + i'
    BY <1>0, <1>a, <2>1
  <2> QED
    BY <1>b, <2>1, <2>2 DEF done
<1>4. CASE SkipRest
  BY <1>4, <1>b DEF SkipRest, Looking
<1>5. CASE EndOfProgram
  <2>1. CASE pc' = "load"
    <3>1. pc = "loop" /\ tailCalls' = tailCalls + 1 /\ offset' = offset
          /\ offset < bytes_to_scan /\ ~ (i < Chunk)
      BY <1>5, <2>1 DEF EndOfProgram, Clear, Looking, scanVars
    <3> HIDE DEF done
    <3>2. offset' >= done + Chunk
      BY <1>0, <1>a, <3>1
    <3> QED
      BY <1>0, <1>b, <2>1, <3>1, <3>2
  <2>2. CASE pc' # "load"
    <3>1. pc' = "ended"
      BY <1>5, <2>2 DEF EndOfProgram, Clear
    <3> QED
      BY <1>b, <3>1
  <2> QED
    BY <2>1, <2>2
<1>6. CASE PolicyChange
  BY <1>6, <1>a, <1>b DEF PolicyChange, scanVars
<1> QED
  BY <1>1, <1>2, <1>3, <1>4, <1>5, <1>6 DEF Next

(* No tail call the scan needs is refused. *)
LEMMA Suffices == Inv => TailCallsSuffice
<1> SUFFICES ASSUME Inv, pc = "loop", i = Chunk, offset < bytes_to_scan PROVE tailCalls < MaxTailCalls
  BY DEF TailCallsSuffice
<1>1. /\ offset \in Nat /\ bytes_to_scan \in Nat /\ Chunk \in Nat
      /\ tailCalls \in 0..MaxTailCalls /\ MaxTailCalls \in Nat /\ MaxScan \in Nat
  BY SizesAssumption DEF Inv, TypeOK
<1>2. offset >= Chunk * tailCalls + Chunk
  BY <1>1 DEF Inv, Advanced
<1>3. bytes_to_scan <= MaxScan /\ MaxScan <= Chunk * (MaxTailCalls + 1)
  BY ScannedFacts, TailCallsAssumption DEF Inv, InScan, TypeOK
<1>4. CASE tailCalls = MaxTailCalls
  <2>1. Chunk * (MaxTailCalls + 1) = Chunk * MaxTailCalls + Chunk /\ Chunk * MaxTailCalls \in Nat
    BY <1>1, NextChunk
  <2> DEFINE all == Chunk * MaxTailCalls
  <2>2. all \in Nat /\ offset >= all + Chunk /\ MaxScan <= all + Chunk
    BY <1>2, <1>3, <1>4, <2>1
  <2> HIDE DEF all
  <2> QED
    BY <1>1, <1>3, <2>2
<1> QED
  BY <1>1, <1>4

(* A text overwritten in place, position by position. *)
LEMMA Overwritten ==
    ASSUME TypeOK, InScan, RewriteHere
    PROVE  /\ text \in Texts /\ offset \in Nat /\ Len(text.find) \in Nat /\ Len(text.find) > 0
           /\ Whole(text) => \A n \in 1..Len(text.find) : buffer'[offset + n] = text.replace[n]
           /\ \A k \in 1..BufferLen : k - offset \notin 1..Len(text.find) => buffer'[k] = buffer[k]
           /\ bytes_to_scan = Scanned /\ Scanned \in 0..BufferLen
           /\ offset + Len(text.find) <= Scanned
           /\ offset' = offset + Len(text.find)
<1>1. text \in Texts /\ offset \in Nat /\ bytes_to_scan = Scanned /\ Scanned \in 0..BufferLen
  BY ScannedFacts DEF TypeOK, InScan, RewriteHere, Looking
<1>2. Len(text.find) \in Nat /\ Len(text.find) > 0
  BY <1>1, TextFacts
<1>3. offset + Len(text.find) <= Scanned /\ offset' = offset + Len(text.find)
  BY <1>1 DEF RewriteHere
<1>4. buffer' = [k \in 1..BufferLen |-> IF k - offset \in 1..Len(text.find)
                                        THEN CopyString(text.replace)[k - offset]
                                        ELSE buffer[k]]
  BY DEF RewriteHere, Overwrite
<1>5. ASSUME Whole(text), NEW n \in 1..Len(text.find)
      PROVE  buffer'[offset + n] = text.replace[n]
  <2>1. offset + n \in 1..BufferLen /\ (offset + n) - offset = n
    BY <1>1, <1>2, <1>3, SizesAssumption
  <2>2. CopyString(text.replace)[n] = text.replace[n]
    BY <1>1, <1>5, FieldFacts
  <2> QED
    BY <1>4, <2>1, <2>2
<1>6. \A k \in 1..BufferLen : k - offset \notin 1..Len(text.find) => buffer'[k] = buffer[k]
  BY <1>4
<1> QED
  BY <1>1, <1>2, <1>3, <1>5, <1>6

LEMMA StepWrites == ASSUME TypeOK, InScan, WritesInsideRead, Next PROVE WritesInsideRead'
<1>0. UNCHANGED <<original, ret>>
  BY DEF Next, ReadExit, LoadContext, RewriteHere, StepOver, SkipRest, EndOfProgram, PolicyChange
<1>1. CASE RewriteHere
  <2> SUFFICES ASSUME NEW k \in 1..BufferLen, k > ret \/ k > MaxScan
               PROVE  buffer'[k] = buffer[k]
    BY <1>0 DEF WritesInsideRead
  <2>1. Scanned \in Nat /\ Scanned <= MaxScan /\ ~ (k \in 1..Scanned)
    BY ScannedFacts, SizesAssumption DEF TypeOK
  <2>2. k - offset \notin 1..Len(text.find)
    BY <1>1, <2>1, Overwritten
  <2> QED
    BY <1>1, <2>2, Overwritten
<1>2. CASE ~ RewriteHere
  <2>1. buffer' = buffer
    BY <1>2 DEF Next, ReadExit, LoadContext, StepOver, SkipRest, EndOfProgram, PolicyChange
  <2> QED
    BY <1>0, <2>1 DEF WritesInsideRead
<1> QED
  BY <1>1, <1>2

(* The occurrences settled before an offset, said without the state's names. *)
Settled(occs, t, upTo) ==
    /\ \A at \in occs : at + Len(t.find) <= upTo
    /\ \A at \in Occurrences(t) : at < upTo => (at \notin occs <=> Overlapped(t, at, occs))

LEMMA OccurrenceFacts ==
    ASSUME ret \in -1..BufferLen, NEW t \in Texts, NEW at \in Occurrences(t)
    PROVE  at \in Nat /\ at + Len(t.find) <= Scanned
<1>1. Scanned \in Nat /\ Len(t.find) \in Nat
  BY ScannedFacts, TextFacts, SizesAssumption
<1> QED
  BY <1>1 DEF Occurrences

(* At an offset that the replaced occurrences end before, the buffer is as it *)
(* was read: a match there is an occurrence.                                   *)
LEMMA OccurrenceHere ==
    ASSUME TypeOK, InScan, NEW t \in Texts, Whole(t), NEW occs \in SUBSET Occurrences(t),
           \A at \in occs : at + Len(t.find) <= offset, Rewritten(t, occs),
           bytes_to_scan = Scanned, offset + Len(t.find) <= bytes_to_scan
    PROVE  offset \in Occurrences(t) <=> Matches(buffer, t, offset)
<1>1. /\ Scanned \in 0..BufferLen /\ Len(t.find) \in Nat /\ offset \in Nat /\ BufferLen \in Nat
  BY ScannedFacts, TextFacts, SizesAssumption DEF TypeOK
<1>2. ASSUME NEW n \in 1..Len(t.find) PROVE buffer[offset + n] = original[offset + n]
  <2>1. offset + n \in 1..BufferLen
    BY <1>1
  <2>2. ASSUME NEW at \in occs PROVE (offset + n) - at \notin 1..Len(t.find)
    <3>1. at \in Nat
      BY OccurrenceFacts DEF TypeOK
    <3>2. at + Len(t.find) <= offset
      OBVIOUS
    <3> QED
      BY <1>1, <3>1, <3>2
  <2> QED
    BY <2>1, <2>2 DEF Rewritten
<1>3. Matches(buffer, t, offset) <=> \A n \in 1..Len(t.find) : original[offset + n] = t.find[n]
  BY <1>2, FieldFacts DEF Matches
<1>4. offset \in 0..(Scanned - Len(t.find))
  BY <1>1
<1> QED
  BY <1>3, <1>4 DEF Occurrences

LEMMA OccurrencesFinite ==
    ASSUME ret \in -1..BufferLen, NEW t \in Texts, NEW occs \in SUBSET Occurrences(t)
    PROVE  IsFiniteSet(occs)
<1>1. Scanned \in Nat /\ Len(t.find) \in Nat
  BY ScannedFacts, TextFacts, SizesAssumption
<1>2. IsFiniteSet(0..(Scanned - Len(t.find)))
  BY <1>1, FS_Interval
<1> QED
  BY <1>2, FS_Subset DEF Occurrences

LEMMA StepReplaced ==
    ASSUME TypeOK, InScan, ReplacedSoFar, Next
    PROVE  ReplacedSoFar'
<1> SUFFICES ASSUME pc' \in {"load", "loop"}, changes' = MaxChanges, policy' # None,
                    Whole(policy')
             PROVE  \E occs \in SUBSET Occurrences(policy)' :
                       /\ Settled(occs, policy, offset)' /\ Rewritten(policy, occs)'
                       /\ Cardinality(occs) = replacements'
  BY DEF ReplacedSoFar, Settled, Whole
<1>0. /\ UNCHANGED <<original, ret, policy, changes>>
      /\ changes = MaxChanges /\ policy \in Texts /\ policy # None
  <2>1. ~ PolicyChange
    BY SizesAssumption DEF PolicyChange, TypeOK
  <2> QED
    BY <2>1 DEF Next, ReadExit, LoadContext, RewriteHere, StepOver, SkipRest, EndOfProgram, TypeOK
<1> DEFINE L == Len(policy.find)
<1>t. /\ L \in Nat /\ L > 0 /\ offset \in Nat /\ bytes_to_scan \in Nat /\ Scanned \in Nat
      /\ ret \in -1..BufferLen
  BY <1>0, TextFacts, ScannedFacts, SizesAssumption DEF TypeOK
<1>s. Occurrences(policy)' = Occurrences(policy)
  BY <1>0 DEF Occurrences, Scanned
<1>a. ASSUME NEW occs \in SUBSET Occurrences(policy),
             \A at \in occs : at + L <= offset',
             \A at \in Occurrences(policy) : at < offset' => (at \notin occs <=> Overlapped(policy, at, occs)),
             /\ \A at \in occs : \A n \in 1..L : buffer'[at + n] = policy.replace[n]
             /\ \A k \in 1..BufferLen :
                   (\A at \in occs : k - at \notin 1..L) => buffer'[k] = original[k],
             Cardinality(occs) = replacements'
      PROVE  \E o \in SUBSET Occurrences(policy)' :
                       /\ Settled(o, policy, offset)' /\ Rewritten(policy, o)'
                       /\ Cardinality(o) = replacements'
  <2>1. Settled(occs, policy, offset)'
    BY <1>0, <1>s, <1>a DEF Settled, Overlapped
  <2>2. Rewritten(policy, occs)'
    BY <1>0, <1>a DEF Rewritten
  <2> QED
    BY <1>s, <1>a, <2>1, <2>2
<1>1. CASE ReadExit
  <2>1. buffer' = original /\ offset' = 0 /\ replacements' = 0
    BY <1>1 DEF ReadExit, Clear, InScan
  <2>2. \A at \in Occurrences(policy) : at \in Nat
    BY <1>0, <1>t, OccurrenceFacts
  <2>3. \A at \in Occurrences(policy) : ~ (at < offset')
    BY <2>1, <2>2
  <2> DEFINE none == {at \in Occurrences(policy) : FALSE}
  <2>4. none \in SUBSET Occurrences(policy) /\ \A at : at \notin none
    OBVIOUS
  <2>5. \A k \in 1..BufferLen : buffer'[k] = original[k]
    BY <2>1
  <2>6. Cardinality(none) = 0
    BY FS_EmptySet
  <2> HIDE DEF none
  <2> QED
    BY <1>a, <2>1, <2>3, <2>4, <2>5, <2>6
<1>2. CASE ~ ReadExit
  <2> PICK occs \in SUBSET Occurrences(policy) :
        /\ \A at \in occs : at + L <= offset
        /\ \A at \in Occurrences(policy) : at < offset =>
              (at \notin occs <=> Overlapped(policy, at, occs))
        /\ Rewritten(policy, occs)
        /\ Cardinality(occs) = replacements
    <3>1. pc \in {"load", "loop"}
      BY <1>0, <1>2 DEF Next, LoadContext, RewriteHere, StepOver, SkipRest, EndOfProgram,
                        PolicyChange, Looking
    <3> QED
      BY <1>0, <3>1 DEF ReplacedSoFar
  <2>w. /\ \A at \in occs : \A n \in 1..L : buffer[at + n] = policy.replace[n]
        /\ \A k \in 1..BufferLen : (\A at \in occs : k - at \notin 1..L) => buffer[k] = original[k]
    BY DEF Rewritten
  <2>o. \A at \in Occurrences(policy) : at \in Nat /\ at + L <= Scanned
    BY <1>0, <1>t, OccurrenceFacts
  <2>1. CASE LoadContext \/ EndOfProgram
    <3>1. UNCHANGED <<buffer, offset, replacements>>
      BY <2>1 DEF LoadContext, EndOfProgram, Clear, scanVars
    <3> QED
      BY <1>a, <2>w, <3>1
  <2>2. CASE SkipRest
    <3>1. /\ buffer' = buffer /\ offset' = Scanned /\ replacements' = replacements /\ bytes_to_scan = Scanned
          /\ text = policy /\ offset + L > Scanned /\ offset < Scanned
      BY <1>0, <2>2 DEF SkipRest, Looking, InScan
    <3>2. \A at \in Occurrences(policy) : at < offset
      BY <1>t, <2>o, <3>1
    <3>3. \A at \in occs : at + L <= offset'
      BY <2>o, <3>1
    <3> QED
      BY <1>a, <2>w, <3>1, <3>2, <3>3
  <2>3. CASE StepOver
    <3>1. /\ buffer' = buffer /\ offset' = offset + 1 /\ replacements' = replacements /\ bytes_to_scan = Scanned
          /\ text = policy /\ offset + L <= bytes_to_scan /\ ~ Matches(buffer, policy, offset)
      BY <1>0, <2>3 DEF StepOver, Looking, InScan
    <3>2. offset \notin Occurrences(policy)
      BY <1>0, <3>1, OccurrenceHere
    <3>3. \A at \in Occurrences(policy) : at < offset' => at < offset
      BY <1>t, <2>o, <3>1, <3>2
    <3>4. \A at \in occs : at + L <= offset'
      <4>1. ASSUME NEW at \in occs PROVE at + L <= offset + 1
        <5>1. at \in Nat /\ at + L <= offset
          BY <2>o
        <5> QED
          BY <1>t, <5>1
      <4> QED
        BY <3>1, <4>1
    <3> QED
      BY <1>a, <2>w, <3>1, <3>3, <3>4
  <2>4. CASE RewriteHere
    <3>1. /\ text = policy /\ offset' = offset + L /\ bytes_to_scan = Scanned
          /\ offset + L <= bytes_to_scan /\ Matches(buffer, policy, offset)
          /\ replacements' = replacements + 1
      BY <1>0, <2>4 DEF RewriteHere, Looking, InScan
    <3>2. /\ \A n \in 1..L : buffer'[offset + n] = policy.replace[n]
          /\ \A k \in 1..BufferLen : k - offset \notin 1..L => buffer'[k] = buffer[k]
          /\ Scanned \in 0..BufferLen
      BY <1>0, <2>4, <3>1, Overwritten
    <3>3. offset \in Occurrences(policy)
      BY <1>0, <3>1, OccurrenceHere
    <3> DEFINE more == occs \cup {offset}
    <3>4. more \in SUBSET Occurrences(policy)
      BY <3>3
    <3>b. ASSUME NEW at \in occs PROVE at \in Nat /\ at + L <= offset /\ at < offset
      <4>1. at \in Nat /\ at + L <= offset
        BY <2>o
      <4> QED
        BY <1>t, <4>1
    <3>5. \A at \in more : at + L <= offset'
      <4>1. ASSUME NEW at \in occs PROVE at + L <= offset + L
        BY <1>t, <3>b
      <4> QED
        BY <1>t, <3>1, <4>1
    <3>6. ASSUME NEW at \in Occurrences(policy), at < offset'
          PROVE at \notin more <=> Overlapped(policy, at, more)
      <4>0. at \in Nat
        BY <2>o
      <4>1. CASE at < offset
        <5>1. at \notin occs <=> Overlapped(policy, at, occs)
          BY <4>1
        <5>2. Overlapped(policy, at, more) <=> Overlapped(policy, at, occs)
          BY <1>t, <4>0, <4>1 DEF Overlapped
        <5>3. at # offset
          BY <1>t, <4>0, <4>1
        <5> QED
          BY <5>1, <5>2, <5>3
      <4>2. CASE at = offset
        <5>1. ASSUME NEW before \in more, before < at, at < before + L PROVE FALSE
          <6>1. before \in occs
            BY <1>t, <4>2, <5>1
          <6>2. before \in Nat /\ before + L <= offset
            BY <6>1, <3>b
          <6> QED
            BY <1>t, <4>2, <5>1, <6>2
        <5> QED
          BY <4>2, <5>1 DEF Overlapped
      <4>3. CASE offset < at
        <5>1. at \notin more
          <6>1. at \notin occs
            BY <1>t, <4>0, <4>3, <3>b
          <6> QED
            BY <1>t, <4>0, <4>3, <6>1
        <5>2. offset < at /\ at < offset + L
          BY <3>1, <3>6, <4>3
        <5>3. Overlapped(policy, at, more)
          BY <5>2 DEF Overlapped
        <5> QED
          BY <5>1, <5>3
      <4> QED
        BY <1>t, <4>0, <4>1, <4>2, <4>3
    <3>7. ASSUME NEW at \in more, NEW n \in 1..L PROVE buffer'[at + n] = policy.replace[n]
      <4>1. CASE at = offset
        BY <3>2, <4>1
      <4>2. CASE at \in occs
        <5>1. at + n \in 1..BufferLen /\ (at + n) - offset \notin 1..L
          <6>1. at \in Nat /\ at + L <= offset /\ BufferLen \in Nat
            BY <4>2, <3>b, SizesAssumption
          <6>2. offset <= BufferLen
            BY <1>t, <3>1, <3>2, SizesAssumption
          <6> QED
            BY <1>t, <6>1, <6>2
        <5> QED
          BY <4>2, <5>1, <2>w, <3>2
      <4> QED
        BY <4>1, <4>2
    <3>8. \A k \in 1..BufferLen : (\A at \in more : k - at \notin 1..L) => buffer'[k] = original[k]
      BY <2>w, <3>2
    <3>9. Cardinality(more) = replacements'
      <4>1. IsFiniteSet(occs)
        BY <1>0, <1>t, OccurrencesFinite
      <4>2. offset \notin occs
        BY <1>t, <3>b
      <4> QED
        BY <3>1, <4>1, <4>2, FS_AddElement
    <3> HIDE DEF more
    <3> QED
      BY <1>a, <3>4, <3>5, <3>6, <3>7, <3>8, <3>9
  <2>5. ~ PolicyChange
    BY <1>0, SizesAssumption DEF PolicyChange, TypeOK
  <2> QED
    BY <1>2, <2>1, <2>2, <2>3, <2>4, <2>5 DEF Next
<1> QED
  BY <1>1, <1>2

LEMMA StepFinished ==
    ASSUME TypeOK, InScan, Advanced, WritesInsideRead, ReplacedSoFar, Finished, Next
    PROVE  Finished'
<1> DEFINE AllSaying(t, bytes) ==
        \E occs \in SUBSET Occurrences(t) :
            /\ \A at \in Occurrences(t) : at \notin occs <=> Overlapped(t, at, occs)
            /\ Rewritten(t, occs)
            /\ bytes = Cardinality(occs) * Len(t.find)
<1> SUFFICES ASSUME pc' = "ended", changes' = MaxChanges, policy' # None, Whole(policy')
             PROVE  AllSaying(policy, reported)'
  BY DEF Finished, Leftmost, Scan, Whole
<1>0. /\ UNCHANGED <<original, ret, policy, changes>>
      /\ changes = MaxChanges /\ policy \in Texts /\ policy # None
  <2>1. ~ PolicyChange
    BY SizesAssumption DEF PolicyChange, TypeOK
  <2> QED
    BY <2>1 DEF Next, ReadExit, LoadContext, RewriteHere, StepOver, SkipRest, EndOfProgram, TypeOK
<1>1. buffer' = buffer /\ (ReadExit \/ EndOfProgram)
  <2>1. ReadExit \/ EndOfProgram
    BY <1>0, SizesAssumption
       DEF Next, LoadContext, RewriteHere, StepOver, SkipRest, PolicyChange, Looking, TypeOK
  <2> QED
    BY <2>1 DEF ReadExit, EndOfProgram
<1>2. AllSaying(policy, reported') => AllSaying(policy, reported)'
  <2> SUFFICES ASSUME NEW occs \in SUBSET Occurrences(policy),
                      \A at \in Occurrences(policy) : at \notin occs <=> Overlapped(policy, at, occs),
                      Rewritten(policy, occs),
                      reported' = Cardinality(occs) * Len(policy.find)
               PROVE  AllSaying(policy, reported)'
    OBVIOUS
  <2>1. Occurrences(policy)' = Occurrences(policy)
    BY <1>0 DEF Occurrences, Scanned
  <2>2. \A at \in Occurrences(policy) : at \notin occs <=> Overlapped(policy, at, occs)'
    BY <1>0 DEF Overlapped
  <2>3. Rewritten(policy, occs)'
    BY <1>0, <1>1 DEF Rewritten
  <2>4. reported' = Cardinality(occs) * Len(policy'.find)
    BY <1>0
  <2> QED
    BY <2>1, <2>2, <2>3, <2>4
<1>t. /\ Len(policy.find) \in Nat /\ Len(policy.find) > 0 /\ Scanned \in Nat
      /\ offset \in Nat /\ bytes_to_scan \in Nat /\ ret \in -1..BufferLen
  BY <1>0, TextFacts, ScannedFacts, SizesAssumption DEF TypeOK
<1>o. \A at \in Occurrences(policy) : at \in Nat /\ at + Len(policy.find) <= Scanned
  BY <1>0, <1>t, OccurrenceFacts
<1>3. CASE ReadExit
  <2>1. pc = "exit" /\ Scanned < Len(policy.find)
    BY <1>0, <1>3 DEF ReadExit, Scanned
  <2>2. \A at : at \notin Occurrences(policy)
    BY <1>o, <1>t, <2>1
  <2>3. buffer = original
    BY <2>1 DEF InScan
  <2> DEFINE none == {at \in Occurrences(policy) : FALSE}
  <2>4. none \in SUBSET Occurrences(policy) /\ \A at : at \notin none
    OBVIOUS
  <2>5. Rewritten(policy, none)
    BY <2>3, <2>4 DEF Rewritten
  <2>6. reported' = Cardinality(none) * Len(policy.find)
    <3>1. Cardinality(none) = 0
      BY FS_EmptySet
    <3>2. reported' = 0
      BY <1>3, <2>1 DEF ReadExit, InScan
    <3> QED
      BY <1>t, <3>1, <3>2
  <2> HIDE DEF none
  <2>7. AllSaying(policy, reported')
    BY <2>2, <2>4, <2>5, <2>6
  <2> QED
    BY <1>2, <2>7
<1>4. CASE EndOfProgram
  <2>1. pc = "loop" /\ bytes_to_scan = Scanned
    BY <1>4 DEF EndOfProgram, InScan
  <2>2. offset >= bytes_to_scan
    <3> SUFFICES ASSUME offset < bytes_to_scan PROVE FALSE
      BY <1>t
    <3>1. i = Chunk
      BY <1>4, SizesAssumption DEF EndOfProgram, Looking, TypeOK
    <3>2. tailCalls < MaxTailCalls
      BY <2>1, <3>1, Suffices DEF Inv, TailCallsSuffice
    <3>3. pc' = "load"
      BY <1>4, <3>2 DEF EndOfProgram
    <3> QED
      BY <3>3
  <2> PICK occs \in SUBSET Occurrences(policy) :
        /\ \A at \in Occurrences(policy) : at < offset =>
              (at \notin occs <=> Overlapped(policy, at, occs))
        /\ Rewritten(policy, occs)
        /\ Cardinality(occs) = replacements
    BY <1>0, <2>1 DEF ReplacedSoFar
  <2>3. \A at \in Occurrences(policy) : at < offset
    BY <1>t, <1>o, <2>1, <2>2
  <2>4. reported' = Cardinality(occs) * Len(policy.find)
    <3>1. text = policy /\ reported = 0
      BY <1>0, <2>1 DEF InScan
    <3>2. reported' = reported + replacements * Len(text.find)
      BY <1>t, <1>4, <2>2 DEF EndOfProgram, Report
    <3>3. replacements \in Nat /\ replacements * Len(policy.find) \in Nat
      BY <1>t DEF TypeOK
    <3> QED
      BY <3>1, <3>2, <3>3
  <2>5. AllSaying(policy, reported')
    BY <2>3, <2>4
  <2> QED
    BY <1>2, <2>5
<1> QED
  BY <1>1, <1>3, <1>4

LEMMA StepInv == Inv /\ [Next]_vars => Inv'
<1> SUFFICES ASSUME Inv, [Next]_vars PROVE Inv'
  OBVIOUS
<1>1. CASE Next
  BY <1>1, StepTypes, StepInScan, StepAdvanced, StepWrites, StepReplaced, StepFinished DEF Inv
<1>2. CASE UNCHANGED vars
  <2>1. TypeOK' /\ Advanced'
    BY <1>2 DEF Inv, TypeOK, Advanced, vars, scanVars
  <2>2. InScan' /\ WritesInsideRead'
    BY <1>2 DEF Inv, InScan, WritesInsideRead, Scanned, vars, scanVars
  <2>3. UNCHANGED <<policy, changes, original, ret, buffer, offset, replacements, reported, pc>>
    BY <1>2 DEF vars, scanVars
  <2>4. ReplacedSoFar'
    <3> SUFFICES ASSUME pc \in {"load", "loop"}, changes = MaxChanges, policy # None,
                        Whole(policy)
                 PROVE  ReplacedSoFar'
      BY <2>3 DEF ReplacedSoFar, Whole
    <3> PICK occs \in SUBSET Occurrences(policy) :
          /\ \A at \in occs : at + Len(policy.find) <= offset
          /\ \A at \in Occurrences(policy) : at < offset =>
                (at \notin occs <=> Overlapped(policy, at, occs))
          /\ Rewritten(policy, occs)
          /\ Cardinality(occs) = replacements
      BY DEF Inv, ReplacedSoFar
    <3>1. Occurrences(policy)' = Occurrences(policy)
      BY <2>3 DEF Occurrences, Scanned
    <3>2. \A at \in Occurrences(policy) : Overlapped(policy, at, occs)' <=> Overlapped(policy, at, occs)
      BY <2>3 DEF Overlapped
    <3>3. Rewritten(policy, occs)'
      BY <2>3 DEF Rewritten
    <3> QED
      BY <2>3, <3>1, <3>2, <3>3 DEF ReplacedSoFar
  <2>5. Finished'
    <3> SUFFICES ASSUME pc = "ended", changes = MaxChanges, policy # None, Whole(policy)
                 PROVE  Finished'
      BY <2>3 DEF Finished, Scan, Whole
    <3> PICK occs \in SUBSET Occurrences(policy) :
          /\ \A at \in Occurrences(policy) : at \notin occs <=> Overlapped(policy, at, occs)
          /\ Rewritten(policy, occs)
          /\ reported = Cardinality(occs) * Len(policy.find)
      BY DEF Inv, Finished, Leftmost, Scan
    <3>1. Occurrences(policy)' = Occurrences(policy)
      BY <2>3 DEF Occurrences, Scanned
    <3>2. \A at \in Occurrences(policy) : Overlapped(policy, at, occs)' <=> Overlapped(policy, at, occs)
      BY <2>3 DEF Overlapped
    <3>3. Rewritten(policy, occs)'
      BY <2>3 DEF Rewritten
    <3> QED
      BY <2>3, <3>1, <3>2, <3>3 DEF Finished, Leftmost, Scan
  <2> QED
    BY <2>1, <2>2, <2>4, <2>5 DEF Inv
<1> QED
  BY <1>1, <1>2

THEOREM InvHolds == Spec => []Inv
BY InitInv, StepInv, PTL DEF Spec

(* Nothing is written outside the bytes the read returned. *)
THEOREM ReadsStayInside == Spec => []WritesInsideRead
<1>1. Inv => WritesInsideRead
  BY DEF Inv
<1> QED
  BY <1>1, InvHolds, PTL

(* The tail calls reach the end of the scanned bytes. *)
THEOREM NoScanCutShort == Spec => []TailCallsSuffice
BY Suffices, InvHolds, PTL

(* The leftmost occurrences are replaced, whatever the chunks. *)
THEOREM ScanIsLeftmost == Spec => []LeftmostReplaced
<1>1. Inv => LeftmostReplaced
  BY DEF Inv, Finished, LeftmostReplaced
<1> QED
  BY <1>1, InvHolds, PTL

(* One event says how many bytes they are, whatever the chunks. *)
THEOREM ScanIsReported == Spec => []RewritesReported
<1>1. Inv => RewritesReported
  BY DEF Inv, Finished, RewritesReported
<1> QED
  BY <1>1, InvHolds, PTL

(* Types of every variable, and the offset within the scanned bytes. *)
THEOREM TypesHold == Spec => []TypeOK
<1>1. Inv => TypeOK
  BY DEF Inv
<1> QED
  BY <1>1, InvHolds, PTL

-----------------------------------------------------------------------------
(* A scan ends *)

(* No scan takes more turns and programs than this from where it is. *)
StepsLeft ==
    CASE pc = "exit" -> MaxScan + 2 * MaxTailCalls + 3
      [] pc = "load" -> (bytes_to_scan - offset) + 2 * (MaxTailCalls - tailCalls) + 2
      [] pc = "loop" -> (bytes_to_scan - offset) + 2 * (MaxTailCalls - tailCalls) + 1
      [] OTHER -> 0

LEMMA StepsLeftBounded == Inv => StepsLeft \in 0..(MaxScan + 2 * MaxTailCalls + 3)
<1> SUFFICES ASSUME Inv PROVE StepsLeft \in 0..(MaxScan + 2 * MaxTailCalls + 3)
  OBVIOUS
<1>1. /\ MaxScan \in Nat /\ MaxTailCalls \in Nat
      /\ bytes_to_scan \in Nat /\ offset \in 0..bytes_to_scan /\ tailCalls \in 0..MaxTailCalls
  BY SizesAssumption DEF Inv, TypeOK
<1>2. pc \in {"load", "loop"} => bytes_to_scan <= MaxScan
  BY ScannedFacts DEF Inv, TypeOK, InScan
<1> QED
  BY <1>1, <1>2 DEF StepsLeft

LEMMA StepDescends ==
    Inv /\ [Next]_vars => policy' # policy \/ UNCHANGED vars \/ StepsLeft' < StepsLeft
<1> SUFFICES ASSUME Inv, Next, policy' = policy PROVE StepsLeft' < StepsLeft
  OBVIOUS
<1>1. /\ MaxScan \in Nat /\ MaxTailCalls \in Nat
      /\ bytes_to_scan \in Nat /\ offset \in 0..bytes_to_scan /\ tailCalls \in 0..MaxTailCalls
  BY SizesAssumption DEF Inv, TypeOK
<1>2. Scanned \in Nat /\ Scanned <= MaxScan
  BY ScannedFacts DEF Inv, TypeOK
<1>3. CASE ReadExit
  BY <1>1, <1>2, <1>3 DEF Inv, InScan, ReadExit, Clear, StepsLeft, Scanned
<1>4. CASE LoadContext
  BY <1>1, <1>4 DEF LoadContext, Clear, StepsLeft, scanVars
<1>5. CASE RewriteHere \/ StepOver \/ SkipRest
  <2>1. /\ pc = "loop" /\ pc' = "loop" /\ tailCalls' = tailCalls
        /\ bytes_to_scan' = bytes_to_scan /\ offset < bytes_to_scan
    BY <1>5 DEF RewriteHere, StepOver, SkipRest, Looking
  <2>2. Len(text.find) \in Nat /\ Len(text.find) > 0
    BY <2>1, TextFacts DEF Inv, TypeOK, InScan
  <2>3. offset' > offset /\ offset' \in Nat
    BY <1>1, <1>5, <2>1, <2>2 DEF RewriteHere, StepOver, SkipRest
  <2> QED
    BY <1>1, <2>1, <2>3 DEF StepsLeft
<1>6. CASE EndOfProgram
  BY <1>1, <1>6 DEF EndOfProgram, Clear, StepsLeft, scanVars
<1>7. CASE PolicyChange
  BY <1>7 DEF PolicyChange
<1> QED
  BY <1>3, <1>4, <1>5, <1>6, <1>7 DEF Next

(* For any buffer, texts and policy changes a scan ends after a bounded      *)
(* number of loop turns and programs: what is left falls with each of them,  *)
(* and a change of policy does not raise it (agentguardian.bpf.c:247-287).   *)
ScanDescends ==
    /\ [](StepsLeft \in 0..(MaxScan + 2 * MaxTailCalls + 3))
    /\ [][IF policy' = policy THEN StepsLeft' < StepsLeft ELSE StepsLeft' = StepsLeft]_vars

(* From Inv: the offset stays within the bytes to scan and the tail calls    *)
(* within their limit, so that no scan goes on for ever.                     *)
THEOREM ScansEnd == Spec => ScanDescends
<1>1. ASSUME Inv, [Next]_vars
      PROVE  [IF policy' = policy THEN StepsLeft' < StepsLeft ELSE StepsLeft' = StepsLeft]_vars
  <2>1. CASE policy' = policy
    BY <1>1, <2>1, StepDescends
  <2>2. CASE policy' # policy
    <3>1. CASE PolicyChange
      BY <3>1 DEF PolicyChange, StepsLeft, scanVars
    <3>2. CASE UNCHANGED vars
      BY <3>2
    <3> QED
      BY <1>1, <2>2, <3>1, <3>2 DEF Next, ReadExit, LoadContext, RewriteHere, StepOver,
                                    SkipRest, EndOfProgram
  <2> QED
    BY <2>1, <2>2
<1>2. Inv => StepsLeft \in 0..(MaxScan + 2 * MaxTailCalls + 3)
  BY StepsLeftBounded
<1> QED
  BY <1>1, <1>2, InvHolds, PTL DEF Spec, ScanDescends

=============================================================================
