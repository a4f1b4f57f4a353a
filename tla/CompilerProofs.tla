--------------------------- MODULE CompilerProofs ---------------------------
(***************************************************************************)
(* The compiler's result for every ruleset and every view of processes.    *)
(***************************************************************************)
EXTENDS Compiler, SequenceTheorems, TLAPS

(* One rule of the ruleset selects a key. *)
Selects(i, k) == rules[i].enabled /\ k \in Selected(rules[i])

(* Before the rule the loop is at, every key has the rule none of the others *)
(* replaces.                                                                 *)
BestSoFar ==
    \A k \in Keys :
        IF candidates[k] = None
        THEN \A i \in 1..(at - 1) : ~ Selects(i, k)
        ELSE \E i \in 1..(at - 1) :
                /\ Selects(i, k)
                /\ candidates[k] = rules[i]
                /\ \A j \in 1..(at - 1) : Selects(j, k) /\ j # i => ShouldReplace(rules[j], rules[i])

Validated == at > 0 => ~ DuplicateIds

(* The warnings are of rules already met, and name a rule for a key exactly  *)
(* when it has met the key and another rule holds it.                        *)
ReportedSoFar ==
    /\ \A w \in warnings : \E i \in 1..(at - 1) : rules[i].enabled /\ w.lost = rules[i]
    /\ \A i \in 1..(at - 1) : rules[i].enabled =>
          /\ \A k \in Selected(rules[i]) :
                candidates[k] # rules[i] <=>
                    \E w \in warnings : w.lost = rules[i] /\ w.target = k
          /\ Selected(rules[i]) = {} => \E w \in warnings : w.lost = rules[i]

Inv == TypeOK /\ Validated /\ BestSoFar /\ ReportedSoFar

LEMMA RuleFields ==
    ASSUME NEW r \in Rule
    PROVE  /\ r.id \in Int /\ r.priority \in Int /\ r.enabled \in BOOLEAN
           /\ r.action \in {"hide", "rewrite"}
           /\ Specificity(r) \in 1..3
           /\ r.match \in Matches
           /\ r.match.sel \in {"pid", "comm", "exe"}
<1>1. r.id \in Int /\ r.priority \in Int /\ r.enabled \in BOOLEAN
      /\ r.action \in {"hide", "rewrite"} /\ r.match \in Matches
  BY IdsAssumption, PrioritiesAssumption DEF Rule
<1>2. r.match.sel \in {"pid", "comm", "exe"}
  BY <1>1 DEF Matches
<1> QED
  BY <1>1, <1>2 DEF Specificity

(* Of two rules with different ids exactly one replaces the other. *)
LEMMA ReplaceTotal ==
    ASSUME NEW r \in Rule, NEW s \in Rule, r.id # s.id
    PROVE  ShouldReplace(r, s) <=> ~ ShouldReplace(s, r)
BY RuleFields DEF ShouldReplace

LEMMA ReplaceTransitive ==
    ASSUME NEW r \in Rule, NEW s \in Rule, NEW u \in Rule,
           ShouldReplace(r, s), ShouldReplace(s, u)
    PROVE  ShouldReplace(r, u)
<1> DEFINE sr == Specificity(r)
           ss == Specificity(s)
           su == Specificity(u)
<1>1. sr \in Int /\ ss \in Int /\ su \in Int
  BY RuleFields
<1> HIDE DEF sr, ss, su
<1>2. SUFFICES IF su # sr THEN su > sr
               ELSE IF u.priority # r.priority THEN u.priority < r.priority
               ELSE IF u.action # r.action THEN u.action = "hide"
               ELSE u.id < r.id
  BY DEF ShouldReplace, sr, su
<1>3. IF ss # sr THEN ss > sr
      ELSE IF s.priority # r.priority THEN s.priority < r.priority
      ELSE IF s.action # r.action THEN s.action = "hide"
      ELSE s.id < r.id
  BY DEF ShouldReplace, sr, ss
<1>4. IF su # ss THEN su > ss
      ELSE IF u.priority # s.priority THEN u.priority < s.priority
      ELSE IF u.action # s.action THEN u.action = "hide"
      ELSE u.id < s.id
  BY DEF ShouldReplace, ss, su
<1> QED
  BY <1>1, <1>3, <1>4, RuleFields

(* A rule that is not replaced comes first in the documented order. *)
LEMMA ReplaceIsRank ==
    ASSUME NEW r \in Rule, NEW s \in Rule, ShouldReplace(s, r)
    PROVE  Precedes(r, s)
<1> DEFINE a == Rank(r)
           b == Rank(s)
<1>1. /\ a[1] = - Specificity(r) /\ b[1] = - Specificity(s)
      /\ a[2] = r.priority /\ b[2] = s.priority
      /\ a[3] = (IF r.action = "hide" THEN 0 ELSE 1)
      /\ b[3] = (IF s.action = "hide" THEN 0 ELSE 1)
      /\ a[4] = r.id /\ b[4] = s.id
  BY DEF Rank
<1> HIDE DEF a, b
<1>2. SUFFICES \E n \in 1..4 : a[n] < b[n] /\ \A m \in 1..(n - 1) : a[m] = b[m]
  BY DEF Precedes, a, b
<1>3. CASE Specificity(r) # Specificity(s)
  <2>1. a[1] < b[1]
    BY <1>1, <1>3, RuleFields DEF ShouldReplace
  <2> QED
    BY <2>1
<1>4. CASE Specificity(r) = Specificity(s) /\ r.priority # s.priority
  <2>1. a[1] = b[1] /\ a[2] < b[2]
    BY <1>1, <1>4, RuleFields DEF ShouldReplace
  <2>2. \A m \in 1..(2 - 1) : a[m] = b[m]
    BY <2>1
  <2> QED
    BY <2>1, <2>2
<1>5. CASE Specificity(r) = Specificity(s) /\ r.priority = s.priority /\ r.action # s.action
  <2>1. a[1] = b[1] /\ a[2] = b[2] /\ a[3] < b[3]
    BY <1>1, <1>5, RuleFields DEF ShouldReplace
  <2>2. \A m \in 1..(3 - 1) : a[m] = b[m]
    BY <2>1
  <2> QED
    BY <2>1, <2>2
<1>6. CASE Specificity(r) = Specificity(s) /\ r.priority = s.priority /\ r.action = s.action
  <2>1. a[1] = b[1] /\ a[2] = b[2] /\ a[3] = b[3] /\ a[4] < b[4]
    BY <1>1, <1>6, RuleFields DEF ShouldReplace
  <2>2. \A m \in 1..(4 - 1) : a[m] = b[m]
    BY <2>1
  <2> QED
    BY <2>1, <2>2
<1> QED
  BY <1>3, <1>4, <1>5, <1>6

LEMMA RulesetLen == ASSUME IsRuleset(rules) PROVE Len(rules) \in Nat /\ rules \in [1..Len(rules) -> Rule]
<1> PICK n \in 0..MaxRules : rules \in [1..n -> Rule]
  BY DEF IsRuleset
<1>1. n \in Nat
  BY BoundAssumption
<1>2. rules \in Seq(Rule)
  BY <1>1, SeqDef
<1> QED
  BY <1>2, LenProperties

LEMMA SelectedKeys == ASSUME NEW r \in Rule PROVE Selected(r) \subseteq Keys
<1>1. r.match \in Matches
  BY RuleFields
<1>2. CASE r.match.sel = "exe"
  BY <1>2 DEF Selected, Keys
<1>3. CASE r.match.sel # "exe"
  <2>1. r.match.on \in Keys
    BY <1>1, <1>3 DEF Matches, Keys
  <2> QED
    BY <2>1, <1>3 DEF Selected
<1> QED
  BY <1>2, <1>3

LEMMA InitInv == Init => Inv
<1> SUFFICES ASSUME Init PROVE Inv
  OBVIOUS
<1>1. IsRuleset(rules)
  BY DEF Init, IsRuleset
<1>2. Len(rules) \in Nat
  BY <1>1, RulesetLen
<1>3. TypeOK
  <2>1. at \in 0..(Len(rules) + 1)
    BY <1>2 DEF Init
  <2>2. candidates \in [Keys -> Rule \cup {None}] /\ warnings = {} /\ failed \in BOOLEAN
    BY DEF Init
  <2> QED
    BY <1>1, <2>1, <2>2 DEF TypeOK
<1>4. Validated /\ BestSoFar /\ ReportedSoFar
  BY DEF Init, Validated, BestSoFar, ReportedSoFar
<1> QED
  BY <1>3, <1>4 DEF Inv

LEMMA StepTypes == ASSUME TypeOK, Next PROVE TypeOK'
<1>0. /\ Len(rules) \in Nat /\ rules \in [1..Len(rules) -> Rule]
      /\ rules' = rules
  BY RulesetLen DEF TypeOK, Next, Validate, CompileRule
<1>1. CASE Validate
  <2>1. at' \in 0..(Len(rules) + 1)
    <3>1. at' = at \/ at' = 1
      BY <1>1 DEF Validate
    <3> QED
      BY <1>0, <3>1 DEF TypeOK
  <2>2. failed' \in BOOLEAN
    BY <1>1 DEF Validate, TypeOK
  <2> QED
    BY <1>0, <1>1, <2>1, <2>2 DEF Validate, TypeOK
<1>2. CASE CompileRule
  <2> DEFINE r == rules[at]
  <2>1. at \in 1..Len(rules) /\ r \in Rule /\ at' \in 0..(Len(rules) + 1)
    BY <1>0, <1>2 DEF CompileRule, TypeOK, Done
  <2>2. Selected(r) \subseteq Keys
    BY <2>1, SelectedKeys
  <2>3. candidates' \in [Keys -> Rule \cup {None}]
    BY <1>2, <2>1 DEF CompileRule, TypeOK
  <2>4. Shadowed(r) \subseteq [lost : Rule, kept : Rule \cup {None}, target : Keys \cup {None}]
    <3> SUFFICES ASSUME NEW k \in Selected(r), candidates[k] # None
                 PROVE [lost |-> IF ShouldReplace(candidates[k], r) THEN candidates[k] ELSE r,
                        kept |-> IF ShouldReplace(candidates[k], r) THEN r ELSE candidates[k],
                        target |-> k]
                       \in [lost : Rule, kept : Rule \cup {None}, target : Keys \cup {None}]
      BY DEF Shadowed
    <3>1. k \in Keys /\ candidates[k] \in Rule
      BY <2>2 DEF TypeOK
    <3> QED
      BY <2>1, <3>1
  <2>5. Unmatched(r) \subseteq [lost : Rule, kept : Rule \cup {None}, target : Keys \cup {None}]
    BY <2>1 DEF Unmatched
  <2>6. warnings' \subseteq [lost : Rule, kept : Rule \cup {None}, target : Keys \cup {None}]
    BY <1>2, <2>4, <2>5 DEF CompileRule, TypeOK
  <2> QED
    BY <1>0, <1>2, <2>1, <2>3, <2>6 DEF CompileRule, TypeOK
<1> QED
  BY <1>1, <1>2 DEF Next

(* A step of the loop, with what its invariants need to know of it. *)
LEMMA RuleStep ==
    ASSUME Inv, CompileRule
    PROVE  /\ at \in 1..Len(rules) /\ Len(rules) \in Nat
           /\ \A i \in 1..Len(rules) : rules[i] \in Rule /\ Selected(rules[i]) \subseteq Keys
           /\ \A i \in 1..Len(rules) : i # at => rules[i].id # rules[at].id
           /\ candidates \in [Keys -> Rule \cup {None}]
           /\ \A i \in 1..Len(rules) : rules[i] # None
<1>1. Len(rules) \in Nat /\ rules \in [1..Len(rules) -> Rule]
  BY RulesetLen DEF Inv, TypeOK
<1>2. at \in 1..Len(rules)
  BY <1>1 DEF Inv, TypeOK, CompileRule, Done
<1>3. \A i \in 1..Len(rules) : i # at => rules[i].id # rules[at].id
  BY <1>2 DEF Inv, Validated, DuplicateIds
<1> QED
  BY <1>1, <1>2, <1>3, SelectedKeys, NoneAssumption DEF Inv, TypeOK

LEMMA StepBest == ASSUME Inv, CompileRule PROVE BestSoFar'
<1> DEFINE r == rules[at]
           takes(k) == k \in Selected(r) /\ (candidates[k] = None \/ ShouldReplace(candidates[k], r))
<1>0. /\ at \in 1..Len(rules) /\ Len(rules) \in Nat
      /\ \A i \in 1..Len(rules) : rules[i] \in Rule /\ rules[i] # None
      /\ \A i \in 1..Len(rules) : i # at => rules[i].id # r.id
      /\ at' = at + 1 /\ rules' = rules
  BY RuleStep DEF CompileRule
<1>1. 1..(at' - 1) = 1..(at - 1) \cup {at}
  BY <1>0
<1>2. \A i : Selected(rules'[i]) = Selected(rules[i]) /\ \A k : Selects(i, k)' <=> Selects(i, k)
  BY <1>0 DEF Selects, Selected
<1> SUFFICES ASSUME NEW k \in Keys
             PROVE  IF candidates'[k] = None
                    THEN \A i \in 1..(at' - 1) : ~ Selects(i, k)
                    ELSE \E i \in 1..(at' - 1) :
                            /\ Selects(i, k)
                            /\ candidates'[k] = rules[i]
                            /\ \A j \in 1..(at' - 1) :
                                  Selects(j, k) /\ j # i => ShouldReplace(rules[j], rules[i])
  BY <1>0, <1>2 DEF BestSoFar
<1>3. candidates'[k] = IF r.enabled /\ takes(k) THEN r ELSE candidates[k]
  BY RuleStep DEF CompileRule
<1>4. Selects(at, k) <=> r.enabled /\ k \in Selected(r)
  BY DEF Selects
<1>5. CASE candidates[k] = None
  <2>1. \A i \in 1..(at - 1) : ~ Selects(i, k)
    BY <1>5 DEF Inv, BestSoFar
  <2>2. candidates'[k] = IF Selects(at, k) THEN r ELSE None
    BY <1>3, <1>4, <1>5
  <2> QED
    BY <2>1, <2>2, <1>0, <1>1
<1>6. CASE candidates[k] # None
  <2> PICK i \in 1..(at - 1) :
        /\ Selects(i, k) /\ candidates[k] = rules[i]
        /\ \A j \in 1..(at - 1) : Selects(j, k) /\ j # i => ShouldReplace(rules[j], rules[i])
    BY <1>6 DEF Inv, BestSoFar
  <2>0. i \in 1..Len(rules) /\ i # at /\ rules[i] \in Rule /\ r \in Rule /\ rules[i].id # r.id
    BY <1>0
  <2>1. CASE ~ Selects(at, k)
    <3>1. candidates'[k] = rules[i]
      BY <2>1, <1>3, <1>4
    <3> QED
      BY <2>0, <2>1, <3>1, <1>0, <1>1
  <2>2. CASE Selects(at, k) /\ ShouldReplace(rules[i], r)
    <3>1. candidates'[k] = r
      BY <2>2, <1>3, <1>4
    <3>2. ASSUME NEW j \in 1..(at - 1), Selects(j, k) PROVE ShouldReplace(rules[j], r)
      <4>1. CASE j = i
        BY <4>1, <2>2
      <4>2. CASE j # i
        <5>1. ShouldReplace(rules[j], rules[i]) /\ rules[j] \in Rule
          BY <3>2, <4>2, <1>0
        <5> QED
          BY <5>1, <2>0, <2>2, ReplaceTransitive
      <4> QED
        BY <4>1, <4>2
    <3> QED
      BY <2>2, <3>1, <3>2, <1>0, <1>1
  <2>3. CASE Selects(at, k) /\ ~ ShouldReplace(rules[i], r)
    <3>1. candidates'[k] = rules[i]
      BY <2>3, <1>3, <1>4, <1>6
    <3>2. ShouldReplace(r, rules[i])
      BY <2>0, <2>3, ReplaceTotal
    <3> QED
      BY <3>1, <3>2, <1>0, <1>1
  <2> QED
    BY <2>1, <2>2, <2>3
<1> QED
  BY <1>5, <1>6

LEMMA StepReported == ASSUME Inv, CompileRule PROVE ReportedSoFar'
<1> DEFINE r == rules[at]
           replaces(k) == ShouldReplace(candidates[k], r)
           warning(k) == [lost |-> IF replaces(k) THEN candidates[k] ELSE r,
                          kept |-> IF replaces(k) THEN r ELSE candidates[k], target |-> k]
           Lost(ws, i, k) == \E w \in ws : w.lost = rules[i] /\ w.target = k
<1>0. /\ at \in 1..Len(rules) /\ Len(rules) \in Nat
      /\ \A i \in 1..Len(rules) : rules[i] # None /\ Selected(rules[i]) \subseteq Keys
      /\ \A i \in 1..Len(rules) : i # at => rules[i] # r
      /\ at' = at + 1 /\ rules' = rules
  BY RuleStep DEF CompileRule
<1>1. 1..(at' - 1) = 1..(at - 1) \cup {at}
  BY <1>0
<1>2. /\ \A w \in warnings : \E i \in 1..(at - 1) : rules[i].enabled /\ w.lost = rules[i]
      /\ \A i \in 1..(at - 1) : rules[i].enabled =>
            /\ \A k \in Selected(rules[i]) : candidates[k] # rules[i] <=> Lost(warnings, i, k)
            /\ Selected(rules[i]) = {} => \E w \in warnings : w.lost = rules[i]
  BY DEF Inv, ReportedSoFar
<1>3. \A k \in Keys : candidates[k] # None =>
          \E i \in 1..(at - 1) : rules[i].enabled /\ candidates[k] = rules[i]
  BY DEF Inv, BestSoFar, Selects
<1>4. \A i \in 1..(at - 1) : i \in 1..Len(rules) /\ rules[i] # r
  BY <1>0
<1>5. ASSUME /\ \A w \in warnings' : \E i \in 1..at : rules[i].enabled /\ w.lost = rules[i]
             /\ \A i \in 1..at : rules[i].enabled =>
                   /\ \A k \in Selected(rules[i]) : candidates'[k] # rules[i] <=> Lost(warnings', i, k)
                   /\ Selected(rules[i]) = {} => \E w \in warnings' : w.lost = rules[i]
      PROVE  ReportedSoFar'
  <2>1. at' - 1 = at
    BY <1>0
  <2>2. \A i : Selected(rules[i])' = Selected(rules[i])
    BY <1>0 DEF Selected
  <2> QED
    BY <1>5, <1>0, <2>1, <2>2 DEF ReportedSoFar
<1>6. CASE ~ r.enabled
  <2>1. UNCHANGED <<candidates, warnings>>
    BY <1>6 DEF CompileRule
  <2>2. 1..at = 1..(at - 1) \cup {at}
    BY <1>0
  <2> QED
    BY <2>1, <2>2, <1>2, <1>5, <1>6
<1>7. CASE r.enabled
  <2>0. 1..at = 1..(at - 1) \cup {at}
    BY <1>0
  <2>1. /\ warnings' = warnings \cup Shadowed(r) \cup Unmatched(r)
        /\ \A k \in Keys : candidates'[k] =
              IF k \in Selected(r) /\ (candidates[k] = None \/ replaces(k)) THEN r ELSE candidates[k]
    BY <1>7 DEF CompileRule
  <2>2. /\ \A k \in Selected(r) : candidates[k] # None => warning(k) \in Shadowed(r)
        /\ \A w \in Shadowed(r) : \E k \in Selected(r) : candidates[k] # None /\ w = warning(k)
    BY DEF Shadowed
  <2>3. /\ \A w \in Unmatched(r) : Selected(r) = {} /\ w.lost = r
        /\ Selected(r) = {} => \E w \in Unmatched(r) : w.lost = r
    <3>1. CASE Selected(r) = {}
      <4>1. Unmatched(r) = {[lost |-> r, kept |-> None, target |-> None]}
        BY <3>1 DEF Unmatched
      <4> QED
        BY <3>1, <4>1
    <3>2. CASE Selected(r) # {}
      BY <3>2 DEF Unmatched
    <3> QED
      BY <3>1, <3>2
  <2>4. Selected(r) \subseteq Keys
    BY <1>0
  <2>5. \A w \in Shadowed(r) : w.target \in Selected(r) /\ candidates[w.target] # None
            /\ w.lost = IF replaces(w.target) THEN candidates[w.target] ELSE r
    BY <2>2
  <2>6. ASSUME NEW w \in warnings' PROVE \E i \in 1..at : rules[i].enabled /\ w.lost = rules[i]
    <3>1. CASE w \in warnings
      BY <3>1, <1>2, <2>0
    <3>2. CASE w \in Shadowed(r)
      <4>1. w.lost = r \/ w.lost = candidates[w.target]
        BY <3>2, <2>5
      <4>2. w.target \in Keys /\ candidates[w.target] # None
        BY <3>2, <2>4, <2>5
      <4> QED
        BY <4>1, <4>2, <1>3, <1>7, <2>0
    <3>3. CASE w \in Unmatched(r)
      BY <3>3, <2>0, <2>3, <1>7
    <3> QED
      BY <3>1, <3>2, <3>3, <2>1
  <2>7. ASSUME NEW i \in 1..(at - 1), rules[i].enabled, NEW k \in Selected(rules[i])
        PROVE candidates'[k] # rules[i] <=> Lost(warnings', i, k)
    <3>0. k \in Keys /\ rules[i] # r /\ rules[i] # None
      BY <1>0, <1>4
    <3>1. ASSUME candidates'[k] # rules[i] PROVE Lost(warnings', i, k)
      <4>1. CASE candidates[k] # rules[i]
        BY <4>1, <1>2, <2>1, <2>7
      <4>2. CASE candidates[k] = rules[i]
        <5>1. k \in Selected(r) /\ replaces(k) /\ candidates[k] # None
          BY <4>2, <3>0, <3>1, <2>1
        <5>2. warning(k) \in warnings' /\ warning(k).lost = rules[i] /\ warning(k).target = k
          BY <4>2, <5>1, <2>1, <2>2
        <5> QED
          BY <5>2
      <4> QED
        BY <4>1, <4>2
    <3>2. ASSUME NEW w \in warnings', w.lost = rules[i], w.target = k PROVE candidates'[k] # rules[i]
      <4>1. CASE w \in warnings
        <5>1. candidates[k] # rules[i]
          BY <4>1, <3>2, <1>2, <2>7
        <5> QED
          BY <5>1, <3>0, <2>1
      <4>2. CASE w \in Shadowed(r)
        BY <4>2, <3>0, <3>2, <2>1, <2>5
      <4>3. CASE w \in Unmatched(r)
        BY <4>3, <3>0, <3>2, <2>3
      <4> QED
        BY <4>1, <4>2, <4>3, <2>1
    <3> QED
      BY <3>1, <3>2
  <2>8. ASSUME NEW k \in Selected(r) PROVE candidates'[k] # r <=> Lost(warnings', at, k)
    <3>0. k \in Keys /\ candidates[k] # r
      <4>1. k \in Keys /\ r # None
        BY <1>0, <2>4
      <4> QED
        BY <4>1, <1>3, <1>4
    <3>1. ASSUME candidates'[k] # r PROVE Lost(warnings', at, k)
      <4>1. candidates[k] # None /\ ~ replaces(k)
        BY <3>0, <3>1, <2>1
      <4>2. warning(k) \in warnings' /\ warning(k).lost = r /\ warning(k).target = k
        BY <4>1, <2>1, <2>2
      <4> QED
        BY <4>2
    <3>2. ASSUME NEW w \in warnings', w.lost = r, w.target = k PROVE candidates'[k] # r
      <4>1. w \notin warnings /\ w \notin Unmatched(r)
        BY <3>2, <1>2, <1>4, <2>3
      <4>2. ~ replaces(k) /\ candidates[k] # None
        BY <4>1, <3>0, <3>2, <2>1, <2>5
      <4> QED
        BY <4>2, <3>0, <2>1
    <3> QED
      BY <3>1, <3>2
  <2>9. ASSUME NEW i \in 1..at, rules[i].enabled, Selected(rules[i]) = {}
        PROVE \E w \in warnings' : w.lost = rules[i]
    BY <2>9, <2>0, <2>1, <2>3, <1>2
  <2> QED
    BY <2>0, <2>6, <2>7, <2>8, <2>9, <1>5
<1> QED
  BY <1>6, <1>7

LEMMA StepInv == Inv /\ [Next]_vars => Inv'
<1> SUFFICES ASSUME Inv, [Next]_vars PROVE Inv'
  OBVIOUS
<1>1. CASE Validate
  <2>1. TypeOK'
    BY <1>1, StepTypes DEF Inv, Next
  <2>2. /\ at = 0 /\ at' \in {0, 1} /\ rules' = rules
        /\ UNCHANGED <<candidates, warnings>>
        /\ at' = 1 => ~ DuplicateIds
    BY <1>1 DEF Validate
  <2>3. Validated'
    BY <2>2 DEF Validated, DuplicateIds
  <2>4. 1..(at' - 1) = {} /\ 1..(at - 1) = {}
    <3>1. 1..(0 - 1) = {} /\ 1..(1 - 1) = {}
      OBVIOUS
    <3>2. at = 0 /\ (at' = 0 \/ at' = 1)
      BY <2>2
    <3> QED
      BY <3>1, <3>2
  <2>5. \A k \in Keys : candidates[k] = None
    BY <2>4 DEF Inv, BestSoFar
  <2>6. warnings = {}
    BY <2>4 DEF Inv, ReportedSoFar
  <2>7. BestSoFar'
    BY <2>2, <2>4, <2>5 DEF BestSoFar
  <2>8. ReportedSoFar'
    BY <2>2, <2>4, <2>6 DEF ReportedSoFar
  <2> QED
    BY <2>1, <2>3, <2>7, <2>8 DEF Inv
<1>2. CASE CompileRule
  <2>1. TypeOK'
    BY <1>2, StepTypes DEF Inv, Next
  <2>2. Validated'
    BY <1>2 DEF Inv, Validated, DuplicateIds, CompileRule
  <2> QED
    BY <1>2, <2>1, <2>2, StepBest, StepReported DEF Inv
<1>3. CASE UNCHANGED vars
  <2>1. UNCHANGED <<rules, at, candidates, warnings, failed>>
    BY <1>3 DEF vars
  <2>2. TypeOK' /\ Validated'
    BY <2>1 DEF Inv, TypeOK, Validated, DuplicateIds, IsRuleset
  <2>3. BestSoFar'
    BY <2>1 DEF Inv, BestSoFar, Selects, Selected
  <2>4. ReportedSoFar'
    BY <2>1 DEF Inv, ReportedSoFar, Selected
  <2> QED
    BY <2>2, <2>3, <2>4 DEF Inv
<1> QED
  BY <1>1, <1>2, <1>3 DEF Next

THEOREM InvHolds == Spec => []Inv
BY InitInv, StepInv, PTL DEF Spec

(* Types of every variable, for every ruleset. *)
THEOREM TypesHold == Spec => []TypeOK
<1>1. Inv => TypeOK
  BY DEF Inv
<1> QED
  BY <1>1, InvHolds, PTL

(* Every rule that loses is reported, and only where it loses. *)
THEOREM EveryLoserReported == Spec => []LosersReported
<1>1. Inv => LosersReported
  <2> SUFFICES ASSUME Inv, Done PROVE LosersReported
    BY DEF LosersReported
  <2>1. 1..(at - 1) = 1..Len(rules)
    BY RulesetLen DEF Inv, TypeOK, Done
  <2> QED
    BY <2>1 DEF Inv, ReportedSoFar, LosersReported
<1> QED
  BY <1>1, InvHolds, PTL

(* A rule names a process when it selects the pid or the name of it. *)
LEMMA MatchingSelects ==
    ASSUME NEW r \in Rule, NEW pid \in Pids
    PROVE  /\ pid \in Selected(r) <=>
                 \/ r.match.sel = "pid" /\ r.match.on = pid
                 \/ r.match.sel = "exe" /\ r.match.on = ExeOf[pid]
           /\ CommOf[pid] \in Selected(r) <=> r.match.sel = "comm" /\ r.match.on = CommOf[pid]
           /\ pid \in Selected(r) => Specificity(r) > 1
           /\ CommOf[pid] \in Selected(r) => Specificity(r) = 1
<1>0. /\ r.match \in Matches /\ CommOf[pid] \in Comms
      /\ \A c \in Comms : c \notin Pids
  BY RuleFields, ViewAssumption, KeysAssumption
<1>1. CASE r.match.sel = "exe"
  BY <1>0, <1>1 DEF Selected, Specificity
<1>2. CASE r.match.sel = "pid"
  <2>1. r.match.on \in Pids
    BY <1>0, <1>2 DEF Matches
  <2> QED
    BY <1>0, <1>2, <2>1 DEF Selected, Specificity
<1>3. CASE r.match.sel = "comm"
  <2>1. r.match.on \in Comms
    BY <1>0, <1>3 DEF Matches
  <2> QED
    BY <1>0, <1>3, <2>1 DEF Selected, Specificity
<1> QED
  BY <1>1, <1>2, <1>3, RuleFields

(* For every ruleset and view, the rule lookup_policy finds for a process is *)
(* the first of those that name it.                                          *)
THEOREM DocumentedRuleAlwaysWins == Spec => []DocumentedRuleWins
<1>1. Inv => DocumentedRuleWins
  <2> SUFFICES ASSUME Inv, Done, NEW pid \in Pids
               PROVE  IF Matching(pid) = {}
                      THEN Effective(pid) = None
                      ELSE /\ Effective(pid) \in Matching(pid)
                           /\ \A r \in Matching(pid) \ {Effective(pid)} : Precedes(Effective(pid), r)
    BY DEF DocumentedRuleWins
  <2> DEFINE comm == CommOf[pid]
             n == Len(rules)
  <2>0. /\ n \in Nat /\ 1..(at - 1) = 1..n
        /\ \A i \in 1..n : rules[i] \in Rule /\ rules[i] # None
        /\ pid \in Keys /\ comm \in Keys
    BY RulesetLen, ViewAssumption, NoneAssumption DEF Inv, TypeOK, Done, Keys
  <2>1. \A k \in Keys :
          IF candidates[k] = None
          THEN \A i \in 1..n : ~ Selects(i, k)
          ELSE \E i \in 1..n :
                  /\ Selects(i, k) /\ candidates[k] = rules[i]
                  /\ \A j \in 1..n : Selects(j, k) /\ j # i => ShouldReplace(rules[j], rules[i])
    BY <2>0 DEF Inv, BestSoFar
  <2>2. \A r : r \in Matching(pid) <=>
          \E i \in 1..n : r = rules[i] /\ (Selects(i, pid) \/ Selects(i, comm))
    BY <2>0, MatchingSelects DEF Matching, Selects
  <2>3. CASE candidates[pid] # None
    <3> PICK i \in 1..n :
          /\ Selects(i, pid) /\ candidates[pid] = rules[i]
          /\ \A j \in 1..n : Selects(j, pid) /\ j # i => ShouldReplace(rules[j], rules[i])
      BY <2>0, <2>1, <2>3
    <3>1. Effective(pid) = rules[i] /\ rules[i] \in Matching(pid)
      BY <2>2, <2>3 DEF Effective
    <3>2. ASSUME NEW j \in 1..n, Selects(j, pid) \/ Selects(j, comm), rules[j] # rules[i]
          PROVE  Precedes(rules[i], rules[j])
      <4>1. CASE Selects(j, pid)
        <5>1. ShouldReplace(rules[j], rules[i])
          BY <3>2, <4>1
        <5> QED
          BY <5>1, <2>0, ReplaceIsRank
      <4>2. CASE Selects(j, comm)
        <5>1. Specificity(rules[j]) = 1 /\ Specificity(rules[i]) > 1
          BY <2>0, <4>2, MatchingSelects DEF Selects
        <5>2. ShouldReplace(rules[j], rules[i])
          BY <5>1, <2>0, RuleFields DEF ShouldReplace
        <5> QED
          BY <5>2, <2>0, ReplaceIsRank
      <4> QED
        BY <3>2, <4>1, <4>2
    <3> QED
      BY <3>1, <3>2, <2>2
  <2>4. CASE candidates[pid] = None /\ candidates[comm] # None
    <3> PICK i \in 1..n :
          /\ Selects(i, comm) /\ candidates[comm] = rules[i]
          /\ \A j \in 1..n : Selects(j, comm) /\ j # i => ShouldReplace(rules[j], rules[i])
      BY <2>0, <2>1, <2>4
    <3>1. Effective(pid) = rules[i] /\ rules[i] \in Matching(pid)
      BY <2>2, <2>4 DEF Effective
    <3>2. \A j \in 1..n : ~ Selects(j, pid)
      BY <2>0, <2>1, <2>4
    <3>3. ASSUME NEW j \in 1..n, Selects(j, comm), rules[j] # rules[i]
          PROVE  Precedes(rules[i], rules[j])
      <4>1. ShouldReplace(rules[j], rules[i])
        BY <3>3
      <4> QED
        BY <4>1, <2>0, ReplaceIsRank
    <3> QED
      BY <3>1, <3>2, <3>3, <2>2
  <2>5. CASE candidates[pid] = None /\ candidates[comm] = None
    <3>1. \A i \in 1..n : ~ Selects(i, pid) /\ ~ Selects(i, comm)
      BY <2>0, <2>1, <2>5
    <3>2. Matching(pid) = {}
      BY <2>2, <3>1
    <3> QED
      BY <2>5, <3>2 DEF Effective
  <2> QED
    BY <2>3, <2>4, <2>5
<1> QED
  BY <1>1, InvHolds, PTL

=============================================================================
