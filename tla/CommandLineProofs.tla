------------------------- MODULE CommandLineProofs -------------------------
(***************************************************************************)
(* The program without a daemon, for any rulesets, flags, processes and    *)
(* map sizes: what its flags name keeps a policy, and between passes the   *)
(* maps are those of one listing of /proc if they have the room.           *)
(***************************************************************************)
EXTENDS CommandLine, PolicyMapsProofs, FiniteSetTheorems, SequenceTheorems

PutRec == [key : Keys, policy : Policies]

-----------------------------------------------------------------------------
(* The puts of config.Apply *)

LEMMA PutCommsType ==
    ASSUME NEW comms \in Seq(CommKeys), NEW policy \in Policies
    PROVE  /\ PutComms(comms, policy) \in Seq(PutRec)
           /\ Len(PutComms(comms, policy)) = Len(comms)
           /\ \A n \in 1..Len(comms) : /\ PutComms(comms, policy)[n].key = comms[n]
                                       /\ PutComms(comms, policy)[n].policy = policy
<1>1. /\ Len(comms) \in Nat /\ DOMAIN comms = 1..Len(comms)
      /\ \A n \in 1..Len(comms) : comms[n] \in CommKeys
  BY LenProperties
<1>2. PutComms(comms, policy) \in [1..Len(comms) -> PutRec]
  BY <1>1 DEF PutComms, PutRec, Keys
<1> QED
  BY <1>1, <1>2, SeqDef, LenProperties DEF PutComms

LEMMA PutPIDType ==
    ASSUME NEW pid \in PidKeys, NEW policy \in Policies
    PROVE  /\ PutPID(pid, policy) \in Seq(PutRec)
           /\ Len(PutPID(pid, policy)) = 1
           /\ PutPID(pid, policy)[1].key = pid
           /\ PutPID(pid, policy)[1].policy = policy
BY DEF PutPID, PutRec, Keys

LEMMA RewritePutsFacts ==
    ASSUME NEW c \in Configs
    PROVE  /\ RewritePuts(c) \in Seq(PutRec)
           /\ \A n \in 1..Len(RewritePuts(c)) :
                 RewritePuts(c)[n].key \in CommKeys \/ IsStaticPID(c, RewritePuts(c)[n].key)
<1> DEFINE A == IF ShouldApplyRewritePID(c) THEN PutPID(c.rewritePid, Rewrite) ELSE << >>
           B == PutComms(c.rewriteComms, Rewrite)
<1>1. c.rewritePid \in PidKeys \cup {None} /\ c.rewriteComms \in Seq(CommKeys)
  BY ConfigsAssumption DEF Config
<1>2. Rewrite \in Policies
  BY PoliciesAssumption
<1>3. /\ B \in Seq(PutRec)
      /\ \A n \in 1..Len(B) : B[n].key \in CommKeys
  BY <1>1, <1>2, PutCommsType, LenProperties
<1>4. /\ A \in Seq(PutRec)
      /\ \A n \in 1..Len(A) : IsStaticPID(c, A[n].key)
  <2>1. CASE ShouldApplyRewritePID(c)
    <3>1. c.rewritePid \in PidKeys
      BY <1>1, <2>1 DEF ShouldApplyRewritePID
    <3> QED
      BY <1>2, <2>1, <3>1, PutPIDType DEF IsStaticPID, EffectiveRewritePID
  <2>2. CASE ~ ShouldApplyRewritePID(c)
    BY <2>2
  <2> QED
    BY <2>1, <2>2
<1> HIDE DEF A, B
<1>5. /\ A \o B \in Seq(PutRec)
      /\ \A n \in 1..Len(A \o B) :
            (A \o B)[n].key \in CommKeys \/ IsStaticPID(c, (A \o B)[n].key)
  <2>1. /\ A \o B \in Seq(PutRec) /\ Len(A \o B) = Len(A) + Len(B)
        /\ \A n \in 1..(Len(A) + Len(B)) :
              (A \o B)[n] = IF n <= Len(A) THEN A[n] ELSE B[n - Len(A)]
    BY <1>3, <1>4, ConcatProperties
  <2>2. Len(A) \in Nat /\ Len(B) \in Nat
    BY <1>3, <1>4, LenProperties
  <2> QED
    BY <1>3, <1>4, <2>1, <2>2
<1>6. RewritePuts(c) = IF RewriteRequested(c) THEN A \o B ELSE << >>
  BY DEF RewritePuts, A, B
<1> QED
  BY <1>5, <1>6

LEMMA HidePutsFacts ==
    ASSUME NEW c \in Configs
    PROVE  /\ HidePuts(c) \in Seq(PutRec)
           /\ \A n \in 1..Len(HidePuts(c)) :
                 /\ HidePuts(c)[n].key \in CommKeys \/ IsStaticPID(c, HidePuts(c)[n].key)
                 /\ HidePuts(c)[n].policy = Hide
           /\ \A n \in DOMAIN c.hideComms :
                 \E m \in 1..Len(HidePuts(c)) : HidePuts(c)[m].key = c.hideComms[n]
<1> DEFINE A == IF c.hidePid # None THEN PutPID(c.hidePid, Hide) ELSE << >>
           B == PutComms(c.hideComms, Hide)
<1>1. c.hidePid \in PidKeys \cup {None} /\ c.hideComms \in Seq(CommKeys)
  BY ConfigsAssumption DEF Config
<1>2. Hide \in Policies
  BY PoliciesAssumption
<1>3. /\ B \in Seq(PutRec) /\ Len(B) = Len(c.hideComms)
      /\ \A n \in 1..Len(B) :
            B[n].key = c.hideComms[n] /\ B[n].key \in CommKeys /\ B[n].policy = Hide
      /\ DOMAIN c.hideComms = 1..Len(B)
  BY <1>1, <1>2, PutCommsType, LenProperties
<1>4. /\ A \in Seq(PutRec)
      /\ \A n \in 1..Len(A) : IsStaticPID(c, A[n].key) /\ A[n].policy = Hide
  <2>1. CASE c.hidePid # None
    BY <1>1, <1>2, <2>1, PutPIDType DEF IsStaticPID
  <2>2. CASE c.hidePid = None
    BY <2>2
  <2> QED
    BY <2>1, <2>2
<1> HIDE DEF A, B
<1>5. /\ A \o B \in Seq(PutRec) /\ Len(A \o B) = Len(A) + Len(B)
      /\ \A n \in 1..(Len(A) + Len(B)) :
            (A \o B)[n] = IF n <= Len(A) THEN A[n] ELSE B[n - Len(A)]
  <2>1. A \in Seq(PutRec) /\ B \in Seq(PutRec)
    BY <1>3, <1>4
  <2> QED
    BY <2>1, ConcatProperties
<1>6. Len(A) \in Nat /\ Len(B) \in Nat
  BY <1>3, <1>4, LenProperties
<1>7. HidePuts(c) = A \o B
  BY DEF HidePuts, A, B
<1>8. ASSUME NEW n \in DOMAIN c.hideComms
      PROVE  \E m \in 1..Len(A \o B) : (A \o B)[m].key = c.hideComms[n]
  <2>1. n \in 1..Len(B) /\ n + Len(A) \in 1..(Len(A) + Len(B)) /\ ~ (n + Len(A) <= Len(A))
    BY <1>3, <1>6
  <2>2. (A \o B)[n + Len(A)] = B[n]
    BY <1>5, <1>6, <2>1
  <2> QED
    BY <1>3, <1>5, <2>1, <2>2
<1>9. ASSUME NEW n \in 1..Len(A \o B)
      PROVE  /\ (A \o B)[n].key \in CommKeys \/ IsStaticPID(c, (A \o B)[n].key)
             /\ (A \o B)[n].policy = Hide
  <2>1. n \in 1..(Len(A) + Len(B))
    BY <1>5
  <2>2. CASE n <= Len(A)
    BY <1>4, <1>5, <1>6, <2>1, <2>2
  <2>3. CASE ~ (n <= Len(A))
    BY <1>3, <1>5, <1>6, <2>1, <2>3
  <2> QED
    BY <2>2, <2>3
<1> DEFINE P == A \o B
<1> HIDE DEF P
<1>10. /\ P \in Seq(PutRec)
       /\ \A n \in 1..Len(P) : /\ P[n].key \in CommKeys \/ IsStaticPID(c, P[n].key)
                               /\ P[n].policy = Hide
       /\ \A n \in DOMAIN c.hideComms : \E m \in 1..Len(P) : P[m].key = c.hideComms[n]
  BY <1>5, <1>8, <1>9 DEF P
<1>11. HidePuts(c) = P
  BY <1>7 DEF P
<1> QED
  BY <1>10, <1>11

(* A pid among the puts is static; from some put of each name to hide from *)
(* on, every put hides.                                                     *)
LEMMA StaticPutsFacts ==
    ASSUME NEW c \in Configs
    PROVE  /\ StaticPuts(c) \in Seq(PutRec)
           /\ \A n \in 1..Len(StaticPuts(c)) :
                 StaticPuts(c)[n].key \in CommKeys \/ IsStaticPID(c, StaticPuts(c)[n].key)
           /\ \A n \in DOMAIN c.hideComms : \E m \in 1..Len(StaticPuts(c)) :
                 /\ StaticPuts(c)[m].key = c.hideComms[n]
                 /\ \A j \in m..Len(StaticPuts(c)) : StaticPuts(c)[j].policy = Hide
<1> DEFINE A == RewritePuts(c)
           B == HidePuts(c)
<1>1. A \in Seq(PutRec) /\ B \in Seq(PutRec)
  BY RewritePutsFacts, HidePutsFacts
<1>2. Len(A) \in Nat /\ Len(B) \in Nat
  BY <1>1, LenProperties
<1>3. /\ A \o B \in Seq(PutRec) /\ Len(A \o B) = Len(A) + Len(B)
      /\ \A n \in 1..(Len(A) + Len(B)) :
            (A \o B)[n] = IF n <= Len(A) THEN A[n] ELSE B[n - Len(A)]
  BY <1>1, ConcatProperties
<1>4. /\ \A n \in 1..Len(A) : A[n].key \in CommKeys \/ IsStaticPID(c, A[n].key)
      /\ \A n \in 1..Len(B) : /\ B[n].key \in CommKeys \/ IsStaticPID(c, B[n].key)
                              /\ B[n].policy = Hide
      /\ \A n \in DOMAIN c.hideComms : \E m \in 1..Len(B) : B[m].key = c.hideComms[n]
  BY RewritePutsFacts, HidePutsFacts
<1>5. StaticPuts(c) = A \o B
  BY DEF StaticPuts
<1> HIDE DEF A, B
<1>6. ASSUME NEW n \in DOMAIN c.hideComms
      PROVE  \E m \in 1..Len(A \o B) :
                /\ (A \o B)[m].key = c.hideComms[n]
                /\ \A j \in m..Len(A \o B) : (A \o B)[j].policy = Hide
  <2>1. PICK m \in 1..Len(B) : B[m].key = c.hideComms[n]
    BY <1>4
  <2>2. ASSUME NEW j \in (m + Len(A))..(Len(A) + Len(B))
        PROVE  (A \o B)[j] = B[j - Len(A)] /\ j - Len(A) \in 1..Len(B)
    BY <1>2, <1>3, <2>2
  <2>3. (A \o B)[m + Len(A)] = B[m] /\ m + Len(A) \in 1..Len(A \o B)
    BY <1>2, <1>3, <2>2
  <2>4. \A j \in (m + Len(A))..Len(A \o B) : (A \o B)[j].policy = Hide
    BY <1>3, <1>4, <2>2
  <2> QED
    BY <2>1, <2>3, <2>4
<1>7. ASSUME NEW n \in 1..Len(A \o B)
      PROVE  (A \o B)[n].key \in CommKeys \/ IsStaticPID(c, (A \o B)[n].key)
  <2>1. n \in 1..(Len(A) + Len(B))
    BY <1>3
  <2>2. CASE n <= Len(A)
    BY <1>2, <1>3, <1>4, <2>1, <2>2
  <2>3. CASE ~ (n <= Len(A))
    BY <1>2, <1>3, <1>4, <2>1, <2>3
  <2> QED
    BY <2>2, <2>3
<1> DEFINE P == A \o B
<1> HIDE DEF P
<1>8. /\ P \in Seq(PutRec)
      /\ \A n \in 1..Len(P) : P[n].key \in CommKeys \/ IsStaticPID(c, P[n].key)
      /\ \A n \in DOMAIN c.hideComms : \E m \in 1..Len(P) :
            P[m].key = c.hideComms[n] /\ \A j \in m..Len(P) : P[j].policy = Hide
  BY <1>3, <1>6, <1>7 DEF P
<1>9. StaticPuts(c) = P
  BY <1>5 DEF P
<1> QED
  BY <1>8, <1>9

(* Keys of two lists of puts are keys of the list of both. *)
LEMMA ConcatKeys ==
    ASSUME NEW A \in Seq(PutRec), NEW B \in Seq(PutRec), NEW k,
           \/ \E n \in 1..Len(A) : A[n].key = k
           \/ \E n \in 1..Len(B) : B[n].key = k
    PROVE  \E n \in 1..Len(A \o B) : (A \o B)[n].key = k
<1>1. Len(A) \in Nat /\ Len(B) \in Nat
  BY LenProperties
<1>2. /\ Len(A \o B) = Len(A) + Len(B)
      /\ \A n \in 1..(Len(A) + Len(B)) :
            (A \o B)[n] = IF n <= Len(A) THEN A[n] ELSE B[n - Len(A)]
  BY ConcatProperties
<1>3. ASSUME NEW n \in 1..Len(A), A[n].key = k
      PROVE  \E j \in 1..Len(A \o B) : (A \o B)[j].key = k
  <2>1. n \in 1..Len(A \o B) /\ (A \o B)[n] = A[n]
    BY <1>1, <1>2
  <2> QED
    BY <1>3, <2>1
<1>4. ASSUME NEW n \in 1..Len(B), B[n].key = k
      PROVE  \E j \in 1..Len(A \o B) : (A \o B)[j].key = k
  <2>1. n + Len(A) \in 1..Len(A \o B) /\ (A \o B)[n + Len(A)] = B[n]
    BY <1>1, <1>2
  <2> QED
    BY <1>4, <2>1
<1> QED
  BY <1>3, <1>4

(* The pids a pass may not delete have been put at the start. *)
LEMMA StaticPIDsArePut ==
    ASSUME NEW c \in Configs, NEW pid \in PidKeys, IsStaticPID(c, pid)
    PROVE  \E n \in 1..Len(StaticPuts(c)) : StaticPuts(c)[n].key = pid
<1> DEFINE Put1(P) == \E n \in 1..Len(P) : P[n].key = pid
<1>1. /\ c.rewritePid \in PidKeys \cup {None} /\ c.rewriteComms \in Seq(CommKeys)
      /\ c.hidePid \in PidKeys \cup {None} /\ c.hideComms \in Seq(CommKeys)
      /\ Hide \in Policies /\ Rewrite \in Policies /\ pid # None
  BY ConfigsAssumption, PoliciesAssumption, NoneAssumption DEF Config
<1>2. RewritePuts(c) \in Seq(PutRec) /\ HidePuts(c) \in Seq(PutRec)
  BY RewritePutsFacts, HidePutsFacts
<1>3. PutComms(c.rewriteComms, Rewrite) \in Seq(PutRec) /\ PutComms(c.hideComms, Hide) \in Seq(PutRec)
  BY <1>1, PutCommsType
<1>4. PutPID(pid, Rewrite) \in Seq(PutRec) /\ PutPID(pid, Hide) \in Seq(PutRec)
  BY <1>1, PutPIDType
<1>5. Put1(PutPID(pid, Rewrite)) /\ Put1(PutPID(pid, Hide))
  <2>1. 1 \in 1..1
    OBVIOUS
  <2> QED
    BY <1>1, <2>1, PutPIDType
<1>6. CASE pid = EffectiveRewritePID(c)
  <2>1. ShouldApplyRewritePID(c) /\ RewriteRequested(c) /\ c.rewritePid = pid
    BY <1>1, <1>6 DEF EffectiveRewritePID, ShouldApplyRewritePID
  <2>2. RewritePuts(c) = PutPID(pid, Rewrite) \o PutComms(c.rewriteComms, Rewrite)
    BY <2>1 DEF RewritePuts
  <2>3. Put1(RewritePuts(c))
    BY <1>3, <1>4, <1>5, <2>2, ConcatKeys
  <2> QED
    BY <1>2, <2>3, ConcatKeys DEF StaticPuts
<1>7. CASE pid = c.hidePid
  <2>1. HidePuts(c) = PutPID(pid, Hide) \o PutComms(c.hideComms, Hide)
    BY <1>1, <1>7 DEF HidePuts
  <2>2. Put1(HidePuts(c))
    BY <1>3, <1>4, <1>5, <2>1, ConcatKeys
  <2> QED
    BY <1>2, <2>2, ConcatKeys DEF StaticPuts
<1> QED
  BY <1>6, <1>7 DEF IsStaticPID

-----------------------------------------------------------------------------
(* The inductive invariant *)

(* The goroutine's place says whether it has a pass under way. *)
Place ==
    /\ pc \notin {"install", "apply", "reconcile"} => writer[Sync] = IdleWriter
    /\ pc \in {"install", "apply"} => RulesMode
    /\ pc \in {"static", "reconcile"} => ~ RulesMode
    /\ pc = "start" => tables = EmptyTable
    /\ pc \in {"start", "static"} => last = {}

(* config.Apply has made its first puts and no other. *)
StaticProgress ==
    pc = "static" =>
        LET puts == StaticPuts(cfg)
            m == Len(puts) - Len(todo)
        IN  /\ m \in 0..Len(puts)
            /\ \A n \in 1..Len(todo) : todo[n] = puts[m + n]
            /\ \A i \in 1..m : \E j \in i..m :
                  puts[j].key = puts[i].key /\ tables[puts[i].key] = puts[j].policy
            /\ \A k \in Keys : tables[k] # NoPolicy => \E i \in 1..m : puts[i].key = k

(* A pass of flags mode puts what a listing asks for, and deletes nothing of *)
(* the flags'.                                                               *)
ReconcileOK ==
    pc = "reconcile" =>
        LET w == writer[Sync]
        IN  /\ w.map = "pid" /\ w.pc \in {"replace", "failed"}
            /\ \E v \in Views : w.target = ExecutablePolicies(cfg, v)
            /\ w.puts \subseteq Present(w.target)
            /\ w.dels \subseteq PidKeys \ (StaticKeys \cup Present(w.target))

(* What flags mode may have remembered: a listing, or nothing yet. *)
Listings == {ExecutablePolicies(cfg, v) : v \in Views} \cup {EmptyTable}

FlagsInstalled ==
    Fits /\ ~ RulesMode /\ Started /\ pc # "reconcile" =>
        \E cur \in Listings :
            /\ last = Present(cur)
            /\ \A pid \in PidKeys :
                  IF cur[pid] # NoPolicy THEN tables[pid] = cur[pid]
                  ELSE tables[pid] = NoPolicy \/ pid \in StaticKeys

FlagsReconcile ==
    Fits /\ pc = "reconcile" =>
        LET w == writer[Sync]
        IN  /\ w.pc = "replace"
            /\ \E cur \in Listings : last = Present(cur)
            /\ w.dels \subseteq last
            /\ \A pid \in PidKeys :
                  IF pid \in Present(w.target)
                  THEN pid \in w.puts \/ tables[pid] = w.target[pid]
                  ELSE tables[pid] = NoPolicy \/ pid \in StaticKeys \cup w.dels

RulesApply ==
    pc \in {"install", "apply"} =>
        LET w == writer[Sync]
        IN  /\ ApplyProgress(Sync)
            /\ w.pc # "idle"
            /\ w.puts \subseteq Present(w.target)
            /\ \E v \in Views : w.target = CompileOf[cfg][v]
            /\ Fits => /\ w.pc # "failed"
                       /\ \E v \in Views : \A k \in Keys :
                             tables[k] # NoPolicy => k \in Wanted(v) \cup Present(w.target)

RulesInstalled ==
    Fits /\ RulesMode /\ pc \in {"wait", "pass", "returned"} =>
        \E v \in Views : tables = CompileOf[cfg][v]

Inv ==
    /\ TypeOK /\ Place /\ StaticProgress /\ StaticKept
    /\ ReconcileOK /\ FlagsInstalled /\ FlagsReconcile
    /\ RulesApply /\ RulesInstalled

-----------------------------------------------------------------------------

LEMMA WriterTypes == ASSUME TypeOK PROVE writer[Sync] \in WriterState /\ Sync \in {Sync}
BY DEF TypeOK

LEMMA FlagsAreConfigs == ASSUME TypeOK, ~ RulesMode PROVE cfg \in Configs
BY DEF TypeOK, RulesMode

(* What executables ask for is a table of pids. *)
LEMMA ExecutableTable ==
    ASSUME TypeOK, ~ RulesMode, NEW v \in Views
    PROVE  /\ ExecutablePolicies(cfg, v) \in Tables
           /\ Present(ExecutablePolicies(cfg, v)) \subseteq PidKeys
<1>1. \A k \in Keys : ExecutablePolicies(cfg, v)[k] \in Policies \cup {NoPolicy}
  BY PoliciesAssumption DEF ExecutablePolicies
<1>2. ExecutablePolicies(cfg, v) \in Tables
  BY <1>1 DEF ExecutablePolicies, Tables
<1>3. \A k \in Keys \ PidKeys : ExecutablePolicies(cfg, v)[k] = NoPolicy
  BY DEF ExecutablePolicies
<1> QED
  BY <1>2, <1>3 DEF Present

LEMMA CompiledTable ==
    ASSUME TypeOK, RulesMode, NEW v \in Views PROVE CompileOf[cfg][v] \in Tables
BY CompileAssumption DEF RulesMode

(* What follows from the command line alone stays. *)
LEMMA SameCommandLine ==
    ASSUME cfg' = cfg
    PROVE  /\ RulesMode' <=> RulesMode
           /\ StaticKeys' = StaticKeys
           /\ Listings' = Listings
           /\ Fits' <=> Fits
           /\ \A v \in Views : Wanted(v)' = Wanted(v)
<1>1. (RulesMode' <=> RulesMode) /\ StaticKeys' = StaticKeys /\ Listings' = Listings
  BY DEF RulesMode, StaticKeys, Listings
<1>2. \A v \in Views : Wanted(v)' = Wanted(v)
  BY <1>1 DEF Wanted
<1>3. Fits' <=> Fits
  BY <1>2 DEF Fits
<1> QED
  BY <1>1, <1>2, <1>3

(* The only writer reads the keys of a map without error. *)
LEMMA NoCollectFails == ASSUME TypeOK PROVE ~ CollectFails(Sync)
BY DEF TypeOK, CollectFails

(* If the present and the wanted keys are those of two listings, there is room. *)
LEMMA Room ==
    ASSUME Fits, NEW v \in Views, NEW w \in Views, NEW map \in {"pid", "comm"},
           tables \in Tables,
           Present(tables) \cap KeysOf(map) \subseteq Wanted(v) \cup Wanted(w),
           NEW k \in Wanted(w) \cap KeysOf(map)
    PROVE  HasRoom(k, map)
<1> DEFINE All == (Wanted(v) \cup Wanted(w)) \cap KeysOf(map)
           There == Present(tables) \cap KeysOf(map)
<1>1. CASE tables[k] # NoPolicy
  BY <1>1 DEF HasRoom
<1>2. CASE tables[k] = NoPolicy
  <2>1. KeysOf(map) \subseteq Keys
    BY KeysOfMaps
  <2>2. IsFiniteSet(All)
    <3>1. All \in SUBSET Keys
      BY <2>1
    <3> QED
      BY <3>1, KeysFinite, FS_Subset
  <2>3. There \subseteq All \ {k} /\ k \in All
    BY <1>2 DEF Present
  <2>4. /\ IsFiniteSet(All \ {k})
        /\ Cardinality(All \ {k}) = Cardinality(All) - 1
        /\ Cardinality(All) \in Nat
    BY <2>2, <2>3, FS_RemoveElement, FS_CardinalityType
  <2>5. Cardinality(There) <= Cardinality(All \ {k}) /\ Cardinality(There) \in Nat
    BY <2>3, <2>4, FS_Subset, FS_CardinalityType
  <2>6. Cardinality(All) <= MaxOf(map)
    BY DEF Fits
  <2>7. MaxOf(map) \in Nat
    BY MapsAssumption DEF MaxOf
  <2> QED
    BY <2>4, <2>5, <2>6, <2>7 DEF HasRoom
<1> QED
  BY <1>1, <1>2

-----------------------------------------------------------------------------
(* Types *)

LEMMA InitTypeOK == Init => TypeOK
<1> SUFFICES ASSUME Init PROVE TypeOK
  OBVIOUS
<1>1. tables \in Tables /\ writer \in [{Sync} -> WriterState]
  BY IdleWriterTypes DEF Init
<1>2. /\ moves \in 0..MaxMoves /\ faults \in 0..MaxFaults
      /\ todo \in Seq([key : Keys, policy : Policies])
  BY BoundsAssumption DEF Init
<1> QED
  BY <1>1, <1>2 DEF Init, TypeOK

LEMMA StepTypeOK == TypeOK /\ Place /\ ReconcileOK /\ [Next]_vars => TypeOK'
<1> SUFFICES ASSUME TypeOK, Place, ReconcileOK, [Next]_vars PROVE TypeOK'
  OBVIOUS
<1>1. CASE StartScanFails
  BY <1>1, BoundsAssumption DEF TypeOK, StartScanFails, Fatal
<1>2. ASSUME RulesMode
      PROVE  BeginApply(CompileOf[cfg][view]) \in WriterState
  BY <1>2, CompiledTable, BeginApplyType DEF TypeOK
<1>3. CASE StartRules
  BY <1>2, <1>3 DEF TypeOK, StartRules, envVars
<1>4. CASE InstallEnds
  BY <1>4, IdleWriterTypes DEF TypeOK, InstallEnds, envVars
<1>5. CASE StartFlags
  <2>1. StaticPuts(cfg) \in Seq(PutRec)
    BY <1>5, FlagsAreConfigs, StaticPutsFacts DEF StartFlags
  <2>2. pc' \in {"fatal", "static"} /\ todo' \in Seq(PutRec)
    BY <1>5, <2>1 DEF StartFlags, Fatal, TypeOK, PutRec
  <2> QED
    BY <1>5, <2>2 DEF TypeOK, StartFlags, envVars, PutRec
<1>6. CASE StaticPut
  <2>1. Head(todo) \in PutRec /\ Tail(todo) \in Seq(PutRec)
    BY <1>6, HeadTailProperties DEF TypeOK, StaticPut, PutRec
  <2>2. Head(todo).key \in Keys /\ Head(todo).policy \in Policies
    BY <2>1 DEF PutRec
  <2>3. tables' \in Tables
    BY <1>6, <2>2 DEF StaticPut, TypeOK, Tables
  <2>4. todo' \in Seq(PutRec) /\ pc' \in {"static", "fatal"}
    BY <1>6, <2>1 DEF StaticPut, TypeOK, Fatal, PutRec
  <2> QED
    BY <1>6, <2>3, <2>4 DEF TypeOK, StaticPut, envVars, PutRec
<1>7. CASE StaticDone
  BY <1>7 DEF TypeOK, StaticDone, envVars
<1>8. CASE Tick
  BY <1>8 DEF TypeOK, Tick, envVars
<1>9. CASE PassScanFails
  BY <1>9, BoundsAssumption DEF TypeOK, PassScanFails
<1>10. CASE PassCompile
  BY <1>2, <1>10 DEF TypeOK, PassCompile, envVars
<1>11. CASE PassReconcile
  <2> DEFINE current == ExecutablePolicies(cfg, view)
             stale == {pid \in last \ Present(current) : ~ IsStaticPID(cfg, pid)}
             w == [pc |-> "replace", map |-> "pid", target |-> current,
                   puts |-> Present(current), dels |-> stale]
  <2>1. current \in Tables
    BY <1>11, ExecutableTable DEF PassReconcile, TypeOK
  <2>2. Present(current) \in SUBSET Keys /\ stale \in SUBSET Keys
    BY DEF Present, TypeOK, Keys
  <2>3. writer' = [writer EXCEPT ![Sync] = w] /\ pc' = "reconcile"
        /\ UNCHANGED <<tables, envVars, todo, last>>
    BY <1>11 DEF PassReconcile
  <2> HIDE DEF current, stale
  <2>4. w \in WriterState
    BY <2>1, <2>2 DEF WriterState
  <2> QED
    BY <2>3, <2>4 DEF TypeOK, envVars
<1>12. CASE PassFails
  BY <1>12, IdleWriterTypes DEF TypeOK, PassFails, envVars
<1>13. CASE ApplyDone
  BY <1>13, IdleWriterTypes DEF TypeOK, ApplyDone, envVars
<1>14. CASE ReconcileDone
  <2>1. PICK v \in Views : writer[Sync].target = ExecutablePolicies(cfg, v)
    BY <1>14 DEF ReconcileDone, ReconcileOK
  <2>2. Present(writer[Sync].target) \subseteq PidKeys
    BY <1>14, <2>1, ExecutableTable DEF ReconcileDone, Place
  <2> QED
    BY <1>14, <2>2, IdleWriterTypes DEF TypeOK, ReconcileDone, envVars
<1>15. CASE ApplyCall
  <2>1. tables' \in Tables /\ writer' \in [{Sync} -> WriterState]
    BY <1>15, ApplyStepTypes DEF TypeOK, ApplyCall
  <2> QED
    BY <1>15, <2>1 DEF TypeOK, ApplyCall, envVars
<1>16. CASE ReconcileCall
  <2>1. ApplyStep(Sync)
    <3>1. \E k \in Keys : Put(Sync, k) \/ PutFails(Sync, k) \/ Delete(Sync, k)
      BY <1>16 DEF ReconcileCall, Keys
    <3> QED
      BY <3>1 DEF ApplyStep
  <2>2. tables' \in Tables /\ writer' \in [{Sync} -> WriterState]
    BY <2>1, ApplyStepTypes DEF TypeOK
  <2> QED
    BY <1>16, <2>2 DEF TypeOK, ReconcileCall, envVars
<1>17. CASE SyncReturns
  BY <1>17 DEF TypeOK, SyncReturns, envVars
<1>18. CASE Interrupt
  BY <1>18 DEF TypeOK, Interrupt
<1>19. CASE ProcessesChange
  BY <1>19, BoundsAssumption DEF TypeOK, ProcessesChange
<1>20. CASE UNCHANGED vars
  BY <1>20 DEF TypeOK, vars, envVars
<1> QED
  BY <1>1, <1>3, <1>4, <1>5, <1>6, <1>7, <1>8, <1>9, <1>10, <1>11, <1>12, <1>13, <1>14,
     <1>15, <1>16, <1>17, <1>18, <1>19, <1>20 DEF Next, Program

-----------------------------------------------------------------------------
(* The invariant *)

LEMMA InitInv == Init => Inv
<1> SUFFICES ASSUME Init PROVE Inv
  OBVIOUS
<1>1. TypeOK
  BY InitTypeOK
<1>2. pc = "start" /\ tables = EmptyTable /\ last = {} /\ writer[Sync] = IdleWriter
  BY DEF Init
<1> QED
  BY <1>1, <1>2 DEF Inv, Place, StaticProgress, StaticKept, Started, ReconcileOK,
                    FlagsInstalled, FlagsReconcile, RulesApply, RulesInstalled

(* Steps that leave the maps and the writer alone, between passes. *)
LEMMA QuietInv ==
    ASSUME Inv, TypeOK', UNCHANGED <<tables, writer, cfg, todo, last>>,
           pc' = pc \/ (pc \in {"wait", "pass"} /\ pc' \in {"wait", "pass", "returned"})
    PROVE  Inv'
<1>1. /\ RulesMode' <=> RulesMode
      /\ StaticKeys' = StaticKeys
      /\ Listings' = Listings
      /\ Fits' <=> Fits
      /\ \A v \in Views : Wanted(v)' = Wanted(v)
  BY SameCommandLine
<1>2. Place'
  BY <1>1 DEF Inv, Place
<1>3. StaticProgress'
  BY DEF Inv, StaticProgress
<1>4. StaticKept'
  BY <1>1 DEF Inv, StaticKept, Started
<1>5. ReconcileOK'
  BY <1>1 DEF Inv, ReconcileOK
<1>6. FlagsInstalled'
  BY <1>1 DEF Inv, FlagsInstalled, Started
<1>7. FlagsReconcile'
  BY <1>1 DEF Inv, FlagsReconcile
<1>8. RulesApply'
  BY <1>1 DEF Inv, RulesApply, ApplyProgress
<1>9. RulesInstalled'
  BY <1>1 DEF Inv, RulesInstalled
<1> QED
  BY <1>2, <1>3, <1>4, <1>5, <1>6, <1>7, <1>8, <1>9 DEF Inv

(* A step that ends the program. *)
LEMMA FatalInv ==
    ASSUME Inv, TypeOK', pc' = "fatal", writer'[Sync] = IdleWriter PROVE Inv'
BY DEF Inv, Place, StaticProgress, StaticKept, Started, ReconcileOK,
       FlagsInstalled, FlagsReconcile, RulesApply, RulesInstalled

(* A writer that begins has made no progress, which is what it should have. *)
LEMMA BeginProgress ==
    ASSUME NEW t \in Tables, writer'[Sync] = BeginApply(t) PROVE ApplyProgress(Sync)'
BY DEF ApplyProgress, BeginApply, IdleWriter

(* Rules mode begins an apply, at the start or on a tick. *)
LEMMA BeginInv ==
    ASSUME Inv, TypeOK', RulesMode, UNCHANGED <<tables, cfg>>,
           pc \in {"start", "pass"}, pc' \in {"install", "apply"},
           writer'[Sync] = BeginApply(CompileOf[cfg][view])
    PROVE  Inv'
<1>1. /\ RulesMode' <=> RulesMode
      /\ Fits' <=> Fits
      /\ \A v \in Views : Wanted(v)' = Wanted(v)
  BY SameCommandLine
<1>2. view \in Views /\ CompileOf[cfg][view] \in Tables
  BY CompiledTable DEF Inv, TypeOK
<1>3. /\ writer'[Sync].pc = "collect"
      /\ writer'[Sync].target = CompileOf[cfg][view]
      /\ writer'[Sync].puts = {}
  BY DEF BeginApply, IdleWriter
<1>4. Fits => \E v \in Views : \A k \in Keys : tables[k] # NoPolicy => k \in Wanted(v)
  <2>1. CASE pc = "start"
    BY <1>2, <2>1 DEF Inv, Place, EmptyTable
  <2>2. CASE pc = "pass"
    <3>1. Fits => \E v \in Views : tables = CompileOf[cfg][v]
      BY <2>2 DEF Inv, RulesInstalled
    <3> QED
      BY <3>1 DEF Wanted, Present
  <2> QED
    BY <2>1, <2>2
<1>5. RulesApply'
  <2>1. ApplyProgress(Sync)'
    BY <1>2, BeginProgress
  <2> QED
    BY <1>1, <1>2, <1>3, <1>4, <2>1 DEF RulesApply
<1> QED
  BY <1>1, <1>5 DEF Inv, Place, StaticProgress, StaticKept, Started, ReconcileOK,
                    FlagsInstalled, FlagsReconcile, RulesInstalled

(* An apply of rules mode that is done has installed its target. *)
LEMMA AppliedInv ==
    ASSUME Inv, TypeOK', UNCHANGED <<tables, cfg>>,
           pc \in {"install", "apply"}, pc' = "wait",
           writer[Sync].pc = "applied", writer'[Sync] = IdleWriter
    PROVE  Inv'
<1>1. /\ RulesMode' <=> RulesMode
      /\ Fits' <=> Fits
  BY SameCommandLine
<1>2. RulesMode
  BY DEF Inv, Place
<1>3. \E v \in Views : tables = CompileOf[cfg][v]
  BY DEF Inv, RulesApply, ApplyProgress
<1> QED
  BY <1>1, <1>2, <1>3 DEF Inv, Place, StaticProgress, StaticKept, Started, ReconcileOK,
                          FlagsInstalled, FlagsReconcile, RulesApply, RulesInstalled
(* The pids of the flags are those a pass may not delete. *)
LEMMA StaticKeysFacts ==
    ASSUME TypeOK, ~ RulesMode
    PROVE  /\ DOMAIN StaticPuts(cfg) = 1..Len(StaticPuts(cfg))
           /\ StaticKeys \subseteq Keys
           /\ \A pid \in PidKeys : pid \in StaticKeys <=> IsStaticPID(cfg, pid)
<1>1. cfg \in Configs
  BY FlagsAreConfigs
<1>2. /\ StaticPuts(cfg) \in Seq(PutRec)
      /\ \A n \in 1..Len(StaticPuts(cfg)) :
            StaticPuts(cfg)[n].key \in CommKeys \/ IsStaticPID(cfg, StaticPuts(cfg)[n].key)
  BY <1>1, StaticPutsFacts
<1>3. /\ DOMAIN StaticPuts(cfg) = 1..Len(StaticPuts(cfg))
      /\ \A n \in 1..Len(StaticPuts(cfg)) : StaticPuts(cfg)[n] \in PutRec
  BY <1>2, LenProperties
<1>4. StaticKeys \subseteq Keys
  BY <1>3 DEF StaticKeys, PutRec
<1>5. ASSUME NEW pid \in PidKeys, pid \in StaticKeys PROVE IsStaticPID(cfg, pid)
  BY <1>2, <1>3, <1>5, KeysAssumption DEF StaticKeys
<1>6. ASSUME NEW pid \in PidKeys, IsStaticPID(cfg, pid) PROVE pid \in StaticKeys
  BY <1>1, <1>3, <1>6, StaticPIDsArePut DEF StaticKeys
<1> QED
  BY <1>3, <1>4, <1>5, <1>6

(* Flags mode starts with all its puts to do, or not at all. *)
LEMMA StartFlagsInv == ASSUME Inv, TypeOK', StartFlags PROVE Inv'
<1>1. pc = "start" /\ ~ RulesMode /\ writer' = writer /\ tables' = tables /\ cfg' = cfg
      /\ last' = last
  BY DEF StartFlags, envVars
<1>2. writer[Sync] = IdleWriter /\ tables = EmptyTable /\ last = {}
  BY <1>1 DEF Inv, Place
<1>3. CASE RewriteRequested(cfg) /\ cfg.text # "ok"
  BY <1>1, <1>2, <1>3, FatalInv DEF StartFlags, Fatal
<1>4. CASE ~ (RewriteRequested(cfg) /\ cfg.text # "ok")
  <2>1. pc' = "static" /\ todo' = StaticPuts(cfg)
    BY <1>4 DEF StartFlags
  <2>2. StaticPuts(cfg) \in Seq(PutRec)
    BY <1>1, FlagsAreConfigs, StaticPutsFacts DEF Inv
  <2>3. Len(StaticPuts(cfg)) \in Nat
    BY <2>2, LenProperties
  <2>4. ~ RulesMode'
    BY <1>1 DEF RulesMode
  <2>5. StaticPuts(cfg)' = StaticPuts(cfg)
    BY <1>1
  <2> DEFINE P == StaticPuts(cfg)
  <2> HIDE DEF P
  <2>6. Len(P) \in Nat /\ todo' = P /\ P' = P /\ StaticPuts(cfg)' = P
    BY <2>1, <2>3, <2>5 DEF P
  <2>7. StaticProgress'
    BY <1>1, <1>2, <2>6 DEF StaticProgress, EmptyTable
  <2>8. Place'
    BY <1>1, <1>2, <2>1, <2>4 DEF Place
  <2> QED
    BY <2>1, <2>7, <2>8 DEF Inv, StaticKept, Started, ReconcileOK, FlagsInstalled,
                            FlagsReconcile, RulesApply, RulesInstalled
<1> QED
  BY <1>3, <1>4

(* One put of config.Apply. *)
LEMMA StaticPutInv == ASSUME Inv, TypeOK', StaticPut PROVE Inv'
<1>1. /\ pc = "static" /\ todo # << >> /\ writer' = writer /\ cfg' = cfg /\ last' = last
  BY DEF StaticPut, envVars
<1>2. ~ RulesMode /\ ~ RulesMode' /\ writer[Sync] = IdleWriter /\ last = {}
  BY <1>1 DEF Inv, Place, RulesMode
<1>3. CASE ~ HasRoom(Head(todo).key, MapOf(Head(todo).key))
  BY <1>1, <1>2, <1>3, FatalInv DEF StaticPut, Fatal
<1>4. CASE HasRoom(Head(todo).key, MapOf(Head(todo).key))
  <2> DEFINE P == StaticPuts(cfg)
             m == Len(P) - Len(todo)
             h == Head(todo)
  <2>1. /\ pc' = "static" /\ todo' = Tail(todo)
        /\ tables' = [tables EXCEPT ![h.key] = h.policy]
    BY <1>1, <1>4 DEF StaticPut
  <2>2. /\ P \in Seq(PutRec) /\ Len(P) \in Nat
        /\ \A n \in 1..Len(P) : P[n] \in PutRec
    BY <1>2, FlagsAreConfigs, StaticPutsFacts, LenProperties DEF Inv
  <2>3. todo \in Seq(PutRec) /\ Len(todo) \in Nat
    BY LenProperties DEF Inv, TypeOK, PutRec
  <2>4. /\ Len(todo) \in Nat /\ Len(todo) # 0
        /\ h = todo[1]
        /\ Len(Tail(todo)) = Len(todo) - 1
        /\ \A n \in 1..Len(Tail(todo)) : Tail(todo)[n] = todo[n + 1]
    BY <1>1, <2>3, HeadTailProperties, EmptySeq, LenProperties
  <2>5. /\ m \in 0..Len(P)
        /\ \A n \in 1..Len(todo) : todo[n] = P[m + n]
        /\ \A i \in 1..m : \E j \in i..m : P[j].key = P[i].key /\ tables[P[i].key] = P[j].policy
        /\ \A k \in Keys : tables[k] # NoPolicy => \E i \in 1..m : P[i].key = k
    BY <1>1 DEF Inv, StaticProgress
  <2>6. StaticPuts(cfg)' = StaticPuts(cfg)
    BY <1>1
  <2> HIDE DEF P, h
  <2>7. m + 1 \in 1..Len(P) /\ h = P[m + 1]
    BY <2>2, <2>4, <2>5
  <2>8. Len(P) - Len(todo') = m + 1
    BY <2>1, <2>2, <2>4
  <2>9. \A n \in 1..Len(todo') : todo'[n] = P[m + 1 + n]
    BY <2>1, <2>2, <2>4, <2>5
  <2>10. /\ tables \in [Keys -> Policies \cup {NoPolicy}]
         /\ h.key \in Keys
    BY <2>2, <2>7 DEF Inv, TypeOK, Tables, PutRec
  <2>11. /\ tables'[h.key] = h.policy
         /\ \A k \in Keys \ {h.key} : tables'[k] = tables[k]
    BY <2>1, <2>10
  <2> HIDE DEF m
  <2>12. m \in Nat
    BY <2>2, <2>5
  <2>13. ASSUME NEW i \in 1..(m + 1)
         PROVE  \E j \in i..(m + 1) : P[j].key = P[i].key /\ tables'[P[i].key] = P[j].policy
    <3>1. CASE P[i].key = h.key
      <4>1. m + 1 \in i..(m + 1)
        BY <2>12
      <4> QED
        BY <2>7, <2>11, <3>1, <4>1
    <3>2. CASE P[i].key # h.key
      <4>1. i \in 1..m
        BY <2>7, <2>12, <3>2
      <4>2. PICK j \in i..m : P[j].key = P[i].key /\ tables[P[i].key] = P[j].policy
        BY <2>5, <4>1
      <4>3. P[i].key \in Keys /\ j \in i..(m + 1)
        BY <2>2, <2>7, <2>12, <4>1 DEF PutRec
      <4> QED
        BY <2>11, <3>2, <4>2, <4>3
    <3> QED
      BY <3>1, <3>2
  <2>14. ASSUME NEW k \in Keys, tables'[k] # NoPolicy
         PROVE  \E i \in 1..(m + 1) : P[i].key = k
    <3>1. CASE k = h.key
      <4>1. m + 1 \in 1..(m + 1)
        BY <2>12
      <4> QED
        BY <2>7, <3>1, <4>1
    <3>2. CASE k # h.key
      <4>1. PICK i \in 1..m : P[i].key = k
        BY <2>5, <2>11, <2>14, <3>2
      <4>2. i \in 1..(m + 1)
        BY <2>12
      <4> QED
        BY <4>1, <4>2
    <3> QED
      BY <3>1, <3>2
  <2>15. StaticProgress'
    <3>1. m + 1 \in 0..Len(P)
      BY <2>2, <2>7, <2>12
    <3>2. StaticPuts(cfg)' = P
      BY <2>6 DEF P
    <3> DEFINE m1 == m + 1
    <3>3. Len(P) - Len(todo') = m1
      BY <2>8
    <3>4. /\ m1 \in 0..Len(P)
          /\ \A n \in 1..Len(todo') : todo'[n] = P[m1 + n]
          /\ \A i \in 1..m1 : \E j \in i..m1 :
                P[j].key = P[i].key /\ tables'[P[i].key] = P[j].policy
          /\ \A k \in Keys : tables'[k] # NoPolicy => \E i \in 1..m1 : P[i].key = k
      BY <2>9, <2>13, <2>14, <3>1
    <3> HIDE DEF m1
    <3> QED
      BY <3>2, <3>3, <3>4 DEF StaticProgress
  <2>16. Place'
    BY <1>1, <1>2, <2>1 DEF Place
  <2> QED
    BY <2>1, <2>15, <2>16 DEF Inv, StaticKept, Started, ReconcileOK, FlagsInstalled,
                              FlagsReconcile, RulesApply, RulesInstalled
<1> QED
  BY <1>3, <1>4

(* When config.Apply is done, the maps hold its policies and nothing else. *)
LEMMA StaticDoneInv == ASSUME Inv, TypeOK', StaticDone PROVE Inv'
<1>1. /\ pc = "static" /\ pc' = "pass" /\ todo = << >>
      /\ UNCHANGED <<tables, writer, cfg, todo, last>>
  BY DEF StaticDone, envVars
<1>2. ~ RulesMode /\ ~ RulesMode' /\ writer[Sync] = IdleWriter /\ last = {}
  BY <1>1 DEF Inv, Place, RulesMode
<1> DEFINE P == StaticPuts(cfg)
<1>3. cfg \in Configs
  BY <1>2, FlagsAreConfigs DEF Inv
<1>4. /\ P \in Seq(PutRec) /\ Len(P) \in Nat /\ DOMAIN P = 1..Len(P)
      /\ \A n \in 1..Len(P) : P[n] \in PutRec
  BY <1>3, StaticPutsFacts, LenProperties
<1>5. Len(todo) = 0
  BY <1>1
<1>6. /\ \A i \in 1..Len(P) : \E j \in i..Len(P) :
            P[j].key = P[i].key /\ tables[P[i].key] = P[j].policy
      /\ \A k \in Keys : tables[k] # NoPolicy => \E i \in 1..Len(P) : P[i].key = k
  BY <1>1, <1>4, <1>5 DEF Inv, StaticProgress
<1>7. \A n \in DOMAIN cfg.hideComms : \E m \in 1..Len(P) :
         P[m].key = cfg.hideComms[n] /\ \A j \in m..Len(P) : P[j].policy = Hide
  BY <1>3, StaticPutsFacts
<1>8. StaticKeys = {P[n].key : n \in 1..Len(P)}
  BY <1>4 DEF StaticKeys
<1> HIDE DEF P
<1>9. ASSUME NEW k \in StaticKeys PROVE tables[k] # NoPolicy
  <2>1. PICK i \in 1..Len(P) : P[i].key = k
    BY <1>8
  <2>2. PICK j \in i..Len(P) : tables[k] = P[j].policy
    BY <1>6, <2>1
  <2>3. j \in 1..Len(P)
    BY <1>4
  <2> QED
    BY <1>4, <2>2, <2>3, NoPolicyAssumption DEF PutRec
<1>10. ASSUME NEW n \in DOMAIN cfg.hideComms PROVE tables[cfg.hideComms[n]] = Hide
  BY <1>6, <1>7
<1>11. ASSUME NEW k \in Keys \ StaticKeys PROVE tables[k] = NoPolicy
  BY <1>6, <1>8
<1>12. /\ StaticKeys' = StaticKeys
       /\ Listings' = Listings
  BY <1>1, SameCommandLine
<1>13. StaticKept'
  <2>1. \A comm \in CommKeys \ StaticKeys : tables[comm] = NoPolicy
    BY <1>11 DEF Keys
  <2> QED
    BY <1>1, <1>9, <1>10, <1>12, <2>1 DEF StaticKept
<1>14. FlagsInstalled'
  <2>1. EmptyTable \in Listings /\ Present(EmptyTable) = {}
    BY DEF Listings, Present, EmptyTable
  <2>2. \A pid \in PidKeys : EmptyTable[pid] = NoPolicy
                             /\ (tables[pid] = NoPolicy \/ pid \in StaticKeys)
    BY <1>11 DEF EmptyTable, Keys
  <2> QED
    BY <1>1, <1>2, <1>12, <2>1, <2>2 DEF FlagsInstalled
<1>15. Place'
  BY <1>1, <1>2 DEF Place
<1> QED
  BY <1>1, <1>2, <1>13, <1>14, <1>15 DEF Inv, StaticProgress, ReconcileOK, FlagsReconcile,
                                         RulesApply, RulesInstalled

(* A pass of flags mode begins. *)
LEMMA PassReconcileInv == ASSUME Inv, TypeOK', PassReconcile PROVE Inv'
<1> DEFINE cur == ExecutablePolicies(cfg, view)
           stale == {pid \in last \ Present(cur) : ~ IsStaticPID(cfg, pid)}
<1>1. /\ pc = "pass" /\ pc' = "reconcile" /\ ~ RulesMode
      /\ UNCHANGED <<tables, cfg, todo, last>>
  BY DEF PassReconcile, envVars
<1>2. /\ writer'[Sync].pc = "replace" /\ writer'[Sync].map = "pid"
      /\ writer'[Sync].target = cur /\ writer'[Sync].puts = Present(cur)
      /\ writer'[Sync].dels = stale
  BY DEF PassReconcile, Inv, TypeOK
<1>3. /\ ~ RulesMode' /\ StaticKeys' = StaticKeys /\ Listings' = Listings
      /\ (Fits' <=> Fits)
  BY <1>1, SameCommandLine
<1>4. view \in Views /\ last \subseteq PidKeys /\ Present(cur) \subseteq PidKeys
  BY <1>1, ExecutableTable DEF Inv, TypeOK
<1>5. stale \subseteq PidKeys \ (StaticKeys \cup Present(cur))
  BY <1>1, <1>4, StaticKeysFacts DEF Inv
<1>6. \A v \in Views : ExecutablePolicies(cfg, v)' = ExecutablePolicies(cfg, v)
  BY <1>1
<1>7. ReconcileOK'
  <2> HIDE DEF cur, stale
  <2>1. \E v \in Views : cur = ExecutablePolicies(cfg, v)'
    BY <1>4, <1>6 DEF cur
  <2>2. \A T : Present(T)' = Present(T)
    BY DEF Present
  <2> QED
    BY <1>2, <1>3, <1>5, <2>1, <2>2 DEF ReconcileOK
<1>8. FlagsReconcile'
  <2> SUFFICES ASSUME Fits PROVE FlagsReconcile'
    BY <1>3 DEF FlagsReconcile
  <2>1. PICK c \in Listings :
          /\ last = Present(c)
          /\ \A pid \in PidKeys :
                IF c[pid] # NoPolicy THEN tables[pid] = c[pid]
                ELSE tables[pid] = NoPolicy \/ pid \in StaticKeys
    BY <1>1 DEF Inv, FlagsInstalled, Started
  <2>2. ASSUME NEW pid \in PidKeys, pid \notin Present(cur)
        PROVE  tables[pid] = NoPolicy \/ pid \in StaticKeys \cup stale
    <3>1. CASE c[pid] # NoPolicy
      <4>1. pid \in last
        BY <2>1, <3>1 DEF Present, Keys
      <4> QED
        BY <1>1, <2>2, <4>1, StaticKeysFacts DEF Inv
    <3>2. CASE c[pid] = NoPolicy
      BY <2>1, <3>2
    <3> QED
      BY <3>1, <3>2
  <2>3. stale \subseteq last
    OBVIOUS
  <2> HIDE DEF cur, stale
  <2> QED
    BY <1>1, <1>2, <1>3, <2>1, <2>2, <2>3 DEF FlagsReconcile
<1>9. StaticKept'
  BY <1>1, <1>3 DEF Inv, StaticKept, Started
<1>10. Place'
  BY <1>1, <1>3 DEF Inv, Place
<1> QED
  BY <1>1, <1>7, <1>8, <1>9, <1>10 DEF Inv, StaticProgress, FlagsInstalled, Started,
                                       RulesApply, RulesInstalled

(* A failed pass: with enough room there is none. *)
LEMMA PassFailsInv == ASSUME Inv, TypeOK', PassFails PROVE Inv'
<1>1. /\ pc \in {"apply", "reconcile"} /\ pc' = "wait" /\ writer[Sync].pc = "failed"
      /\ writer'[Sync] = IdleWriter
      /\ UNCHANGED <<tables, cfg, todo, last>>
  BY DEF PassFails, Inv, TypeOK, envVars
<1>2. ~ Fits
  BY <1>1 DEF Inv, RulesApply, FlagsReconcile
<1>3. /\ RulesMode' <=> RulesMode
      /\ StaticKeys' = StaticKeys
      /\ Fits' <=> Fits
  BY <1>1, SameCommandLine
<1>4. StaticKept'
  BY <1>1, <1>3 DEF Inv, StaticKept, Started, Place
<1> QED
  BY <1>1, <1>2, <1>3, <1>4 DEF Inv, Place, StaticProgress, ReconcileOK, FlagsInstalled,
                                FlagsReconcile, RulesApply, RulesInstalled

(* A pass of flags mode is done: the maps are those of its listing. *)
LEMMA ReconcileDoneInv == ASSUME Inv, TypeOK', ReconcileDone PROVE Inv'
<1> DEFINE w == writer[Sync]
<1>1. /\ pc = "reconcile" /\ pc' = "wait" /\ w.puts = {} /\ w.dels = {}
      /\ last' = Present(w.target) /\ writer'[Sync] = IdleWriter
      /\ UNCHANGED <<tables, cfg, todo>>
  BY DEF ReconcileDone, Inv, TypeOK, envVars
<1>2. ~ RulesMode
  BY <1>1 DEF Inv, Place
<1>3. /\ ~ RulesMode' /\ StaticKeys' = StaticKeys /\ Listings' = Listings /\ (Fits' <=> Fits)
  BY <1>1, <1>2, SameCommandLine
<1>4. FlagsInstalled'
  <2> SUFFICES ASSUME Fits PROVE FlagsInstalled'
    BY <1>3 DEF FlagsInstalled
  <2>1. w.target \in Listings
    BY <1>1 DEF Inv, ReconcileOK, Listings
  <2>2. \A pid \in PidKeys :
           IF w.target[pid] # NoPolicy THEN tables[pid] = w.target[pid]
           ELSE tables[pid] = NoPolicy \/ pid \in StaticKeys
    <3>1. \A pid \in PidKeys : pid \in Present(w.target) <=> w.target[pid] # NoPolicy
      BY DEF Present, Keys
    <3> QED
      BY <1>1, <3>1 DEF Inv, FlagsReconcile
  <2> QED
    BY <1>1, <1>3, <2>1, <2>2 DEF FlagsInstalled
<1>5. StaticKept'
  BY <1>1, <1>2, <1>3 DEF Inv, StaticKept, Started
<1> QED
  BY <1>1, <1>3, <1>4, <1>5 DEF Inv, Place, StaticProgress, ReconcileOK, FlagsReconcile,
                                RulesApply, RulesInstalled

(* A call of ApplyCompiled in rules mode: with enough room none fails. *)
LEMMA ApplyCallInv == ASSUME Inv, TypeOK', ApplyCall PROVE Inv'
<1> DEFINE w == writer[Sync]
<1>1. /\ pc \in {"install", "apply"} /\ pc' = pc /\ ApplyStep(Sync)
      /\ UNCHANGED <<cfg, todo, last>>
  BY DEF ApplyCall, envVars
<1>2. /\ tables \in Tables /\ writer \in [{Sync} -> WriterState] /\ Sync \in {Sync}
      /\ w \in WriterState
  BY DEF Inv, TypeOK
<1>3. /\ RulesMode /\ RulesMode'
      /\ (Fits' <=> Fits)
      /\ \A v \in Views : Wanted(v)' = Wanted(v)
  BY <1>1, SameCommandLine DEF Inv, Place
<1>4. /\ ApplyProgress(Sync)
      /\ w.puts \subseteq Present(w.target)
      /\ \E v \in Views : w.target = CompileOf[cfg][v]
      /\ Fits => /\ w.pc # "failed"
                 /\ \E v \in Views : \A k \in Keys :
                       tables[k] # NoPolicy => k \in Wanted(v) \cup Present(w.target)
  BY <1>1 DEF Inv, RulesApply
<1>5. writer'[Sync].target = w.target
  BY <1>1, <1>2, ApplyStepKeepsTargets
<1>6. /\ ApplyProgress(Sync)'
      /\ \A k \in Keys : tables'[k] \in {tables[k], w.target[k]}
  BY <1>1, <1>2, <1>4, ApplyStepProgress
<1>7. ASSUME Fits
      PROVE  \E v \in Views : \A k \in Keys :
                tables'[k] # NoPolicy => k \in Wanted(v) \cup Present(w.target)
  BY <1>4, <1>6, <1>7 DEF Present
<1>8. ASSUME NEW k \in Keys, PutFails(Sync, k) PROVE ~ Fits
  <2> SUFFICES ASSUME Fits PROVE FALSE
    OBVIOUS
  <2>1. /\ k \in w.puts /\ w.pc = "replace" /\ ~ HasRoom(k, w.map)
        /\ w.map \in {"pid", "comm"}
    BY <1>2, <1>8 DEF PutFails, WriterState
  <2>2. PICK v \in Views : \A j \in Keys :
          tables[j] # NoPolicy => j \in Wanted(v) \cup Present(w.target)
    BY <1>4
  <2>3. PICK u \in Views : w.target = CompileOf[cfg][u]
    BY <1>4
  <2>4. Wanted(u) = Present(w.target)
    BY <1>3, <2>3 DEF Wanted
  <2>5. k \in KeysOf(w.map)
    <3>1. w.dels \subseteq KeysOf(w.map)
      BY <1>4 DEF ApplyProgress
    <3>2. w.puts \subseteq KeysOf(w.map)
      BY <1>4 DEF ApplyProgress
    <3> QED
      BY <2>1, <3>2
  <2>6. Present(tables) \cap KeysOf(w.map) \subseteq Wanted(v) \cup Wanted(u)
    BY <2>2, <2>4 DEF Present
  <2>7. k \in Wanted(u) \cap KeysOf(w.map)
    BY <1>4, <2>1, <2>4, <2>5
  <2> HIDE DEF w
  <2>8. HasRoom(k, w.map)
    BY <1>2, <2>1, <2>6, <2>7, Room
  <2> QED
    BY <2>1, <2>8
<1>9. /\ writer'[Sync].pc # "idle"
      /\ writer'[Sync].puts \subseteq Present(w.target)
      /\ Fits => writer'[Sync].pc # "failed"
  <2> DEFINE Goal == /\ writer'[Sync].pc # "idle"
                     /\ writer'[Sync].puts \subseteq Present(w.target)
                     /\ Fits => writer'[Sync].pc # "failed"
  <2>1. CASE Collect(Sync)
    BY <1>2, <2>1 DEF Collect, WriterState
  <2>2. ~ CollectFails(Sync)
    BY NoCollectFails DEF Inv
  <2>3. ASSUME NEW k \in Keys, Put(Sync, k) PROVE Goal
    BY <1>2, <1>4, <2>3 DEF Put, WriterState
  <2>4. ASSUME NEW k \in Keys, PutFails(Sync, k) PROVE Goal
    <3>1. ~ Fits
      BY <1>8, <2>4
    <3> QED
      BY <1>2, <1>4, <2>4, <3>1 DEF PutFails, WriterState
  <2>5. ASSUME NEW k \in Keys, Delete(Sync, k) PROVE Goal
    BY <1>2, <1>4, <2>5 DEF Delete, WriterState
  <2>6. CASE FinishMap(Sync)
    <3>1. writer'[Sync] = [w EXCEPT !.pc = IF w.map = "pid" THEN "collect" ELSE "applied",
                                    !.map = "comm"]
      BY <1>2, <2>6 DEF FinishMap
    <3>2. writer'[Sync].puts = w.puts /\ writer'[Sync].pc \in {"collect", "applied"}
      BY <1>2, <3>1 DEF WriterState
    <3> QED
      BY <1>4, <3>2
  <2> QED
    BY <1>1, <2>1, <2>2, <2>3, <2>4, <2>5, <2>6 DEF ApplyStep
<1>10. RulesApply'
  <2> HIDE DEF w
  <2>1. \A T : Present(T)' = Present(T)
    BY DEF Present
  <2>2. \E v \in Views : w.target = CompileOf[cfg'][v]
    BY <1>1, <1>4
  <2>3. Fits' => \E v \in Views : \A k \in Keys :
           tables'[k] # NoPolicy => k \in Wanted(v)' \cup Present(w.target)
    BY <1>3, <1>7
  <2> QED
    BY <1>3, <1>5, <1>6, <1>9, <2>1, <2>2, <2>3 DEF RulesApply
<1> QED
  BY <1>1, <1>3, <1>10 DEF Inv, Place, StaticProgress, StaticKept, ReconcileOK,
                           FlagsInstalled, FlagsReconcile, RulesInstalled

(* A call of a pass in flags mode touches no name and deletes no static pid; *)
(* with enough room none fails.                                              *)
LEMMA ReconcileCallInv == ASSUME Inv, TypeOK', ReconcileCall PROVE Inv'
<1> DEFINE w == writer[Sync]
           x == writer'[Sync]
<1>1. /\ pc = "reconcile" /\ pc' = "reconcile"
      /\ UNCHANGED <<cfg, todo, last>>
  BY DEF ReconcileCall, envVars
<1>2. PICK k \in PidKeys : Put(Sync, k) \/ PutFails(Sync, k) \/ Delete(Sync, k)
  BY DEF ReconcileCall
<1>3. /\ tables \in Tables /\ writer \in [{Sync} -> WriterState] /\ Sync \in {Sync}
      /\ w \in WriterState
      /\ k \in Keys /\ k \notin CommKeys
      /\ last \subseteq PidKeys
  BY KeysAssumption DEF Inv, TypeOK, Keys
<1>4. /\ ~ RulesMode /\ ~ RulesMode'
      /\ StaticKeys' = StaticKeys /\ Listings' = Listings /\ (Fits' <=> Fits)
  BY <1>1, SameCommandLine DEF Inv, Place
<1>5. /\ w.map = "pid" /\ w.pc \in {"replace", "failed"}
      /\ \E v \in Views : w.target = ExecutablePolicies(cfg, v)
      /\ w.puts \subseteq Present(w.target)
      /\ w.dels \subseteq PidKeys \ (StaticKeys \cup Present(w.target))
  BY <1>1 DEF Inv, ReconcileOK
<1>6. /\ x.map = "pid" /\ x.target = w.target /\ x.pc \in {"replace", "failed"}
      /\ x.puts \subseteq w.puts /\ x.dels \subseteq w.dels
  BY <1>2, <1>3, <1>5 DEF Put, PutFails, Delete, WriterState
<1>7. \A j \in Keys \ {k} : tables'[j] = tables[j]
  BY <1>2, <1>3 DEF Put, PutFails, Delete, Tables
<1>8. k \in StaticKeys => tables'[k] # NoPolicy \/ tables'[k] = tables[k]
  <2>1. CASE Put(Sync, k)
    <3>1. tables'[k] = w.target[k] /\ k \in Present(w.target)
      BY <1>3, <1>5, <2>1 DEF Put, Tables
    <3> QED
      BY <3>1 DEF Present
  <2>2. CASE PutFails(Sync, k)
    BY <2>2 DEF PutFails
  <2>3. CASE Delete(Sync, k)
    BY <1>5, <2>3 DEF Delete
  <2> QED
    BY <1>2, <2>1, <2>2, <2>3
<1>9. StaticKept'
  <2>1. /\ \A j \in StaticKeys : tables[j] # NoPolicy
        /\ \A n \in DOMAIN cfg.hideComms : tables[cfg.hideComms[n]] = Hide
        /\ \A comm \in CommKeys \ StaticKeys : tables[comm] = NoPolicy
    BY <1>1, <1>4 DEF Inv, StaticKept, Started
  <2>2. StaticKeys \subseteq Keys
    BY <1>4, StaticKeysFacts DEF Inv
  <2>3. \A n \in DOMAIN cfg.hideComms : cfg.hideComms[n] \in CommKeys
    <3>1. cfg.hideComms \in Seq(CommKeys)
      BY <1>4, FlagsAreConfigs, ConfigsAssumption DEF Inv, Config
    <3> QED
      BY <3>1, LenProperties
  <2>4. \A comm \in CommKeys : tables'[comm] = tables[comm]
    BY <1>3, <1>7 DEF Keys
  <2>5. \A j \in StaticKeys : tables'[j] # NoPolicy
    BY <1>7, <1>8, <2>1, <2>2
  <2> QED
    BY <1>1, <1>4, <2>1, <2>3, <2>4, <2>5 DEF StaticKept
<1>10. ReconcileOK'
  <2> HIDE DEF w, x
  <2>1. \A T : Present(T)' = Present(T)
    BY DEF Present
  <2>2. \E v \in Views : x.target = ExecutablePolicies(cfg, v)'
    BY <1>1, <1>5, <1>6
  <2>3. /\ x.puts \subseteq Present(x.target)
        /\ x.dels \subseteq PidKeys \ (StaticKeys \cup Present(x.target))
    BY <1>5, <1>6
  <2>4. writer'[Sync] = x
    BY DEF x
  <2> QED
    BY <1>4, <1>6, <2>1, <2>2, <2>3, <2>4 DEF ReconcileOK
<1>11. ASSUME Fits
       PROVE  /\ w.pc = "replace"
              /\ \E cur \in Listings : last = Present(cur)
              /\ w.dels \subseteq last
              /\ \A pid \in PidKeys :
                    IF pid \in Present(w.target)
                    THEN pid \in w.puts \/ tables[pid] = w.target[pid]
                    ELSE tables[pid] = NoPolicy \/ pid \in StaticKeys \cup w.dels
  BY <1>1, <1>11 DEF Inv, FlagsReconcile
<1>12. ASSUME Fits, PutFails(Sync, k) PROVE FALSE
  <2>1. k \in w.puts /\ ~ HasRoom(k, "pid")
    BY <1>5, <1>12 DEF PutFails
  <2>2. PICK u \in Views : w.target = ExecutablePolicies(cfg, u)
    BY <1>5
  <2>3. PICK cur \in Listings : last = Present(cur)
    BY <1>11, <1>12
  <2>4. \E v \in Views : last \subseteq Present(ExecutablePolicies(cfg, v))
    <3>1. Present(EmptyTable) = {}
      BY DEF Present, EmptyTable
    <3> QED
      BY <2>2, <2>3, <3>1 DEF Listings
  <2>5. PICK v \in Views : last \subseteq Present(ExecutablePolicies(cfg, v))
    BY <2>4
  <2>6. /\ Wanted(v) = Present(ExecutablePolicies(cfg, v)) \cup StaticKeys
        /\ Wanted(u) = Present(w.target) \cup StaticKeys
    BY <1>4, <2>2 DEF Wanted
  <2>7. Present(tables) \cap KeysOf("pid") \subseteq Wanted(v) \cup Wanted(u)
    <3> SUFFICES ASSUME NEW pid \in PidKeys, tables[pid] # NoPolicy
                 PROVE  pid \in Wanted(v) \cup Wanted(u)
      BY KeysOfMaps DEF Present
    <3>1. pid \in Present(w.target) \cup StaticKeys \cup w.dels
      BY <1>11, <1>12
    <3>2. w.dels \subseteq Present(ExecutablePolicies(cfg, v))
      BY <1>11, <1>12, <2>5
    <3> QED
      BY <2>6, <3>1, <3>2
  <2>8. k \in Wanted(u) \cap KeysOf("pid")
    BY <1>5, <2>1, <2>6, KeysOfMaps
  <2>9. HasRoom(k, "pid")
    BY <1>3, <1>12, <2>7, <2>8, Room
  <2> QED
    BY <2>1, <2>9
<1>13. FlagsReconcile'
  <2> SUFFICES ASSUME Fits PROVE FlagsReconcile'
    BY <1>4 DEF FlagsReconcile
  <2> DEFINE Reached(pid) ==
        IF pid \in Present(w.target)
        THEN pid \in x.puts \/ tables'[pid] = w.target[pid]
        ELSE tables'[pid] = NoPolicy \/ pid \in StaticKeys \cup x.dels
             Goal == x.pc = "replace" /\ \A pid \in PidKeys : Reached(pid)
  <2>1. ASSUME Put(Sync, k) PROVE Goal
    <3>1. /\ x.pc = "replace" /\ x.puts = w.puts \ {k} /\ x.dels = w.dels
          /\ tables'[k] = w.target[k] /\ k \in Present(w.target)
      BY <1>3, <1>5, <2>1 DEF Put, WriterState, Tables
    <3>2. \A pid \in PidKeys : Reached(pid)
      BY <1>7, <1>11, <3>1 DEF Keys
    <3> QED
      BY <3>1, <3>2
  <2>2. ASSUME Delete(Sync, k) PROVE Goal
    <3>1. /\ x.pc = "replace" /\ x.puts = w.puts /\ x.dels = w.dels \ {k}
          /\ tables'[k] = NoPolicy /\ k \notin Present(w.target)
      BY <1>3, <1>5, <2>2 DEF Delete, WriterState, Tables
    <3>2. \A pid \in PidKeys : Reached(pid)
      BY <1>7, <1>11, <3>1 DEF Keys
    <3> QED
      BY <3>1, <3>2
  <2>3. Goal
    BY <1>2, <1>12, <2>1, <2>2
  <2>4. \A T : Present(T)' = Present(T)
    BY DEF Present
  <2>5. x.dels \subseteq last /\ \E cur \in Listings : last = Present(cur)
    BY <1>6, <1>11
  <2> QED
    BY <1>1, <1>4, <1>6, <2>3, <2>4, <2>5 DEF FlagsReconcile
<1>14. Place'
  BY <1>1, <1>4 DEF Place
<1> QED
  BY <1>1, <1>9, <1>10, <1>13, <1>14 DEF Inv, StaticProgress, FlagsInstalled, RulesApply,
                                         RulesInstalled

(* Every step keeps the invariant. *)
LEMMA StepInv == Inv /\ [Next]_vars => Inv'
<1> SUFFICES ASSUME Inv, [Next]_vars PROVE Inv'
  OBVIOUS
<1>1. TypeOK'
  BY StepTypeOK DEF Inv
<1>2. writer \in [{Sync} -> WriterState] /\ Sync \in {Sync}
  BY DEF Inv, TypeOK
<1>3. CASE StartScanFails
  BY <1>1, <1>3, FatalInv DEF Inv, Place, StartScanFails, Fatal
<1>4. CASE StartRules
  BY <1>1, <1>2, <1>4, BeginInv DEF StartRules, envVars
<1>5. CASE InstallEnds
  <2>1. CASE writer[Sync].pc = "applied"
    BY <1>1, <1>2, <1>5, <2>1, AppliedInv DEF InstallEnds, envVars
  <2>2. CASE writer[Sync].pc = "failed"
    BY <1>1, <1>2, <1>5, <2>2, FatalInv DEF InstallEnds
  <2> QED
    BY <1>5, <2>1, <2>2 DEF InstallEnds
<1>6. CASE StartFlags
  BY <1>1, <1>6, StartFlagsInv
<1>7. CASE StaticPut
  BY <1>1, <1>7, StaticPutInv
<1>8. CASE StaticDone
  BY <1>1, <1>8, StaticDoneInv
<1>9. CASE Tick
  BY <1>1, <1>9, QuietInv DEF Tick, envVars
<1>10. CASE PassScanFails
  BY <1>1, <1>10, QuietInv DEF PassScanFails
<1>11. CASE PassCompile
  BY <1>1, <1>2, <1>11, BeginInv DEF PassCompile, envVars
<1>12. CASE PassReconcile
  BY <1>1, <1>12, PassReconcileInv
<1>13. CASE PassFails
  BY <1>1, <1>13, PassFailsInv
<1>14. CASE ApplyDone
  BY <1>1, <1>2, <1>14, AppliedInv DEF ApplyDone, envVars
<1>15. CASE ReconcileDone
  BY <1>1, <1>15, ReconcileDoneInv
<1>16. CASE ApplyCall
  BY <1>1, <1>16, ApplyCallInv
<1>17. CASE ReconcileCall
  BY <1>1, <1>17, ReconcileCallInv
<1>18. CASE SyncReturns
  BY <1>1, <1>18, QuietInv DEF SyncReturns, envVars
<1>19. CASE Interrupt
  BY <1>1, <1>19, QuietInv DEF Interrupt
<1>20. CASE ProcessesChange
  BY <1>1, <1>20, QuietInv DEF ProcessesChange
<1>21. CASE UNCHANGED vars
  BY <1>1, <1>21, QuietInv DEF vars, envVars
<1> QED
  BY <1>3, <1>4, <1>5, <1>6, <1>7, <1>8, <1>9, <1>10, <1>11, <1>12, <1>13, <1>14, <1>15,
     <1>16, <1>17, <1>18, <1>19, <1>20, <1>21 DEF Next, Program

LEMMA SpecInv == Spec => []Inv
BY InitInv, StepInv, PTL DEF Spec

-----------------------------------------------------------------------------
(* Refinement of PolicyReplacement, in rules mode *)

(* Beside Inv: the writer is at work exactly while the program waits for it, *)
(* and coherent.                                                             *)
CallInv ==
    RulesMode => /\ WriterCoherent(writer[Sync])
                 /\ writer[Sync].pc # "idle" <=> pc \in {"install", "apply"}

LEMMA ReplacedInRules ==
    /\ RulesMode => MapsReplaced = tables /\ WorkReplacing = Work
    /\ RulesMode' => MapsReplaced' = tables' /\ WorkReplacing' = Work'
BY DEF MapsReplaced, WorkReplacing

(* In flags mode nothing of it moves. *)
LEMMA FlagsReplaceNothing ==
    ASSUME ~ RulesMode, cfg' = cfg
    PROVE  UNCHANGED Replacement!vars
BY DEF RulesMode, MapsReplaced, WorkReplacing, Replacement!vars

LEMMA InitCallInv == Init => CallInv /\ Replacement!Init
<1> SUFFICES ASSUME Init PROVE CallInv /\ Replacement!Init
  OBVIOUS
<1>1. tables = EmptyTable /\ writer = [w \in {Sync} |-> IdleWriter]
  BY DEF Init
<1>2. AnyTables!Init /\ \A w \in {Sync} : WriterCoherent(writer[w])
  BY <1>1, IdleReplaces
<1>3. CallInv
  BY <1>1, <1>2 DEF CallInv, Init, IdleWriter
<1>4. CASE RulesMode
  <2>1. Replacement!Init
    BY <1>2, <1>4, ReplacedInRules
    DEF AnyTables!Init, AnyTables!Resting, AnyTables!NoTable, AnyTables!Keys,
        Replacement!Init, Replacement!Resting, Replacement!NoTable, Replacement!Keys
  <2> QED
    BY <1>3, <2>1
<1>5. CASE ~ RulesMode
  <2>1. /\ MapsReplaced = EmptyTable
        /\ WorkReplacing = [w \in {Sync} |->
              [status |-> "idle", target |-> EmptyTable, left |-> {}]]
    BY <1>5 DEF MapsReplaced, WorkReplacing
  <2>2. EmptyTable = Replacement!NoTable
    BY DEF EmptyTable, Keys, Replacement!NoTable, Replacement!Keys
  <2>3. DOMAIN WorkReplacing = {Sync}
    BY <2>1
  <2>4. WorkReplacing = [w \in DOMAIN WorkReplacing |-> Replacement!Resting]
    BY <2>1, <2>2, <2>3 DEF Replacement!Resting
  <2>5. Replacement!Init
    BY <2>1, <2>2, <2>4 DEF Replacement!Init
  <2> QED
    BY <1>3, <2>5
<1> QED
  BY <1>4, <1>5

(* The call of ApplyCompiled, its return, and a bpf call of it. *)
LEMMA CallStep ==
    ASSUME TypeOK, RulesMode, cfg' = cfg, writer[Sync].pc = "idle", UNCHANGED tables,
           writer' = [writer EXCEPT ![Sync] = BeginApply(CompileOf[cfg][view])]
    PROVE  Replacement!Next /\ WriterCoherent(writer'[Sync]) /\ writer'[Sync].pc # "idle"
<1> DEFINE t == CompileOf[cfg][view]
<1>1. /\ writer \in [{Sync} -> WriterState] /\ Sync \in {Sync}
      /\ t \in Tables /\ t \in AllCompilations
  BY CompileAssumption DEF TypeOK, RulesMode, AllCompilations
<1>2. writer' = [writer EXCEPT ![Sync] = BeginApply(t)]
  OBVIOUS
<1> HIDE DEF t
<1>3. /\ WriterCoherent(writer'[Sync]) /\ writer'[Sync].pc # "idle"
      /\ Sync \in DOMAIN Work /\ Work[Sync].status = "idle"
      /\ Work' = [Work EXCEPT ![Sync] = [status |-> "replacing", target |-> t, left |-> Keys]]
  BY <1>1, <1>2, CallReplaces
<1>4. /\ MapsReplaced' = MapsReplaced
      /\ WorkReplacing = Work /\ WorkReplacing' = Work'
  BY ReplacedInRules DEF RulesMode
<1>5. Replacement!Begin(Sync)
  BY <1>1, <1>3, <1>4 DEF Replacement!Begin, Replacement!Keys, Keys
<1> QED
  BY <1>3, <1>4, <1>5 DEF Replacement!Next, Replacement!Step

LEMMA ReturnStep ==
    ASSUME TypeOK, RulesMode, cfg' = cfg, UNCHANGED tables,
           writer[Sync].pc \in {"applied", "failed"},
           writer' = [writer EXCEPT ![Sync] = IdleWriter]
    PROVE  Replacement!Next /\ WriterCoherent(writer'[Sync]) /\ writer'[Sync].pc = "idle"
<1>1. writer \in [{Sync} -> WriterState] /\ Sync \in {Sync}
  BY DEF TypeOK
<1>2. /\ WriterCoherent(writer'[Sync]) /\ writer'[Sync].pc = "idle"
      /\ Sync \in DOMAIN Work /\ AnyTables!Return(Sync)
  BY <1>1, ReturnReplaces
<1>3. /\ MapsReplaced' = MapsReplaced
      /\ WorkReplacing = Work /\ WorkReplacing' = Work'
  BY ReplacedInRules DEF RulesMode
<1>4. Replacement!Return(Sync)
  BY <1>2, <1>3 DEF AnyTables!Return, AnyTables!Resting, AnyTables!NoTable, AnyTables!Keys,
              Replacement!Return, Replacement!Resting, Replacement!NoTable, Replacement!Keys
<1> QED
  BY <1>2, <1>3, <1>4 DEF Replacement!Next, Replacement!Step

LEMMA MapStepReplaces ==
    ASSUME TypeOK, RulesMode, cfg' = cfg, WriterCoherent(writer[Sync]), ApplyStep(Sync)
    PROVE  Replacement!Next \/ UNCHANGED Replacement!vars
<1>1. /\ tables \in Tables /\ writer \in [{Sync} -> WriterState] /\ Sync \in {Sync}
      /\ \A v \in {Sync} : WriterCoherent(writer[v])
  BY DEF TypeOK
<1>2. \/ \E k \in Work[Sync].left : AnyTables!Replace(Sync, k)
      \/ AnyTables!PassBy(Sync) \/ AnyTables!Succeed(Sync) \/ AnyTables!Fail(Sync)
      \/ tables' = tables /\ Work' = Work
  BY <1>1, ApplyStepReplaces
<1>3. /\ MapsReplaced = tables /\ MapsReplaced' = tables'
      /\ WorkReplacing = Work /\ WorkReplacing' = Work'
      /\ Sync \in DOMAIN WorkReplacing
  BY <1>1, ReplacedInRules DEF RulesMode, Work
<1>4. ASSUME NEW k PROVE AnyTables!Turn(Sync, k) <=> Replacement!Turn(Sync, k)
  BY <1>3 DEF AnyTables!Turn, AnyTables!MapWith, Replacement!Turn, Replacement!MapWith
<1>5. ASSUME NEW S PROVE AnyTables!Cardinality(S) = Replacement!Cardinality(S)
  BY DEF AnyTables!Cardinality, Replacement!Cardinality
<1>6. ASSUME NEW k PROVE AnyTables!Room(k) <=> Replacement!Room(k)
  BY <1>3, <1>5 DEF AnyTables!Room, AnyTables!MapWith, Replacement!Room, Replacement!MapWith
<1>7. ASSUME NEW k \in Work[Sync].left, AnyTables!Replace(Sync, k) PROVE Replacement!Next
  BY <1>3, <1>4, <1>6, <1>7 DEF AnyTables!Replace, Replacement!Replace, Replacement!Next, Replacement!Step
<1>8. CASE AnyTables!PassBy(Sync)
  <2>1. ASSUME NEW map
        PROVE  {k \in map : tables[k] = NoPolicy /\ Work[Sync].target[k] = NoPolicy}
               = {k \in map : MapsReplaced[k] = NoPolicy
                              /\ WorkReplacing[Sync].target[k] = NoPolicy}
    BY <1>3
  <2>2. PICK map \in {PidKeys, CommKeys} :
          /\ map = CommKeys => Work[Sync].left \cap PidKeys = {}
          /\ Work' = [Work EXCEPT ![Sync].left =
                @ \ {k \in map : tables[k] = NoPolicy /\ Work[Sync].target[k] = NoPolicy}]
    BY <1>8 DEF AnyTables!PassBy
  <2>3. Work[Sync].status = "replacing" /\ tables' = tables
    BY <1>8 DEF AnyTables!PassBy
  <2>4. WorkReplacing' = [WorkReplacing EXCEPT ![Sync].left =
           @ \ {k \in map : MapsReplaced[k] = NoPolicy
                            /\ WorkReplacing[Sync].target[k] = NoPolicy}]
    BY <1>3, <2>1, <2>2
  <2>5. Replacement!PassBy(Sync)
    BY <1>3, <2>2, <2>3, <2>4 DEF Replacement!PassBy
  <2> QED
    BY <1>3, <2>5 DEF Replacement!Next, Replacement!Step
<1>9. CASE AnyTables!Succeed(Sync)
  BY <1>3, <1>9 DEF AnyTables!Succeed, Replacement!Succeed, Replacement!Next, Replacement!Step
<1>10. CASE AnyTables!Fail(Sync)
  BY <1>3, <1>4, <1>6, <1>10 DEF AnyTables!Fail, Replacement!Fail, Replacement!Next, Replacement!Step
<1> QED
  BY <1>2, <1>3, <1>7, <1>8, <1>9, <1>10 DEF Replacement!vars

LEMMA ReplacementStep ==
    ASSUME Inv, CallInv, [Next]_vars
    PROVE  CallInv' /\ [Replacement!Next]_(Replacement!vars)
<1> DEFINE Goal == CallInv' /\ [Replacement!Next]_(Replacement!vars)
<1>1. TypeOK /\ Place /\ writer \in [{Sync} -> WriterState] /\ Sync \in {Sync}
  BY DEF Inv, TypeOK
<1>2. cfg' = cfg
  BY DEF Next, Program, StartScanFails, StartRules, InstallEnds, StartFlags, StaticPut,
         StaticDone, Tick, PassScanFails, PassCompile, PassReconcile, PassFails, ApplyDone,
         ReconcileDone, ApplyCall, ReconcileCall, SyncReturns, Interrupt, ProcessesChange,
         vars, envVars
<1>3. CASE ~ RulesMode
  <2>1. ~ RulesMode'
    BY <1>2, <1>3 DEF RulesMode
  <2> QED
    BY <1>2, <1>3, <2>1, FlagsReplaceNothing DEF CallInv
<1>4. CASE RulesMode
  <2>1. /\ WriterCoherent(writer[Sync])
        /\ writer[Sync].pc # "idle" <=> pc \in {"install", "apply"}
        /\ RulesMode'
    BY <1>2, <1>4 DEF CallInv, RulesMode
  <2>2. ASSUME UNCHANGED <<tables, writer>>,
               pc' \in {"install", "apply"} <=> pc \in {"install", "apply"}
        PROVE  Goal
    <3>1. /\ MapsReplaced' = MapsReplaced /\ WorkReplacing' = WorkReplacing
      BY <1>4, <2>1, <2>2, ReplacedInRules DEF Work
    <3> QED
      BY <2>1, <2>2, <3>1 DEF CallInv, Replacement!vars
  <2>3. CASE StartRules \/ PassCompile
    <3>1. /\ pc \notin {"install", "apply"} /\ pc' \in {"install", "apply"}
          /\ UNCHANGED tables
          /\ writer' = [writer EXCEPT ![Sync] = BeginApply(CompileOf[cfg][view])]
      BY <2>3 DEF StartRules, PassCompile
    <3>2. Replacement!Next /\ WriterCoherent(writer'[Sync]) /\ writer'[Sync].pc # "idle"
      BY <1>1, <1>2, <1>4, <2>1, <3>1, CallStep
    <3> QED
      BY <3>1, <3>2 DEF CallInv
  <2>4. CASE InstallEnds \/ PassFails \/ ApplyDone
    <3>1. /\ pc' \notin {"install", "apply"}
          /\ writer[Sync].pc \in {"applied", "failed"}
          /\ UNCHANGED tables
          /\ writer' = [writer EXCEPT ![Sync] = IdleWriter]
      BY <2>4 DEF InstallEnds, PassFails, ApplyDone
    <3>2. Replacement!Next /\ WriterCoherent(writer'[Sync]) /\ writer'[Sync].pc = "idle"
      BY <1>1, <1>2, <1>4, <3>1, ReturnStep
    <3> QED
      BY <3>1, <3>2 DEF CallInv
  <2>5. CASE ApplyCall
    <3>1. pc \in {"install", "apply"} /\ pc' = pc /\ ApplyStep(Sync)
      BY <2>5 DEF ApplyCall
    <3>2. Replacement!Next \/ UNCHANGED Replacement!vars
      BY <1>1, <1>2, <1>4, <2>1, <3>1, MapStepReplaces
    <3>3. tables \in Tables
      BY <1>1 DEF TypeOK
    <3>4. WriterCoherent(writer'[Sync])
      BY <1>1, <2>1, <3>1, <3>3, ApplyStepCoherent
    <3>5. writer'[Sync].pc # "idle"
      BY <1>1, <3>1, ApplyStepBusy
    <3> QED
      BY <2>1, <3>1, <3>2, <3>4, <3>5 DEF CallInv
  <2>6. CASE StartScanFails \/ Tick \/ PassScanFails \/ SyncReturns \/ Interrupt
             \/ ProcessesChange \/ UNCHANGED vars
    BY <2>2, <2>6 DEF StartScanFails, Fatal, Tick, PassScanFails, SyncReturns, Interrupt,
                      ProcessesChange, vars
  <2>7. CASE StartFlags \/ StaticPut \/ StaticDone \/ PassReconcile \/ ReconcileDone
             \/ ReconcileCall
    BY <1>1, <1>4, <2>7 DEF Place, StartFlags, StaticPut, StaticDone, PassReconcile,
                            ReconcileDone, ReconcileCall
  <2> QED
    BY <2>3, <2>4, <2>5, <2>6, <2>7 DEF Next, Program
<1> QED
  BY <1>3, <1>4

-----------------------------------------------------------------------------
(* What a team may rely on *)

(* The variables of the program, its maps and its writer among them, always *)
(* have their types (main.go, config/store.go, rules/sync.go).              *)
THEOREM TypesHold == Spec => []TypeOK
<1>1. Inv => TypeOK
  BY DEF Inv
<1> QED
  BY <1>1, SpecInv, PTL

(* Whatever the flags, the processes and the sizes of the maps, a process or *)
(* a name that a flag gives a policy keeps one while the program runs        *)
(* (reconcileExecutablePolicies spares what isStaticPID holds of).           *)
THEOREM FlagsKeepTheirPolicies == Spec => []StaticKept
<1>1. Inv => StaticKept
  BY DEF Inv
<1> QED
  BY <1>1, SpecInv, PTL

(* Where both maps have the room, no pass fails and between passes nothing is *)
(* left of processes that are gone (both synchronisation loops).              *)
THEOREM MapsAreOneListing == Spec => []OneListing
<1>1. Inv => OneListing
  <2> SUFFICES ASSUME Inv, pc = "wait", Fits
               PROVE  \/ \E v \in Views : InstalledFor(v)
                      \/ /\ ~ RulesMode
                         /\ \A pid \in PidKeys : tables[pid] = NoPolicy \/ pid \in StaticKeys
    BY DEF OneListing
  <2>1. CASE RulesMode
    BY <2>1 DEF Inv, RulesInstalled, InstalledFor
  <2>2. CASE ~ RulesMode
    <3>1. PICK cur \in Listings :
            \A pid \in PidKeys :
               IF cur[pid] # NoPolicy THEN tables[pid] = cur[pid]
               ELSE tables[pid] = NoPolicy \/ pid \in StaticKeys
      BY <2>2 DEF Inv, FlagsInstalled, Started
    <3>2. CASE \E v \in Views : cur = ExecutablePolicies(cfg, v)
      BY <2>2, <3>1, <3>2 DEF InstalledFor
    <3>3. CASE cur = EmptyTable
      BY <2>2, <3>1, <3>3 DEF EmptyTable, Keys
    <3> QED
      BY <3>2, <3>3 DEF Listings
  <2> QED
    BY <2>1, <2>2
<1> QED
  BY <1>1, SpecInv, PTL

(* In rules mode every install and every tick replaces the maps by one       *)
(* compilation, a key at a time and policy_map first, or stops at a map that *)
(* is full; nothing else the program does writes to them (rules/compiler.go, *)
(* ApplyCompiled; rules/sync.go).                                            *)
THEOREM RulesModeReplaces == Spec => ReplacementSpec
<1>1. Init => Inv /\ CallInv /\ Replacement!Init
  BY InitInv, InitCallInv
<1>2. Inv /\ CallInv /\ [Next]_vars => (Inv /\ CallInv)' /\ [Replacement!Next]_(Replacement!vars)
  BY StepInv, ReplacementStep
<1> QED
  BY <1>1, <1>2, PTL DEF Spec, ReplacementSpec, Replacement!Spec

-----------------------------------------------------------------------------
(* A pass ends *)

(* A call of reconcileExecutablePolicies also leaves its pass fewer. *)
LEMMA ReconcileCallDescends ==
    ASSUME Inv, ReconcileCall
    PROVE  CallsLeft(writer'[Sync]) < CallsLeft(writer[Sync])
<1> DEFINE r == writer[Sync]
           x == writer'[Sync]
           S == r.puts \cup r.dels
           Goal == CallsLeft(x) < CallsLeft(r)
<1>1. PICK k \in PidKeys : Put(Sync, k) \/ PutFails(Sync, k) \/ Delete(Sync, k)
  BY DEF ReconcileCall
<1>2. /\ writer \in [{Sync} -> WriterState] /\ r \in WriterState /\ pc = "reconcile"
      /\ tables \in Tables
  BY DEF Inv, TypeOK, ReconcileCall
<1>3. /\ r.map = "pid" /\ r.puts \cap r.dels = {}
  BY <1>2 DEF Inv, ReconcileOK
<1>4. Cardinality(Keys) \in Nat /\ IsFiniteSet(S) /\ Cardinality(S) \in 0..Cardinality(Keys)
  BY <1>2, CallsCounted, KeysFinite
<1>5. ASSUME PutFails(Sync, k) PROVE Goal
  <2>1. r.pc = "replace" /\ x.pc = "failed"
    BY <1>2, <1>5 DEF PutFails, WriterState
  <2> HIDE DEF r, x
  <2> QED
    BY <1>3, <1>4, <2>1 DEF CallsLeft
<1>6. ASSUME Put(Sync, k) \/ Delete(Sync, k) PROVE Goal
  <2>1. /\ r.pc = "replace" /\ x.pc = "replace" /\ x.map = "pid"
        /\ k \in S /\ x.puts \cup x.dels = S \ {k}
    BY <1>2, <1>3, <1>6 DEF Put, Delete, WriterState
  <2>2. Cardinality(S \ {k}) = Cardinality(S) - 1
    <3>1. IsFiniteSet(S) /\ k \in S
      BY <1>4, <2>1
    <3> HIDE DEF S
    <3> QED
      BY <3>1, FS_RemoveElement
  <2>3. Cardinality(x.puts \cup x.dels) = Cardinality(r.puts \cup r.dels) - 1
    BY <2>1, <2>2
  <2> HIDE DEF r, x
  <2> QED
    BY <1>3, <1>4, <2>1, <2>3 DEF CallsLeft
<1> QED
  BY <1>1, <1>5, <1>6

InPass == pc \in {"install", "apply", "reconcile"}

(* The program never hangs in the install or in a pass: each step of one     *)
(* ends it or leaves it fewer calls, of which it has finitely many, whatever *)
(* signals and processes come between (rules/sync.go, config/store.go).      *)
PassDescends ==
    /\ [](CallsLeft(writer[Sync]) \in 0..(2 * Cardinality(Keys) + 4))
    /\ [][InPass => \/ UNCHANGED <<tables, writer, pc>>
                    \/ pc' \in {"wait", "fatal"}
                    \/ pc' = pc /\ CallsLeft(writer'[Sync]) < CallsLeft(writer[Sync])]_vars

LEMMA PassStep ==
    ASSUME Inv, CallInv, [Next]_vars, InPass
    PROVE  \/ UNCHANGED <<tables, writer, pc>>
           \/ pc' \in {"wait", "fatal"}
           \/ pc' = pc /\ CallsLeft(writer'[Sync]) < CallsLeft(writer[Sync])
<1> DEFINE Goal == \/ UNCHANGED <<tables, writer, pc>>
                   \/ pc' \in {"wait", "fatal"}
                   \/ pc' = pc /\ CallsLeft(writer'[Sync]) < CallsLeft(writer[Sync])
<1>1. CASE InstallEnds \/ PassFails \/ ApplyDone \/ ReconcileDone
  BY <1>1 DEF InstallEnds, PassFails, ApplyDone, ReconcileDone
<1>2. CASE ApplyCall
  <2>1. RulesMode /\ ApplyStep(Sync) /\ pc' = pc
    BY <1>2 DEF Inv, Place, ApplyCall
  <2>2. /\ writer \in [{Sync} -> WriterState] /\ Sync \in {Sync} /\ tables \in Tables
        /\ WriterCoherent(writer[Sync])
    BY <2>1 DEF Inv, TypeOK, CallInv
  <2> QED
    BY <2>1, <2>2, KeysFinite, ApplyStepDescends
<1>3. CASE ReconcileCall
  BY <1>3, ReconcileCallDescends DEF ReconcileCall
<1>4. CASE Interrupt \/ ProcessesChange \/ UNCHANGED vars
  BY <1>4 DEF Interrupt, ProcessesChange, vars
<1>5. CASE \/ StartScanFails \/ StartRules \/ StartFlags \/ StaticPut \/ StaticDone
           \/ Tick \/ PassScanFails \/ PassCompile \/ PassReconcile \/ SyncReturns
  BY <1>5 DEF InPass, StartScanFails, StartRules, StartFlags, StaticPut, StaticDone, Tick,
              PassScanFails, PassCompile, PassReconcile, SyncReturns
<1> QED
  BY <1>1, <1>2, <1>3, <1>4, <1>5 DEF Next, Program

(* So a pass is over after finitely many calls, in either mode: what          *)
(* MapsFollowProcesses adds is that the goroutine is scheduled.              *)
THEOREM PassesEnd == Spec => PassDescends
<1>1. Init => Inv /\ CallInv
  BY InitInv, InitCallInv
<1>2. Inv /\ CallInv /\ [Next]_vars => (Inv /\ CallInv)'
  BY StepInv, ReplacementStep
<1>3. Inv => CallsLeft(writer[Sync]) \in 0..(2 * Cardinality(Keys) + 4)
  BY CallsCounted, KeysFinite DEF Inv, TypeOK
<1>4. Inv /\ CallInv /\ [Next]_vars =>
         [InPass => \/ UNCHANGED <<tables, writer, pc>>
                    \/ pc' \in {"wait", "fatal"}
                    \/ pc' = pc /\ CallsLeft(writer'[Sync]) < CallsLeft(writer[Sync])]_vars
  BY PassStep
<1> QED
  BY <1>1, <1>2, <1>3, <1>4, PTL DEF Spec, PassDescends

=============================================================================
