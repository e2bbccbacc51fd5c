---------------------------- MODULE LeaseProofs -----------------------------
(***************************************************************************)
(* Theorems of WriterLease for any number of threads, any corpus and any   *)
(* id ceiling.  First, whatever callers and reloads do: a write runs on a  *)
(* dictionary of another generation only on an index poisoned beside a     *)
(* waiting thread.  All others assume Disciplined: callers drop a lease    *)
(* whose COMMIT failed, and reloads fail only while no other thread waits  *)
(* for the lock; the runs failed_commit_reuse and poison_race show what    *)
(* the code does otherwise.  Then the dictionary's two copies agree        *)
(* wherever an id is taken from one and used in the other.  Then the       *)
(* tables: what is committed at every moment, and what an open transaction *)
(* sees between two calls, is one consistent index.  Then the statistics:  *)
(* the dictionary in memory is the one a fresh load would build, its class *)
(* statistics included, whenever the lock is free, for exact arithmetic.   *)
(* Last the searches of SnapshotSearch, for any number of readers: none    *)
(* counts a gram for a segment without it, its texts are those of the      *)
(* state it searched, and unless a commit overtook it between its two      *)
(* reads it misses nothing.                                                *)
(***************************************************************************)
EXTENDS SnapshotSearch, SegmentsProofs

(* What the theorems assume of the environment.                            *)
Disciplined == ~FailBesideWaiters /\ ~ReuseFailedWriter

Holding == {"leased", "in_call", "merging", "merged", "reopening", "failed", "loading"}
PCs     == {"idle", "want_writer", "want_compact"} \cup Holding

(* Only the fields that tell the two id spaces apart are given a type.     *)
IsTables(db) ==
  db \in [segs : {db.segs}, post : {db.post}, dict : Dictionaries, gen : Nat]

IsDictionary(m) ==
  m \in [map : Dictionaries, nextTerm : 1 .. MaxTermId + 1, gen : Nat, stats : {m.stats}]

(* The ids of a stage are new to the map and lie between its base and the  *)
(* next id.                                                                *)
IsStage(m, st) ==
  /\ st \in [base : 1 .. MaxTermId + 1, new : Dictionaries]
  /\ st.base + Cardinality(Staged(st)) \in 1 .. MaxTermId + 1
  /\ \A g \in Staged(st) : /\ m.map[g] = NoTerm
                           /\ st.new[g] >= st.base
                           /\ st.new[g] < st.base + Cardinality(Staged(st))

LEMMA NoTxnIsNoTables == \A db : IsTables(db) => db # NoTxn
BY DEF IsTables, NoTxn

LEMMA LoadType ==
  ASSUME NEW db, IsTables(db)
  PROVE  IsDictionary(Load(db)) /\ Load(db).map = db.dict /\ Load(db).gen = db.gen
<1> DEFINE S == {t \in TermId : \E g \in Grams : db.dict[g] >= t}
<1>1. Cardinality(S) \in 0 .. MaxTermId
  <2>1. S \in SUBSET TermId
    OBVIOUS
  <2>2. IsFiniteSet(TermId) /\ Cardinality(TermId) = MaxTermId
    BY IdCeilings, FS_Interval DEF TermId
  <2> QED
    BY <2>1, <2>2, FS_Subset, FS_CardinalityType
<1>2. Load(db) = [map |-> db.dict, nextTerm |-> 1 + Cardinality(S), gen |-> db.gen,
                  stats |-> ClassStats(db.dict, db.post.df)]
  BY DEF Load
<1> HIDE DEF S
<1>3. 1 + Cardinality(S) \in 1 .. MaxTermId + 1
  BY <1>1, IdCeilings
<1> QED
  BY <1>2, <1>3 DEF IsTables, IsDictionary

LEMMA StageExtends ==
  ASSUME NEW m, NEW st, IsDictionary(m), IsStage(m, st)
  PROVE  /\ Resolved(m, st) \in Dictionaries
         /\ \A g \in Grams : m.map[g] # NoTerm => Resolved(m, st)[g] = m.map[g]
BY DEF IsDictionary, IsStage, Resolved, Dictionaries

LEMMA EmptyStage ==
  ASSUME NEW m, IsDictionary(m)
  PROVE  IsStage(m, NewStage(m)) /\ Resolved(m, NewStage(m)) = m.map
<1>1. Staged(NewStage(m)) = {}
  BY DEF Staged, NewStage, EmptyDict
<1>2. NewStage(m) \in [base : 1 .. MaxTermId + 1, new : Dictionaries]
  BY DEF NewStage, IsDictionary, EmptyDict, Dictionaries
<1>3. Resolved(m, NewStage(m)) = m.map
  BY DEF Resolved, NewStage, EmptyDict, IsDictionary, Dictionaries
<1>4. NewStage(m).base + Cardinality(Staged(NewStage(m))) \in 1 .. MaxTermId + 1
  BY <1>1, FS_EmptySet DEF NewStage, IsDictionary
<1> QED
  BY <1>1, <1>2, <1>3, <1>4 DEF IsStage

-----------------------------------------------------------------------------
(* Staging.                                                                *)

LEMMA FreshIdsBelow ==
  ASSUME NEW old, NEW next, NEW G, NEW d,
         old \in Dictionaries, next \in 1 .. MaxTermId + 1,
         G \in SUBSET Grams, d \in Interned(old, next, G)
  PROVE  \A g \in Grams : d[g] # old[g] =>
           d[g] < next + Cardinality({h \in Grams : d[h] # old[h]})
<1> DEFINE fresh == {g \in G : old[g] = NoTerm}
           n     == Cardinality(fresh)
           ids   == next .. next + n - 1
<1>1. n \in Nat
  <2>1. fresh \in SUBSET Grams
    OBVIOUS
  <2> QED
    BY <2>1, Tokenizer, FS_Subset, FS_CardinalityType
<1>2. ids \subseteq TermId
  BY DEF Interned
<1>3. PICK a \in Bijection(fresh, ids) :
        d = [g \in Grams |-> IF g \in fresh THEN a[g] ELSE old[g]]
  BY <1>2 DEF Interned
<1>4. a \in [fresh -> ids]
  BY DEF Bijection, Injection
<1>5. \A g \in Grams : d[g] = IF g \in fresh THEN a[g] ELSE old[g]
  BY <1>3
<1>6. \A g \in fresh : d[g] < next + n /\ d[g] \in TermId
  BY <1>1, <1>2, <1>4, <1>5, IdCeilings
<1>7. NoTerm \notin TermId
  BY IdCeilings DEF NoTerm, TermId
<1>8. {g \in Grams : d[g] # old[g]} = fresh
  BY <1>5, <1>6, <1>7
<1> QED
  BY <1>5, <1>6, <1>8

(* Through the stages the grams of G are interned, from the next id on.    *)
InternsNext(m, st, G, s2) ==
  /\ Resolved(m, s2) \in Interned(Resolved(m, st), st.base + Cardinality(Staged(st)), G)
  /\ s2.base + Cardinality(Staged(s2))
       = st.base + Cardinality(Staged(st))
           + Cardinality({g \in Grams : Resolved(m, s2)[g] # Resolved(m, st)[g]})

(* Interning through a stage adds ids from its next one on, and leaves     *)
(* what was staged before.                                                 *)
LEMMA StagingAdds ==
  ASSUME NEW m, NEW st, NEW G, NEW s2,
         IsDictionary(m), IsStage(m, st), G \in SUBSET Grams, s2 \in Stagings(m, st, G)
  PROVE  /\ IsStage(m, s2)
         /\ s2.base = st.base
         /\ Cardinality(Staged(st)) <= Cardinality(Staged(s2))
         /\ \A g \in Staged(st) : s2.new[g] = st.new[g]
         /\ \A g \in Grams \ Staged(st) :
              s2.new[g] # NoTerm => s2.new[g] >= st.base + Cardinality(Staged(st))
         /\ InternsNext(m, st, G, s2)
<1> DEFINE old  == Resolved(m, st)
           next == st.base + Cardinality(Staged(st))
<1>1. old \in Dictionaries /\ next \in 1 .. MaxTermId + 1
  BY StageExtends DEF IsStage
<1>2. PICK d \in Interned(old, next, G) :
        s2 = [base |-> st.base,
              new  |-> [g \in Grams |-> IF m.map[g] # NoTerm THEN st.new[g] ELSE d[g]]]
  BY DEF Stagings
<1>3. /\ \A g \in Grams : m.map[g] # NoTerm => old[g] = m.map[g] /\ st.new[g] = NoTerm
      /\ \A g \in Grams : m.map[g] = NoTerm => old[g] = st.new[g]
  BY DEF Resolved, IsStage, Staged
<1> HIDE DEF old, next
<1>4. /\ d \in Dictionaries
      /\ \A g \in Grams : old[g] # NoTerm => d[g] = old[g]
      /\ \A g \in Grams : d[g] # old[g] => old[g] = NoTerm /\ d[g] >= next
      /\ next + Cardinality({g \in Grams : d[g] # old[g]}) \in 1 .. MaxTermId + 1
  <2>1. d \in Interned(old, next, G)
    OBVIOUS
  <2>2. /\ d \in Dictionaries
        /\ \A g \in Grams : old[g] # NoTerm => d[g] = old[g]
        /\ \A g \in Grams : d[g] # old[g] => old[g] = NoTerm /\ d[g] >= next
        /\ next + Cardinality({g \in Grams : d[g] # old[g]}) \in 1 .. MaxTermId + 1
    BY ONLY <1>1, <2>1, G \in SUBSET Grams, InternedProperties
  <2> QED
    BY <2>2
<1> DEFINE fresh == {g \in Grams : d[g] # old[g]}
           n == Cardinality(fresh)
<1>20. next + n \in 1 .. MaxTermId + 1
  BY <1>4
<1>5. \A g \in fresh : d[g] < next + n
  <2>1. d \in Interned(old, next, G)
    OBVIOUS
  <2> QED
    BY <1>1, <2>1, FreshIdsBelow
<1>6. /\ s2.base = st.base
      /\ \A g \in Grams : s2.new[g] = IF m.map[g] # NoTerm THEN NoTerm ELSE d[g]
      /\ s2 \in [base : 1 .. MaxTermId + 1, new : Dictionaries]
  BY <1>2, <1>3, <1>4 DEF IsStage, Dictionaries
<1>7. /\ Staged(s2) = Staged(st) \cup fresh
      /\ Staged(st) \cap fresh = {}
  BY <1>3, <1>4, <1>6 DEF Staged
<1>8. Cardinality(Staged(s2)) = Cardinality(Staged(st)) + n
  <2>1. Staged(st) \in SUBSET Grams /\ fresh \in SUBSET Grams
    BY DEF Staged
  <2>2. IsFiniteSet(Staged(st)) /\ IsFiniteSet(fresh)
    BY <2>1, Tokenizer, FS_Subset
  <2>3. Cardinality(Staged(st)) \in Nat /\ n \in Nat
    BY <2>2, FS_CardinalityType
  <2> HIDE DEF fresh
  <2>4. Cardinality(Staged(st) \cup fresh) =
          Cardinality(Staged(st)) + Cardinality(fresh) - Cardinality(Staged(st) \cap fresh)
    BY <2>2, FS_Union
  <2>5. Cardinality(Staged(st) \cap fresh) = 0
    BY <1>7, FS_EmptySet
  <2> QED
    BY <1>7, <2>3, <2>4, <2>5
<1>9. st.base \in Int /\ Cardinality(Staged(st)) \in Nat /\ n \in Nat
  <2>1. Staged(st) \in SUBSET Grams /\ fresh \in SUBSET Grams
    BY DEF Staged
  <2>2. Cardinality(Staged(st)) \in Nat /\ n \in Nat
    BY <2>1, Tokenizer, FS_Subset, FS_CardinalityType
  <2> QED
    BY <2>2 DEF IsStage
<1> HIDE DEF fresh, n
<1>10. s2.base + Cardinality(Staged(s2)) = next + n
  BY <1>6, <1>8, <1>9 DEF next
<1>11. \A g \in Staged(st) : s2.new[g] = st.new[g] /\ g \in Grams /\ m.map[g] = NoTerm
  BY <1>3, <1>4, <1>6 DEF Staged
<1>12. \A g \in Staged(s2) \ Staged(st) :
          g \in Grams /\ m.map[g] = NoTerm /\ s2.new[g] >= next /\ s2.new[g] < next + n
  BY <1>3, <1>4, <1>5, <1>6, <1>7 DEF fresh, Staged
<1>13. \A g \in Grams : s2.new[g] \in Int
  BY <1>6, IdCeilings DEF Dictionaries, TermId, NoTerm
<1>14. IsStage(m, s2)
  <2>1. ASSUME NEW g \in Staged(s2)
        PROVE  m.map[g] = NoTerm /\ s2.new[g] >= s2.base /\ s2.new[g] < next + n
    <3>1. CASE g \in Staged(st)
      <4>1. m.map[g] = NoTerm /\ st.new[g] >= st.base /\ st.new[g] < next
        BY <3>1 DEF IsStage, next
      <4>2. s2.new[g] = st.new[g] /\ s2.new[g] \in Int /\ next \in Int
        BY <3>1, <1>9, <1>11, <1>13 DEF next
      <4> QED
        BY <4>1, <4>2, <1>6, <1>9
    <3>2. CASE g \notin Staged(st)
      <4>1. m.map[g] = NoTerm /\ s2.new[g] >= next /\ s2.new[g] < next + n
        BY <3>2, <1>12
      <4>2. g \in Grams
        BY DEF Staged
      <4> QED
        BY <4>1, <4>2, <1>6, <1>9, <1>13 DEF next
    <3> QED
      BY <3>1, <3>2
  <2> QED
    BY <1>6, <1>10, <1>20, <2>1 DEF IsStage
<1>15. Cardinality(Staged(st)) <= Cardinality(Staged(s2))
  BY <1>8, <1>9
<1>16. \A g \in Grams \ Staged(st) : s2.new[g] # NoTerm => s2.new[g] >= next
  BY <1>12 DEF Staged
<1>17. Resolved(m, s2) = d
  <2>1. \A g \in Grams : (IF m.map[g] # NoTerm THEN m.map[g] ELSE s2.new[g]) = d[g]
    BY <1>3, <1>4, <1>6
  <2>2. d = [g \in Grams |-> d[g]]
    BY <1>4 DEF Dictionaries
  <2> QED
    BY <2>1, <2>2 DEF Resolved
<1>18. s2.base + Cardinality(Staged(s2))
         = next + Cardinality({g \in Grams : Resolved(m, s2)[g] # old[g]})
  BY <1>10, <1>17 DEF fresh, n
<1>19. InternsNext(m, st, G, s2)
  BY <1>2, <1>17, <1>18 DEF InternsNext, next, old
<1> QED
  BY <1>6, <1>11, <1>14, <1>15, <1>16, <1>19 DEF next

(* Undoing to a mark that the stage has not lost.                          *)
LEMMA RollbackOfAdded ==
  ASSUME NEW m, NEW st, NEW G, NEW s2, NEW k,
         IsDictionary(m), IsStage(m, st), G \in SUBSET Grams, s2 \in Stagings(m, st, G),
         k \in Nat, k <= Cardinality(Staged(st))
  PROVE  RollbackTo(s2, k) = RollbackTo(st, k)
<1> DEFINE keep(x) == [g \in Grams |-> IF x.new[g] >= x.base + k THEN NoTerm ELSE x.new[g]]
<1>1. /\ s2.base = st.base
      /\ \A g \in Staged(st) : s2.new[g] = st.new[g]
      /\ \A g \in Grams \ Staged(st) :
           s2.new[g] # NoTerm => s2.new[g] >= st.base + Cardinality(Staged(st))
      /\ IsStage(m, s2)
  BY StagingAdds
<1>2. Cardinality(Staged(st)) \in Nat
  <2>1. Staged(st) \in SUBSET Grams
    BY DEF Staged
  <2> QED
    BY <2>1, Tokenizer, FS_Subset, FS_CardinalityType
<1>3. st.base \in Nat \ {0} /\ \A g \in Grams : st.new[g] \in Nat /\ s2.new[g] \in Nat
  BY <1>1, IdCeilings DEF IsStage, Dictionaries, TermId, NoTerm
<1>4. ASSUME NEW g \in Grams
      PROVE  keep(s2)[g] = keep(st)[g]
  <2>1. CASE g \in Staged(st)
    BY <2>1, <1>1
  <2>2. CASE g \notin Staged(st)
    <3>1. st.new[g] = 0
      BY <2>2 DEF Staged, NoTerm
    <3>2. s2.new[g] = 0 \/ s2.new[g] >= st.base + k
      BY <2>2, <1>1, <1>2, <1>3 DEF NoTerm
    <3> QED
      BY <3>1, <3>2, <1>1, <1>3 DEF NoTerm
  <2> QED
    BY <2>1, <2>2
<1>5. keep(s2) = keep(st)
  BY <1>4
<1> QED
  BY <1>1, <1>5 DEF RollbackTo

LEMMA RollbackToAll ==
  ASSUME NEW m, NEW st, IsDictionary(m), IsStage(m, st)
  PROVE  RollbackTo(st, Cardinality(Staged(st))) = st
<1> DEFINE k == Cardinality(Staged(st))
           keep == [g \in Grams |-> IF st.new[g] >= st.base + k THEN NoTerm ELSE st.new[g]]
<1>1. k \in Nat
  <2>1. Staged(st) \in SUBSET Grams
    BY DEF Staged
  <2> QED
    BY <2>1, Tokenizer, FS_Subset, FS_CardinalityType
<1>2. st.base \in Nat \ {0} /\ \A g \in Grams : st.new[g] \in Nat
  BY IdCeilings DEF IsStage, Dictionaries, TermId, NoTerm
<1>3. \A g \in Staged(st) : st.new[g] < st.base + k
  BY DEF IsStage
<1> HIDE DEF k
<1>4. \A g \in Grams : keep[g] = st.new[g]
  <2>1. \A g \in Grams \ Staged(st) : st.new[g] = NoTerm
    BY DEF Staged
  <2> QED
    BY <1>1, <1>2, <1>3, <2>1 DEF NoTerm
<1>5. keep = st.new
  BY <1>4 DEF IsStage, Dictionaries
<1>6. [base |-> st.base, new |-> st.new] = st
  BY DEF IsStage
<1> QED
  BY <1>5, <1>6 DEF RollbackTo, k

-----------------------------------------------------------------------------
(* The inductive invariant.                                                *)

(* One thread at most is past the mutex.                                   *)
Control ==
  /\ pc \in [Threads -> PCs]
  /\ holder \in Threads \cup {NoThread}
  /\ \A p \in Threads : pc[p] \in Holding <=> holder = p

(* The memory is behind exactly when a rebuild's reload is to come; while  *)
(* it is poisoned no thread is past the check of the flag.                 *)
Generations ==
  /\ IsTables(disk) /\ IsDictionary(mem) /\ poisoned \in BOOLEAN
  /\ mem.gen <= disk.gen
  /\ poisoned => \A p \in Threads : pc[p] \in {"idle", "loading"}
  /\ poisoned \/ (\E p \in Threads : pc[p] = "loading") => mem.gen < disk.gen

(* Otherwise it is the committed dictionary, but for a merge under way.    *)
Settled ==
  ~poisoned /\ (\A p \in Threads : pc[p] # "loading") =>
    /\ mem.gen = disk.gen
    /\ (\A p \in Threads : pc[p] # "merging") => mem.map = disk.dict

Merging ==
  \A p \in Threads :
    /\ pc[p] = "merging" => IsStage(mem, stage) /\ disk.dict = Resolved(mem, stage)
    /\ pc[p] = "reopening" => stage = NewStage(mem)
    /\ pc[p] \in {"merging", "merged", "reopening"} => ~txnOpen

(* Tables db of the transaction hold the rows of exactly what st stages.   *)
Matches(db, st) ==
  /\ IsTables(db) /\ db.gen = disk.gen
  /\ IsStage(mem, st) /\ db.dict = Resolved(mem, st)

Transaction ==
  /\ txn # NoTxn => /\ \E p \in Threads : pc[p] \in {"leased", "in_call"}
                    /\ Matches(txn, stage)
  /\ txnOpen /\ (\E p \in Threads : pc[p] = "leased") => txn # NoTxn

InCall ==
  (\E p \in Threads : pc[p] = "in_call") =>
    /\ txn # NoTxn /\ txnOpen
    /\ call.saved # NoTxn
    /\ call.stageMark \in Nat /\ call.stageMark <= Cardinality(Staged(stage))
    /\ Matches(call.saved, RollbackTo(stage, call.stageMark))
    /\ call \in [key : {call.key}, doc : Docs, todo : SUBSET DOMAIN call.doc,
                 saved : {call.saved}, stageMark : {call.stageMark},
                 dfMark : {call.dfMark}, add : {call.add}, remove : {call.remove}]

LeaseInv ==
  /\ Control
  /\ Generations
  /\ Settled
  /\ Merging
  /\ Transaction
  /\ InCall

-----------------------------------------------------------------------------
(* What the invariant says to the thread that is past the mutex.           *)

LEMMA Alone ==
  ASSUME Control, NEW p \in Threads, pc[p] \in Holding
  PROVE  holder = p /\ \A q \in Threads : pc[q] \in Holding => q = p
BY DEF Control

LEMMA Moved ==
  ASSUME Control, NEW p \in Threads, NEW to \in PCs, Goto(p, to)
  PROVE  /\ pc' \in [Threads -> PCs]
         /\ \A q \in Threads : pc'[q] = IF q = p THEN to ELSE pc[q]
BY DEF Control, Goto

(* Moving within the holding steps, or outside of them, keeps Control.     *)
LEMMA MovedControl ==
  ASSUME Control, NEW p \in Threads, NEW to \in PCs, Goto(p, to),
         \/ pc[p] \in Holding /\ to \in Holding /\ holder' = holder
         \/ pc[p] \notin Holding /\ to \notin Holding /\ holder' = holder
         \/ pc[p] \notin Holding /\ to \in Holding /\ holder = NoThread /\ holder' = p
         \/ pc[p] \in Holding /\ to \notin Holding /\ holder' = NoThread
  PROVE  Control'
<1>1. /\ pc' \in [Threads -> PCs]
      /\ \A q \in Threads : pc'[q] = IF q = p THEN to ELSE pc[q]
  BY Moved
<1> QED
  BY <1>1, Idle DEF Control

(* The lease sees the committed dictionary through the map and the stage.  *)
LEMMA LeaseSettled ==
  ASSUME LeaseInv, NEW p \in Threads,
         pc[p] \in {"leased", "in_call", "merged", "reopening", "failed"}
  PROVE  ~poisoned /\ mem.gen = disk.gen /\ mem.map = disk.dict
<1>1. pc[p] \in Holding /\ pc[p] \notin {"loading", "merging", "idle"}
  BY DEF Holding
<1>2. \A q \in Threads : pc[q] \notin {"loading", "merging"}
  BY <1>1, Alone DEF LeaseInv, Holding
<1>3. ~poisoned
  BY <1>1 DEF LeaseInv, Generations
<1> QED
  BY <1>2, <1>3 DEF LeaseInv, Settled

-----------------------------------------------------------------------------

LEMMA InitLease == Init => LeaseInv
<1> SUFFICES ASSUME Init PROVE LeaseInv
  OBVIOUS
<1>1. /\ disk = [segs |-> NoSegments, post |-> NoPostings, dict |-> EmptyDict, gen |-> 0]
      /\ mem = Load(disk) /\ poisoned = FALSE /\ holder = NoThread
      /\ pc = [p \in Threads |-> "idle"] /\ txn = NoTxn
  BY DEF Init
<1>2. IsTables(disk)
  BY <1>1, EmptyDictType DEF IsTables
<1>3. IsDictionary(mem) /\ mem.map = disk.dict /\ mem.gen = disk.gen
  BY <1>1, <1>2, LoadType
<1>4. Control
  BY <1>1, Idle DEF Control, PCs, Holding
<1>5. Generations
  <2>1. mem.gen <= disk.gen
    BY <1>1, <1>3
  <2>2. \A p \in Threads : pc[p] # "loading"
    BY <1>1
  <2> QED
    BY <1>1, <1>2, <1>3, <2>1, <2>2 DEF Generations
<1>6. Settled /\ Merging /\ Transaction /\ InCall
  BY <1>1, <1>3 DEF Settled, Merging, Transaction, InCall
<1> QED
  BY <1>4, <1>5, <1>6 DEF LeaseInv

LEMMA CheckPoisonedInv ==
  ASSUME LeaseInv, NEW p \in Threads, CheckPoisoned(p) PROVE LeaseInv'
<1>1. PICK next \in {"want_writer", "want_compact"} : Goto(p, next)
  BY DEF CheckPoisoned
<1>2. /\ pc[p] = "idle" /\ pc[p] \notin Holding /\ next \in PCs /\ next \notin Holding
      /\ ~poisoned
      /\ UNCHANGED <<disk, mem, poisoned, holder, txn, txnOpen, stage, pending, call>>
  BY DEF CheckPoisoned, lease, Holding, PCs
<1>3. Control'
  BY <1>1, <1>2, MovedControl DEF LeaseInv
<1>4. \A q \in Threads : /\ pc'[q] \in Holding <=> pc[q] \in Holding
                         /\ pc'[q] \in Holding => pc'[q] = pc[q]
  BY <1>1, <1>2, Moved DEF LeaseInv
<1>5. \A q \in Threads, h \in Holding : pc'[q] = h <=> pc[q] = h
  BY <1>4
<1>6. Generations' /\ Settled'
  BY <1>2, <1>5 DEF LeaseInv, Generations, Settled, Holding
<1>7. Merging' /\ Transaction' /\ InCall'
  BY <1>2, <1>5 DEF LeaseInv, Merging, Transaction, Matches, InCall, Holding
<1> QED
  BY <1>3, <1>6, <1>7 DEF LeaseInv

LEMMA BeginInv ==
  ASSUME LeaseInv, NEW p \in Threads, Begin(p) PROVE LeaseInv'
<1>1. /\ pc[p] = "want_writer" /\ holder = NoThread /\ holder' = p
      /\ txn' = disk /\ txnOpen' = TRUE /\ stage' = NewStage(mem)
      /\ Goto(p, "leased") /\ UNCHANGED <<disk, mem, poisoned, pending, call>>
  BY DEF Begin
<1>2. pc[p] \notin Holding /\ "leased" \in Holding /\ "leased" \in PCs
  BY <1>1 DEF Holding, PCs
<1>3. Control'
  BY <1>1, <1>2, MovedControl DEF LeaseInv
<1>4. \A q \in Threads : pc[q] \notin Holding
  BY <1>1, Idle DEF LeaseInv, Control
<1>5. \A q \in Threads : pc'[q] = IF q = p THEN "leased" ELSE pc[q]
  BY <1>1, <1>2, Moved DEF LeaseInv
<1>6. ~poisoned
  BY <1>1 DEF LeaseInv, Generations
<1>7. mem.gen = disk.gen /\ mem.map = disk.dict
  BY <1>4, <1>6 DEF LeaseInv, Settled, Holding
<1>8. Generations' /\ Settled'
  BY <1>1, <1>4, <1>5, <1>6, <1>7 DEF LeaseInv, Generations, Settled, Holding
<1>9. Merging' /\ InCall'
  BY <1>4, <1>5 DEF Merging, InCall, Holding
<1>10. IsTables(disk) /\ disk # NoTxn /\ IsStage(mem, NewStage(mem))
       /\ Resolved(mem, NewStage(mem)) = mem.map
  BY NoTxnIsNoTables, EmptyStage DEF LeaseInv, Generations
<1>11. Transaction'
  BY <1>1, <1>5, <1>7, <1>10 DEF Transaction, Matches
<1> QED
  BY <1>3, <1>8, <1>9, <1>11 DEF LeaseInv

LEMMA UpsertInv ==
  ASSUME LeaseInv, NEW p \in Threads, NEW k \in Keys, NEW doc \in Docs, Upsert(p, k, doc)
  PROVE  LeaseInv'
<1>1. /\ pc[p] = "leased" /\ txnOpen
      /\ call' = [key |-> k, doc |-> doc, todo |-> DOMAIN doc, saved |-> txn,
                  stageMark |-> Cardinality(Staged(stage)), dfMark |-> Len(pending),
                  add |-> NoChange, remove |-> NoChange]
      /\ txn' = View /\ Goto(p, "in_call")
      /\ UNCHANGED <<disk, mem, poisoned, holder, txnOpen, stage, pending>>
  BY DEF Upsert
<1>2. pc[p] \in Holding /\ "in_call" \in Holding /\ "in_call" \in PCs
  BY <1>1 DEF Holding, PCs
<1>3. txn # NoTxn /\ txn' = txn /\ Matches(txn, stage)
  BY <1>1 DEF LeaseInv, Transaction, View
<1>4. Control'
  BY <1>1, <1>2, MovedControl DEF LeaseInv
<1>5. \A q \in Threads : q # p => pc[q] \notin Holding
  BY <1>2, Alone DEF LeaseInv
<1>6. \A q \in Threads : pc'[q] = IF q = p THEN "in_call" ELSE pc[q]
  BY <1>1, <1>2, Moved DEF LeaseInv
<1>7. Generations' /\ Settled'
  BY <1>1, <1>5, <1>6, LeaseSettled DEF LeaseInv, Generations, Settled, Holding
<1>8. Merging'
  BY <1>5, <1>6 DEF Merging, Holding
<1>9. Transaction'
  BY <1>1, <1>3, <1>5, <1>6 DEF Transaction, Matches, Holding
<1>10. InCall'
  <2>1. RollbackTo(stage, Cardinality(Staged(stage))) = stage
    BY <1>3, RollbackToAll DEF LeaseInv, Generations, Matches
  <2>2. Cardinality(Staged(stage)) \in Nat
    <3>1. Staged(stage) \in SUBSET Grams
      BY DEF Staged
    <3> QED
      BY <3>1, Tokenizer, FS_Subset, FS_CardinalityType
  <2>3. /\ call'.saved = txn /\ call'.stageMark = Cardinality(Staged(stage))
        /\ call'.todo \in SUBSET DOMAIN call'.doc /\ call'.doc \in Docs
    BY <1>1
  <2>4. call' \in [key : {call'.key}, doc : Docs, todo : SUBSET DOMAIN call'.doc,
                   saved : {call'.saved}, stageMark : {call'.stageMark},
                   dfMark : {call'.dfMark}, add : {call'.add}, remove : {call'.remove}]
    BY <1>1
  <2> QED
    BY <1>1, <1>3, <2>1, <2>2, <2>3, <2>4 DEF InCall, Matches
<1> QED
  BY <1>4, <1>7, <1>8, <1>9, <1>10 DEF LeaseInv

(* A step inside a call that leaves the committed tables and the memory.   *)
LEMMA WriteSegmentInv ==
  ASSUME LeaseInv, NEW p \in Threads, NEW l \in Labels, WriteSegment(p, l)
  PROVE  LeaseInv'
<1> DEFINE text == call.doc[l]
           G    == GramsOf[text]
<1>1. /\ pc[p] = "in_call" /\ l \in call.todo
      /\ UNCHANGED <<disk, mem, poisoned, holder, pc, txnOpen, pending>>
  BY DEF WriteSegment
<1>2. /\ txn # NoTxn /\ txnOpen /\ Matches(txn, stage)
      /\ IsTables(txn) /\ IsStage(mem, stage) /\ IsDictionary(mem)
      /\ txn.dict = Resolved(mem, stage)
      /\ call.saved # NoTxn
      /\ call.stageMark \in Nat /\ call.stageMark <= Cardinality(Staged(stage))
      /\ Matches(call.saved, RollbackTo(stage, call.stageMark))
      /\ call \in [key : {call.key}, doc : Docs, todo : SUBSET DOMAIN call.doc,
                   saved : {call.saved}, stageMark : {call.stageMark},
                   dfMark : {call.dfMark}, add : {call.add}, remove : {call.remove}]
  BY <1>1 DEF LeaseInv, Generations, Transaction, InCall, Matches
<1>3. G \in SUBSET Grams
  <2>1. text \in Texts
    BY <1>1, <1>2 DEF Docs
  <2> QED
    BY <2>1, Tokenizer
<1>4. PICK st, sg, add, remove :
        /\ st \in Stagings(mem, stage, G)
        /\ stage' = st
        /\ txn' = [txn EXCEPT !.segs = sg, !.dict = WithStaged(txn.dict, stage, st)]
        /\ call' = [call EXCEPT !.todo = call.todo \ {l}, !.add = add, !.remove = remove]
  BY DEF WriteSegment
<1> HIDE DEF G
<1>5. /\ IsStage(mem, st)
      /\ Cardinality(Staged(stage)) <= Cardinality(Staged(st))
      /\ \A g \in Staged(stage) : st.new[g] = stage.new[g]
  <2>1. st \in Stagings(mem, stage, G)
    BY <1>4
  <2> QED
    BY <1>2, <1>3, <2>1, StagingAdds
<1>6. RollbackTo(st, call.stageMark) = RollbackTo(stage, call.stageMark)
  <2>1. st \in Stagings(mem, stage, G)
    BY <1>4
  <2> QED
    BY <1>2, <1>3, <2>1, RollbackOfAdded
<1>7. WithStaged(txn.dict, stage, st) = Resolved(mem, st)
  <2>1. \A g \in Grams :
          (IF g \in Staged(st) \ Staged(stage) THEN st.new[g] ELSE Resolved(mem, stage)[g])
            = Resolved(mem, st)[g]
    <3> SUFFICES ASSUME NEW g \in Grams
                 PROVE  (IF g \in Staged(st) \ Staged(stage) THEN st.new[g]
                         ELSE Resolved(mem, stage)[g]) = Resolved(mem, st)[g]
      OBVIOUS
    <3>1. /\ Resolved(mem, stage)[g] = IF mem.map[g] # NoTerm THEN mem.map[g] ELSE stage.new[g]
          /\ Resolved(mem, st)[g] = IF mem.map[g] # NoTerm THEN mem.map[g] ELSE st.new[g]
      BY DEF Resolved
    <3>2. CASE g \in Staged(st) \ Staged(stage)
      BY <3>1, <3>2, <1>5 DEF IsStage
    <3>3. CASE g \in Staged(stage)
      BY <3>1, <3>3, <1>5
    <3>4. CASE g \notin Staged(st) /\ g \notin Staged(stage)
      BY <3>1, <3>4 DEF Staged
    <3> QED
      BY <3>2, <3>3, <3>4
  <2>2. WithStaged(txn.dict, stage, st) =
          [g \in Grams |-> IF g \in Staged(st) \ Staged(stage) THEN st.new[g]
                           ELSE Resolved(mem, stage)[g]]
    BY <1>2 DEF WithStaged
  <2>3. Resolved(mem, st) = [g \in Grams |-> Resolved(mem, st)[g]]
    BY DEF Resolved
  <2> QED
    BY <2>1, <2>2, <2>3
<1>8. Resolved(mem, st) \in Dictionaries
  BY <1>2, <1>5, StageExtends
<1>9. txn' = [txn EXCEPT !.segs = sg, !.dict = Resolved(mem, st)]
  BY <1>4, <1>7
<1>10. /\ txn'.dict = Resolved(mem, st) /\ txn'.gen = txn.gen
       /\ IsTables(txn')
  BY <1>2, <1>8, <1>9 DEF IsTables
<1>11. Matches(txn, stage)' /\ txn' # NoTxn
  BY <1>1, <1>2, <1>4, <1>5, <1>10, NoTxnIsNoTables DEF Matches
<1>12. /\ call'.saved = call.saved /\ call'.stageMark = call.stageMark
       /\ call' \in [key : {call'.key}, doc : Docs, todo : SUBSET DOMAIN call'.doc,
                     saved : {call'.saved}, stageMark : {call'.stageMark},
                     dfMark : {call'.dfMark}, add : {call'.add}, remove : {call'.remove}]
  BY <1>2, <1>4
<1>13. \A q \in Threads : q # p => pc[q] \notin Holding
  BY <1>1, Alone DEF LeaseInv, Holding
<1>14. Control' /\ Generations' /\ Settled' /\ Merging'
  <2>1. Control' /\ Generations' /\ Settled'
    BY <1>1 DEF LeaseInv, Control, Generations, Settled
  <2>2. Merging'
    BY <1>1, <1>13 DEF Merging, Holding
  <2> QED
    BY <2>1, <2>2
<1>15. Transaction'
  BY <1>1, <1>11 DEF Transaction, Matches
<1>16. InCall'
  <2>1. call.stageMark <= Cardinality(Staged(st))
    <3>1. Cardinality(Staged(stage)) \in Nat /\ Cardinality(Staged(st)) \in Nat
      <4>1. Staged(stage) \in SUBSET Grams /\ Staged(st) \in SUBSET Grams
        BY DEF Staged
      <4> QED
        BY <4>1, Tokenizer, FS_Subset, FS_CardinalityType
    <3> QED
      BY <1>2, <1>5, <3>1
  <2> QED
    BY <1>1, <1>2, <1>4, <1>6, <1>11, <1>12, <2>1 DEF InCall, Matches
<1> QED
  BY <1>14, <1>15, <1>16 DEF LeaseInv

LEMMA FinishUpsertInv ==
  ASSUME LeaseInv, NEW p \in Threads, FinishUpsert(p) PROVE LeaseInv'
<1>1. /\ pc[p] = "in_call" /\ Goto(p, "leased")
      /\ UNCHANGED <<mem, poisoned, holder, txnOpen, stage>>
  BY DEF FinishUpsert
<1>2. pc[p] \in Holding /\ "leased" \in Holding /\ "leased" \in PCs
  BY <1>1 DEF Holding, PCs
<1>3. txn # NoTxn /\ call.saved # NoTxn /\ Matches(txn, stage)
  BY <1>1 DEF LeaseInv, Transaction, InCall
<1>4. PICK ps : txn' = [txn EXCEPT !.post = ps] /\ disk' = disk
  BY <1>3 DEF FinishUpsert, Release
<1>5. txn'.dict = txn.dict /\ txn'.gen = txn.gen /\ IsTables(txn') /\ txn' # NoTxn
  <2>1. txn'.dict = txn.dict /\ txn'.gen = txn.gen /\ IsTables(txn')
    BY <1>3, <1>4 DEF IsTables, Matches
  <2> QED
    BY <2>1, NoTxnIsNoTables
<1>6. Control'
  BY <1>1, <1>2, MovedControl DEF LeaseInv
<1>7. \A q \in Threads : q # p => pc[q] \notin Holding
  BY <1>2, Alone DEF LeaseInv
<1>8. \A q \in Threads : pc'[q] = IF q = p THEN "leased" ELSE pc[q]
  BY <1>1, <1>2, Moved DEF LeaseInv
<1>9. Generations' /\ Settled'
  BY <1>1, <1>4, <1>7, <1>8, LeaseSettled DEF LeaseInv, Generations, Settled, Holding
<1>10. Merging' /\ InCall'
  BY <1>7, <1>8 DEF Merging, InCall, Holding
<1>11. Transaction'
  BY <1>1, <1>3, <1>4, <1>5, <1>8 DEF Transaction, Matches
<1> QED
  BY <1>6, <1>9, <1>10, <1>11 DEF LeaseInv

LEMMA CallFailsInv ==
  ASSUME LeaseInv, NEW p \in Threads, CallFails(p) PROVE LeaseInv'
<1>1. /\ pc[p] = "in_call" /\ Goto(p, "leased")
      /\ \/ txn' = call.saved /\ txnOpen' = txnOpen
         \/ txn' = NoTxn /\ txnOpen' = FALSE
      /\ stage' = RollbackTo(stage, call.stageMark)
      /\ UNCHANGED <<disk, mem, poisoned, holder>>
  BY DEF CallFails
<1>2. pc[p] \in Holding /\ "leased" \in Holding /\ "leased" \in PCs
  BY <1>1 DEF Holding, PCs
<1>3. call.saved # NoTxn /\ Matches(call.saved, RollbackTo(stage, call.stageMark))
  BY <1>1 DEF LeaseInv, InCall
<1>4. Control'
  BY <1>1, <1>2, MovedControl DEF LeaseInv
<1>5. \A q \in Threads : q # p => pc[q] \notin Holding
  BY <1>2, Alone DEF LeaseInv
<1>6. \A q \in Threads : pc'[q] = IF q = p THEN "leased" ELSE pc[q]
  BY <1>1, <1>2, Moved DEF LeaseInv
<1>7. Generations' /\ Settled'
  BY <1>1, <1>5, <1>6, LeaseSettled DEF LeaseInv, Generations, Settled, Holding
<1>8. Merging' /\ InCall'
  BY <1>5, <1>6 DEF Merging, InCall, Holding
<1>9. Transaction'
  BY <1>1, <1>3, <1>6 DEF Transaction, Matches
<1> QED
  BY <1>4, <1>7, <1>8, <1>9 DEF LeaseInv

LEMMA DropCallInv ==
  ASSUME LeaseInv, NEW p \in Threads, pc[p] = "leased", txnOpen, NEW S, DropCall(p, S)
  PROVE  LeaseInv'
<1>1. /\ txn # NoTxn /\ View = txn /\ Matches(txn, stage)
      /\ UNCHANGED <<mem, poisoned, holder, pc, txnOpen, stage, call>>
  BY DEF LeaseInv, Transaction, View, DropCall
<1>2. PICK sg, ps : txn' = [txn EXCEPT !.segs = sg, !.post = ps] /\ disk' = disk
  BY <1>1 DEF DropCall, Release
<1>3. txn'.dict = txn.dict /\ txn'.gen = txn.gen /\ IsTables(txn') /\ txn' # NoTxn
  <2>1. txn'.dict = txn.dict /\ txn'.gen = txn.gen /\ IsTables(txn')
    BY <1>1, <1>2 DEF IsTables, Matches
  <2> QED
    BY <2>1, NoTxnIsNoTables
<1>4. \A q \in Threads : pc[q] # "in_call"
  <2>1. pc[p] \in Holding
    BY DEF Holding
  <2> QED
    BY <2>1, Alone DEF LeaseInv, Holding
<1>5. Control' /\ Generations' /\ Settled'
  BY <1>1, <1>2 DEF LeaseInv, Control, Generations, Settled
<1>6. Merging' /\ InCall'
  BY <1>1, <1>2, <1>4 DEF LeaseInv, Merging, InCall
<1>7. Transaction'
  BY <1>1, <1>2, <1>3 DEF LeaseInv, Transaction, Matches
<1> QED
  BY <1>5, <1>6, <1>7 DEF LeaseInv

LEMMA CommitSqlInv ==
  ASSUME LeaseInv, NEW p \in Threads, CommitSql(p) PROVE LeaseInv'
<1>1. /\ pc[p] = "leased" /\ txn # NoTxn /\ disk' = txn /\ txn' = NoTxn
      /\ txnOpen' = FALSE /\ Goto(p, "merging")
      /\ UNCHANGED <<mem, poisoned, holder, stage, pending, call>>
  BY DEF CommitSql
<1>2. pc[p] \in Holding /\ "merging" \in Holding /\ "merging" \in PCs
  BY <1>1 DEF Holding, PCs
<1>3. Matches(txn, stage)
  BY <1>1 DEF LeaseInv, Transaction
<1>4. Control'
  BY <1>1, <1>2, MovedControl DEF LeaseInv
<1>5. \A q \in Threads : q # p => pc[q] \notin Holding
  BY <1>2, Alone DEF LeaseInv
<1>6. \A q \in Threads : pc'[q] = IF q = p THEN "merging" ELSE pc[q]
  BY <1>1, <1>2, Moved DEF LeaseInv
<1>7. ~poisoned /\ mem.gen = disk.gen
  BY <1>1, LeaseSettled
<1>8. Generations'
  BY <1>1, <1>3, <1>5, <1>6, <1>7 DEF LeaseInv, Generations, Matches, Holding
<1>9. Settled'
  BY <1>1, <1>3, <1>6, <1>7 DEF Settled, Matches
<1>10. Merging' /\ InCall'
  BY <1>1, <1>3, <1>5, <1>6 DEF Merging, InCall, Matches, Holding
<1>11. Transaction'
  BY <1>1 DEF Transaction
<1> QED
  BY <1>4, <1>8, <1>9, <1>10, <1>11 DEF LeaseInv

LEMMA CommitFailsInv ==
  ASSUME LeaseInv, ~ReuseFailedWriter, NEW p \in Threads, CommitFails(p) PROVE LeaseInv'
<1>1. /\ pc[p] = "leased" /\ txn' = NoTxn /\ Goto(p, "failed")
      /\ UNCHANGED <<disk, mem, poisoned, holder, txnOpen, stage, pending, call>>
  BY DEF CommitFails
<1>2. pc[p] \in Holding /\ "failed" \in Holding /\ "failed" \in PCs
  BY <1>1 DEF Holding, PCs
<1>3. Control'
  BY <1>1, <1>2, MovedControl DEF LeaseInv
<1>4. \A q \in Threads : q # p => pc[q] \notin Holding
  BY <1>2, Alone DEF LeaseInv
<1>5. \A q \in Threads : pc'[q] = IF q = p THEN "failed" ELSE pc[q]
  BY <1>1, <1>2, Moved DEF LeaseInv
<1>6. Generations' /\ Settled'
  BY <1>1, <1>4, <1>5, LeaseSettled DEF LeaseInv, Generations, Settled, Holding
<1>7. Merging' /\ InCall'
  BY <1>4, <1>5 DEF Merging, InCall, Holding
<1>8. Transaction'
  BY <1>1, <1>4, <1>5 DEF Transaction, Holding
<1> QED
  BY <1>3, <1>6, <1>7, <1>8 DEF LeaseInv

LEMMA MergeStageInv ==
  ASSUME LeaseInv, NEW p \in Threads, MergeStage(p) PROVE LeaseInv'
<1>1. /\ pc[p] = "merging" /\ mem' = Merge(mem, stage) /\ Goto(p, "merged")
      /\ UNCHANGED <<disk, poisoned, holder, txn, txnOpen, stage, pending, call>>
  BY DEF MergeStage, lease
<1>2. pc[p] \in Holding /\ "merged" \in Holding /\ "merged" \in PCs
  BY <1>1 DEF Holding, PCs
<1>3. /\ IsDictionary(mem) /\ IsStage(mem, stage) /\ disk.dict = Resolved(mem, stage)
      /\ IsTables(disk)
  BY <1>1 DEF LeaseInv, Generations, Merging
<1>4. IsDictionary(mem') /\ mem'.map = disk.dict /\ mem'.gen = mem.gen
  <2> DEFINE next == IF Staged(stage) = {} THEN mem.nextTerm
                     ELSE stage.base + Cardinality(Staged(stage))
  <2>1. next \in 1 .. MaxTermId + 1 /\ Resolved(mem, stage) \in Dictionaries
    BY <1>3, StageExtends DEF IsDictionary, IsStage
  <2>2. mem' = [mem EXCEPT !.map = Resolved(mem, stage), !.nextTerm = next]
    BY <1>1 DEF Merge
  <2> HIDE DEF next
  <2> QED
    BY <1>3, <2>1, <2>2 DEF IsDictionary
<1>5. Control'
  BY <1>1, <1>2, MovedControl DEF LeaseInv
<1>6. \A q \in Threads : q # p => pc[q] \notin Holding
  BY <1>2, Alone DEF LeaseInv
<1>7. \A q \in Threads : pc'[q] = IF q = p THEN "merged" ELSE pc[q]
  BY <1>1, <1>2, Moved DEF LeaseInv
<1>8. ~poisoned /\ mem.gen = disk.gen
  <2>1. ~poisoned
    BY <1>1 DEF LeaseInv, Generations
  <2>2. \A q \in Threads : pc[q] # "loading"
    BY <1>1, <1>6 DEF Holding
  <2> QED
    BY <2>1, <2>2 DEF LeaseInv, Settled
<1>9. Generations' /\ Settled'
  BY <1>1, <1>3, <1>4, <1>6, <1>7, <1>8 DEF LeaseInv, Generations, Settled, Holding
<1>10. Merging' /\ InCall'
  BY <1>1, <1>6, <1>7 DEF LeaseInv, Merging, InCall, Holding
<1>11. Transaction'
  <2>1. txn = NoTxn
    BY <1>1, <1>6 DEF LeaseInv, Transaction, Holding
  <2> QED
    BY <1>1, <1>6, <1>7, <2>1 DEF Transaction, Holding
<1> QED
  BY <1>5, <1>9, <1>10, <1>11 DEF LeaseInv

LEMMA ApplyDfChangesInv ==
  ASSUME LeaseInv, NEW p \in Threads, ApplyDfChanges(p) PROVE LeaseInv'
<1>1. PICK stats :
        /\ pc[p] = "merged" /\ mem' = [mem EXCEPT !.stats = stats] /\ Goto(p, "reopening")
        /\ stage' = NewStage(mem)
        /\ UNCHANGED <<disk, poisoned, holder, txn, txnOpen, call>>
  BY DEF ApplyDfChanges
<1>2. pc[p] \in Holding /\ "reopening" \in Holding /\ "reopening" \in PCs
  BY <1>1 DEF Holding, PCs
<1>3. /\ IsDictionary(mem') /\ mem'.map = mem.map /\ mem'.gen = mem.gen
      /\ mem'.nextTerm = mem.nextTerm
  BY <1>1 DEF LeaseInv, Generations, IsDictionary
<1>4. Control'
  BY <1>1, <1>2, MovedControl DEF LeaseInv
<1>5. \A q \in Threads : q # p => pc[q] \notin Holding
  BY <1>2, Alone DEF LeaseInv
<1>6. \A q \in Threads : pc'[q] = IF q = p THEN "reopening" ELSE pc[q]
  BY <1>1, <1>2, Moved DEF LeaseInv
<1>7. ~poisoned /\ mem.gen = disk.gen /\ mem.map = disk.dict
  BY <1>1, LeaseSettled
<1>8. Generations' /\ Settled'
  BY <1>1, <1>3, <1>5, <1>6, <1>7 DEF LeaseInv, Generations, Settled, Holding
<1>9. Merging' /\ InCall'
  BY <1>1, <1>3, <1>5, <1>6 DEF LeaseInv, Merging, InCall, NewStage, Holding
<1>10. Transaction'
  <2>1. txn = NoTxn
    BY <1>1, <1>5 DEF LeaseInv, Transaction, Holding
  <2> QED
    BY <1>1, <1>5, <1>6, <2>1 DEF Transaction, Holding
<1> QED
  BY <1>4, <1>8, <1>9, <1>10 DEF LeaseInv

LEMMA BeginNextInv ==
  ASSUME LeaseInv, NEW p \in Threads, BeginNext(p) PROVE LeaseInv'
<1>1. /\ pc[p] = "reopening" /\ Goto(p, "leased")
      /\ \/ txn' = disk /\ txnOpen' = TRUE
         \/ txn' = txn /\ txnOpen' = txnOpen
      /\ UNCHANGED <<disk, mem, poisoned, holder, stage, pending, call>>
  BY DEF BeginNext
<1>2. pc[p] \in Holding /\ "leased" \in Holding /\ "leased" \in PCs
  BY <1>1 DEF Holding, PCs
<1>3. Control'
  BY <1>1, <1>2, MovedControl DEF LeaseInv
<1>4. \A q \in Threads : q # p => pc[q] \notin Holding
  BY <1>2, Alone DEF LeaseInv
<1>5. \A q \in Threads : pc'[q] = IF q = p THEN "leased" ELSE pc[q]
  BY <1>1, <1>2, Moved DEF LeaseInv
<1>6. ~poisoned /\ mem.gen = disk.gen /\ mem.map = disk.dict
  BY <1>1, LeaseSettled
<1>7. Generations' /\ Settled'
  BY <1>1, <1>4, <1>5, <1>6 DEF LeaseInv, Generations, Settled, Holding
<1>8. Merging' /\ InCall'
  BY <1>4, <1>5 DEF Merging, InCall, Holding
<1>9. /\ stage = NewStage(mem) /\ IsTables(disk) /\ disk # NoTxn
      /\ IsStage(mem, stage) /\ Resolved(mem, stage) = mem.map
  BY <1>1, NoTxnIsNoTables, EmptyStage DEF LeaseInv, Generations, Merging
<1>10. txn = NoTxn /\ ~txnOpen
  BY <1>1, <1>4 DEF LeaseInv, Transaction, Merging, Holding
<1>11. Transaction'
  <2>1. CASE txn' = disk /\ txnOpen' = TRUE
    BY <2>1, <1>1, <1>5, <1>6, <1>9 DEF Transaction, Matches
  <2>2. CASE txn' = txn /\ txnOpen' = txnOpen
    BY <2>2, <1>10 DEF Transaction
  <2> QED
    BY <1>1, <2>1, <2>2
<1> QED
  BY <1>3, <1>7, <1>8, <1>11 DEF LeaseInv

LEMMA DropWriterInv ==
  ASSUME LeaseInv, NEW p \in Threads, DropWriter(p) PROVE LeaseInv'
<1>1. /\ pc[p] \in {"leased", "failed"} /\ holder' = NoThread /\ Goto(p, "idle")
      /\ txn' = NoTxn /\ txnOpen' = FALSE
      /\ UNCHANGED <<disk, mem, poisoned>>
  BY DEF DropWriter, NoLease
<1>2. pc[p] \in Holding /\ "idle" \notin Holding /\ "idle" \in PCs
  BY <1>1 DEF Holding, PCs
<1>3. Control'
  BY <1>1, <1>2, MovedControl DEF LeaseInv
<1>4. \A q \in Threads : q # p => pc[q] \notin Holding
  BY <1>2, Alone DEF LeaseInv
<1>5. \A q \in Threads : pc'[q] = IF q = p THEN "idle" ELSE pc[q]
  BY <1>1, <1>2, Moved DEF LeaseInv
<1>6. Generations' /\ Settled'
  BY <1>1, <1>4, <1>5, LeaseSettled DEF LeaseInv, Generations, Settled, Holding
<1>7. Merging' /\ InCall' /\ Transaction'
  BY <1>1, <1>4, <1>5 DEF Merging, InCall, Transaction, Holding
<1> QED
  BY <1>3, <1>6, <1>7 DEF LeaseInv

-----------------------------------------------------------------------------
(* Maintenance and crashes.                                                *)

(* With the lock free there is no open transaction.                        *)
LEMMA FreeLock ==
  ASSUME LeaseInv, holder = NoThread
  PROVE  txn = NoTxn /\ \A q \in Threads : pc[q] \notin Holding
<1>1. \A q \in Threads : pc[q] \notin Holding
  BY Idle DEF LeaseInv, Control
<1> QED
  BY <1>1 DEF LeaseInv, Transaction, Holding

LEMMA CompactInv ==
  ASSUME LeaseInv, NEW p \in Threads, Compact(p) PROVE LeaseInv'
<1>1. PICK ps :
        /\ pc[p] = "want_compact" /\ holder = NoThread /\ Goto(p, "idle")
        /\ disk' = [disk EXCEPT !.post = ps]
        /\ UNCHANGED <<mem, poisoned, holder, txn, txnOpen, stage, pending, call>>
  BY DEF Compact, lease
<1>2. pc[p] \notin Holding /\ "idle" \notin Holding /\ "idle" \in PCs
  BY <1>1 DEF Holding, PCs
<1>3. Control'
  BY <1>1, <1>2, MovedControl DEF LeaseInv
<1>4. txn = NoTxn /\ \A q \in Threads : pc[q] \notin Holding
  BY <1>1, FreeLock
<1>5. \A q \in Threads : pc'[q] = IF q = p THEN "idle" ELSE pc[q]
  BY <1>1, <1>2, Moved DEF LeaseInv
<1>6. IsTables(disk') /\ disk'.dict = disk.dict /\ disk'.gen = disk.gen
  BY <1>1 DEF LeaseInv, Generations, IsTables
<1>7. Generations' /\ Settled'
  BY <1>1, <1>4, <1>5, <1>6 DEF LeaseInv, Generations, Settled, Holding
<1>8. Merging' /\ InCall' /\ Transaction'
  BY <1>1, <1>4, <1>5 DEF Merging, InCall, Transaction, Holding
<1> QED
  BY <1>3, <1>7, <1>8 DEF LeaseInv

LEMMA RebuildInv ==
  ASSUME LeaseInv, NEW p \in Threads, NEW corpus \in [Keys -> Docs], Rebuild(p, corpus)
  PROVE  LeaseInv'
<1> DEFINE G == CorpusGrams(corpus)
<1>1. /\ pc[p] = "idle" /\ holder = NoThread /\ holder' = p /\ Goto(p, "loading")
      /\ UNCHANGED <<mem, poisoned, txn, txnOpen, stage, pending, call>>
  BY DEF Rebuild, lease
<1>2. PICK d, rows :
        /\ d \in Interned(EmptyDict, 1, G)
        /\ disk' = RebuiltTables(rows, d, disk.gen)
  BY DEF Rebuild
<1>3. G \in SUBSET Grams
  <2>1. ASSUME NEW f \in FieldsOf(corpus) PROVE GramsOf[corpus[f[1]][f[2]]] \in SUBSET Grams
    <3>1. f[1] \in Keys /\ f[2] \in DOMAIN corpus[f[1]]
      BY DEF FieldsOf
    <3>2. corpus[f[1]] \in Docs
      BY <3>1
    <3>3. corpus[f[1]][f[2]] \in Texts
      BY <3>1, <3>2 DEF Docs
    <3> QED
      BY <3>3, Tokenizer
  <2> QED
    BY <2>1 DEF CorpusGrams
<1> HIDE DEF G
<1>4. d \in Dictionaries
  <2>1. EmptyDict \in Dictionaries /\ 1 \in 1 .. MaxTermId + 1
    BY EmptyDictType, IdCeilings
  <2>2. d \in Interned(EmptyDict, 1, G)
    BY <1>2
  <2> QED
    BY <1>3, <2>1, <2>2, InternedProperties
<1>5. IsTables(disk') /\ disk'.gen = disk.gen + 1
  <2>1. PICK sg, ps : disk' = [segs |-> sg, post |-> ps, dict |-> d, gen |-> disk.gen + 1]
    BY <1>2 DEF RebuiltTables
  <2>2. disk.gen \in Nat
    BY DEF LeaseInv, Generations, IsTables
  <2> QED
    BY <1>4, <2>1, <2>2 DEF IsTables
<1>6. pc[p] \notin Holding /\ "loading" \in Holding /\ "loading" \in PCs
  BY <1>1 DEF Holding, PCs
<1>7. Control'
  BY <1>1, <1>6, MovedControl DEF LeaseInv
<1>8. txn = NoTxn /\ \A q \in Threads : pc[q] \notin Holding
  BY <1>1, FreeLock
<1>9. \A q \in Threads : pc'[q] = IF q = p THEN "loading" ELSE pc[q]
  BY <1>1, <1>6, Moved DEF LeaseInv
<1>10. Generations'
  <2>1. mem.gen < disk'.gen
    <3>1. mem.gen <= disk.gen /\ mem.gen \in Nat /\ disk.gen \in Nat
      BY DEF LeaseInv, Generations, IsTables, IsDictionary
    <3> QED
      BY <1>5, <3>1
  <2>2. IsDictionary(mem) /\ poisoned \in BOOLEAN /\ mem.gen \in Nat /\ disk'.gen \in Nat
    BY <1>5 DEF LeaseInv, Generations, IsTables, IsDictionary
  <2>3. poisoned => \A q \in Threads : pc'[q] \in {"idle", "loading"}
    BY <1>9 DEF LeaseInv, Generations
  <2> QED
    BY <1>1, <1>5, <2>1, <2>2, <2>3 DEF Generations, IsDictionary
<1>11. Settled' /\ Merging' /\ InCall' /\ Transaction'
  BY <1>1, <1>8, <1>9 DEF Settled, Merging, InCall, Transaction, Holding
<1> QED
  BY <1>7, <1>10, <1>11 DEF LeaseInv

LEMMA ReloadSucceedsInv ==
  ASSUME LeaseInv, NEW p \in Threads, ReloadSucceeds(p) PROVE LeaseInv'
<1>1. /\ pc[p] = "loading" /\ mem' = Load(disk) /\ poisoned' = FALSE
      /\ holder' = NoThread /\ Goto(p, "idle")
      /\ UNCHANGED <<disk, txn, txnOpen, stage, pending, call>>
  BY DEF ReloadSucceeds, lease
<1>2. pc[p] \in Holding /\ "idle" \notin Holding /\ "idle" \in PCs
  BY <1>1 DEF Holding, PCs
<1>3. Control'
  BY <1>1, <1>2, MovedControl DEF LeaseInv
<1>4. \A q \in Threads : q # p => pc[q] \notin Holding
  BY <1>2, Alone DEF LeaseInv
<1>5. \A q \in Threads : pc'[q] = IF q = p THEN "idle" ELSE pc[q]
  BY <1>1, <1>2, Moved DEF LeaseInv
<1>6. IsTables(disk) /\ IsDictionary(mem') /\ mem'.map = disk.dict /\ mem'.gen = disk.gen
  BY <1>1, LoadType DEF LeaseInv, Generations
<1>7. txn = NoTxn
  BY <1>1, <1>4 DEF LeaseInv, Transaction, Holding
<1>8. Generations'
  <2>1. disk.gen \in Nat
    BY <1>6 DEF IsTables
  <2>2. \A q \in Threads : pc'[q] # "loading"
    BY <1>4, <1>5 DEF Holding
  <2>3. IsTables(disk') /\ mem'.gen <= disk'.gen
    BY <1>1, <1>6, <2>1
  <2> QED
    BY <1>1, <1>6, <2>2, <2>3 DEF Generations
<1>9. Settled'
  BY <1>1, <1>6 DEF Settled
<1>10. Merging' /\ InCall' /\ Transaction'
  BY <1>1, <1>4, <1>5, <1>7 DEF Merging, InCall, Transaction, Holding
<1> QED
  BY <1>3, <1>8, <1>9, <1>10 DEF LeaseInv

LEMMA ReloadFailsInv ==
  ASSUME LeaseInv, ~FailBesideWaiters, NEW p \in Threads, ReloadFails(p) PROVE LeaseInv'
<1>1. /\ pc[p] = "loading" /\ poisoned' = TRUE /\ holder' = NoThread /\ Goto(p, "idle")
      /\ \A q \in Threads \ {p} : pc[q] = "idle"
      /\ UNCHANGED <<disk, mem, txn, txnOpen, stage, pending, call>>
  BY DEF ReloadFails, lease
<1>2. pc[p] \in Holding /\ "idle" \notin Holding /\ "idle" \in PCs
  BY <1>1 DEF Holding, PCs
<1>3. Control'
  BY <1>1, <1>2, MovedControl DEF LeaseInv
<1>4. \A q \in Threads : pc'[q] = "idle"
  BY <1>1, <1>2, Moved DEF LeaseInv
<1>5. txn = NoTxn /\ mem.gen < disk.gen
  <2>1. \A q \in Threads : pc[q] \notin {"leased", "in_call"}
    BY <1>1
  <2> QED
    BY <1>1, <2>1 DEF LeaseInv, Transaction, Generations
<1>6. Generations'
  BY <1>1, <1>4, <1>5 DEF LeaseInv, Generations
<1>7. Settled' /\ Merging' /\ InCall' /\ Transaction'
  BY <1>1, <1>4, <1>5 DEF Settled, Merging, InCall, Transaction
<1> QED
  BY <1>3, <1>6, <1>7 DEF LeaseInv

LEMMA CrashAndOpenInv ==
  ASSUME LeaseInv, CrashAndOpen PROVE LeaseInv'
<1>1. /\ mem' = Load(disk) /\ poisoned' = FALSE /\ holder' = NoThread
      /\ pc' = [p \in Threads |-> "idle"] /\ txn' = NoTxn /\ disk' = disk
  BY DEF CrashAndOpen, NoLease
<1>2. IsTables(disk) /\ IsDictionary(mem') /\ mem'.map = disk.dict /\ mem'.gen = disk.gen
  BY <1>1, LoadType DEF LeaseInv, Generations
<1>3. Control'
  BY <1>1, Idle DEF Control, PCs, Holding
<1>4. Generations'
  <2>1. disk.gen \in Nat
    BY <1>2 DEF IsTables
  <2>2. \A q \in Threads : pc'[q] = "idle"
    BY <1>1
  <2>3. IsTables(disk') /\ mem'.gen <= disk'.gen
    BY <1>1, <1>2, <2>1
  <2> QED
    BY <1>1, <1>2, <2>2, <2>3 DEF Generations
<1>5. Settled' /\ Merging' /\ InCall' /\ Transaction'
  BY <1>1, <1>2 DEF Settled, Merging, InCall, Transaction
<1> QED
  BY <1>3, <1>4, <1>5 DEF LeaseInv

LEMMA UnchangedInv ==
  ASSUME LeaseInv, UNCHANGED vars PROVE LeaseInv'
<1>1. UNCHANGED <<disk, mem, poisoned, holder, pc, txn, txnOpen, stage, pending, call>>
  BY DEF vars, lease
<1>2. Control' /\ Generations' /\ Settled'
  BY <1>1 DEF LeaseInv, Control, Generations, Settled
<1>3. Merging' /\ Transaction' /\ InCall'
  BY <1>1 DEF LeaseInv, Merging, Transaction, Matches, InCall
<1> QED
  BY <1>2, <1>3 DEF LeaseInv

LEMMA NextLeaseInv ==
  ASSUME LeaseInv, Disciplined, [Next]_vars PROVE LeaseInv'
<1>1. ASSUME NEW p \in Threads, Lease(p) PROVE LeaseInv'
  <2>1. CASE CheckPoisoned(p)
    BY <2>1, CheckPoisonedInv
  <2>2. CASE Begin(p)
    BY <2>2, BeginInv
  <2>3. ASSUME NEW k \in Keys, NEW doc \in Docs, Upsert(p, k, doc) PROVE LeaseInv'
    BY <2>3, UpsertInv
  <2>4. ASSUME NEW l \in Labels, WriteSegment(p, l) PROVE LeaseInv'
    BY <2>4, WriteSegmentInv
  <2>5. CASE FinishUpsert(p)
    BY <2>5, FinishUpsertInv
  <2>6. CASE CallFails(p)
    BY <2>6, CallFailsInv
  <2>7. ASSUME NEW k \in Keys, Remove(p, k) PROVE LeaseInv'
    BY <2>7, DropCallInv DEF Remove
  <2>8. ASSUME NEW k \in Keys, NEW l \in Labels, RemoveSegment(p, k, l) PROVE LeaseInv'
    BY <2>8, DropCallInv DEF RemoveSegment
  <2>9. CASE CommitSql(p)
    BY <2>9, CommitSqlInv
  <2>10. CASE CommitFails(p)
    BY <2>10, CommitFailsInv DEF Disciplined
  <2>11. CASE MergeStage(p)
    BY <2>11, MergeStageInv
  <2>12. CASE ApplyDfChanges(p)
    BY <2>12, ApplyDfChangesInv
  <2>13. CASE BeginNext(p)
    BY <2>13, BeginNextInv
  <2>14. CASE DropWriter(p)
    BY <2>14, DropWriterInv
  <2> QED
    BY <1>1, <2>1, <2>2, <2>3, <2>4, <2>5, <2>6, <2>7, <2>8, <2>9, <2>10, <2>11,
       <2>12, <2>13, <2>14 DEF Lease
<1>2. ASSUME NEW p \in Threads, Maintenance(p) PROVE LeaseInv'
  <2>1. CASE Compact(p)
    BY <2>1, CompactInv
  <2>2. ASSUME NEW corpus \in [Keys -> Docs], Rebuild(p, corpus) PROVE LeaseInv'
    BY <2>2, RebuildInv
  <2>3. CASE ReloadSucceeds(p)
    BY <2>3, ReloadSucceedsInv
  <2>4. CASE ReloadFails(p)
    BY <2>4, ReloadFailsInv DEF Disciplined
  <2> QED
    BY <1>2, <2>1, <2>2, <2>3, <2>4 DEF Maintenance
<1>3. CASE CrashAndOpen
  BY <1>3, CrashAndOpenInv
<1>4. CASE UNCHANGED vars
  BY <1>4, UnchangedInv
<1> QED
  BY <1>1, <1>2, <1>3, <1>4 DEF Next

-----------------------------------------------------------------------------
(* Generations, for any behaviour of callers and reloads.                  *)

(* Tables of the committed generation.                                     *)
OfGen(db) ==
  db \in [segs : {db.segs}, post : {db.post}, dict : {db.dict}, gen : {disk.gen}]

(* A memory behind the tables is being reloaded, or is poisoned; and only  *)
(* where a reload may fail beside waiters does a thread get past the check *)
(* of a flag that is then set.                                             *)
Behind ==
  /\ disk.gen \in Nat /\ OfGen(disk) /\ poisoned \in BOOLEAN
  /\ mem \in [map : {mem.map}, nextTerm : {mem.nextTerm}, gen : {mem.gen},
              stats : {mem.stats}]
  /\ mem.gen # disk.gen => poisoned \/ \E p \in Threads : pc[p] = "loading"
  /\ poisoned /\ ~FailBesideWaiters => \A p \in Threads : pc[p] \in {"idle", "loading"}

TxnOfGen ==
  txn # NoTxn => OfGen(txn) /\ \E p \in Threads : pc[p] \in {"leased", "in_call"}

CallOfGen ==
  (\E p \in Threads : pc[p] = "in_call") =>
    /\ txn # NoTxn
    /\ call.saved # NoTxn => OfGen(call.saved)
    /\ call \in [key : {call.key}, doc : {call.doc}, todo : {call.todo},
                 saved : {call.saved}, stageMark : {call.stageMark},
                 dfMark : {call.dfMark}, add : {call.add}, remove : {call.remove}]

GenInv == Control /\ Behind /\ TxnOfGen /\ CallOfGen

LEMMA InitGen == Init => GenInv
<1> SUFFICES ASSUME Init PROVE GenInv
  OBVIOUS
<1>1. /\ disk = [segs |-> NoSegments, post |-> NoPostings, dict |-> EmptyDict, gen |-> 0]
      /\ mem = Load(disk) /\ poisoned = FALSE /\ holder = NoThread
      /\ pc = [p \in Threads |-> "idle"] /\ txn = NoTxn
  BY DEF Init
<1>2. disk.gen \in Nat /\ OfGen(disk)
  BY <1>1 DEF OfGen
<1>3. /\ mem.gen = disk.gen
      /\ mem \in [map : {mem.map}, nextTerm : {mem.nextTerm}, gen : {mem.gen},
                  stats : {mem.stats}]
  BY <1>1 DEF Load
<1>4. \A p \in Threads : pc[p] = "idle"
  BY <1>1
<1>5. Control
  BY <1>1, Idle DEF Control, PCs, Holding
<1> QED
  BY <1>1, <1>2, <1>3, <1>4, <1>5 DEF GenInv, Behind, TxnOfGen, CallOfGen

(* A step of a thread past the check of the flag that keeps the generation *)
(* of tables and memory.                                                   *)
LEMMA BehindKept ==
  ASSUME GenInv, NEW p \in Threads, NEW to \in PCs, Goto(p, to),
         pc[p] \notin {"idle", "loading"}, to # "loading",
         disk'.gen = disk.gen, OfGen(disk)', mem'.gen = mem.gen,
         mem' \in [map : {mem'.map}, nextTerm : {mem'.nextTerm}, gen : {mem'.gen},
                   stats : {mem'.stats}],
         poisoned' = poisoned
  PROVE  Behind'
<1>1. \A q \in Threads : pc'[q] = IF q = p THEN to ELSE pc[q]
  BY Moved DEF GenInv
<1>2. disk'.gen \in Nat /\ poisoned' \in BOOLEAN
  BY DEF GenInv, Behind
<1>3. mem'.gen # disk'.gen => poisoned' \/ \E q \in Threads : pc'[q] = "loading"
  BY <1>1 DEF GenInv, Behind
<1>4. ~(poisoned' /\ ~FailBesideWaiters)
  BY DEF GenInv, Behind
<1> QED
  BY <1>2, <1>3, <1>4 DEF Behind

(* In particular when tables and memory are not touched.                   *)
LEMMA BehindUntouched ==
  ASSUME GenInv, NEW p \in Threads, NEW to \in PCs, Goto(p, to),
         pc[p] \notin {"idle", "loading"}, to # "loading",
         UNCHANGED <<disk, mem, poisoned>>
  PROVE  Behind'
<1>1. OfGen(disk)'
  BY DEF GenInv, Behind, OfGen
<1>2. mem' \in [map : {mem'.map}, nextTerm : {mem'.nextTerm}, gen : {mem'.gen},
                stats : {mem'.stats}]
  BY DEF GenInv, Behind
<1> QED
  BY <1>1, <1>2, BehindKept

LEMMA ReleaseOfGen ==
  ASSUME GenInv, NEW tables, NEW outer, OfGen(tables), Release(tables, outer)
  PROVE  disk'.gen = disk.gen /\ OfGen(disk)' /\ (txn' # NoTxn => OfGen(txn)')
<1>1. tables.gen = disk.gen
  BY DEF OfGen
<1>2. disk' \in {tables, disk}
  BY DEF Release
<1>3. disk'.gen = disk.gen
  BY <1>1, <1>2
<1>4. OfGen(disk)'
  BY <1>2, <1>3 DEF OfGen, GenInv, Behind
<1>5. txn' # NoTxn => OfGen(txn)'
  BY <1>3 DEF Release, OfGen
<1> QED
  BY <1>3, <1>4, <1>5

(* Past the mutex a thread is alone: after its step none but it is in a    *)
(* call or on a lease.                                                     *)
LEMMA OnlyMover ==
  ASSUME GenInv, NEW p \in Threads, NEW to \in PCs, Goto(p, to), pc[p] \in Holding
  PROVE  /\ pc'[p] = to
         /\ \A q \in Threads : pc'[q] \in Holding => q = p
<1>1. \A q \in Threads : pc'[q] = IF q = p THEN to ELSE pc[q]
  BY Moved DEF GenInv
<1> QED
  BY <1>1, Alone DEF GenInv

LEMMA CheckPoisonedGen ==
  ASSUME GenInv, NEW p \in Threads, CheckPoisoned(p) PROVE GenInv'
<1>1. PICK next \in {"want_writer", "want_compact"} : Goto(p, next)
  BY DEF CheckPoisoned
<1>2. /\ pc[p] = "idle" /\ pc[p] \notin Holding /\ next \in PCs /\ next \notin Holding
      /\ ~poisoned
      /\ UNCHANGED <<disk, mem, poisoned, holder, txn, txnOpen, stage, pending, call>>
  BY DEF CheckPoisoned, lease, Holding, PCs
<1>3. Control'
  BY <1>1, <1>2, MovedControl DEF GenInv
<1>4. \A q \in Threads, h \in Holding : pc'[q] = h <=> pc[q] = h
  BY <1>1, <1>2, Moved DEF GenInv
<1>5. Behind'
  BY <1>2, <1>4 DEF GenInv, Behind, OfGen, Holding
<1>6. TxnOfGen' /\ CallOfGen'
  BY <1>2, <1>4 DEF GenInv, TxnOfGen, CallOfGen, OfGen, Holding
<1> QED
  BY <1>3, <1>5, <1>6 DEF GenInv

LEMMA BeginGen ==
  ASSUME GenInv, NEW p \in Threads, Begin(p) PROVE GenInv'
<1>1. /\ pc[p] = "want_writer" /\ holder = NoThread /\ holder' = p
      /\ txn' = disk /\ Goto(p, "leased") /\ UNCHANGED <<disk, mem, poisoned>>
  BY DEF Begin
<1>2. pc[p] \notin Holding /\ "leased" \in Holding /\ "leased" \in PCs
  BY <1>1 DEF Holding, PCs
<1>3. Control'
  BY <1>1, <1>2, MovedControl DEF GenInv
<1>4. Behind'
  BY <1>1, <1>2, BehindUntouched
<1>5. \A q \in Threads : pc'[q] = IF q = p THEN "leased" ELSE pc[q]
  BY <1>1, <1>2, Moved DEF GenInv
<1>6. \A q \in Threads : pc[q] \notin Holding
  BY <1>1, Idle DEF GenInv, Control
<1>7. TxnOfGen' /\ CallOfGen'
  BY <1>1, <1>5, <1>6 DEF GenInv, Behind, TxnOfGen, CallOfGen, OfGen, Holding
<1> QED
  BY <1>3, <1>4, <1>7 DEF GenInv

LEMMA UpsertGen ==
  ASSUME GenInv, NEW p \in Threads, NEW k \in Keys, NEW doc \in Docs, Upsert(p, k, doc)
  PROVE  GenInv'
<1>1. /\ pc[p] = "leased" /\ txn' = View /\ Goto(p, "in_call")
      /\ call' = [key |-> k, doc |-> doc, todo |-> DOMAIN doc, saved |-> txn,
                  stageMark |-> Cardinality(Staged(stage)), dfMark |-> Len(pending),
                  add |-> NoChange, remove |-> NoChange]
      /\ UNCHANGED <<disk, mem, poisoned, holder>>
  BY DEF Upsert
<1>2. pc[p] \in Holding /\ "in_call" \in Holding /\ "in_call" \in PCs
  BY <1>1 DEF Holding, PCs
<1>3. Control'
  BY <1>1, <1>2, MovedControl DEF GenInv
<1>4. Behind'
  BY <1>1, <1>2, BehindUntouched
<1>5. pc'[p] = "in_call"
  BY <1>1, <1>2, OnlyMover
<1>6. OfGen(txn)' /\ txn' # NoTxn
  <2>1. disk # NoTxn
    BY DEF GenInv, Behind, NoTxn
  <2>2. OfGen(View) /\ View # NoTxn
    BY <2>1 DEF View, GenInv, Behind, TxnOfGen
  <2> QED
    BY <1>1, <2>2 DEF OfGen
<1>7. TxnOfGen'
  BY <1>5, <1>6 DEF TxnOfGen
<1>8. CallOfGen'
  <2>1. call'.saved = txn /\ (txn # NoTxn => OfGen(txn))
    BY <1>1 DEF GenInv, TxnOfGen
  <2>2. call'.saved # NoTxn => OfGen(call.saved)'
    BY <1>1, <2>1 DEF OfGen
  <2>3. call' \in [key : {call'.key}, doc : {call'.doc}, todo : {call'.todo},
                   saved : {call'.saved}, stageMark : {call'.stageMark},
                   dfMark : {call'.dfMark}, add : {call'.add}, remove : {call'.remove}]
    BY <1>1
  <2> QED
    BY <1>6, <2>2, <2>3 DEF CallOfGen
<1> QED
  BY <1>3, <1>4, <1>7, <1>8 DEF GenInv

LEMMA WriteSegmentGen ==
  ASSUME GenInv, NEW p \in Threads, NEW l \in Labels, WriteSegment(p, l)
  PROVE  GenInv'
<1> DEFINE old == FindSegments(txn.segs, call.key, {l})
           new == AllocIds(txn.segs, 1)
<1>1. PICK st \in Stagings(mem, stage, GramsOf[call.doc[l]]) :
        LET ids  == Resolved(mem, st)
            rows == DocRows(call.key, call.doc, [s \in new |-> l])
        IN /\ txn' = [txn EXCEPT
                       !.segs = InsertSegments(DropSegments(@, old), rows, ids),
                       !.dict = WithStaged(@, stage, st)]
           /\ call' = [call EXCEPT
                !.todo = @ \ {l},
                !.add = [t \in TermId |-> @[t] \cup AdditionsOf(rows, ids)[t]],
                !.remove = [t \in TermId |-> @[t] \cup RemovalsOf(txn.segs, old)[t]]]
  BY DEF WriteSegment
<1> DEFINE ids   == Resolved(mem, st)
           rows  == DocRows(call.key, call.doc, [s \in new |-> l])
           segs2 == InsertSegments(DropSegments(txn.segs, old), rows, ids)
           dict2 == WithStaged(txn.dict, stage, st)
           add2  == [t \in TermId |-> call.add[t] \cup AdditionsOf(rows, ids)[t]]
           rem2  == [t \in TermId |-> call.remove[t] \cup RemovalsOf(txn.segs, old)[t]]
<1>2. pc[p] = "in_call" /\ UNCHANGED <<disk, mem, poisoned, holder, pc>>
  BY DEF WriteSegment
<1>3. /\ txn # NoTxn /\ OfGen(txn)
      /\ call.saved # NoTxn => OfGen(call.saved)
      /\ call \in [key : {call.key}, doc : {call.doc}, todo : {call.todo},
                   saved : {call.saved}, stageMark : {call.stageMark},
                   dfMark : {call.dfMark}, add : {call.add}, remove : {call.remove}]
  BY <1>2 DEF GenInv, TxnOfGen, CallOfGen
<1>4. txn' = [txn EXCEPT !.segs = segs2, !.dict = dict2]
  BY <1>1, <1>3
<1>5. call' = [call EXCEPT !.todo = call.todo \ {l}, !.add = add2, !.remove = rem2]
  BY <1>1, <1>3
<1> HIDE DEF ids, rows, segs2, dict2, add2, rem2
<1>6. OfGen(txn)' /\ txn' # NoTxn
  BY <1>2, <1>3, <1>4 DEF OfGen, NoTxn
<1>7. /\ call'.saved = call.saved
      /\ call' \in [key : {call'.key}, doc : {call'.doc}, todo : {call'.todo},
                    saved : {call'.saved}, stageMark : {call'.stageMark},
                    dfMark : {call'.dfMark}, add : {call'.add}, remove : {call'.remove}]
  BY <1>3, <1>5
<1>8. Control' /\ Behind'
  BY <1>2 DEF GenInv, Control, Behind, OfGen
<1>9. TxnOfGen'
  BY <1>2, <1>6 DEF TxnOfGen
<1>10. CallOfGen'
  BY <1>2, <1>3, <1>6, <1>7 DEF CallOfGen, OfGen
<1> QED
  BY <1>8, <1>9, <1>10 DEF GenInv

LEMMA FinishUpsertGen ==
  ASSUME GenInv, NEW p \in Threads, FinishUpsert(p) PROVE GenInv'
<1> DEFINE post2 == ApplyWrites(txn.post, call.add, call.remove)
<1>1. /\ pc[p] = "in_call" /\ Goto(p, "leased")
      /\ Release([txn EXCEPT !.post = post2], call.saved)
      /\ UNCHANGED <<mem, poisoned, holder>>
  BY DEF FinishUpsert
<1> HIDE DEF post2
<1>2. pc[p] \in Holding /\ "leased" \in Holding /\ "leased" \in PCs
  BY <1>1 DEF Holding, PCs
<1>3. OfGen(txn)
  BY <1>1 DEF GenInv, TxnOfGen, CallOfGen
<1>4. OfGen([txn EXCEPT !.post = post2])
  BY <1>3 DEF OfGen
<1>5. disk'.gen = disk.gen /\ OfGen(disk)' /\ (txn' # NoTxn => OfGen(txn)')
  BY <1>1, <1>4, ReleaseOfGen
<1>6. Control'
  BY <1>1, <1>2, MovedControl DEF GenInv
<1>7. Behind'
  BY <1>1, <1>2, <1>5, BehindKept DEF GenInv, Behind
<1>8. pc'[p] = "leased" /\ \A q \in Threads : pc'[q] # "in_call"
  BY <1>1, <1>2, OnlyMover DEF Holding
<1> QED
  BY <1>5, <1>6, <1>7, <1>8 DEF GenInv, TxnOfGen, CallOfGen

LEMMA CallFailsGen ==
  ASSUME GenInv, NEW p \in Threads, CallFails(p) PROVE GenInv'
<1>1. /\ pc[p] = "in_call" /\ Goto(p, "leased")
      /\ txn' = call.saved \/ txn' = NoTxn
      /\ UNCHANGED <<disk, mem, poisoned, holder>>
  BY DEF CallFails
<1>2. pc[p] \in Holding /\ "leased" \in Holding /\ "leased" \in PCs
  BY <1>1 DEF Holding, PCs
<1>3. txn' # NoTxn => OfGen(txn)'
  BY <1>1 DEF GenInv, CallOfGen, OfGen
<1>4. Control'
  BY <1>1, <1>2, MovedControl DEF GenInv
<1>5. Behind'
  BY <1>1, <1>2, BehindUntouched
<1>6. pc'[p] = "leased" /\ \A q \in Threads : pc'[q] # "in_call"
  BY <1>1, <1>2, OnlyMover DEF Holding
<1> QED
  BY <1>3, <1>4, <1>5, <1>6 DEF GenInv, TxnOfGen, CallOfGen

LEMMA DropCallGen ==
  ASSUME GenInv, NEW p \in Threads, NEW S, pc[p] = "leased", DropCall(p, S)
  PROVE  GenInv'
<1> DEFINE segs2 == DropSegments(View.segs, S)
           post2 == ApplyWrites(View.post, NoChange, RemovalsOf(View.segs, S))
<1>1. /\ Release([View EXCEPT !.segs = segs2, !.post = post2], txn)
      /\ UNCHANGED <<mem, poisoned, holder, pc, call>>
  BY DEF DropCall
<1> HIDE DEF segs2, post2
<1>2. OfGen(View)
  BY DEF View, GenInv, Behind, TxnOfGen
<1>3. OfGen([View EXCEPT !.segs = segs2, !.post = post2])
  BY <1>2 DEF OfGen
<1>4. disk'.gen = disk.gen /\ OfGen(disk)' /\ (txn' # NoTxn => OfGen(txn)')
  BY <1>1, <1>3, ReleaseOfGen
<1>5. Control' /\ Behind'
  BY <1>1, <1>4 DEF GenInv, Control, Behind
<1>6. \A q \in Threads : pc[q] # "in_call"
  BY Alone DEF GenInv, Holding
<1> QED
  BY <1>1, <1>4, <1>5, <1>6 DEF GenInv, TxnOfGen, CallOfGen

LEMMA CommitSqlGen ==
  ASSUME GenInv, NEW p \in Threads, CommitSql(p) PROVE GenInv'
<1>1. /\ pc[p] = "leased" /\ txn # NoTxn /\ disk' = txn /\ txn' = NoTxn
      /\ Goto(p, "merging") /\ UNCHANGED <<mem, poisoned, holder>>
  BY DEF CommitSql
<1>2. pc[p] \in Holding /\ "merging" \in Holding /\ "merging" \in PCs
  BY <1>1 DEF Holding, PCs
<1>3. Control'
  BY <1>1, <1>2, MovedControl DEF GenInv
<1>4. disk'.gen = disk.gen /\ OfGen(disk)'
  BY <1>1 DEF GenInv, TxnOfGen, OfGen
<1>5. Behind'
  BY <1>1, <1>2, <1>4, BehindKept DEF GenInv, Behind
<1>6. pc'[p] = "merging" /\ \A q \in Threads : pc'[q] # "in_call"
  BY <1>1, <1>2, OnlyMover DEF Holding
<1> QED
  BY <1>1, <1>3, <1>5, <1>6 DEF GenInv, TxnOfGen, CallOfGen

(* The steps of a commit, and its failure, after the COMMIT.               *)
LEMMA CommitStepGen ==
  ASSUME GenInv, NEW p \in Threads, NEW to \in {"leased", "merged", "reopening", "failed"},
         Goto(p, to),
         pc[p] \in {"leased", "merging", "merged", "reopening"},
         txn' \in {txn, disk, NoTxn}, txn' # NoTxn => to = "leased",
         disk' = disk, poisoned' = poisoned, holder' = holder,
         \/ mem' = mem
         \/ mem' = Merge(mem, stage)
         \/ mem' = [mem EXCEPT !.stats = MoveSamples(mem, pending)]
  PROVE  GenInv'
<1>1. pc[p] \in Holding /\ to \in Holding /\ to \in PCs
  BY DEF Holding, PCs
<1>2. Control'
  BY <1>1, MovedControl DEF GenInv
<1>3. mem \in [map : {mem.map}, nextTerm : {mem.nextTerm}, gen : {mem.gen},
               stats : {mem.stats}]
  BY DEF GenInv, Behind
<1>4. /\ mem'.gen = mem.gen
      /\ mem' \in [map : {mem'.map}, nextTerm : {mem'.nextTerm}, gen : {mem'.gen},
                   stats : {mem'.stats}]
  <2>1. CASE mem' = mem
    BY <1>3, <2>1
  <2>2. CASE mem' = Merge(mem, stage)
    BY <1>3, <2>2 DEF Merge
  <2>3. CASE mem' = [mem EXCEPT !.stats = MoveSamples(mem, pending)]
    BY <1>3, <2>3
  <2> QED
    BY <2>1, <2>2, <2>3
<1>5. disk'.gen = disk.gen /\ OfGen(disk)'
  BY DEF GenInv, Behind, OfGen
<1>6. Behind'
  BY <1>1, <1>4, <1>5, BehindKept
<1>7. txn' # NoTxn => OfGen(txn)'
  BY DEF GenInv, Behind, TxnOfGen, OfGen
<1>8. pc'[p] = to /\ \A q \in Threads : pc'[q] # "in_call"
  BY <1>1, OnlyMover DEF Holding
<1> QED
  BY <1>2, <1>6, <1>7, <1>8 DEF GenInv, TxnOfGen, CallOfGen

LEMMA DropWriterGen ==
  ASSUME GenInv, NEW p \in Threads, DropWriter(p) PROVE GenInv'
<1>1. /\ pc[p] \in {"leased", "failed"} /\ holder' = NoThread /\ txn' = NoTxn
      /\ Goto(p, "idle") /\ UNCHANGED <<disk, mem, poisoned>>
  BY DEF DropWriter, NoLease
<1>2. pc[p] \in Holding /\ "idle" \notin Holding /\ "idle" \in PCs
  BY <1>1 DEF Holding, PCs
<1>3. Control'
  BY <1>1, <1>2, MovedControl DEF GenInv
<1>4. Behind'
  BY <1>1, <1>2, BehindUntouched
<1>5. \A q \in Threads : pc'[q] # "in_call"
  BY <1>1, <1>2, OnlyMover DEF Holding
<1> QED
  BY <1>1, <1>3, <1>4, <1>5 DEF GenInv, TxnOfGen, CallOfGen

LEMMA CompactGen ==
  ASSUME GenInv, NEW p \in Threads, Compact(p) PROVE GenInv'
<1> DEFINE post2 == Fold(disk.post)
<1>1. /\ pc[p] = "want_compact" /\ holder = NoThread
      /\ disk' = [disk EXCEPT !.post = post2] /\ Goto(p, "idle")
      /\ UNCHANGED <<mem, poisoned, holder, txn, call>>
  BY DEF Compact, lease
<1> HIDE DEF post2
<1>2. pc[p] \notin Holding /\ "idle" \notin Holding /\ "idle" \in PCs
  BY <1>1 DEF Holding, PCs
<1>3. Control'
  BY <1>1, <1>2, MovedControl DEF GenInv
<1>4. disk'.gen = disk.gen /\ OfGen(disk)'
  BY <1>1 DEF GenInv, Behind, OfGen
<1>5. Behind'
  BY <1>1, <1>2, <1>4, BehindKept DEF GenInv, Behind
<1>6. \A q \in Threads, h \in Holding : pc'[q] = h <=> pc[q] = h
  BY <1>1, <1>2, Moved DEF GenInv
<1>7. TxnOfGen' /\ CallOfGen'
  BY <1>1, <1>4, <1>6 DEF GenInv, TxnOfGen, CallOfGen, OfGen, Holding
<1> QED
  BY <1>3, <1>5, <1>7 DEF GenInv

(* A rebuild starts with the lock free: with no transaction open.          *)
LEMMA RebuildGen ==
  ASSUME GenInv, NEW p \in Threads, NEW corpus \in [Keys -> Docs], Rebuild(p, corpus)
  PROVE  GenInv'
<1>1. /\ pc[p] = "idle" /\ holder = NoThread /\ holder' = p /\ Goto(p, "loading")
      /\ UNCHANGED <<mem, poisoned, txn>>
  BY DEF Rebuild, lease
<1>2. PICK rows, d : disk' = RebuiltTables(rows, d, disk.gen)
  BY DEF Rebuild
<1>3. pc[p] \notin Holding /\ "loading" \in Holding /\ "loading" \in PCs
  BY <1>1 DEF Holding, PCs
<1>4. Control'
  BY <1>1, <1>3, MovedControl DEF GenInv
<1>5. \A q \in Threads : pc'[q] = IF q = p THEN "loading" ELSE pc[q]
  BY <1>1, <1>3, Moved DEF GenInv
<1>6. \A q \in Threads : pc[q] \notin Holding
  BY <1>1, Idle DEF GenInv, Control
<1>7. disk'.gen \in Nat /\ OfGen(disk)'
  BY <1>2 DEF RebuiltTables, OfGen, GenInv, Behind
<1>8. Behind'
  BY <1>1, <1>5, <1>7 DEF GenInv, Behind
<1>9. txn = NoTxn
  BY <1>6 DEF GenInv, TxnOfGen, Holding
<1>10. TxnOfGen' /\ CallOfGen'
  BY <1>1, <1>5, <1>6, <1>9 DEF TxnOfGen, CallOfGen, Holding
<1> QED
  BY <1>4, <1>8, <1>10 DEF GenInv

(* Whoever the reload ends for held the lock, and no transaction was open. *)
LEMMA ReloadGen ==
  ASSUME GenInv, NEW p \in Threads, ReloadSucceeds(p) \/ ReloadFails(p) PROVE GenInv'
<1>1. /\ pc[p] = "loading" /\ holder' = NoThread /\ Goto(p, "idle")
      /\ UNCHANGED <<disk, txn>>
  BY DEF ReloadSucceeds, ReloadFails, lease
<1>2. pc[p] \in Holding /\ "idle" \notin Holding /\ "idle" \in PCs
  BY <1>1 DEF Holding, PCs
<1>3. Control'
  BY <1>1, <1>2, MovedControl DEF GenInv
<1>4. \A q \in Threads : pc'[q] = IF q = p THEN "idle" ELSE pc[q]
  BY <1>1, <1>2, Moved DEF GenInv
<1>5. \A q \in Threads : pc[q] \notin {"leased", "in_call"} /\ pc'[q] # "in_call"
  BY <1>1, <1>2, <1>4, Alone DEF GenInv, Holding
<1>6. disk'.gen \in Nat /\ OfGen(disk)'
  BY <1>1 DEF GenInv, Behind, OfGen
<1>7. Behind'
  <2>1. CASE ReloadSucceeds(p)
    <3>1. mem' = Load(disk) /\ poisoned' = FALSE
      BY <2>1 DEF ReloadSucceeds
    <3>2. /\ mem'.gen = disk'.gen
          /\ mem' \in [map : {mem'.map}, nextTerm : {mem'.nextTerm}, gen : {mem'.gen},
                       stats : {mem'.stats}]
      BY <1>1, <3>1 DEF Load
    <3> QED
      BY <1>6, <3>1, <3>2 DEF Behind
  <2>2. CASE ReloadFails(p)
    <3>1. /\ mem' = mem /\ poisoned' = TRUE
          /\ FailBesideWaiters \/ \A q \in Threads \ {p} : pc[q] = "idle"
      BY <2>2 DEF ReloadFails
    <3>2. ~FailBesideWaiters => \A q \in Threads : pc'[q] \in {"idle", "loading"}
      BY <1>4, <3>1
    <3> QED
      BY <1>6, <3>1, <3>2 DEF Behind, GenInv
  <2> QED
    BY <2>1, <2>2
<1>8. TxnOfGen' /\ CallOfGen'
  BY <1>1, <1>5 DEF GenInv, TxnOfGen, CallOfGen
<1> QED
  BY <1>3, <1>7, <1>8 DEF GenInv

LEMMA CrashAndOpenGen ==
  ASSUME GenInv, CrashAndOpen PROVE GenInv'
<1>1. /\ mem' = Load(disk) /\ poisoned' = FALSE /\ holder' = NoThread
      /\ pc' = [p \in Threads |-> "idle"] /\ txn' = NoTxn /\ disk' = disk
  BY DEF CrashAndOpen, NoLease
<1>2. Control'
  BY <1>1, Idle DEF Control, PCs, Holding
<1>3. /\ mem'.gen = disk'.gen
      /\ mem' \in [map : {mem'.map}, nextTerm : {mem'.nextTerm}, gen : {mem'.gen},
                   stats : {mem'.stats}]
  BY <1>1 DEF Load
<1>4. disk'.gen \in Nat /\ OfGen(disk)'
  BY <1>1 DEF GenInv, Behind, OfGen
<1>5. \A q \in Threads : pc'[q] # "in_call"
  BY <1>1
<1> QED
  BY <1>1, <1>2, <1>3, <1>4, <1>5 DEF GenInv, Behind, TxnOfGen, CallOfGen

LEMMA NextGen ==
  ASSUME GenInv, [Next]_vars PROVE GenInv'
<1>1. ASSUME NEW p \in Threads, Lease(p) PROVE GenInv'
  <2>1. CASE CheckPoisoned(p)
    BY <2>1, CheckPoisonedGen
  <2>2. CASE Begin(p)
    BY <2>2, BeginGen
  <2>3. ASSUME NEW k \in Keys, NEW doc \in Docs, Upsert(p, k, doc) PROVE GenInv'
    BY <2>3, UpsertGen
  <2>4. ASSUME NEW l \in Labels, WriteSegment(p, l) PROVE GenInv'
    BY <2>4, WriteSegmentGen
  <2>5. CASE FinishUpsert(p)
    BY <2>5, FinishUpsertGen
  <2>6. CASE CallFails(p)
    BY <2>6, CallFailsGen
  <2>7. ASSUME NEW k \in Keys, Remove(p, k) PROVE GenInv'
    BY <2>7, DropCallGen DEF Remove
  <2>8. ASSUME NEW k \in Keys, NEW l \in Labels, RemoveSegment(p, k, l) PROVE GenInv'
    BY <2>8, DropCallGen DEF RemoveSegment
  <2>9. CASE CommitSql(p)
    BY <2>9, CommitSqlGen
  <2>10. CASE CommitFails(p)
    BY <2>10, CommitStepGen DEF CommitFails
  <2>11. CASE MergeStage(p)
    <3>1. txn' = txn /\ disk' = disk /\ poisoned' = poisoned /\ holder' = holder
      BY <2>11 DEF MergeStage, lease
    <3>2. txn = NoTxn
      BY <2>11, Alone DEF MergeStage, GenInv, TxnOfGen, Holding
    <3> QED
      BY <2>11, <3>1, <3>2, CommitStepGen DEF MergeStage
  <2>12. CASE ApplyDfChanges(p)
    <3>1. txn = NoTxn
      BY <2>12, Alone DEF ApplyDfChanges, GenInv, TxnOfGen, Holding
    <3> QED
      BY <2>12, <3>1, CommitStepGen DEF ApplyDfChanges
  <2>13. CASE BeginNext(p)
    BY <2>13, CommitStepGen DEF BeginNext
  <2>14. CASE DropWriter(p)
    BY <2>14, DropWriterGen
  <2> QED
    BY <1>1, <2>1, <2>2, <2>3, <2>4, <2>5, <2>6, <2>7, <2>8, <2>9, <2>10, <2>11,
       <2>12, <2>13, <2>14 DEF Lease
<1>2. ASSUME NEW p \in Threads, Maintenance(p) PROVE GenInv'
  <2>1. CASE Compact(p)
    BY <2>1, CompactGen
  <2>2. ASSUME NEW corpus \in [Keys -> Docs], Rebuild(p, corpus) PROVE GenInv'
    BY <2>2, RebuildGen
  <2>3. CASE ReloadSucceeds(p) \/ ReloadFails(p)
    BY <2>3, ReloadGen
  <2> QED
    BY <1>2, <2>1, <2>2, <2>3 DEF Maintenance
<1>3. CASE CrashAndOpen
  BY <1>3, CrashAndOpenGen
<1>4. CASE UNCHANGED vars
  BY <1>4 DEF vars, lease, GenInv, Control, Behind, TxnOfGen, CallOfGen, OfGen
<1> QED
  BY <1>1, <1>2, <1>3, <1>4 DEF Next

-----------------------------------------------------------------------------
(* The theorems.                                                           *)

(* At every step of a write, a commit, a rebuild, a reload and a crash one *)
(* thread at most is past the writer mutex, and the memory and the tables  *)
(* carry one dictionary unless a merge or a reload is still to come.       *)
THEOREM LeaseInvariant == Disciplined /\ Spec => []LeaseInv
<1>1. Disciplined /\ Init => LeaseInv
  BY InitLease
<1>2. ASSUME Disciplined, LeaseInv, [Next]_vars PROVE LeaseInv'
  BY <1>2, NextLeaseInv
<1>3. Disciplined => Disciplined'
  BY DEF Disciplined
<1> QED
  BY <1>1, <1>2, <1>3, PTL DEF Spec

(* With no assumption on callers or reloads: a write call runs on a        *)
(* dictionary of another generation than the tables it writes only on an   *)
(* index poisoned by a reload that failed beside a thread waiting for the  *)
(* lock.  The check before the lock (Index::writer, doc of check_poisoned) *)
(* lets exactly that one past, the run poison_race shows it; no other      *)
(* order of leases, commits, rebuilds, reloads and crashes does.           *)
THEOREM WritesCurrent ==
  Spec => [](WritesUseCurrentMap \/ (poisoned /\ FailBesideWaiters))
<1>1. GenInv => WritesUseCurrentMap \/ (poisoned /\ FailBesideWaiters)
  <2> SUFFICES ASSUME GenInv, NEW p \in Threads, pc[p] = "in_call", mem.gen # disk.gen
               PROVE  poisoned /\ FailBesideWaiters
    BY DEF WritesUseCurrentMap
  <2>1. \A q \in Threads : pc[q] # "loading"
    BY Alone DEF GenInv, Holding
  <2> QED
    BY <2>1 DEF GenInv, Behind
<1> QED
  BY <1>1, InitGen, NextGen, PTL DEF Spec

(* A memory and tables of one generation agree on every id the memory      *)
(* holds, also between the COMMIT of a transaction and the merge of its    *)
(* stage, and between a rebuild's COMMIT and the reload.                   *)
THEOREM GenerationIdentifiesIds == Disciplined /\ Spec => []GenerationGuardsIds
<1>1. LeaseInv => GenerationGuardsIds
  <2> SUFFICES ASSUME LeaseInv, mem.gen = disk.gen, NEW g \in Grams, mem.map[g] # NoTerm
               PROVE  mem.map[g] = disk.dict[g]
    BY DEF GenerationGuardsIds
  <2>1. ~poisoned /\ \A p \in Threads : pc[p] # "loading"
    <3>1. mem.gen \in Nat /\ disk.gen \in Nat
      BY DEF LeaseInv, Generations, IsTables, IsDictionary
    <3> QED
      BY <3>1 DEF LeaseInv, Generations
  <2>2. CASE \E p \in Threads : pc[p] = "merging"
    <3>1. IsDictionary(mem) /\ IsStage(mem, stage) /\ disk.dict = Resolved(mem, stage)
      BY <2>2 DEF LeaseInv, Generations, Merging
    <3> QED
      BY <3>1, StageExtends
  <2>3. CASE \A p \in Threads : pc[p] # "merging"
    BY <2>1, <2>3 DEF LeaseInv, Settled
  <2> QED
    BY <2>2, <2>3
<1> QED
  BY <1>1, LeaseInvariant, PTL

(* Whatever calls failed in a transaction, each gram it has staged has its *)
(* row in the dict table the transaction will commit.                      *)
THEOREM StageHasRows == Disciplined /\ Spec => []StagedRowsExist
<1>1. LeaseInv => StagedRowsExist
  <2> SUFFICES ASSUME LeaseInv, txn # NoTxn, NEW g \in Staged(stage)
               PROVE  txn.dict[g] = stage.new[g]
    BY DEF StagedRowsExist
  <2>1. IsStage(mem, stage) /\ txn.dict = Resolved(mem, stage)
    BY DEF LeaseInv, Transaction, Matches
  <2>2. g \in Grams /\ mem.map[g] = NoTerm
    BY <2>1 DEF IsStage, Staged
  <2> QED
    BY <2>1, <2>2 DEF Resolved
<1> QED
  BY <1>1, LeaseInvariant, PTL

(* A commit adds to the committed dictionary and a compaction leaves it;   *)
(* only a rebuild gives a gram another id, and it opens a new generation.  *)
LEMMA LeaseKeepsIds ==
  ASSUME LeaseInv, NEW p \in Threads, Lease(p), disk' # disk
  PROVE  \A g \in Grams : disk.dict[g] # NoTerm => disk'.dict[g] = disk.dict[g]
<1>1. CommitSql(p)
  <2>1. CASE FinishUpsert(p)
    <3>1. call.saved # NoTxn
      BY <2>1 DEF LeaseInv, InCall, FinishUpsert
    <3> QED
      BY <2>1, <3>1 DEF FinishUpsert, Release
  <2>2. ASSUME NEW k \in Keys, Remove(p, k) PROVE disk' = disk
    BY <2>2 DEF LeaseInv, Transaction, Remove, DropCall, Release
  <2>3. ASSUME NEW k \in Keys, NEW l \in Labels, RemoveSegment(p, k, l) PROVE disk' = disk
    BY <2>3 DEF LeaseInv, Transaction, RemoveSegment, DropCall, Release
  <2> QED
    BY <2>1, <2>2, <2>3 DEF Lease, CheckPoisoned, Begin, Upsert, WriteSegment, CallFails,
       CommitFails, MergeStage, ApplyDfChanges, BeginNext, DropWriter
<1>2. disk' = txn /\ txn # NoTxn /\ pc[p] = "leased"
  BY <1>1 DEF CommitSql
<1>3. mem.map = disk.dict /\ txn.dict = Resolved(mem, stage)
  BY <1>2, LeaseSettled DEF LeaseInv, Transaction, Matches
<1>4. IsDictionary(mem) /\ IsStage(mem, stage)
  BY <1>2 DEF LeaseInv, Generations, Transaction, Matches
<1> QED
  BY <1>2, <1>3, <1>4, StageExtends

LEMMA MaintenanceKeepsIds ==
  ASSUME LeaseInv, NEW p \in Threads, Maintenance(p), disk'.gen = disk.gen
  PROVE  disk'.dict = disk.dict
<1>1. ASSUME NEW corpus \in [Keys -> Docs], Rebuild(p, corpus) PROVE FALSE
  <2>1. PICK rows, d : disk' = RebuiltTables(rows, d, disk.gen)
    BY <1>1 DEF Rebuild
  <2>2. disk.gen \in Nat
    BY DEF LeaseInv, Generations, IsTables
  <2> QED
    BY <2>1, <2>2 DEF RebuiltTables
<1>2. CASE Compact(p)
  BY <1>2 DEF LeaseInv, Generations, IsTables, Compact
<1>3. CASE ReloadSucceeds(p) \/ ReloadFails(p)
  BY <1>3 DEF ReloadSucceeds, ReloadFails
<1> QED
  BY <1>1, <1>2, <1>3 DEF Maintenance

(* An id a reader holds of a gram keeps meaning that gram until the        *)
(* generation changes.                                                     *)
THEOREM IdsStable == Disciplined /\ Spec => IdsStableInGeneration
<1> DEFINE Stable == disk'.gen = disk.gen =>
                       \A g \in Grams : disk.dict[g] # NoTerm => disk'.dict[g] = disk.dict[g]
<1>1. ASSUME LeaseInv, [Next]_vars PROVE [Stable]_vars
  <2> SUFFICES ASSUME disk'.gen = disk.gen, disk' # disk
               PROVE  \A g \in Grams : disk.dict[g] # NoTerm => disk'.dict[g] = disk.dict[g]
    BY DEF Stable
  <2>1. Next
    BY <1>1 DEF vars
  <2>2. disk' = disk \/ ~CrashAndOpen
    BY DEF CrashAndOpen
  <2> QED
    BY <1>1, <2>1, <2>2, LeaseKeepsIds, MaintenanceKeepsIds DEF Next
<1> QED
  BY <1>1, LeaseInvariant, PTL DEF Spec, IdsStableInGeneration, Stable

-----------------------------------------------------------------------------
(* The tables.                                                             *)

(* The parts of Consistent, and the types they need.                       *)

(* The segment tables and the forward rows, through dictionary d.          *)
Live(segs, d) ==
  /\ IsSegmentTables(segs)
  /\ \A s \in SegId :
       segs.fwd[s] = IF s \in DOMAIN segs.row THEN TermsOf(d, segs.row[s].txt) ELSE {}
  /\ \A s \in DOMAIN segs.row : NoTerm \notin TermsOf(d, segs.row[s].txt)
  /\ \A s \in DOMAIN segs.row : s < segs.nextId
  /\ segs.count = Cardinality(DOMAIN segs.row)

(* Every id of a posting was handed out.                                   *)
Below(post, next) ==
  \A t \in TermId : \A s \in post.base[t] \cup post.added[t] \cup post.removed[t] : s < next

Inverts(post, segs) == \A t \in TermId : Effective(post, t) = Holders(segs, t)

Injective(d) == \A g, h \in Grams : d[g] = d[h] /\ d[g] # NoTerm => g = h

Sound(db) ==
  /\ Live(db.segs, db.dict)
  /\ db.post \in PostingTables
  /\ Inverts(db.post, db.segs)
  /\ Exact(db.post)
  /\ Below(db.post, db.segs.nextId)
  /\ Injective(db.dict)

LEMMA SoundIsConsistent ==
  ASSUME NEW db, Sound(db)
  PROVE  Consistent(db)
BY DEF Sound, Consistent, Live, Inverts, Exact, Below, Injective, Holders

LEMMA LiveIsForward ==
  ASSUME NEW segs, NEW d, Live(segs, d)
  PROVE  /\ IsSegmentTables(segs) /\ ForwardLive(segs)
         /\ \A t \in TermId : \A s \in Holders(segs, t) :
              s \in SegId /\ s \in DOMAIN segs.row /\ s < segs.nextId
BY DEF Live, ForwardLive, Holders

-----------------------------------------------------------------------------
(* What a drop, an insert, a fold and a rebuild leave.                     *)

LEMMA DropLive ==
  ASSUME NEW segs, NEW d, Live(segs, d), NEW S, S \in SUBSET DOMAIN segs.row
  PROVE  /\ Live(DropSegments(segs, S), d)
         /\ DropSegments(segs, S).nextId = segs.nextId
         /\ DropSegments(segs, S).row = [s \in DOMAIN segs.row \ S |-> segs.row[s]]
<1> DEFINE q == DropSegments(segs, S)
<1>1. /\ q.row = [s \in DOMAIN segs.row \ S |-> segs.row[s]]
      /\ q.fwd = [s \in SegId |-> IF s \in S THEN {} ELSE segs.fwd[s]]
      /\ q.nextId = segs.nextId
      /\ q.count = segs.count - Cardinality(S)
  BY DEF DropSegments, Restrict
<1>2. IsSegmentTables(q)
  BY DropSegmentsType DEF Live
<1>3. DOMAIN q.row = DOMAIN segs.row \ S
  BY <1>1
<1>4. q.count = Cardinality(DOMAIN q.row)
  <2>1. DOMAIN segs.row \in SUBSET SegId /\ S \in SUBSET SegId
    BY DEF Live, IsSegmentTables
  <2>2. IsFiniteSet(DOMAIN segs.row)
    BY <2>1, SegIdFinite
  <2>3. Cardinality(DOMAIN segs.row \ S)
          = Cardinality(DOMAIN segs.row) - Cardinality(DOMAIN segs.row \cap S)
    BY <2>2, FS_Difference
  <2>4. DOMAIN segs.row \cap S = S
    OBVIOUS
  <2>5. segs.count = Cardinality(DOMAIN segs.row)
    BY DEF Live
  <2> QED
    BY <1>1, <1>3, <2>3, <2>4, <2>5
<1> HIDE DEF q
<1>5. \A s \in SegId :
        q.fwd[s] = IF s \in DOMAIN q.row THEN TermsOf(d, q.row[s].txt) ELSE {}
  BY <1>1, <1>3 DEF Live
<1>6. /\ \A s \in DOMAIN q.row : NoTerm \notin TermsOf(d, q.row[s].txt)
      /\ \A s \in DOMAIN q.row : s < q.nextId
  BY <1>1, <1>3 DEF Live
<1> QED
  BY <1>1, <1>2, <1>4, <1>5, <1>6 DEF Live, q

(* Rows at the next ids, their grams all interned in a dictionary that     *)
(* extends the one before.                                                 *)
LEMMA InsertLive ==
  ASSUME NEW segs, NEW d, Live(segs, d), NEW e, NEW rows, NEW n, n \in Nat,
         IsRows(rows, e), DOMAIN rows = AllocIds(segs, n),
         \A g \in Grams : d[g] # NoTerm => e[g] = d[g]
  PROVE  /\ Live(InsertSegments(segs, rows, e), e)
         /\ InsertSegments(segs, rows, e).nextId = segs.nextId + n
         /\ \A s \in DOMAIN segs.row :
              /\ s \in DOMAIN InsertSegments(segs, rows, e).row
              /\ InsertSegments(segs, rows, e).row[s] = segs.row[s]
         /\ \A s \in DOMAIN rows :
              /\ s \in DOMAIN InsertSegments(segs, rows, e).row
              /\ InsertSegments(segs, rows, e).row[s] = rows[s]
<1> DEFINE q == InsertSegments(segs, rows, e)
<1>1. /\ q.row = [s \in DOMAIN segs.row \cup DOMAIN rows |->
                   IF s \in DOMAIN rows THEN rows[s] ELSE segs.row[s]]
      /\ q.fwd = [s \in SegId |-> IF s \in DOMAIN rows
                                  THEN TermsOf(e, rows[s].txt)
                                  ELSE segs.fwd[s]]
      /\ q.count = segs.count + Cardinality(DOMAIN rows)
  BY DEF InsertSegments
<1>2. IsSegmentTables(q) /\ q.nextId = segs.nextId + n
  BY InsertSegmentsType DEF Live
<1>3. DOMAIN q.row = DOMAIN segs.row \cup DOMAIN rows
  BY <1>1
<1>4. segs.nextId \in Nat /\ DOMAIN segs.row \in SUBSET SegId /\ DOMAIN rows \in SUBSET SegId
  BY IdCeilings DEF Live, IsSegmentTables, IsRows
<1>5. \A s \in DOMAIN rows : s \in Int /\ s >= segs.nextId /\ s < segs.nextId + n
  BY <1>4 DEF AllocIds
<1>6. DOMAIN segs.row \cap DOMAIN rows = {}
  <2>1. \A s \in DOMAIN segs.row : s < segs.nextId /\ s \in Int
    BY <1>4 DEF Live, SegId
  <2> QED
    BY <1>4, <1>5, <2>1
<1>7. q.count = Cardinality(DOMAIN q.row)
  <2>1. IsFiniteSet(DOMAIN segs.row) /\ IsFiniteSet(DOMAIN rows)
    BY <1>4, SegIdFinite
  <2>2. Cardinality(DOMAIN segs.row) \in Nat /\ Cardinality(DOMAIN rows) \in Nat
    BY <1>4, SegIdFinite
  <2>3. Cardinality(DOMAIN segs.row \cup DOMAIN rows)
          = Cardinality(DOMAIN segs.row) + Cardinality(DOMAIN rows)
              - Cardinality(DOMAIN segs.row \cap DOMAIN rows)
    BY <2>1, FS_Union
  <2>4. Cardinality(DOMAIN segs.row \cap DOMAIN rows) = 0
    BY <1>6, FS_EmptySet
  <2>5. segs.count = Cardinality(DOMAIN segs.row)
    BY DEF Live
  <2> QED
    BY <1>1, <1>3, <2>2, <2>3, <2>4, <2>5
<1> HIDE DEF q
<1>8. \A s \in DOMAIN segs.row : q.row[s] = segs.row[s] /\ s \in DOMAIN q.row
  BY <1>1, <1>3, <1>6
<1>9. \A s \in DOMAIN rows : q.row[s] = rows[s] /\ s \in DOMAIN q.row
  BY <1>1, <1>3
<1>10. ASSUME NEW s \in DOMAIN segs.row
       PROVE  TermsOf(e, segs.row[s].txt) = TermsOf(d, segs.row[s].txt)
  <2>1. segs.row[s].txt \in Texts
    BY DEF Live, IsSegmentTables, Row
  <2>2. GramsOf[segs.row[s].txt] \in SUBSET Grams
    BY <2>1, Tokenizer
  <2>3. NoTerm \notin TermsOf(d, segs.row[s].txt)
    BY DEF Live
  <2>4. \A g \in GramsOf[segs.row[s].txt] : e[g] = d[g]
    BY <2>2, <2>3 DEF TermsOf
  <2> QED
    BY <2>4 DEF TermsOf
<1>11. \A s \in SegId :
         q.fwd[s] = IF s \in DOMAIN q.row THEN TermsOf(e, q.row[s].txt) ELSE {}
  <2> SUFFICES ASSUME NEW s \in SegId
               PROVE  q.fwd[s] = IF s \in DOMAIN q.row THEN TermsOf(e, q.row[s].txt) ELSE {}
    OBVIOUS
  <2>1. CASE s \in DOMAIN rows
    BY <1>1, <1>9, <2>1
  <2>2. CASE s \in DOMAIN segs.row /\ s \notin DOMAIN rows
    BY <1>1, <1>8, <1>10, <2>2 DEF Live
  <2>3. CASE s \notin DOMAIN segs.row /\ s \notin DOMAIN rows
    BY <1>1, <1>3, <2>3 DEF Live
  <2> QED
    BY <2>1, <2>2, <2>3
<1>12. NoTerm \notin TermId
  BY IdCeilings DEF NoTerm, TermId
<1>13. \A s \in DOMAIN q.row : NoTerm \notin TermsOf(e, q.row[s].txt)
  <2>1. \A s \in DOMAIN segs.row : NoTerm \notin TermsOf(e, q.row[s].txt)
    BY <1>8, <1>10 DEF Live
  <2>2. \A s \in DOMAIN rows : NoTerm \notin TermsOf(e, q.row[s].txt)
    BY <1>9, <1>12 DEF IsRows
  <2> QED
    BY <1>3, <2>1, <2>2
<1>14. \A s \in DOMAIN q.row : s < q.nextId
  <2>1. \A s \in DOMAIN segs.row : s < segs.nextId /\ s \in Int
    BY <1>4 DEF Live, SegId
  <2>2. \A s \in DOMAIN segs.row : s < q.nextId
    BY <1>2, <1>4, <2>1
  <2>3. \A s \in DOMAIN rows : s < q.nextId
    BY <1>2, <1>5
  <2> QED
    BY <1>3, <2>2, <2>3
<1>15. Live(q, e)
  BY <1>2, <1>7, <1>11, <1>13, <1>14 DEF Live
<1> QED
  BY <1>2, <1>8, <1>9, <1>15 DEF q

(* What a call in progress still owes the postings of its transaction: the *)
(* segments it added and removed so far, the added ones at labels it is    *)
(* done with.                                                              *)
Owes(post, segs, add, remove, todo) ==
  /\ add \in TermChange /\ remove \in TermChange
  /\ \A t \in TermId :
       /\ remove[t] \subseteq Effective(post, t)
       /\ add[t] \cap Effective(post, t) = {}
       /\ Holders(segs, t) = (Effective(post, t) \ remove[t]) \cup add[t]
       /\ \A s \in add[t] : s \in DOMAIN segs.row /\ segs.row[s].label \notin todo

(* One change and another after it.                                        *)
Both(change, more) == [t \in TermId |-> change[t] \cup more[t]]

LEMMA OwesNothing ==
  ASSUME NEW post, NEW segs, Inverts(post, segs), NEW todo
  PROVE  Owes(post, segs, NoChange, NoChange, todo)
BY NoChangeType DEF Owes, Inverts, NoChange

LEMMA BelowGrows ==
  ASSUME NEW post, post \in PostingTables, NEW a, NEW b, a \in Nat, b \in Nat, a <= b,
         Below(post, a)
  PROVE  Below(post, b)
<1> SUFFICES ASSUME NEW t \in TermId,
                    NEW s \in post.base[t] \cup post.added[t] \cup post.removed[t]
             PROVE  s < b
  BY DEF Below
<1>1. s \in SegId
  BY DEF PostingTables, TermChange
<1>2. s < a /\ s \in Int
  BY <1>1 DEF Below, SegId
<1> QED
  BY <1>2

LEMMA EffectiveBelow ==
  ASSUME NEW post, post \in PostingTables, NEW next, Below(post, next), NEW t \in TermId
  PROVE  \A s \in Effective(post, t) : s < next /\ s \in SegId
BY DEF Below, Effective, PostingTables, TermChange

(* Paying what is owed makes the tables one index again.                   *)
LEMMA PaidIsSound ==
  ASSUME NEW segs, NEW d, Live(segs, d), Injective(d),
         NEW post, post \in PostingTables, Exact(post), Below(post, segs.nextId),
         NEW add, NEW remove, NEW todo, Owes(post, segs, add, remove, todo),
         NEW db, db.segs = segs, db.dict = d, db.post = ApplyWrites(post, add, remove)
  PROVE  Sound(db)
<1> DEFINE q == ApplyWrites(post, add, remove)
<1>1. add \in TermChange /\ remove \in TermChange
  BY DEF Owes
<1>2. q \in PostingTables
  BY <1>1, ApplyWritesType
<1>3. Exact(q)
  <2>1. \A t \in TermId : /\ remove[t] \subseteq Effective(post, t)
                          /\ add[t] \cap Effective(post, t) = {}
    BY DEF Owes
  <2> QED
    BY <1>1, <2>1, ApplyWritesExact
<1>4. Inverts(q, segs)
  <2> SUFFICES ASSUME NEW t \in TermId PROVE Effective(q, t) = Holders(segs, t)
    BY DEF Inverts
  <2>1. Effective(q, t) = (Effective(post, t) \ remove[t]) \cup add[t]
    BY <1>1, ApplyWritesEffective
  <2> QED
    BY <2>1 DEF Owes
<1>5. Below(q, segs.nextId)
  <2> SUFFICES ASSUME NEW t \in TermId
               PROVE  \A s \in q.base[t] \cup q.added[t] \cup q.removed[t] : s < segs.nextId
    BY DEF Below
  <2>1. /\ q.base[t] = post.base[t]
        /\ q.added[t] \subseteq post.added[t] \cup add[t]
        /\ q.removed[t] \subseteq post.removed[t] \cup remove[t]
    BY DEF ApplyWrites
  <2>2. add[t] \subseteq Holders(segs, t) /\ remove[t] \subseteq Effective(post, t)
    BY DEF Owes
  <2>3. \A s \in add[t] \cup remove[t] : s < segs.nextId
    BY <2>2, LiveIsForward, EffectiveBelow
  <2>4. \A s \in post.base[t] \cup post.added[t] \cup post.removed[t] : s < segs.nextId
    BY DEF Below
  <2> HIDE DEF q
  <2> QED
    BY <2>1, <2>3, <2>4
<1> HIDE DEF q
<1>6. db.post = q
  BY DEF q
<1> QED
  BY <1>2, <1>3, <1>4, <1>5, <1>6 DEF Sound

(* One label of Writer::upsert: the old segment at label l, if any, goes,  *)
(* and rows, one at the next id, comes, its grams interned in e.           *)
OneLabel(segs, d, post, add, remove, todo, l, old, e, rows) ==
  /\ Live(segs, d)
  /\ post \in PostingTables /\ Below(post, segs.nextId)
  /\ Owes(post, segs, add, remove, todo)
  /\ l \in todo
  /\ old \in SUBSET DOMAIN segs.row /\ \A s \in old : segs.row[s].label = l
  /\ IsRows(rows, e) /\ DOMAIN rows = AllocIds(segs, 1)
  /\ \A s \in DOMAIN rows : rows[s].label = l
  /\ \A g \in Grams : d[g] # NoTerm => e[g] = d[g]

LEMMA WriteOwes ==
  ASSUME NEW segs, NEW d, NEW post, NEW add, NEW remove, NEW todo, NEW l, NEW old,
         NEW e, NEW rows, OneLabel(segs, d, post, add, remove, todo, l, old, e, rows),
         NEW next, next = InsertSegments(DropSegments(segs, old), rows, e)
  PROVE  /\ Live(next, e)
         /\ Below(post, next.nextId)
         /\ Owes(post, next,
                 Both(add, AdditionsOf(rows, e)), Both(remove, RemovalsOf(segs, old)),
                 todo \ {l})
<1>0. /\ Live(segs, d)
      /\ post \in PostingTables /\ Below(post, segs.nextId)
      /\ Owes(post, segs, add, remove, todo)
      /\ l \in todo
      /\ old \in SUBSET DOMAIN segs.row /\ \A s \in old : segs.row[s].label = l
      /\ IsRows(rows, e) /\ DOMAIN rows = AllocIds(segs, 1)
      /\ \A s \in DOMAIN rows : rows[s].label = l
      /\ \A g \in Grams : d[g] # NoTerm => e[g] = d[g]
  BY DEF OneLabel
<1> USE <1>0
<1> DEFINE q   == DropSegments(segs, old)
           gain == AdditionsOf(rows, e)
           loss == RemovalsOf(segs, old)
<1>1. /\ Live(q, d)
      /\ q.nextId = segs.nextId
      /\ q.row = [s \in DOMAIN segs.row \ old |-> segs.row[s]]
  BY DropLive
<1>2. DOMAIN rows = AllocIds(q, 1)
  BY <1>1 DEF AllocIds
<1>3. segs.nextId \in Nat
  BY IdCeilings DEF Live, IsSegmentTables
<1> HIDE DEF q
<1>4. /\ Live(next, e)
      /\ next.nextId = q.nextId + 1
      /\ \A s \in DOMAIN q.row : s \in DOMAIN next.row /\ next.row[s] = q.row[s]
      /\ \A s \in DOMAIN rows : s \in DOMAIN next.row /\ next.row[s] = rows[s]
  BY <1>1, <1>2, InsertLive DEF q
<1>5. Below(post, next.nextId)
  <2>1. next.nextId \in Nat /\ segs.nextId <= next.nextId
    BY <1>1, <1>3, <1>4
  <2> QED
    BY <1>3, <2>1, BelowGrows
<1>6. gain \in TermChange /\ loss \in TermChange
  BY AdditionsOfType, RemovalsOfType DEF Live
<1>7. /\ \A t \in TermId : Holders(q, t) = Holders(segs, t) \ loss[t]
      /\ \A t \in TermId : Holders(next, t) = (Holders(q, t) \ DOMAIN rows) \cup gain[t]
      /\ \A t \in TermId : loss[t] \subseteq Holders(segs, t)
  <2>1. ForwardLive(segs) /\ IsSegmentTables(segs) /\ ForwardLive(q) /\ IsSegmentTables(q)
    BY <1>1, LiveIsForward
  <2>2. \A t \in TermId : Holders(q, t) = Holders(segs, t) \ loss[t]
    BY <2>1, DropSegmentsHolders DEF q
  <2>3. \A t \in TermId : Holders(next, t) = (Holders(q, t) \ DOMAIN rows) \cup gain[t]
    BY <2>1, InsertSegmentsHolders DEF q
  <2> QED
    BY <2>1, <2>2, <2>3, RemovalsOfType
<1>8. \A s \in DOMAIN rows : s = segs.nextId
  BY <1>3 DEF AllocIds
<1>9. \A t \in TermId : \A s \in Holders(segs, t) \cup Effective(post, t) : s # segs.nextId
  <2>1. \A t \in TermId : \A s \in Holders(segs, t) \cup Effective(post, t) :
          s < segs.nextId /\ s \in SegId
    BY LiveIsForward, EffectiveBelow
  <2> QED
    BY <1>3, <2>1 DEF SegId
<1>10. \A t \in TermId : gain[t] \subseteq DOMAIN rows /\ loss[t] \subseteq old
  BY DEF AdditionsOf, RemovalsOf
<1> HIDE DEF gain, loss
<1>11. add \in TermChange /\ remove \in TermChange
  BY DEF Owes
<1>12. Both(add, gain) \in TermChange /\ Both(remove, loss) \in TermChange
  BY <1>6, <1>11 DEF TermChange, Both
<1>13. ASSUME NEW t \in TermId
       PROVE  /\ remove[t] \cup loss[t] \subseteq Effective(post, t)
              /\ (add[t] \cup gain[t]) \cap Effective(post, t) = {}
              /\ Holders(next, t) =
                   (Effective(post, t) \ (remove[t] \cup loss[t])) \cup (add[t] \cup gain[t])
              /\ \A s \in add[t] \cup gain[t] :
                   s \in DOMAIN next.row /\ next.row[s].label \notin todo \ {l}
  <2> DEFINE E == Effective(post, t)
             H == Holders(segs, t)
  <2>1. /\ remove[t] \subseteq E /\ add[t] \cap E = {}
        /\ H = (E \ remove[t]) \cup add[t]
        /\ \A s \in add[t] : s \in DOMAIN segs.row /\ segs.row[s].label \notin todo
    BY DEF Owes
  <2>2. \A s \in add[t] : s \notin old
    BY <2>1
  <2>3. loss[t] \subseteq E /\ loss[t] \cap add[t] = {}
    BY <1>7, <1>10, <2>1, <2>2
  <2>4. gain[t] \cap E = {} /\ H \ DOMAIN rows = H
    BY <1>8, <1>9, <1>10
  <2>5. Holders(next, t) = ((H \ loss[t]) \ DOMAIN rows) \cup gain[t]
    BY <1>7
  <2>6. ASSUME NEW s \in add[t]
        PROVE  s \in DOMAIN next.row /\ next.row[s].label \notin todo \ {l}
    BY <1>1, <1>4, <2>1, <2>2
  <2>7. ASSUME NEW s \in gain[t]
        PROVE  s \in DOMAIN next.row /\ next.row[s].label \notin todo \ {l}
    BY <1>4, <1>10
  <2> HIDE DEF E, H
  <2>8. Holders(next, t) = (E \ (remove[t] \cup loss[t])) \cup (add[t] \cup gain[t])
    BY <2>1, <2>3, <2>4, <2>5
  <2> QED
    BY <2>1, <2>3, <2>4, <2>6, <2>7, <2>8 DEF E
<1>14. Owes(post, next, Both(add, gain), Both(remove, loss), todo \ {l})
  <2>1. \A t \in TermId : /\ Both(add, gain)[t] = add[t] \cup gain[t]
                          /\ Both(remove, loss)[t] = remove[t] \cup loss[t]
    BY DEF Both
  <2> QED
    BY <1>12, <1>13, <2>1 DEF Owes
<1> QED
  BY <1>4, <1>5, <1>14 DEF gain, loss

LEMMA DropSound ==
  ASSUME NEW db, Sound(db), NEW S, S \in SUBSET DOMAIN db.segs.row,
         NEW q, q.dict = db.dict, q.segs = DropSegments(db.segs, S),
         q.post = ApplyWrites(db.post, NoChange, RemovalsOf(db.segs, S))
  PROVE  Sound(q)
<1> DEFINE segs == DropSegments(db.segs, S)
           loss == RemovalsOf(db.segs, S)
<1>1. /\ Live(db.segs, db.dict) /\ Injective(db.dict)
      /\ db.post \in PostingTables /\ Exact(db.post) /\ Inverts(db.post, db.segs)
      /\ Below(db.post, db.segs.nextId)
  BY DEF Sound
<1>2. Live(segs, db.dict) /\ segs.nextId = db.segs.nextId
  BY <1>1, DropLive
<1>3. IsSegmentTables(db.segs) /\ ForwardLive(db.segs)
  BY <1>1, LiveIsForward
<1>4. loss \in TermChange /\ \A t \in TermId : loss[t] \subseteq Holders(db.segs, t)
  BY <1>3, RemovalsOfType
<1>5. \A t \in TermId : Holders(segs, t) = Holders(db.segs, t) \ loss[t]
  BY <1>3, DropSegmentsHolders
<1> HIDE DEF segs, loss
<1>6. Owes(db.post, segs, NoChange, loss, {})
  <2>1. \A t \in TermId : /\ NoChange[t] = {}
                          /\ Effective(db.post, t) = Holders(db.segs, t)
    BY <1>1 DEF NoChange, Inverts
  <2> QED
    BY <1>4, <1>5, <2>1, NoChangeType DEF Owes
<1> QED
  BY <1>1, <1>2, <1>6, PaidIsSound DEF segs, loss

LEMMA FoldSound ==
  ASSUME NEW db, Sound(db), NEW q, q.dict = db.dict, q.segs = db.segs, q.post = Fold(db.post)
  PROVE  Sound(q)
<1>1. db.post \in PostingTables /\ Exact(db.post) /\ Inverts(db.post, db.segs)
  BY DEF Sound
<1>2. Fold(db.post) \in PostingTables /\ Exact(Fold(db.post))
  BY <1>1, FoldType, FoldExact
<1>3. Inverts(Fold(db.post), db.segs)
  BY <1>1, FoldEffective DEF Inverts
<1>4. Below(Fold(db.post), db.segs.nextId)
  <2>1. \A t \in TermId : \A s \in Effective(db.post, t) : s < db.segs.nextId
    BY <1>1, EffectiveBelow DEF Sound
  <2> QED
    BY <2>1 DEF Below, Fold, NoChange
<1> QED
  BY <1>2, <1>3, <1>4 DEF Sound

LEMMA NoSegmentsLive ==
  ASSUME NEW d
  PROVE  Live(NoSegments, d) /\ NoSegments.nextId = 1
<1>1. IsSegmentTables(NoSegments)
  BY NoSegmentsType
<1>2. /\ DOMAIN NoSegments.row = {} /\ NoSegments.count = 0 /\ NoSegments.nextId = 1
      /\ \A s \in SegId : NoSegments.fwd[s] = {}
  BY DEF NoSegments
<1>3. Cardinality(DOMAIN NoSegments.row) = 0
  BY <1>2, FS_EmptySet
<1> QED
  BY <1>1, <1>2, <1>3 DEF Live

LEMMA EmptySound ==
  ASSUME NEW db, db.segs = NoSegments, db.post = NoPostings, db.dict = EmptyDict
  PROVE  Sound(db)
<1>1. Live(NoSegments, EmptyDict) /\ Injective(EmptyDict)
  BY NoSegmentsLive DEF Injective, EmptyDict
<1>2. Exact(NoPostings) /\ Inverts(NoPostings, NoSegments) /\ NoPostings \in PostingTables
  BY NoPostingsEffective, NoPostingsType, NoSegmentsType, FS_EmptySet DEF Exact, Inverts
<1>3. Below(NoPostings, NoSegments.nextId)
  BY DEF Below, NoPostings, NoChange
<1> QED
  BY <1>1, <1>2, <1>3 DEF Sound

LEMMA RebuiltSound ==
  ASSUME NEW n, n \in Nat, NEW rows, NEW d, d \in Dictionaries, Injective(d),
         DOMAIN rows = AllocIds(NoSegments, n), IsRows(rows, d),
         NEW gen, NEW q, q = RebuiltTables(rows, d, gen)
  PROVE  Sound(q)
<1> DEFINE gain == AdditionsOf(rows, d)
           segs == InsertSegments(NoSegments, rows, d)
<1>1. Live(NoSegments, EmptyDict) /\ NoSegments.nextId = 1
  BY NoSegmentsLive
<1>2. \A g \in Grams : EmptyDict[g] # NoTerm => d[g] = EmptyDict[g]
  BY DEF EmptyDict
<1>3. Live(segs, d)
  BY <1>1, <1>2, InsertLive
<1>4. gain \in TermChange
  BY AdditionsOfType
<1>5. \A t \in TermId : Holders(segs, t) = gain[t]
  <2>1. \A t \in TermId : Holders(segs, t)
          = (Holders(NoSegments, t) \ DOMAIN rows) \cup gain[t]
    BY NoSegmentsType, InsertSegmentsHolders
  <2> QED
    BY <2>1, NoSegmentsType
<1> HIDE DEF gain, segs
<1> DEFINE post == BasePostings(gain)
<1>6. /\ post \in PostingTables
      /\ \A t \in TermId : Effective(post, t) = gain[t] /\ post.df[t] = Cardinality(gain[t])
  BY <1>4, BasePostingsType, BasePostingsEffective
<1>7. Below(post, segs.nextId)
  <2>1. \A t \in TermId : \A s \in gain[t] : s < segs.nextId
    BY <1>3, <1>5, LiveIsForward
  <2> QED
    BY <2>1 DEF Below, BasePostings, NoChange
<1> HIDE DEF post
<1>8. q.segs = segs /\ q.post = post /\ q.dict = d
  BY DEF RebuiltTables, gain, segs, post
<1>9. Exact(post) /\ Inverts(post, segs)
  BY <1>5, <1>6 DEF Exact, Inverts
<1> QED
  BY <1>3, <1>6, <1>7, <1>8, <1>9 DEF Sound

-----------------------------------------------------------------------------
(* The inductive invariant, beside LeaseInv.                               *)

StageDistinct(m, st) == Distinct(Resolved(m, st), st.base + Cardinality(Staged(st)))

InACall == \E p \in Threads : pc[p] = "in_call"

Committing == txn # NoTxn \/ \E p \in Threads : pc[p] = "merging"

(* The id mark is above every id of the map, and of the stage.             *)
Marks ==
  /\ Distinct(mem.map, mem.nextTerm)
  /\ Committing => StageDistinct(mem, stage)

(* Inside a call the postings are those of the savepoint still; the call   *)
(* knows what they miss.                                                   *)
HalfDone(db, add, remove, todo) ==
  /\ Live(db.segs, db.dict)
  /\ db.post \in PostingTables
  /\ Exact(db.post)
  /\ Below(db.post, db.segs.nextId)
  /\ Owes(db.post, db.segs, add, remove, todo)

CallSound ==
  InACall =>
    /\ call.key \in Keys
    /\ Sound(call.saved)
    /\ StageDistinct(mem, RollbackTo(stage, call.stageMark))
    /\ HalfDone(txn, call.add, call.remove, call.todo)

TablesInv ==
  /\ Sound(disk)
  /\ Marks
  /\ txn # NoTxn /\ ~InACall => Sound(txn)
  /\ CallSound

(* Dictionary::load sets the mark above the ids of what it loads.          *)
LEMMA LoadDistinct ==
  ASSUME NEW db, IsTables(db), Injective(db.dict)
  PROVE  Distinct(Load(db).map, Load(db).nextTerm)
<1> DEFINE S == {t \in TermId : \E g \in Grams : db.dict[g] >= t}
<1>1. IsFiniteSet(S)
  <2>1. S \in SUBSET TermId
    OBVIOUS
  <2>2. IsFiniteSet(TermId)
    BY IdCeilings, FS_Interval DEF TermId
  <2> QED
    BY <2>1, <2>2, FS_Subset
<1>2. Load(db).map = db.dict /\ Load(db).nextTerm = 1 + Cardinality(S)
  BY DEF Load
<1>3. ASSUME NEW g \in Grams PROVE db.dict[g] <= Cardinality(S)
  <2>1. db.dict[g] \in 0 .. MaxTermId
    BY IdCeilings DEF IsTables, Dictionaries, TermId, NoTerm
  <2>2. 1 .. db.dict[g] \in SUBSET S
    BY <2>1, IdCeilings DEF TermId
  <2>3. Cardinality(1 .. db.dict[g]) <= Cardinality(S)
    BY <1>1, <2>2, FS_Subset
  <2>4. Cardinality(1 .. db.dict[g]) = db.dict[g]
    <3>1. Cardinality(1 .. 1 + db.dict[g] - 1) = db.dict[g]
      BY <2>1, IdCeilings, IntervalSize
    <3>2. 1 + db.dict[g] - 1 = db.dict[g]
      BY <2>1, IdCeilings
    <3> QED
      BY <3>1, <3>2
  <2> QED
    BY <2>3, <2>4
<1>4. Cardinality(S) \in Nat
  BY <1>1, FS_CardinalityType
<1>5. \A g \in Grams : db.dict[g] \in Int
  BY IdCeilings DEF IsTables, Dictionaries, TermId, NoTerm
<1> HIDE DEF S
<1>6. \A g \in Grams : db.dict[g] < 1 + Cardinality(S)
  BY <1>3, <1>4, <1>5
<1> QED
  BY <1>2, <1>6 DEF Distinct, Injective

LEMMA EmptyStageDistinct ==
  ASSUME NEW m, IsDictionary(m), Distinct(m.map, m.nextTerm)
  PROVE  StageDistinct(m, NewStage(m))
<1>1. Staged(NewStage(m)) = {}
  BY DEF Staged, NewStage, EmptyDict
<1>2. NewStage(m).base + Cardinality(Staged(NewStage(m))) = m.nextTerm
  <2>1. Cardinality(Staged(NewStage(m))) = 0
    BY <1>1, FS_EmptySet
  <2>2. NewStage(m).base = m.nextTerm /\ m.nextTerm \in Nat
    BY IdCeilings DEF NewStage, IsDictionary
  <2> QED
    BY <2>1, <2>2
<1>3. Resolved(m, NewStage(m)) = m.map
  BY EmptyStage
<1> QED
  BY <1>2, <1>3 DEF StageDistinct

(* InternStage::commit leaves the mark above what it merged.               *)
LEMMA MergeDistinct ==
  ASSUME NEW m, NEW st, IsDictionary(m), IsStage(m, st), StageDistinct(m, st),
         Distinct(m.map, m.nextTerm)
  PROVE  Distinct(Merge(m, st).map, Merge(m, st).nextTerm)
<1> DEFINE next == IF Staged(st) = {} THEN m.nextTerm ELSE st.base + Cardinality(Staged(st))
<1>1. Merge(m, st).map = Resolved(m, st) /\ Merge(m, st).nextTerm = next
  BY DEF Merge, IsDictionary
<1>2. CASE Staged(st) = {}
  <2>1. \A g \in Grams : (IF m.map[g] # NoTerm THEN m.map[g] ELSE st.new[g]) = m.map[g]
    BY <1>2 DEF Staged
  <2>2. Resolved(m, st) = m.map
    BY <2>1 DEF Resolved, IsDictionary, Dictionaries
  <2> QED
    BY <1>1, <1>2, <2>2
<1>3. CASE Staged(st) # {}
  BY <1>1, <1>3 DEF StageDistinct
<1> QED
  BY <1>2, <1>3

LEMMA StagingDistinct ==
  ASSUME NEW m, NEW st, NEW G, NEW s2,
         IsDictionary(m), IsStage(m, st), G \in SUBSET Grams, s2 \in Stagings(m, st, G),
         StageDistinct(m, st)
  PROVE  /\ StageDistinct(m, s2)
         /\ \A g \in G : Resolved(m, s2)[g] \in TermId
         /\ \A g \in Grams : Resolved(m, st)[g] # NoTerm
                               => Resolved(m, s2)[g] = Resolved(m, st)[g]
<1> DEFINE old  == Resolved(m, st)
           next == st.base + Cardinality(Staged(st))
           d    == Resolved(m, s2)
<1>1. /\ d \in Interned(old, next, G)
      /\ s2.base + Cardinality(Staged(s2)) = next + Cardinality({g \in Grams : d[g] # old[g]})
  <2>1. InternsNext(m, st, G, s2)
    BY StagingAdds
  <2> QED
    BY <2>1 DEF InternsNext
<1>2. old \in Dictionaries /\ next \in 1 .. MaxTermId + 1 /\ Distinct(old, next)
  BY StageExtends DEF IsStage, StageDistinct
<1> HIDE DEF old, next, d
<1>3. Distinct(d, next + Cardinality({g \in Grams : d[g] # old[g]}))
  BY <1>1, <1>2, InternedDistinct
<1>4. /\ \A g \in G : d[g] \in TermId
      /\ \A g \in Grams : old[g] # NoTerm => d[g] = old[g]
  BY <1>1, <1>2, InternedProperties
<1> QED
  BY <1>1, <1>3, <1>4 DEF StageDistinct, old, next, d

LEMMA StageDistinctInjective ==
  ASSUME NEW m, NEW st, StageDistinct(m, st)
  PROVE  Injective(Resolved(m, st))
BY DEF StageDistinct, Distinct, Injective

-----------------------------------------------------------------------------
(* Each action.                                                            *)

LEMMA InitTables == Init => TablesInv
<1> SUFFICES ASSUME Init PROVE TablesInv
  OBVIOUS
<1>1. /\ disk = [segs |-> NoSegments, post |-> NoPostings, dict |-> EmptyDict, gen |-> 0]
      /\ mem = Load(disk) /\ pc = [p \in Threads |-> "idle"] /\ txn = NoTxn
  BY DEF Init
<1>2. Sound(disk)
  BY <1>1, EmptySound
<1>3. Distinct(mem.map, mem.nextTerm)
  <2>1. IsTables(disk)
    BY <1>1, EmptyDictType DEF IsTables
  <2> QED
    BY <1>1, <1>2, <2>1, LoadDistinct DEF Sound
<1> QED
  BY <1>1, <1>2, <1>3 DEF TablesInv, Marks, Committing, CallSound, InACall

(* While one thread is past the mutex only its pc says whether a call is   *)
(* open and whether a merge is due.                                        *)
LEMMA HolderAlone ==
  ASSUME LeaseInv, NEW p \in Threads, pc[p] \in Holding
  PROVE  /\ InACall <=> pc[p] = "in_call"
         /\ (\E q \in Threads : pc[q] = "merging") <=> pc[p] = "merging"
<1>1. \A q \in Threads : pc[q] \in Holding => q = p
  BY Alone DEF LeaseInv
<1> QED
  BY <1>1 DEF InACall, Holding

LEMMA MovedTo ==
  ASSUME LeaseInv, NEW p \in Threads, pc[p] \in Holding, NEW to \in PCs, Goto(p, to)
  PROVE  /\ InACall' <=> to = "in_call"
         /\ (\E q \in Threads : pc'[q] = "merging") <=> to = "merging"
<1>1. \A q \in Threads : pc[q] \in Holding => q = p
  BY Alone DEF LeaseInv
<1>2. \A q \in Threads : pc'[q] = IF q = p THEN to ELSE pc[q]
  BY Moved DEF LeaseInv
<1> QED
  BY <1>1, <1>2 DEF InACall, Holding

(* A step that leaves tables, memory, stage and call.                      *)
LEMMA QuietStep ==
  ASSUME TablesInv, UNCHANGED <<disk, mem, txn, stage, call>>,
         InACall' <=> InACall,
         (\E q \in Threads : pc'[q] = "merging") => \E q \in Threads : pc[q] = "merging"
  PROVE  TablesInv'
<1>1. Marks'
  BY DEF TablesInv, Marks, Committing
<1>2. CallSound'
  <2>1. InACall => /\ call.key \in Keys /\ Sound(call.saved)
                   /\ StageDistinct(mem, RollbackTo(stage, call.stageMark))
                   /\ HalfDone(txn, call.add, call.remove, call.todo)
    BY DEF TablesInv, CallSound
  <2> QED
    BY <2>1 DEF CallSound
<1>3. Sound(disk)' /\ (txn # NoTxn /\ ~InACall => Sound(txn))'
  <2>1. Sound(disk) /\ (txn # NoTxn /\ ~InACall => Sound(txn))
    BY DEF TablesInv
  <2>2. disk' = disk /\ txn' = txn
    OBVIOUS
  <2> QED
    BY <2>1, <2>2
<1> QED
  BY <1>1, <1>2, <1>3 DEF TablesInv

LEMMA CheckPoisonedTables ==
  ASSUME LeaseInv, TablesInv, NEW p \in Threads, CheckPoisoned(p) PROVE TablesInv'
<1>1. PICK next \in {"want_writer", "want_compact"} : Goto(p, next)
  BY DEF CheckPoisoned
<1>2. pc[p] = "idle" /\ next \in PCs /\ UNCHANGED <<disk, mem, txn, stage, call>>
  BY DEF CheckPoisoned, lease, PCs
<1>3. \A q \in Threads : pc'[q] = IF q = p THEN next ELSE pc[q]
  BY <1>1, <1>2, Moved DEF LeaseInv
<1>4. \A q \in Threads : /\ pc'[q] = "in_call" <=> pc[q] = "in_call"
                         /\ pc'[q] = "merging" <=> pc[q] = "merging"
  BY <1>1, <1>2, <1>3
<1>5. InACall' <=> InACall
  BY <1>4 DEF InACall
<1> QED
  BY <1>2, <1>4, <1>5, QuietStep

LEMMA BeginTables ==
  ASSUME LeaseInv, TablesInv, NEW p \in Threads, Begin(p) PROVE TablesInv'
<1>1. /\ pc[p] = "want_writer" /\ holder = NoThread
      /\ txn' = disk /\ stage' = NewStage(mem) /\ Goto(p, "leased")
      /\ UNCHANGED <<disk, mem, call>>
  BY DEF Begin
<1>2. ~InACall'
  <2>1. \A q \in Threads : pc[q] \notin Holding
    BY <1>1, FreeLock
  <2>2. \A q \in Threads : pc'[q] = IF q = p THEN "leased" ELSE pc[q]
    BY <1>1, Moved DEF LeaseInv, PCs, Holding
  <2> QED
    BY <2>1, <2>2 DEF InACall, Holding
<1>3. Distinct(mem.map, mem.nextTerm) /\ Sound(disk)
  BY DEF TablesInv, Marks
<1>4. StageDistinct(mem, NewStage(mem))
  BY <1>3, EmptyStageDistinct DEF LeaseInv, Generations
<1> QED
  BY <1>1, <1>2, <1>3, <1>4 DEF TablesInv, Marks, CallSound

LEMMA UpsertTables ==
  ASSUME LeaseInv, TablesInv, NEW p \in Threads, NEW k \in Keys, NEW doc \in Docs,
         Upsert(p, k, doc)
  PROVE  TablesInv'
<1>1. /\ pc[p] = "leased" /\ txnOpen
      /\ call' = [key |-> k, doc |-> doc, todo |-> DOMAIN doc, saved |-> txn,
                  stageMark |-> Cardinality(Staged(stage)), dfMark |-> Len(pending),
                  add |-> NoChange, remove |-> NoChange]
      /\ txn' = View /\ Goto(p, "in_call") /\ UNCHANGED <<disk, mem, stage>>
  BY DEF Upsert
<1>2. txn # NoTxn /\ txn' = txn /\ IsDictionary(mem) /\ IsStage(mem, stage)
  BY <1>1 DEF LeaseInv, Generations, Transaction, Matches, View
<1>3. InACall' /\ ~InACall /\ ~(\E q \in Threads : pc'[q] = "merging")
  <2>1. pc[p] \in Holding /\ "in_call" \in PCs
    BY <1>1 DEF Holding, PCs
  <2> QED
    BY <1>1, <2>1, HolderAlone, MovedTo
<1>4. Sound(txn) /\ StageDistinct(mem, stage) /\ Sound(disk) /\ Distinct(mem.map, mem.nextTerm)
  BY <1>2, <1>3 DEF TablesInv, Marks, Committing
<1>5. RollbackTo(stage, Cardinality(Staged(stage))) = stage
  BY <1>2, RollbackToAll
<1>6. HalfDone(txn, NoChange, NoChange, DOMAIN doc)
  BY <1>4, OwesNothing DEF Sound, HalfDone
<1>7. CallSound'
  <2>1. /\ call'.saved = txn /\ call'.stageMark = Cardinality(Staged(stage))
        /\ call'.key = k /\ call'.add = NoChange /\ call'.remove = NoChange /\ call'.todo = DOMAIN doc
    BY <1>1
  <2> QED
    BY <1>1, <1>2, <1>4, <1>5, <1>6, <2>1 DEF CallSound
<1> QED
  BY <1>1, <1>2, <1>3, <1>4, <1>7 DEF TablesInv, Marks

LEMMA GramsOfText ==
  ASSUME NEW txt, txt \in Texts
  PROVE  GramsOf[txt] \in SUBSET Grams /\ Cardinality(GramsOf[txt]) \in Nat
BY Tokenizer, FS_Subset, FS_CardinalityType

LEMMA DocRowsAre ==
  ASSUME NEW k, k \in Keys, NEW doc, NEW l, l \in Labels, doc[l] \in Texts, NEW new,
         new \in SUBSET SegId, NEW e, \A g \in GramsOf[doc[l]] : e[g] \in TermId
  PROVE  /\ IsRows(DocRows(k, doc, [s \in new |-> l]), e)
         /\ DOMAIN DocRows(k, doc, [s \in new |-> l]) = new
         /\ \A s \in new : DocRows(k, doc, [r \in new |-> l])[s].label = l
<1> DEFINE row == [key |-> k, label |-> l, txt |-> doc[l],
                   len |-> Cardinality(GramsOf[doc[l]])]
           rows == DocRows(k, doc, [s \in new |-> l])
<1>1. rows = [s \in new |-> row]
  BY DEF DocRows
<1>2. row \in Row /\ row.txt = doc[l] /\ row.label = l
  BY GramsOfText DEF Row
<1> HIDE DEF row, rows
<1>3. rows \in [new -> Row] /\ DOMAIN rows = new
  BY <1>1, <1>2
<1>4. TermsOf(e, doc[l]) \in SUBSET TermId
  BY DEF TermsOf
<1>5. IsRows(rows, e)
  BY <1>1, <1>2, <1>3, <1>4 DEF IsRows
<1> QED
  BY <1>1, <1>2, <1>3, <1>5 DEF rows

LEMMA WriteSegmentTables ==
  ASSUME LeaseInv, TablesInv, NEW p \in Threads, NEW l \in Labels, WriteSegment(p, l)
  PROVE  TablesInv'
<1> DEFINE G   == GramsOf[call.doc[l]]
           old == FindSegments(txn.segs, call.key, {l})
           new == AllocIds(txn.segs, 1)
           rows == DocRows(call.key, call.doc, [s \in new |-> l])
<1>1. /\ pc[p] = "in_call" /\ l \in call.todo /\ new \subseteq SegId
      /\ UNCHANGED <<disk, mem, pc>>
  BY DEF WriteSegment
<1>2. InACall /\ InACall' /\ ~(\E q \in Threads : pc[q] = "merging")
  BY <1>1, HolderAlone DEF InACall, Holding
<1>3. /\ IsTables(txn) /\ txn # NoTxn
      /\ IsDictionary(mem) /\ IsStage(mem, stage) /\ txn.dict = Resolved(mem, stage)
      /\ call \in [key : {call.key}, doc : Docs, todo : SUBSET DOMAIN call.doc,
                   saved : {call.saved}, stageMark : {call.stageMark},
                   dfMark : {call.dfMark}, add : {call.add}, remove : {call.remove}]
      /\ call.stageMark \in Nat /\ call.stageMark <= Cardinality(Staged(stage))
  BY <1>1 DEF LeaseInv, Generations, Transaction, InCall, Matches
<1>4. /\ Sound(disk) /\ Distinct(mem.map, mem.nextTerm)
      /\ StageDistinct(mem, stage)
      /\ call.key \in Keys /\ Sound(call.saved)
      /\ StageDistinct(mem, RollbackTo(stage, call.stageMark))
      /\ HalfDone(txn, call.add, call.remove, call.todo)
  BY <1>2, <1>3 DEF TablesInv, Marks, Committing, CallSound
<1>5. call.doc[l] \in Texts
  BY <1>1, <1>3 DEF Docs
<1>6. G \in SUBSET Grams
  BY <1>5, GramsOfText
<1>7. PICK st :
        /\ st \in Stagings(mem, stage, G)
        /\ stage' = st
        /\ txn' = [txn EXCEPT
                     !.segs = InsertSegments(DropSegments(txn.segs, old), rows, Resolved(mem, st)),
                     !.dict = WithStaged(txn.dict, stage, st)]
        /\ call' = [call EXCEPT
             !.todo = call.todo \ {l},
             !.add = Both(call.add, AdditionsOf(rows, Resolved(mem, st))),
             !.remove = Both(call.remove, RemovalsOf(txn.segs, old))]
  BY DEF WriteSegment, Both
<1> HIDE DEF G, rows, old, new
<1> DEFINE e == Resolved(mem, st)
<1>8. /\ StageDistinct(mem, st)
      /\ \A g \in G : e[g] \in TermId
      /\ \A g \in Grams : txn.dict[g] # NoTerm => e[g] = txn.dict[g]
  <2>1. st \in Stagings(mem, stage, G)
    BY <1>7
  <2> QED
    BY <1>3, <1>4, <1>6, <2>1, StagingDistinct
<1>9. RollbackTo(st, call.stageMark) = RollbackTo(stage, call.stageMark)
  <2>1. st \in Stagings(mem, stage, G)
    BY <1>7
  <2> QED
    BY <1>3, <1>6, <2>1, RollbackOfAdded
<1>10. txn'.dict = e
  <2>1. txn'.dict = WithStaged(txn.dict, stage, st)
    BY <1>3, <1>7 DEF IsTables
  <2>2. Matches(txn, stage)'
    <3>1. LeaseInv'
      BY WriteSegmentInv
    <3>2. txn' # NoTxn
      BY <1>1, <3>1 DEF LeaseInv, InCall
    <3> QED
      BY <3>1, <3>2 DEF LeaseInv, Transaction
  <2> QED
    BY <1>1, <1>7, <2>2 DEF Matches
<1> HIDE DEF e
<1>11. IsRows(rows, e) /\ DOMAIN rows = new /\ \A s \in DOMAIN rows : rows[s].label = l
  BY <1>1, <1>4, <1>5, <1>8, DocRowsAre DEF G, rows
<1> DEFINE next == InsertSegments(DropSegments(txn.segs, old), rows, e)
           add2 == Both(call.add, AdditionsOf(rows, e))
           rem2 == Both(call.remove, RemovalsOf(txn.segs, old))
<1>12. old \in SUBSET DOMAIN txn.segs.row /\ \A s \in old : txn.segs.row[s].label = l
  BY DEF old, FindSegments, SegmentsOf
<1>13. /\ Live(next, e) /\ Below(txn.post, next.nextId)
       /\ Owes(txn.post, next, add2, rem2, call.todo \ {l})
  <2>1. /\ Live(txn.segs, txn.dict) /\ txn.post \in PostingTables
        /\ Below(txn.post, txn.segs.nextId)
        /\ Owes(txn.post, txn.segs, call.add, call.remove, call.todo)
    BY <1>4 DEF HalfDone
  <2> HIDE DEF next, add2, rem2
  <2>2. DOMAIN rows = AllocIds(txn.segs, 1)
    BY <1>11 DEF new
  <2>3. next = InsertSegments(DropSegments(txn.segs, old), rows, e)
    BY DEF next
  <2>4. OneLabel(txn.segs, txn.dict, txn.post, call.add, call.remove, call.todo, l, old, e, rows)
    BY <1>1, <1>8, <1>11, <1>12, <2>1, <2>2 DEF OneLabel
  <2> QED
    BY <2>3, <2>4, WriteOwes DEF add2, rem2
<1>14. /\ txn'.segs = next /\ txn'.post = txn.post
       /\ call'.add = add2 /\ call'.remove = rem2 /\ call'.todo = call.todo \ {l}
       /\ call'.key = call.key /\ call'.saved = call.saved
       /\ call'.stageMark = call.stageMark
  <2> HIDE DEF next, add2, rem2
  <2>1. txn' = [txn EXCEPT !.segs = next, !.dict = WithStaged(txn.dict, stage, st)]
    BY <1>7 DEF next, e
  <2>2. call' = [call EXCEPT !.todo = call.todo \ {l}, !.add = add2, !.remove = rem2]
    BY <1>7 DEF add2, rem2, e
  <2> QED
    BY <1>3, <2>1, <2>2 DEF IsTables
<1> HIDE DEF next, add2, rem2
<1>15. HalfDone(txn', add2, rem2, call.todo \ {l})
  BY <1>4, <1>10, <1>13, <1>14 DEF HalfDone
<1>16. CallSound'
  BY <1>1, <1>4, <1>7, <1>9, <1>14, <1>15 DEF CallSound
<1>17. Marks'
  BY <1>1, <1>4, <1>7, <1>8 DEF Marks
<1> QED
  BY <1>1, <1>2, <1>4, <1>16, <1>17 DEF TablesInv

LEMMA FinishUpsertTables ==
  ASSUME LeaseInv, TablesInv, NEW p \in Threads, FinishUpsert(p) PROVE TablesInv'
<1> DEFINE paid == ApplyWrites(txn.post, call.add, call.remove)
<1>1. /\ pc[p] = "in_call" /\ Goto(p, "leased") /\ UNCHANGED <<mem, stage>>
      /\ Release([txn EXCEPT !.post = paid], call.saved)
  BY DEF FinishUpsert
<1>2. /\ InACall /\ ~InACall'
      /\ ~(\E q \in Threads : pc'[q] = "merging")
  BY <1>1, HolderAlone, MovedTo DEF Holding, PCs
<1>3. /\ txn # NoTxn /\ call.saved # NoTxn /\ IsTables(txn) /\ txn.dict = Resolved(mem, stage)
  BY <1>1 DEF LeaseInv, Transaction, InCall, Matches
<1>4. /\ Sound(disk) /\ Marks /\ StageDistinct(mem, stage)
      /\ HalfDone(txn, call.add, call.remove, call.todo)
  BY <1>2, <1>3 DEF TablesInv, Marks, Committing, CallSound
<1> HIDE DEF paid
<1>5. txn' = [txn EXCEPT !.post = paid] /\ disk' = disk
  BY <1>1, <1>3 DEF Release
<1>6. txn'.segs = txn.segs /\ txn'.dict = txn.dict /\ txn'.post = paid
  BY <1>3, <1>5 DEF IsTables
<1>7. Injective(txn.dict)
  BY <1>3, <1>4, StageDistinctInjective
<1>8. Sound(txn')
  BY <1>4, <1>6, <1>7, PaidIsSound DEF HalfDone, paid
<1>9. Marks'
  BY <1>1, <1>4 DEF Marks
<1> QED
  BY <1>2, <1>4, <1>5, <1>8, <1>9 DEF TablesInv, CallSound

LEMMA CallFailsTables ==
  ASSUME LeaseInv, TablesInv, NEW p \in Threads, CallFails(p) PROVE TablesInv'
<1>1. /\ pc[p] = "in_call" /\ Goto(p, "leased") /\ UNCHANGED <<disk, mem>>
      /\ txn' = call.saved \/ txn' = NoTxn
      /\ stage' = RollbackTo(stage, call.stageMark)
  BY DEF CallFails
<1>2. InACall /\ ~InACall'
  BY <1>1, HolderAlone, MovedTo DEF Holding, PCs
<1>3. /\ Sound(disk) /\ Marks /\ Sound(call.saved)
      /\ StageDistinct(mem, RollbackTo(stage, call.stageMark))
  BY <1>2 DEF TablesInv, CallSound
<1>4. Marks'
  BY <1>1, <1>3 DEF Marks
<1> QED
  BY <1>1, <1>2, <1>3, <1>4 DEF TablesInv, CallSound

LEMMA DropCallTables ==
  ASSUME LeaseInv, TablesInv, NEW p \in Threads, pc[p] = "leased", txnOpen,
         NEW S, S \in SUBSET DOMAIN View.segs.row, DropCall(p, S)
  PROVE  TablesInv'
<1>1. /\ txn # NoTxn /\ View = txn /\ IsTables(txn)
      /\ UNCHANGED <<mem, pc, stage, call>>
  BY DEF LeaseInv, Transaction, Matches, View, DropCall
<1>2. ~InACall
  BY HolderAlone DEF Holding
<1>3. Sound(txn) /\ Sound(disk) /\ Marks /\ StageDistinct(mem, stage)
  BY <1>1, <1>2 DEF TablesInv, Marks, Committing
<1>4. /\ txn' = [txn EXCEPT
                  !.segs = DropSegments(txn.segs, S),
                  !.post = ApplyWrites(txn.post, NoChange, RemovalsOf(txn.segs, S))]
      /\ disk' = disk
  BY <1>1 DEF DropCall, Release
<1>5. /\ txn'.dict = txn.dict /\ txn'.segs = DropSegments(txn.segs, S)
      /\ txn'.post = ApplyWrites(txn.post, NoChange, RemovalsOf(txn.segs, S))
  BY <1>1, <1>4 DEF IsTables
<1>6. Sound(txn')
  BY <1>1, <1>3, <1>5, DropSound
<1>7. Marks' /\ ~InACall'
  BY <1>1, <1>2, <1>3 DEF Marks, InACall
<1> QED
  BY <1>3, <1>4, <1>6, <1>7 DEF TablesInv, CallSound

LEMMA CommitSqlTables ==
  ASSUME LeaseInv, TablesInv, NEW p \in Threads, CommitSql(p) PROVE TablesInv'
<1>1. /\ pc[p] = "leased" /\ txn # NoTxn /\ disk' = txn /\ txn' = NoTxn
      /\ Goto(p, "merging") /\ UNCHANGED <<mem, stage>>
  BY DEF CommitSql
<1>2. ~InACall /\ ~InACall'
  BY <1>1, HolderAlone, MovedTo DEF Holding, PCs
<1>3. Sound(txn) /\ StageDistinct(mem, stage) /\ Distinct(mem.map, mem.nextTerm)
  BY <1>1, <1>2 DEF TablesInv, Marks, Committing
<1> QED
  BY <1>1, <1>2, <1>3 DEF TablesInv, CallSound, Marks

(* A step after which no transaction is open and no merge is due.          *)
LEMMA ClosedStep ==
  ASSUME TablesInv, disk' = disk, ~InACall',
         txn' = NoTxn, ~(\E q \in Threads : pc'[q] = "merging"),
         Distinct(mem.map, mem.nextTerm)'
  PROVE  TablesInv'
<1>1. Marks'
  BY DEF Marks, Committing
<1> QED
  BY <1>1 DEF TablesInv, CallSound

LEMMA CommitFailsTables ==
  ASSUME LeaseInv, TablesInv, ~ReuseFailedWriter, NEW p \in Threads, CommitFails(p)
  PROVE  TablesInv'
<1>1. /\ pc[p] = "leased" /\ txn' = NoTxn /\ Goto(p, "failed") /\ UNCHANGED <<disk, mem>>
  BY DEF CommitFails
<1>2. ~InACall' /\ ~(\E q \in Threads : pc'[q] = "merging")
  BY <1>1, MovedTo DEF Holding, PCs
<1> QED
  BY <1>1, <1>2, ClosedStep DEF TablesInv, Marks

LEMMA MergeStageTables ==
  ASSUME LeaseInv, TablesInv, NEW p \in Threads, MergeStage(p) PROVE TablesInv'
<1>1. /\ pc[p] = "merging" /\ mem' = Merge(mem, stage) /\ Goto(p, "merged")
      /\ UNCHANGED <<disk, txn>>
  BY DEF MergeStage, lease
<1>2. ~InACall' /\ ~(\E q \in Threads : pc'[q] = "merging")
  BY <1>1, MovedTo DEF Holding, PCs
<1>3. txn = NoTxn
  <2>1. \A q \in Threads : pc[q] \notin {"leased", "in_call"}
    BY <1>1, Alone DEF LeaseInv, Holding
  <2> QED
    BY <2>1 DEF LeaseInv, Transaction
<1>4. IsDictionary(mem) /\ IsStage(mem, stage)
  BY <1>1 DEF LeaseInv, Generations, Merging
<1>5. StageDistinct(mem, stage) /\ Distinct(mem.map, mem.nextTerm)
  BY <1>1 DEF TablesInv, Marks, Committing
<1>6. Distinct(mem.map, mem.nextTerm)'
  BY <1>1, <1>4, <1>5, MergeDistinct
<1> QED
  BY <1>1, <1>2, <1>3, <1>6, ClosedStep

LEMMA ApplyDfChangesTables ==
  ASSUME LeaseInv, TablesInv, NEW p \in Threads, ApplyDfChanges(p) PROVE TablesInv'
<1>1. PICK stats :
        /\ pc[p] = "merged" /\ mem' = [mem EXCEPT !.stats = stats] /\ Goto(p, "reopening")
        /\ UNCHANGED <<disk, txn>>
  BY DEF ApplyDfChanges
<1>2. ~InACall' /\ ~(\E q \in Threads : pc'[q] = "merging")
  BY <1>1, MovedTo DEF Holding, PCs
<1>3. txn = NoTxn
  <2>1. \A q \in Threads : pc[q] \notin {"leased", "in_call"}
    BY <1>1, Alone DEF LeaseInv, Holding
  <2> QED
    BY <2>1 DEF LeaseInv, Transaction
<1>4. mem'.map = mem.map /\ mem'.nextTerm = mem.nextTerm
  BY <1>1 DEF LeaseInv, Generations, IsDictionary
<1>5. Distinct(mem.map, mem.nextTerm)'
  BY <1>4 DEF TablesInv, Marks
<1> QED
  BY <1>1, <1>2, <1>3, <1>5, ClosedStep

LEMMA BeginNextTables ==
  ASSUME LeaseInv, TablesInv, NEW p \in Threads, BeginNext(p) PROVE TablesInv'
<1>1. /\ pc[p] = "reopening" /\ Goto(p, "leased")
      /\ txn' = disk \/ txn' = txn
      /\ UNCHANGED <<disk, mem, stage>>
  BY DEF BeginNext
<1>2. ~InACall' /\ ~(\E q \in Threads : pc'[q] = "merging")
  BY <1>1, MovedTo DEF Holding, PCs
<1>3. txn = NoTxn
  <2>1. \A q \in Threads : pc[q] \notin {"leased", "in_call"}
    BY <1>1, Alone DEF LeaseInv, Holding
  <2> QED
    BY <2>1 DEF LeaseInv, Transaction
<1>4. stage = NewStage(mem) /\ IsDictionary(mem)
  BY <1>1 DEF LeaseInv, Generations, Merging
<1>5. StageDistinct(mem, stage) /\ Sound(disk) /\ Distinct(mem.map, mem.nextTerm)
  BY <1>4, EmptyStageDistinct DEF TablesInv, Marks
<1> QED
  BY <1>1, <1>2, <1>3, <1>5 DEF TablesInv, CallSound, Marks

LEMMA DropWriterTables ==
  ASSUME LeaseInv, TablesInv, NEW p \in Threads, DropWriter(p) PROVE TablesInv'
<1>1. /\ pc[p] \in {"leased", "failed"} /\ Goto(p, "idle") /\ txn' = NoTxn
      /\ UNCHANGED <<disk, mem>>
  BY DEF DropWriter, NoLease
<1>2. ~InACall' /\ ~(\E q \in Threads : pc'[q] = "merging")
  BY <1>1, MovedTo DEF Holding, PCs
<1> QED
  BY <1>1, <1>2, ClosedStep DEF TablesInv, Marks

(* A step that takes and leaves the lock free: no thread is past it.       *)
LEMMA FreeMoves ==
  ASSUME LeaseInv, holder = NoThread, NEW p \in Threads, NEW to \in PCs, Goto(p, to)
  PROVE  /\ txn = NoTxn
         /\ InACall' <=> to = "in_call"
         /\ (\E q \in Threads : pc'[q] = "merging") <=> to = "merging"
<1>1. txn = NoTxn /\ \A q \in Threads : pc[q] \notin Holding
  BY FreeLock
<1>2. \A q \in Threads : pc'[q] = IF q = p THEN to ELSE pc[q]
  BY Moved DEF LeaseInv
<1> QED
  BY <1>1, <1>2 DEF InACall, Holding

LEMMA CompactTables ==
  ASSUME LeaseInv, TablesInv, NEW p \in Threads, Compact(p) PROVE TablesInv'
<1>1. /\ holder = NoThread /\ Goto(p, "idle") /\ disk' = [disk EXCEPT !.post = Fold(disk.post)]
      /\ UNCHANGED <<mem, txn>>
  BY DEF Compact, lease
<1>2. txn = NoTxn /\ ~InACall' /\ ~(\E q \in Threads : pc'[q] = "merging")
  BY <1>1, FreeMoves DEF PCs
<1>3. disk'.segs = disk.segs /\ disk'.dict = disk.dict /\ disk'.post = Fold(disk.post)
  BY <1>1 DEF LeaseInv, Generations, IsTables
<1>4. Sound(disk) /\ Distinct(mem.map, mem.nextTerm)
  BY DEF TablesInv, Marks
<1>5. Sound(disk')
  BY <1>3, <1>4, FoldSound
<1> QED
  BY <1>1, <1>2, <1>4, <1>5 DEF TablesInv, CallSound, Marks, Committing

LEMMA CorpusRowsAre ==
  ASSUME NEW corpus, corpus \in [Keys -> Docs], NEW ids, ids \in SUBSET SegId,
         NEW at, at \in [ids -> FieldsOf(corpus)],
         NEW d, \A g \in CorpusGrams(corpus) : d[g] \in TermId
  PROVE  IsRows(CorpusRows(corpus, at), d) /\ DOMAIN CorpusRows(corpus, at) = ids
<1> DEFINE rows   == CorpusRows(corpus, at)
           txt(f) == corpus[f[1]][f[2]]
<1>1. ASSUME NEW f \in FieldsOf(corpus)
      PROVE  /\ f[1] \in Keys /\ f[2] \in Labels /\ txt(f) \in Texts
             /\ \A g \in GramsOf[txt(f)] : d[g] \in TermId
  <2>1. f[1] \in Keys /\ f[2] \in Labels /\ f[2] \in DOMAIN corpus[f[1]]
    BY DEF FieldsOf
  <2>2. corpus[f[1]] \in Docs
    BY <2>1
  <2>3. txt(f) \in Texts
    BY <2>1, <2>2 DEF Docs
  <2>4. GramsOf[txt(f)] \subseteq CorpusGrams(corpus)
    BY DEF CorpusGrams
  <2> QED
    BY <2>1, <2>3, <2>4
<1>2. DOMAIN at = ids /\ \A s \in ids : at[s] \in FieldsOf(corpus)
  OBVIOUS
<1>3. rows \in [ids -> Row] /\ \A s \in ids : rows[s].txt = txt(at[s])
  BY <1>1, <1>2, GramsOfText DEF CorpusRows, Row
<1>4. \A s \in ids : TermsOf(d, rows[s].txt) \in SUBSET TermId
  <2> SUFFICES ASSUME NEW s \in ids PROVE TermsOf(d, rows[s].txt) \in SUBSET TermId
    OBVIOUS
  <2>1. at[s] \in FieldsOf(corpus) /\ rows[s].txt = txt(at[s])
    BY <1>2, <1>3
  <2>2. \A g \in GramsOf[rows[s].txt] : d[g] \in TermId
    BY <1>1, <2>1
  <2> QED
    BY <2>2 DEF TermsOf
<1> HIDE DEF rows
<1>5. DOMAIN rows = ids /\ rows \in [DOMAIN rows -> Row]
  BY <1>3
<1>6. IsRows(rows, d)
  BY <1>4, <1>5 DEF IsRows
<1> QED
  BY <1>5, <1>6 DEF rows

LEMMA RebuildTables ==
  ASSUME LeaseInv, TablesInv, NEW p \in Threads, NEW corpus \in [Keys -> Docs],
         Rebuild(p, corpus)
  PROVE  TablesInv'
<1> DEFINE G   == CorpusGrams(corpus)
           n   == Cardinality(FieldsOf(corpus))
           ids == AllocIds(NoSegments, n)
<1>1. /\ holder = NoThread /\ Goto(p, "loading") /\ ids \subseteq SegId
      /\ UNCHANGED <<mem, txn>>
  BY DEF Rebuild, lease
<1>2. PICK at \in Bijection(ids, FieldsOf(corpus)), d \in Interned(EmptyDict, 1, G) :
        disk' = RebuiltTables(CorpusRows(corpus, at), d, disk.gen)
  BY DEF Rebuild
<1>3. txn = NoTxn /\ ~InACall' /\ ~(\E q \in Threads : pc'[q] = "merging")
  BY <1>1, FreeMoves DEF PCs, Holding
<1>4. n \in Nat
  <2>1. IsFiniteSet(Keys \X Labels)
    BY Documents, FS_Product
  <2>2. FieldsOf(corpus) \in SUBSET (Keys \X Labels)
    BY DEF FieldsOf
  <2> QED
    BY <2>1, <2>2, FS_Subset, FS_CardinalityType
<1>5. G \in SUBSET Grams
  <2>1. ASSUME NEW f \in FieldsOf(corpus) PROVE GramsOf[corpus[f[1]][f[2]]] \in SUBSET Grams
    <3>1. f[1] \in Keys /\ f[2] \in DOMAIN corpus[f[1]]
      BY DEF FieldsOf
    <3>2. corpus[f[1]] \in Docs
      BY <3>1
    <3>3. corpus[f[1]][f[2]] \in Texts
      BY <3>1, <3>2 DEF Docs
    <3> QED
      BY <3>3, Tokenizer
  <2> QED
    BY <2>1 DEF CorpusGrams
<1> HIDE DEF G, n
<1>6. /\ d \in Dictionaries /\ Injective(d) /\ \A g \in G : d[g] \in TermId
  <2>1. /\ EmptyDict \in Dictionaries /\ 1 \in 1 .. MaxTermId + 1
        /\ d \in Interned(EmptyDict, 1, G) /\ Distinct(EmptyDict, 1)
    BY EmptyDictType, EmptyDictDistinct, IdCeilings
  <2>2. d \in Dictionaries /\ \A g \in G : d[g] \in TermId
    BY <1>5, <2>1, InternedProperties
  <2>3. Distinct(d, 1 + Cardinality({g \in Grams : d[g] # EmptyDict[g]}))
    BY <1>5, <2>1, InternedDistinct
  <2> QED
    BY <2>2, <2>3 DEF Distinct, Injective
<1> DEFINE rows == CorpusRows(corpus, at)
<1>7. IsRows(rows, d) /\ DOMAIN rows = ids
  <2>1. at \in [ids -> FieldsOf(corpus)]
    BY DEF Bijection, Injection
  <2> HIDE DEF ids
  <2> QED
    BY <1>1, <1>6, <2>1, CorpusRowsAre DEF G
<1> HIDE DEF rows
<1>8. Sound(disk')
  <2>1. disk' = RebuiltTables(rows, d, disk.gen)
    BY <1>2 DEF rows
  <2>2. IsRows(rows, d) /\ DOMAIN rows = AllocIds(NoSegments, n)
    BY <1>7
  <2> QED
    BY <1>4, <1>6, <2>1, <2>2, RebuiltSound
<1>9. Distinct(mem.map, mem.nextTerm)
  BY DEF TablesInv, Marks
<1> QED
  BY <1>1, <1>3, <1>8, <1>9 DEF TablesInv, CallSound, Marks, Committing

LEMMA ReloadSucceedsTables ==
  ASSUME LeaseInv, TablesInv, NEW p \in Threads, ReloadSucceeds(p) PROVE TablesInv'
<1>1. /\ pc[p] = "loading" /\ mem' = Load(disk) /\ Goto(p, "idle") /\ UNCHANGED <<disk, txn>>
  BY DEF ReloadSucceeds, lease
<1>2. ~InACall' /\ ~(\E q \in Threads : pc'[q] = "merging")
  BY <1>1, MovedTo DEF Holding, PCs
<1>3. txn = NoTxn
  <2>1. \A q \in Threads : pc[q] \notin {"leased", "in_call"}
    BY <1>1, Alone DEF LeaseInv, Holding
  <2> QED
    BY <2>1 DEF LeaseInv, Transaction
<1>4. Distinct(mem.map, mem.nextTerm)'
  BY <1>1, LoadDistinct DEF LeaseInv, Generations, TablesInv, Sound
<1> QED
  BY <1>1, <1>2, <1>3, <1>4, ClosedStep

LEMMA ReloadFailsTables ==
  ASSUME LeaseInv, TablesInv, NEW p \in Threads, ReloadFails(p) PROVE TablesInv'
<1>1. /\ pc[p] = "loading" /\ Goto(p, "idle") /\ UNCHANGED <<disk, mem, txn>>
  BY DEF ReloadFails, lease
<1>2. ~InACall' /\ ~(\E q \in Threads : pc'[q] = "merging")
  BY <1>1, MovedTo DEF Holding, PCs
<1>3. txn = NoTxn
  <2>1. \A q \in Threads : pc[q] \notin {"leased", "in_call"}
    BY <1>1, Alone DEF LeaseInv, Holding
  <2> QED
    BY <2>1 DEF LeaseInv, Transaction
<1> QED
  BY <1>1, <1>2, <1>3, ClosedStep DEF TablesInv, Marks

LEMMA CrashAndOpenTables ==
  ASSUME LeaseInv, TablesInv, CrashAndOpen PROVE TablesInv'
<1>1. /\ mem' = Load(disk) /\ pc' = [p \in Threads |-> "idle"] /\ txn' = NoTxn /\ disk' = disk
  BY DEF CrashAndOpen, NoLease
<1>2. ~InACall' /\ ~(\E q \in Threads : pc'[q] = "merging")
  BY <1>1 DEF InACall
<1>3. Distinct(mem.map, mem.nextTerm)'
  BY <1>1, LoadDistinct DEF LeaseInv, Generations, TablesInv, Sound
<1> QED
  BY <1>1, <1>2, <1>3, ClosedStep

LEMMA NextTablesInv ==
  ASSUME LeaseInv, TablesInv, Disciplined, [Next]_vars PROVE TablesInv'
<1>1. ASSUME NEW p \in Threads, Lease(p) PROVE TablesInv'
  <2>1. CASE CheckPoisoned(p)
    BY <2>1, CheckPoisonedTables
  <2>2. CASE Begin(p)
    BY <2>2, BeginTables
  <2>3. ASSUME NEW k \in Keys, NEW doc \in Docs, Upsert(p, k, doc) PROVE TablesInv'
    BY <2>3, UpsertTables
  <2>4. ASSUME NEW l \in Labels, WriteSegment(p, l) PROVE TablesInv'
    BY <2>4, WriteSegmentTables
  <2>5. CASE FinishUpsert(p)
    BY <2>5, FinishUpsertTables
  <2>6. CASE CallFails(p)
    BY <2>6, CallFailsTables
  <2>7. ASSUME NEW k \in Keys, Remove(p, k) PROVE TablesInv'
    <3>1. SegmentsOf(View.segs, k) \in SUBSET DOMAIN View.segs.row
      BY DEF SegmentsOf
    <3> QED
      BY <2>7, <3>1, DropCallTables DEF Remove
  <2>8. ASSUME NEW k \in Keys, NEW l \in Labels, RemoveSegment(p, k, l) PROVE TablesInv'
    <3>1. FindSegments(View.segs, k, {l}) \in SUBSET DOMAIN View.segs.row
      BY DEF SegmentsOf, FindSegments
    <3> QED
      BY <2>8, <3>1, DropCallTables DEF RemoveSegment
  <2>9. CASE CommitSql(p)
    BY <2>9, CommitSqlTables
  <2>10. CASE CommitFails(p)
    BY <2>10, CommitFailsTables DEF Disciplined
  <2>11. CASE MergeStage(p)
    BY <2>11, MergeStageTables
  <2>12. CASE ApplyDfChanges(p)
    BY <2>12, ApplyDfChangesTables
  <2>13. CASE BeginNext(p)
    BY <2>13, BeginNextTables
  <2>14. CASE DropWriter(p)
    BY <2>14, DropWriterTables
  <2> QED
    BY <1>1, <2>1, <2>2, <2>3, <2>4, <2>5, <2>6, <2>7, <2>8, <2>9, <2>10, <2>11,
       <2>12, <2>13, <2>14 DEF Lease
<1>2. ASSUME NEW p \in Threads, Maintenance(p) PROVE TablesInv'
  <2>1. CASE Compact(p)
    BY <2>1, CompactTables
  <2>2. ASSUME NEW corpus \in [Keys -> Docs], Rebuild(p, corpus) PROVE TablesInv'
    BY <2>2, RebuildTables
  <2>3. CASE ReloadSucceeds(p)
    BY <2>3, ReloadSucceedsTables
  <2>4. CASE ReloadFails(p)
    BY <2>4, ReloadFailsTables
  <2> QED
    BY <1>2, <2>1, <2>2, <2>3, <2>4 DEF Maintenance
<1>3. CASE CrashAndOpen
  BY <1>3, CrashAndOpenTables
<1>4. CASE UNCHANGED vars
  <2>1. UNCHANGED <<disk, mem, pc, txn, stage, call>>
    BY <1>4 DEF vars, lease
  <2>2. InACall' <=> InACall
    BY <2>1 DEF InACall
  <2> QED
    BY <2>1, <2>2, QuietStep
<1> QED
  BY <1>1, <1>2, <1>3, <1>4 DEF Next

-----------------------------------------------------------------------------
(* The theorems.                                                           *)

(* The inductive invariant: beside the dictionary discipline of LeaseInv,  *)
(* the tables of the disk, of an open transaction and of the savepoint of  *)
(* a call are one consistent index each, the rows of a call in progress    *)
(* differ from its postings by exactly what the call still owes, and the   *)
(* id marks are above every id.                                            *)
THEOREM TablesInvariant == Disciplined /\ Spec => [](LeaseInv /\ TablesInv)
<1>1. Disciplined /\ Init => LeaseInv /\ TablesInv
  BY InitLease, InitTables
<1>2. ASSUME Disciplined, LeaseInv /\ TablesInv, [Next]_vars PROVE (LeaseInv /\ TablesInv)'
  BY <1>2, NextLeaseInv, NextTablesInv
<1>3. Disciplined => Disciplined'
  BY DEF Disciplined
<1> QED
  BY <1>1, <1>2, <1>3, PTL DEF Spec

(* Writer::atomic, Writer::commit and the shadow swap of Index::rebuild:   *)
(* what is committed is one consistent index, whatever calls failed and    *)
(* wherever a lease was stranded or the process died.                      *)
THEOREM CommittedTablesConsistent == Disciplined /\ Spec => []DiskConsistent
<1>1. TablesInv => DiskConsistent
  BY SoundIsConsistent DEF TablesInv, DiskConsistent
<1> QED
  BY <1>1, TablesInvariant, PTL

(* A call that failed left nothing of itself in the open transaction: not  *)
(* a row, not a dict entry, not half of its postings.                      *)
THEOREM FailedCallLeavesNothing == Disciplined /\ Spec => []TxnConsistent
<1>1. LeaseInv /\ TablesInv => TxnConsistent
  <2> SUFFICES ASSUME LeaseInv, TablesInv, txn # NoTxn, call = NoCall
               PROVE  Consistent(txn)
    BY DEF TxnConsistent
  <2>1. ~InACall
    <3> SUFFICES ASSUME InACall PROVE FALSE
      OBVIOUS
    <3>1. call \in [key : {call.key}, doc : Docs, todo : SUBSET DOMAIN call.doc,
                    saved : {call.saved}, stageMark : {call.stageMark},
                    dfMark : {call.dfMark}, add : {call.add}, remove : {call.remove}]
      BY DEF LeaseInv, InCall, InACall
    <3>2. "key" \in DOMAIN call
      BY <3>1
    <3>3. "key" \notin DOMAIN NoCall
      BY DEF NoCall
    <3> QED
      BY <3>2, <3>3
  <2> QED
    BY <2>1, SoundIsConsistent DEF TablesInv
<1> QED
  BY <1>1, TablesInvariant, PTL

-----------------------------------------------------------------------------
(* Welford's recurrences.                                                  *)

LEMMA Quotient ==
  ASSUME NEW a \in Int, NEW b \in Nat, b # 0
  PROVE  (b * a) \div b = a
OBVIOUS

LEMMA UnitDivides ==
  ASSUME NEW n \in Nat, n # 0, n <= MaxTermId
  PROVE  \E k \in Nat \ {0} : Unit = n * k
<1>1. n \in 1 .. MaxTermId
  BY IdCeilings
<1>2. Unit \in Nat /\ Unit # 0 /\ Unit % n = 0
  BY <1>1, Classification
<1>3. Unit \div n \in Nat /\ Unit = n * (Unit \div n)
  BY <1>2
<1> QED
  BY <1>2, <1>3

(* A sample count that Unit divides by, as by the next one.                *)
Splits(n, m) == n \in Nat /\ n # 0 /\ m \in Nat /\ m # 0 /\ Unit = n * (n + 1) * m

(* n and n + 1 have no common divisor.                                     *)
LEMMA UnitDividesNext ==
  ASSUME NEW n \in Nat, n # 0, n + 1 <= MaxTermId
  PROVE  \E m : Splits(n, m)
<1>1. PICK k \in Nat \ {0} : Unit = n * k
  <2>1. n <= MaxTermId
    BY IdCeilings
  <2> QED
    BY <2>1, UnitDivides
<1>2. PICK j \in Nat \ {0} : Unit = (n + 1) * j
  <2>1. n + 1 \in Nat /\ n + 1 # 0
    OBVIOUS
  <2> QED
    BY <2>1, UnitDivides
<1>3. n * k = n * j + j
  BY <1>1, <1>2
<1>4. j = n * (k - j)
  BY <1>3
<1>5. Unit = n * (n + 1) * (k - j)
  BY <1>2, <1>4
<1>6. k - j > 0
  BY <1>4
<1>7. Splits(n, k - j)
  BY <1>5, <1>6 DEF Splits
<1> QED
  BY <1>7

(* The accumulator of n samples of sum s and square sum q, k being Unit/n. *)
Moments(n, k, s, q) == [n |-> n, mean |-> k * s, m2 |-> k * (n * q - s * s)]

(* Two differences from the means before and after the sample x.           *)
LEMMA Deviations ==
  ASSUME NEW n \in Nat, n # 0, NEW m \in Nat, m # 0, Unit = n * (n + 1) * m,
         NEW s \in Int, NEW x \in Int
  PROVE  /\ x * Unit - ((n + 1) * m) * s = (n + 1) * (m * (n * x - s))
         /\ x * Unit - (n * m) * (s + x) = (n * m) * (n * x - s)
         /\ ((n + 1) * (m * (n * x - s))) * ((n * m) * (n * x - s))
              = Unit * (m * ((n * x - s) * (n * x - s)))
<1>1. x * Unit - ((n + 1) * m) * s = (n + 1) * (m * (n * x - s))
  OBVIOUS
<1>2. x * Unit - (n * m) * (s + x) = (n * m) * (n * x - s)
  OBVIOUS
<1>3. ASSUME NEW d \in Int
      PROVE  ((n + 1) * (m * d)) * ((n * m) * d) = Unit * (m * (d * d))
  OBVIOUS
<1> QED
  BY <1>1, <1>2, <1>3

LEMMA SpreadGrows ==
  ASSUME NEW n \in Nat, NEW m \in Nat, NEW s \in Int, NEW q \in Int, NEW x \in Int
  PROVE  ((n + 1) * m) * (n * q - s * s) + m * ((n * x - s) * (n * x - s))
           = (n * m) * ((n + 1) * (q + x * x) - (s + x) * (s + x))
OBVIOUS

LEMMA AddMoments ==
  ASSUME NEW n, NEW m, Splits(n, m), NEW s \in Int, NEW q \in Int, NEW x \in Int
  PROVE  Stats!Add(Moments(n, (n + 1) * m, s, q), x) =
           Moments(n + 1, n * m, s + x, q + x * x)
<1> USE DEF Splits
<1> DEFINE w == Moments(n, (n + 1) * m, s, q)
           d == n * x - s
           D == x * Unit - w.mean
           mean == w.mean + D \div (w.n + 1)
<1>1. w.n = n /\ w.mean = ((n + 1) * m) * s /\ w.m2 = ((n + 1) * m) * (n * q - s * s)
  BY DEF Moments
<1>2. d \in Int /\ D = (n + 1) * (m * d) /\ x * Unit - (n * m) * (s + x) = (n * m) * d
  BY <1>1, Deviations
<1>3. D \div (w.n + 1) = m * d
  BY <1>1, <1>2, Quotient
<1>4. mean = (n * m) * (s + x)
  BY <1>1, <1>3
<1>5. D * (x * Unit - mean) = Unit * (m * (d * d))
  BY <1>2, <1>4, Deviations
<1>6. (D * (x * Unit - mean)) \div Unit = m * (d * d)
  <2>1. m * (d * d) \in Int /\ Unit \in Nat /\ Unit # 0
    BY <1>2, Classification
  <2> HIDE DEF d, D, mean, w
  <2> QED
    BY <1>5, <2>1, Quotient
<1>7. w.m2 + m * (d * d) = (n * m) * ((n + 1) * (q + x * x) - (s + x) * (s + x))
  BY <1>1, SpreadGrows
<1>8. Stats!Add(w, x) = [n |-> w.n + 1, mean |-> mean,
                         m2 |-> w.m2 + (D * (x * Unit - mean)) \div Unit]
  BY DEF Stats!Add
<1> HIDE DEF w, d, D, mean
<1> QED
  BY <1>1, <1>4, <1>6, <1>7, <1>8 DEF Moments, w

LEMMA RemoveMoments ==
  ASSUME NEW n, NEW m, Splits(n, m), NEW s \in Int, NEW q \in Int, NEW x \in Int,
         ((n + 1) * m) * (n * q - s * s) >= 0
  PROVE  Stats!Remove(Moments(n + 1, n * m, s + x, q + x * x), x) =
           Moments(n, (n + 1) * m, s, q)
<1> USE DEF Splits
<1> DEFINE w == Moments(n + 1, n * m, s + x, q + x * x)
           d == n * x - s
           before == (w.n * w.mean - x * Unit) \div (w.n - 1)
           gone   == ((x * Unit - w.mean) * (x * Unit - before)) \div Unit
<1>1. /\ w.n = n + 1 /\ w.mean = (n * m) * (s + x)
      /\ w.m2 = (n * m) * ((n + 1) * (q + x * x) - (s + x) * (s + x))
  BY DEF Moments
<1>2. /\ d \in Int /\ x * Unit - ((n + 1) * m) * s = (n + 1) * (m * d)
      /\ x * Unit - w.mean = (n * m) * d
  BY <1>1, Deviations
<1>3. (n + 1) * ((n * m) * (s + x)) - x * Unit = n * (((n + 1) * m) * s)
  OBVIOUS
<1>4. before = ((n + 1) * m) * s
  <2>1. w.n * w.mean - x * Unit = n * (((n + 1) * m) * s) /\ w.n - 1 = n
    BY <1>1, <1>3
  <2>2. ((n + 1) * m) * s \in Int
    OBVIOUS
  <2> HIDE DEF w
  <2> QED
    BY <2>1, <2>2, Quotient
<1>5. (x * Unit - w.mean) * (x * Unit - before) = Unit * (m * (d * d))
  <2>1. ((n + 1) * (m * d)) * ((n * m) * d) = Unit * (m * (d * d))
    BY Deviations
  <2>2. (n + 1) * (m * d) \in Int /\ (n * m) * d \in Int
    BY <1>2
  <2>3. (x * Unit - w.mean) * (x * Unit - before) = ((n * m) * d) * ((n + 1) * (m * d))
    BY <1>2, <1>4
  <2> HIDE DEF w, d, before
  <2> QED
    BY <2>1, <2>2, <2>3
<1>6. gone = m * (d * d)
  <2>1. m * (d * d) \in Int /\ Unit \in Nat /\ Unit # 0
    BY <1>2, Classification
  <2> HIDE DEF d, before, w
  <2> QED
    BY <1>5, <2>1, Quotient
<1>7. w.m2 - gone = ((n + 1) * m) * (n * q - s * s)
  BY <1>1, <1>6, SpreadGrows
<1>8. Stats!Remove(w, x) = [n |-> w.n - 1, mean |-> before, m2 |-> Stats!OrZero(w.m2 - gone)]
  BY <1>1 DEF Stats!Remove
<1>9. Stats!OrZero(w.m2 - gone) = w.m2 - gone
  <2> HIDE DEF w, gone
  <2> QED
    BY <1>7 DEF Stats!OrZero
<1> HIDE DEF w, d, before, gone
<1> QED
  BY <1>1, <1>4, <1>7, <1>8, <1>9 DEF Moments, w
-----------------------------------------------------------------------------
(* Adding to and removing from a recount.                                  *)

Squares(x, S) == [t \in S |-> x[t] * x[t]]

LEMMA SumIsTotal ==
  ASSUME NEW x, NEW S
  PROVE  Stats!Sum(x, S) = Total(x, S)
BY DEF Stats!Sum, Total, Stats!MapThenFoldSet, MapThenFoldSet

LEMMA StatsCardinality ==
  ASSUME NEW S
  PROVE  Stats!Cardinality(S) = Cardinality(S)
BY Zenon DEF Stats!Cardinality, Cardinality

LEMMA SquaresWeigh ==
  ASSUME NEW x, NEW S, Weights(x, S)
  PROVE  Weights(Squares(x, S), S)
BY DEF Weights, Squares

LEMMA RecountMoments ==
  ASSUME NEW x, NEW S, IsFiniteSet(S), S # {}, Weights(x, S),
         NEW k \in Nat, Unit = Cardinality(S) * k
  PROVE  /\ Total(x, S) \in Int /\ Total(Squares(x, S), S) \in Int
         /\ Stats!Recount(x, S) =
              Moments(Cardinality(S), k, Total(x, S), Total(Squares(x, S), S))
<1> DEFINE n == Cardinality(S)
           s == Total(x, S)
           q == Total(Squares(x, S), S)
<1>1. n \in Nat /\ n # 0
  BY FS_CardinalityType, FS_EmptySet
<1>2. s \in Int /\ q \in Int
  BY TotalType, SquaresWeigh
<1>3. Stats!Recount(x, S) = [n |-> n, mean |-> (Unit * s) \div n,
                             m2 |-> Unit * q - (Unit * s * s) \div n]
  <2>1. Stats!Sum([t \in S |-> x[t] * x[t]], S) = q /\ Stats!Sum(x, S) = s
    BY SumIsTotal DEF Squares
  <2> HIDE DEF n, s, q
  <2> QED
    BY <2>1, StatsCardinality DEF Stats!Recount, n
<1> HIDE DEF n, s, q
<1>4. Unit = n * k
  BY DEF n
<1>5. (Unit * s) \div n = k * s
  <2>1. Unit * s = n * (k * s) /\ k * s \in Int
    BY <1>1, <1>2, <1>4
  <2> QED
    BY <1>1, <2>1, Quotient
<1>6. (Unit * s * s) \div n = k * (s * s)
  <2>1. Unit * s * s = n * (k * (s * s)) /\ k * (s * s) \in Int
    BY <1>1, <1>2, <1>4
  <2> QED
    BY <1>1, <2>1, Quotient
<1>7. Unit * q - k * (s * s) = k * (n * q - s * s)
  <2>1. ASSUME NEW a \in Int, NEW b \in Int
        PROVE  (n * k) * a - k * (b * b) = k * (n * a - b * b)
    BY <1>1
  <2> QED
    BY <1>2, <1>4, <2>1
<1> QED
  BY <1>2, <1>3, <1>5, <1>6, <1>7 DEF Moments, n, s, q

LEMMA RecountAgree ==
  ASSUME NEW x, NEW y, NEW S, IsFiniteSet(S), Weights(x, S), \A t \in S : x[t] = y[t]
  PROVE  Stats!Recount(x, S) = Stats!Recount(y, S)
<1>1. Total(x, S) = Total(y, S)
  BY TotalAgree
<1>2. [t \in S |-> x[t] * x[t]] = [t \in S |-> y[t] * y[t]]
  OBVIOUS
<1> QED
  BY <1>1, <1>2, SumIsTotal DEF Stats!Recount

(* The sum and the sum of squares with one sample more.                    *)
LEMMA TotalsAdd ==
  ASSUME NEW x, NEW S, IsFiniteSet(S), NEW t, t \notin S, Weights(x, S \cup {t})
  PROVE  /\ Weights(x, S) /\ x[t] \in Int
         /\ Total(x, S) \in Int /\ Total(Squares(x, S), S) \in Int
         /\ Total(x, S \cup {t}) = Total(x, S) + x[t]
         /\ Total(Squares(x, S \cup {t}), S \cup {t}) = Total(Squares(x, S), S) + x[t] * x[t]
<1> DEFINE U == S \cup {t}
           z == Squares(x, U)
<1>1. Weights(x, S) /\ x[t] \in Int
  BY DEF Weights
<1>2. Weights(z, U) /\ z[t] = x[t] * x[t] /\ Weights(z, S) /\ Weights(Squares(x, S), S)
  BY DEF Squares, Weights
<1>3. \A r \in S : z[r] = Squares(x, S)[r]
  BY DEF Squares
<1> HIDE DEF z
<1>4. Total(z, S) = Total(Squares(x, S), S)
  BY <1>2, <1>3, TotalAgree
<1>5. Total(z, S) \in Int /\ Total(z, U) = z[t] + Total(z, S)
  BY <1>2, TotalAdd
<1>6. Total(x, S) \in Int /\ Total(x, U) = x[t] + Total(x, S)
  BY TotalAdd
<1>7. x[t] * x[t] \in Int
  BY <1>1
<1> QED
  BY <1>1, <1>2, <1>4, <1>5, <1>6, <1>7 DEF z

LEMMA OneMore ==
  ASSUME NEW S, IsFiniteSet(S), NEW t, t \notin S
  PROVE  /\ Cardinality(S) \in Nat /\ IsFiniteSet(S \cup {t})
         /\ Cardinality(S \cup {t}) = Cardinality(S) + 1
BY FS_CardinalityType, FS_AddElement

(* The deviations are those of two moments: no sample set has a negative   *)
(* spread.                                                                 *)
LEMMA SpreadNat ==
  ASSUME NEW x, NEW U, IsFiniteSet(U), Weights(x, U)
  PROVE  Cardinality(U) * Total(Squares(x, U), U) - Total(x, U) * Total(x, U) >= 0
<1> DEFINE Spread(S) == Cardinality(S) * Total(Squares(x, S), S) - Total(x, S) * Total(x, S)
           Q == {S \in SUBSET U : Spread(S) >= 0}
<1>1. ASSUME NEW T \in SUBSET U, \A t \in T : T \ {t} \in Q PROVE T \in Q
  <2>1. CASE T = {}
    <3>1. Total(x, {}) = 0 /\ Total(Squares(x, {}), {}) = 0 /\ Cardinality({}) = 0
      BY TotalEmpty, FS_EmptySet
    <3> QED
      BY <2>1, <3>1
  <2>2. CASE T # {}
    <3>1. PICK t \in T : TRUE
      BY <2>2
    <3> DEFINE S == T \ {t}
               n == Cardinality(S)
               s == Total(x, S)
               q == Total(Squares(x, S), S)
    <3>2. T = S \cup {t} /\ t \notin S /\ Spread(S) >= 0
      BY <1>1, <3>1
    <3>3. IsFiniteSet(S) /\ Weights(x, S \cup {t})
      <4>1. S \in SUBSET U /\ S \cup {t} \in SUBSET U
        BY <3>1
      <4> HIDE DEF S
      <4> QED
        BY <4>1, FS_Subset DEF Weights
    <3>4. n * q - s * s >= 0
      BY <3>2
    <3> HIDE DEF S
    <3>5. /\ x[t] \in Int /\ s \in Int /\ q \in Int
          /\ Total(x, T) = s + x[t]
          /\ Total(Squares(x, T), T) = q + x[t] * x[t]
      BY <3>2, <3>3, TotalsAdd
    <3>6. n \in Nat /\ Cardinality(T) = n + 1
      BY <3>2, <3>3, OneMore
    <3> DEFINE new == (n + 1) * (q + x[t] * x[t]) - (s + x[t]) * (s + x[t])
    <3>7. Spread(T) = new
      BY <3>5, <3>6
    <3>8. CASE n = 0
      <4>1. S = {}
        BY <3>3, <3>8, FS_EmptySet
      <4>2. s = 0 /\ q = 0
        BY <4>1, TotalEmpty
      <4> QED
        BY <3>5, <3>7, <3>8, <4>2
    <3>9. CASE n # 0
      <4> HIDE DEF n, s, q
      <4>1. ASSUME NEW y \in Int
            PROVE  n * ((n + 1) * (q + y * y) - (s + y) * (s + y))
                     = (n + 1) * (n * q - s * s) + (n * y - s) * (n * y - s)
        BY <3>5, <3>6
      <4>2. n * new = (n + 1) * (n * q - s * s) + (n * x[t] - s) * (n * x[t] - s)
        BY <3>5, <4>1
      <4>3. (n + 1) * (n * q - s * s) >= 0
        BY <3>4, <3>5, <3>6
      <4>4. ASSUME NEW y \in Int PROVE y * y >= 0
        OBVIOUS
      <4>5. (n * x[t] - s) * (n * x[t] - s) >= 0
        BY <3>5, <3>6, <4>4
      <4>6. new \in Int
        BY <3>5, <3>6
      <4>7. n * new >= 0
        BY <4>2, <4>3, <4>5, <3>5, <3>6
      <4> HIDE DEF new
      <4>8. new >= 0
        BY <3>6, <3>9, <4>6, <4>7
      <4> QED
        BY <3>7, <4>8
    <3> QED
      BY <3>8, <3>9
  <2> QED
    BY <2>1, <2>2
<1> HIDE DEF Q
<1>2. \A T \in SUBSET U : T \in Q
  BY <1>1, SubsetInduction
<1>3. U \in Q
  BY <1>2
<1> QED
  BY <1>3 DEF Q

LEMMA RecountAdd ==
  ASSUME NEW x, NEW S, IsFiniteSet(S), NEW t, t \notin S, Weights(x, S \cup {t}),
         Cardinality(S) + 1 <= MaxTermId
  PROVE  Stats!Recount(x, S \cup {t}) = Stats!Add(Stats!Recount(x, S), x[t])
<1> DEFINE U == S \cup {t}
           n == Cardinality(S)
           s == Total(x, S)
           q == Total(Squares(x, S), S)
<1>1. /\ Weights(x, S) /\ x[t] \in Int /\ s \in Int /\ q \in Int
      /\ Total(x, U) = s + x[t] /\ Total(Squares(x, U), U) = q + x[t] * x[t]
  BY TotalsAdd
<1>2. n \in Nat /\ IsFiniteSet(U) /\ Cardinality(U) = n + 1 /\ U # {}
  BY OneMore
<1>3. CASE S = {}
  <2>1. n = 0 /\ s = 0 /\ q = 0
    BY <1>3, FS_EmptySet, TotalEmpty
  <2>2. Unit \in Nat /\ Unit # 0 /\ Unit = 1 * Unit /\ Cardinality(U) = 1
    BY <1>2, <2>1, Classification
  <2>3. Stats!Recount(x, U) = Moments(1, Unit, x[t], x[t] * x[t])
    <3>1. Total(x, U) = x[t] /\ Total(Squares(x, U), U) = x[t] * x[t]
      BY <1>1, <2>1
    <3> HIDE DEF U
    <3> QED
      BY <1>2, <2>2, <3>1, RecountMoments DEF U
  <2>4. Moments(1, Unit, x[t], x[t] * x[t]) = [n |-> 1, mean |-> Unit * x[t], m2 |-> 0]
    BY <1>1, <2>2 DEF Moments
  <2>5. Stats!Recount(x, S) = [n |-> 0, mean |-> 0, m2 |-> 0]
    BY <1>3 DEF Stats!Recount, Stats!NoSamples
  <2>6. Stats!Add([n |-> 0, mean |-> 0, m2 |-> 0], x[t])
          = [n |-> 1, mean |-> Unit * x[t], m2 |-> 0]
    <3>1. (x[t] * Unit - 0) \div (0 + 1) = Unit * x[t]
      BY <1>1, <2>2
    <3>2. 0 \div Unit = 0
      BY <2>2
    <3>3. (x[t] * Unit - 0) * (x[t] * Unit - (0 + Unit * x[t])) = 0
      BY <1>1, <2>2
    <3>4. 0 + Unit * x[t] = Unit * x[t] /\ 0 + 1 = 1 /\ 0 + 0 = 0
      BY <1>1, <2>2
    <3> QED
      BY <3>1, <3>2, <3>3, <3>4 DEF Stats!Add
  <2> QED
    BY <2>3, <2>4, <2>5, <2>6
<1>4. CASE S # {}
  <2>1. n # 0
    BY <1>4, FS_EmptySet
  <2>2. PICK m : Splits(n, m)
    BY <1>2, <2>1, UnitDividesNext
  <2>3. Stats!Recount(x, S) = Moments(n, (n + 1) * m, s, q)
    <3>1. (n + 1) * m \in Nat /\ Unit = n * ((n + 1) * m)
      BY <1>2, <2>2 DEF Splits
    <3> QED
      BY <1>1, <1>4, <3>1, RecountMoments
  <2>4. Stats!Recount(x, U) = Moments(n + 1, n * m, s + x[t], q + x[t] * x[t])
    <3>1. n * m \in Nat /\ Unit = Cardinality(U) * (n * m)
      BY <1>2, <2>2 DEF Splits
    <3> HIDE DEF U
    <3> QED
      BY <1>1, <1>2, <3>1, RecountMoments DEF U
  <2> HIDE DEF n, s, q
  <2>5. \A y \in Int : Stats!Add(Moments(n, (n + 1) * m, s, q), y)
                        = Moments(n + 1, n * m, s + y, q + y * y)
    BY <1>1, <2>2, AddMoments
  <2> HIDE DEF U
  <2> QED
    BY <1>1, <2>3, <2>4, <2>5 DEF U
<1> QED
  BY <1>3, <1>4

LEMMA RecountRemove ==
  ASSUME NEW x, NEW S, IsFiniteSet(S), NEW t, t \notin S, Weights(x, S \cup {t}),
         Cardinality(S) + 1 <= MaxTermId
  PROVE  Stats!Remove(Stats!Recount(x, S \cup {t}), x[t]) = Stats!Recount(x, S)
<1> DEFINE U == S \cup {t}
           n == Cardinality(S)
           s == Total(x, S)
           q == Total(Squares(x, S), S)
<1>1. /\ Weights(x, S) /\ x[t] \in Int /\ s \in Int /\ q \in Int
      /\ Total(x, U) = s + x[t] /\ Total(Squares(x, U), U) = q + x[t] * x[t]
  BY TotalsAdd
<1>2. n \in Nat /\ IsFiniteSet(U) /\ Cardinality(U) = n + 1 /\ U # {}
  BY OneMore
<1>3. CASE S = {}
  <2>1. Cardinality(U) = 1
    BY <1>2, <1>3, FS_EmptySet
  <2>2. Stats!Recount(x, U).n = 1
    BY <1>2, <2>1, StatsCardinality DEF Stats!Recount
  <2> QED
    BY <1>3, <2>2 DEF Stats!Remove, Stats!Recount
<1>4. CASE S # {}
  <2>1. n # 0
    BY <1>4, FS_EmptySet
  <2>2. PICK m : Splits(n, m)
    BY <1>2, <2>1, UnitDividesNext
  <2>3. Stats!Recount(x, S) = Moments(n, (n + 1) * m, s, q)
    <3>1. (n + 1) * m \in Nat /\ Unit = n * ((n + 1) * m)
      BY <1>2, <2>2 DEF Splits
    <3> QED
      BY <1>1, <1>4, <3>1, RecountMoments
  <2>4. Stats!Recount(x, U) = Moments(n + 1, n * m, s + x[t], q + x[t] * x[t])
    <3>1. n * m \in Nat /\ Unit = Cardinality(U) * (n * m)
      BY <1>2, <2>2 DEF Splits
    <3> HIDE DEF U
    <3> QED
      BY <1>1, <1>2, <3>1, RecountMoments DEF U
  <2>5. ((n + 1) * m) * (n * q - s * s) >= 0
    <3>1. n * q - s * s >= 0
      BY <1>1, SpreadNat
    <3> HIDE DEF n, s, q
    <3>2. (n + 1) * m \in Nat /\ n * q - s * s \in Int
      BY <1>1, <1>2, <2>2 DEF Splits
    <3>3. ASSUME NEW a \in Nat, NEW b \in Int, b >= 0 PROVE a * b >= 0
      BY <3>3
    <3> QED
      BY <3>1, <3>2, <3>3
  <2> HIDE DEF n, s, q
  <2>6. \A y \in Int : Stats!Remove(Moments(n + 1, n * m, s + y, q + y * y), y)
                        = Moments(n, (n + 1) * m, s, q)
    BY <1>1, <2>2, <2>5, RemoveMoments
  <2> HIDE DEF U
  <2> QED
    BY <1>1, <2>3, <2>4, <2>6 DEF U
<1> QED
  BY <1>3, <1>4

-----------------------------------------------------------------------------
(* The statistics of a dictionary and its frequencies, class by class, and *)
(* what a load and a batch of moves compute of them.                       *)

DfTables == [TermId -> 0 .. MaxSegId]

(* The samples; only those of frequencies above 0 are ever taken.          *)
Logs(df) == [t \in TermId |-> LnDf[df[t]]]

StatsOf(dict, df) ==
  [c \in Classes |-> Stats!Recount(Logs(df), Sampled(dict, df, c))]

LEMMA TermIdFinite ==
  ASSUME NEW S, S \in SUBSET TermId
  PROVE  IsFiniteSet(S) /\ Cardinality(S) \in Nat /\ Cardinality(S) <= MaxTermId
<1>1. IsFiniteSet(TermId) /\ Cardinality(TermId) = MaxTermId
  BY IdCeilings, FS_Interval DEF TermId
<1> QED
  BY <1>1, FS_Subset, FS_CardinalityType

(* Terms that are all held by a segment.                                   *)
AllHeld(df, S) == df \in DfTables /\ S \in SUBSET TermId /\ \A t \in S : df[t] > 0

LEMMA HeldWeights ==
  ASSUME NEW df, NEW S, AllHeld(df, S)
  PROVE  Weights(Logs(df), S) /\ \A t \in S : Logs(df)[t] = LnDf[df[t]]
<1> SUFFICES ASSUME NEW t \in S PROVE Logs(df)[t] \in Int /\ Logs(df)[t] = LnDf[df[t]]
  BY DEF Weights
<1>1. t \in TermId /\ df[t] \in 1 .. MaxSegId
  BY IdCeilings DEF AllHeld, DfTables
<1>2. LnDf[df[t]] \in Nat
  BY <1>1, Classification
<1> QED
  BY <1>1, <1>2 DEF Logs

LEMMA SampledHeld ==
  ASSUME NEW dict, NEW df, df \in DfTables, NEW c
  PROVE  AllHeld(df, Sampled(dict, df, c))
BY DEF AllHeld, Sampled

(* One sample more, one sample less.                                       *)
LEMMA HeldAdd ==
  ASSUME NEW df, NEW S, NEW t, t \notin S, AllHeld(df, S \cup {t})
  PROVE  /\ Stats!Add(Stats!Recount(Logs(df), S), LnDf[df[t]])
              = Stats!Recount(Logs(df), S \cup {t})
         /\ Stats!Remove(Stats!Recount(Logs(df), S \cup {t}), LnDf[df[t]])
              = Stats!Recount(Logs(df), S)
<1>1. S \in SUBSET TermId /\ S \cup {t} \in SUBSET TermId
  BY DEF AllHeld
<1>2. IsFiniteSet(S) /\ Cardinality(S \cup {t}) <= MaxTermId
  BY <1>1, TermIdFinite
<1>3. Cardinality(S) + 1 <= MaxTermId
  BY <1>2, OneMore
<1>4. Weights(Logs(df), S \cup {t}) /\ Logs(df)[t] = LnDf[df[t]]
  BY HeldWeights
<1> QED
  BY <1>2, <1>3, <1>4, RecountAdd, RecountRemove

(* The fold of Dictionary::load.                                           *)
IsLoading(df, U, f) ==
  f = [T \in SUBSET U |->
        IF T = {} THEN Stats!NoSamples
        ELSE Stats!Add(f[T \ {Choice(T)}], LnDf[df[Choice(T)]])]

LEMMA LoadingSolved ==
  ASSUME NEW df, NEW U, AllHeld(df, U)
  PROVE  IsLoading(df, U, [T \in SUBSET U |-> Stats!Recount(Logs(df), T)])
<1> DEFINE h == [T \in SUBSET U |-> Stats!Recount(Logs(df), T)]
<1>1. ASSUME NEW T \in SUBSET U, T # {}
      PROVE  Stats!Recount(Logs(df), T) = Stats!Add(h[T \ {Choice(T)}], LnDf[df[Choice(T)]])
  <2> DEFINE t == Choice(T)
             S == T \ {t}
  <2>1. t \in T
    BY <1>1, ChoiceIn
  <2> HIDE DEF t
  <2>2. T = S \cup {t} /\ t \notin S /\ S \in SUBSET U
    BY <2>1
  <2>3. AllHeld(df, S \cup {t})
    BY <2>2 DEF AllHeld
  <2> HIDE DEF S
  <2>4. Stats!Add(Stats!Recount(Logs(df), S), LnDf[df[t]]) = Stats!Recount(Logs(df), S \cup {t})
    BY <2>2, <2>3, HeldAdd
  <2> QED
    BY <2>2, <2>4 DEF S, t
<1>2. Stats!Recount(Logs(df), {}) = Stats!NoSamples
  BY DEF Stats!Recount
<1>3. \A T \in SUBSET U : h[T] = IF T = {} THEN Stats!NoSamples
                               ELSE Stats!Add(h[T \ {Choice(T)}], LnDf[df[Choice(T)]])
  BY <1>1, <1>2
<1>4. h = [T \in SUBSET U |-> h[T]]
  OBVIOUS
<1> HIDE DEF h
<1>5. h = [T \in SUBSET U |-> IF T = {} THEN Stats!NoSamples
                               ELSE Stats!Add(h[T \ {Choice(T)}], LnDf[df[Choice(T)]])]
  BY <1>3, <1>4
<1> QED
  BY <1>5 DEF IsLoading, h

LEMMA LoadingUnique ==
  ASSUME NEW df, NEW U, U \in SUBSET TermId, NEW f, IsLoading(df, U, f),
         NEW g, IsLoading(df, U, g)
  PROVE  f[U] = g[U]
<1> DEFINE Q == {T \in SUBSET U : f[T] = g[T]}
<1>1. ASSUME NEW T \in SUBSET U, \A t \in T : T \ {t} \in Q PROVE T \in Q
  <2>1. CASE T = {}
    BY <2>1 DEF IsLoading
  <2>2. CASE T # {}
    <3>1. Choice(T) \in T
      BY <2>2, ChoiceIn
    <3>2. f[T \ {Choice(T)}] = g[T \ {Choice(T)}]
      BY <1>1, <3>1
    <3>3. /\ f[T] = Stats!Add(f[T \ {Choice(T)}], LnDf[df[Choice(T)]])
          /\ g[T] = Stats!Add(g[T \ {Choice(T)}], LnDf[df[Choice(T)]])
      BY <2>2 DEF IsLoading
    <3> QED
      BY <3>2, <3>3
  <2> QED
    BY <2>1, <2>2
<1> HIDE DEF Q
<1>2. \A T \in SUBSET U : T \in Q
  BY <1>1, TermIdFinite, SubsetInduction
<1>3. U \in Q
  BY <1>2
<1> QED
  BY <1>3 DEF Q

(* Dictionary::load computes the statistics of what it loads.              *)
LEMMA LoadComputes ==
  ASSUME NEW dict, NEW df, df \in DfTables
  PROVE  ClassStats(dict, df) = StatsOf(dict, df)
<1> SUFFICES ASSUME NEW c \in Classes
             PROVE  ClassStats(dict, df)[c] = Stats!Recount(Logs(df), Sampled(dict, df, c))
  BY DEF ClassStats, StatsOf
<1> DEFINE U == Sampled(dict, df, c)
           f == CHOOSE f : IsLoading(df, U, f)
           h == [T \in SUBSET U |-> Stats!Recount(Logs(df), T)]
<1>1. AllHeld(df, U) /\ U \in SUBSET TermId
  BY SampledHeld DEF AllHeld
<1>2. ClassStats(dict, df)[c] = f[U]
  BY DEF ClassStats, MapThenFoldSet, IsLoading, Choice
<1>3. IsLoading(df, U, h)
  BY <1>1, LoadingSolved
<1> HIDE DEF U
<1>4. h[U] = Stats!Recount(Logs(df), U)
  OBVIOUS
<1> HIDE DEF h
<1>5. IsLoading(df, U, f)
  BY <1>3
<1> HIDE DEF f
<1>6. f[U] = h[U]
  BY <1>1, <1>3, <1>5, LoadingUnique
<1> QED
  BY <1>2, <1>4, <1>6 DEF U

-----------------------------------------------------------------------------
(* Dictionary::apply_df_changes.                                           *)

LEMMA AlikeRecount ==
  ASSUME NEW a, NEW b, NEW S, AllHeld(a, S), \A u \in S : a[u] = b[u]
  PROVE  Stats!Recount(Logs(a), S) = Stats!Recount(Logs(b), S)
<1>1. IsFiniteSet(S) /\ S \in SUBSET TermId
  BY TermIdFinite DEF AllHeld
<1>2. \A u \in S : Logs(a)[u] = Logs(b)[u]
  BY <1>1 DEF Logs
<1> QED
  BY <1>1, <1>2, HeldWeights, RecountAgree

(* Frequencies that differ at one term.                                    *)
Changed(a, b, t) ==
  /\ a \in DfTables /\ b \in DfTables /\ t \in TermId
  /\ \A u \in TermId : u # t => b[u] = a[u]

(* A class that does not hold the term counts the same samples.            *)
LEMMA OtherClass ==
  ASSUME NEW map, NEW a, NEW b, NEW t, Changed(a, b, t), NEW c,
         \A g \in Grams : map[g] = t => ClassOf[g] # c
  PROVE  Stats!Recount(Logs(a), Sampled(map, a, c)) = Stats!Recount(Logs(b), Sampled(map, b, c))
<1>1. Sampled(map, a, c) = Sampled(map, b, c) /\ t \notin Sampled(map, a, c)
  BY DEF Sampled, Changed
<1>2. \A u \in Sampled(map, a, c) : a[u] = b[u]
  BY <1>1 DEF Sampled, Changed
<1>3. AllHeld(a, Sampled(map, a, c))
  BY SampledHeld DEF Changed
<1> QED
  BY <1>1, <1>2, <1>3, AlikeRecount

(* The class that holds it takes the old sample out and the new one in.    *)
LEMMA OwnClass ==
  ASSUME NEW map, NEW a, NEW b, NEW t, Changed(a, b, t), NEW g \in Grams, map[g] = t,
         NEW c, c = ClassOf[g]
  PROVE  Stats!Update(Stats!Recount(Logs(a), Sampled(map, a, c)), LnDf, a[t], b[t])
           = Stats!Recount(Logs(b), Sampled(map, b, c))
<1> DEFINE S  == {u \in TermId \ {t} : a[u] > 0 /\ \E h \in Grams : map[h] = u /\ ClassOf[h] = c}
           A  == Sampled(map, a, c)
           B  == Sampled(map, b, c)
           less == IF a[t] > 0 THEN Stats!Remove(Stats!Recount(Logs(a), A), LnDf[a[t]])
                               ELSE Stats!Recount(Logs(a), A)
<1>1. /\ t \notin S /\ \A u \in S : a[u] = b[u]
      /\ A = IF a[t] > 0 THEN S \cup {t} ELSE S
      /\ B = IF b[t] > 0 THEN S \cup {t} ELSE S
  BY DEF Sampled, Changed
<1>2. AllHeld(a, A) /\ AllHeld(b, B)
  BY SampledHeld DEF Changed
<1>3. AllHeld(a, S)
  BY DEF AllHeld, Changed
<1> HIDE DEF S, A, B
<1>4. Stats!Recount(Logs(a), S) = Stats!Recount(Logs(b), S)
  BY <1>1, <1>3, AlikeRecount
<1>5. less = Stats!Recount(Logs(a), S)
  <2>1. CASE a[t] > 0
    <3>1. AllHeld(a, S \cup {t}) /\ A = S \cup {t}
      BY <1>1, <1>2, <2>1
    <3>2. Stats!Remove(Stats!Recount(Logs(a), S \cup {t}), LnDf[a[t]]) = Stats!Recount(Logs(a), S)
      BY <1>1, <3>1, HeldAdd
    <3> QED
      BY <2>1, <3>1, <3>2
  <2>2. CASE ~(a[t] > 0)
    BY <1>1, <2>2
  <2> QED
    BY <2>1, <2>2
<1>6. Stats!Update(Stats!Recount(Logs(a), A), LnDf, a[t], b[t])
        = IF b[t] > 0 THEN Stats!Add(less, LnDf[b[t]]) ELSE less
  BY DEF Stats!Update
<1> HIDE DEF less
<1>7. CASE b[t] > 0
  <2>1. AllHeld(b, S \cup {t}) /\ B = S \cup {t}
    BY <1>1, <1>2, <1>7
  <2>2. Stats!Add(Stats!Recount(Logs(b), S), LnDf[b[t]]) = Stats!Recount(Logs(b), S \cup {t})
    BY <1>1, <2>1, HeldAdd
  <2> QED
    BY <1>4, <1>5, <1>6, <1>7, <2>1, <2>2 DEF A, B
<1>8. CASE ~(b[t] > 0)
  <2>1. B = S
    BY <1>1, <1>8
  <2> QED
    BY <1>4, <1>5, <1>6, <1>8, <2>1 DEF A, B
<1> QED
  BY <1>7, <1>8

LEMMA MoveOne ==
  ASSUME NEW map, Injective(map), NEW a, NEW b, NEW t, Changed(a, b, t)
  PROVE  MoveSample(map, [id |-> t, old |-> a[t], new |-> b[t]], StatsOf(map, a)) = StatsOf(map, b)
<1> DEFINE known == {g \in Grams : map[g] = t}
           r == [id |-> t, old |-> a[t], new |-> b[t]]
<1>1. \A d : StatsOf(map, d) = [c \in Classes |-> Stats!Recount(Logs(d), Sampled(map, d, c))]
  BY DEF StatsOf
<1>2. CASE known = {}
  <2>1. \A c \in Classes : Stats!Recount(Logs(a), Sampled(map, a, c))
                             = Stats!Recount(Logs(b), Sampled(map, b, c))
    <3>1. \A g \in Grams : map[g] # t
      BY <1>2
    <3> QED
      BY <3>1, OtherClass
  <2>2. MoveSample(map, r, StatsOf(map, a)) = StatsOf(map, a)
    BY <1>2 DEF MoveSample
  <2> QED
    BY <1>1, <2>1, <2>2
<1>3. CASE known # {}
  <2> DEFINE g == CHOOSE g \in known : TRUE
             k == ClassOf[g]
             new == Stats!Update(StatsOf(map, a)[k], LnDf, a[t], b[t])
  <2>1. g \in Grams /\ map[g] = t
    BY <1>3
  <2>2. k \in Classes
    BY <2>1, Classification
  <2>3. \A h \in Grams : map[h] = t => h = g
    <3>1. t # NoTerm
      BY IdCeilings DEF Changed, TermId, NoTerm
    <3> HIDE DEF g
    <3> QED
      BY <2>1, <3>1 DEF Injective
  <2>4. MoveSample(map, r, StatsOf(map, a)) = [StatsOf(map, a) EXCEPT ![k] = new]
    BY <1>3 DEF MoveSample
  <2>5. new = StatsOf(map, b)[k]
    <3>1. Stats!Update(Stats!Recount(Logs(a), Sampled(map, a, k)), LnDf, a[t], b[t])
            = Stats!Recount(Logs(b), Sampled(map, b, k))
      <4> HIDE DEF g
      <4> QED
        BY <2>1, OwnClass
    <3> HIDE DEF k
    <3> QED
      BY <1>1, <2>2, <3>1
  <2>6. \A c \in Classes : c # k => StatsOf(map, a)[c] = StatsOf(map, b)[c]
    <3> SUFFICES ASSUME NEW c \in Classes, c # k PROVE StatsOf(map, a)[c] = StatsOf(map, b)[c]
      OBVIOUS
    <3>1. \A h \in Grams : map[h] = t => ClassOf[h] # c
      BY <2>3
    <3>2. Stats!Recount(Logs(a), Sampled(map, a, c)) = Stats!Recount(Logs(b), Sampled(map, b, c))
      BY <3>1, OtherClass
    <3> QED
      BY <1>1, <3>2
  <2>7. DOMAIN StatsOf(map, a) = Classes /\ StatsOf(map, b) = [c \in Classes |-> StatsOf(map, b)[c]]
    BY DEF StatsOf
  <2> HIDE DEF new, k
  <2>8. [StatsOf(map, a) EXCEPT ![k] = new] = StatsOf(map, b)
    BY <2>2, <2>5, <2>6, <2>7
  <2> QED
    BY <2>4, <2>8
<1> QED
  BY <1>2, <1>3

(* What one finished call recorded: how the frequencies went from a to b.  *)
Change(a, b, t) == [id |-> t, old |-> a[t], new |-> b[t]]

Moves(batch, a, b) ==
  /\ a \in DfTables /\ b \in DfTables
  /\ batch \subseteq {Change(a, b, t) : t \in TermId}
  /\ \A t \in TermId : a[t] # b[t] => Change(a, b, t) \in batch

(* The frequencies once the changes of T are made.                         *)
After(a, b, T) == [t \in TermId |-> IF Change(a, b, t) \in T THEN b[t] ELSE a[t]]

LEMMA AfterType ==
  ASSUME NEW batch, NEW a, NEW b, Moves(batch, a, b), NEW T
  PROVE  After(a, b, T) \in DfTables
BY DEF After, Moves, DfTables

LEMMA AfterNone ==
  ASSUME NEW batch, NEW a, NEW b, Moves(batch, a, b)
  PROVE  After(a, b, {}) = a
BY DEF After, Moves, DfTables

LEMMA AfterAll ==
  ASSUME NEW batch, NEW a, NEW b, Moves(batch, a, b)
  PROVE  After(a, b, batch) = b
BY DEF After, Moves, DfTables

LEMMA AfterOne ==
  ASSUME NEW batch, NEW a, NEW b, Moves(batch, a, b), NEW T, T \in SUBSET batch, NEW r \in T
  PROVE  \E t \in TermId :
           /\ Changed(After(a, b, T \ {r}), After(a, b, T), t)
           /\ r = [id |-> t, old |-> After(a, b, T \ {r})[t], new |-> After(a, b, T)[t]]
<1>1. PICK t \in TermId : r = Change(a, b, t)
  BY DEF Moves
<1>2. \A u \in TermId : u # t => Change(a, b, u) # r
  BY <1>1 DEF Change
<1>3. /\ After(a, b, T \ {r}) \in DfTables /\ After(a, b, T) \in DfTables
  BY AfterType
<1>4. After(a, b, T \ {r})[t] = a[t] /\ After(a, b, T)[t] = b[t]
  BY <1>1 DEF After
<1>5. \A u \in TermId : u # t => After(a, b, T)[u] = After(a, b, T \ {r})[u]
  BY <1>2 DEF After
<1> QED
  BY <1>1, <1>3, <1>4, <1>5 DEF Changed, Change

LEMMA BatchFinite ==
  ASSUME NEW batch, NEW a, NEW b, Moves(batch, a, b)
  PROVE  IsFiniteSet(batch)
<1> DEFINE all == {Change(a, b, t) : t \in TermId}
           f == [t \in TermId |-> Change(a, b, t)]
<1>1. f \in Surjection(TermId, all)
  BY DEF Surjection
<1>2. IsFiniteSet(TermId)
  BY TermIdFinite
<1> HIDE DEF f, all
<1>3. IsFiniteSet(all)
  BY <1>1, <1>2, FS_Surjection
<1> QED
  BY <1>3, FS_Subset DEF all, Moves

IsMoving(map, stats, U, f) ==
  f = [T \in SUBSET U |->
        IF T = {} THEN stats ELSE MoveSample(map, Choice(T), f[T \ {Choice(T)}])]

LEMMA MovingSolved ==
  ASSUME NEW map, Injective(map), NEW batch, NEW a, NEW b, Moves(batch, a, b)
  PROVE  IsMoving(map, StatsOf(map, a), batch,
                  [T \in SUBSET batch |-> StatsOf(map, After(a, b, T))])
<1> DEFINE h == [T \in SUBSET batch |-> StatsOf(map, After(a, b, T))]
<1>1. ASSUME NEW T \in SUBSET batch, T # {}
      PROVE  StatsOf(map, After(a, b, T)) = MoveSample(map, Choice(T), h[T \ {Choice(T)}])
  <2> DEFINE r == Choice(T)
             old == After(a, b, T \ {r})
             new == After(a, b, T)
  <2>1. r \in T
    BY <1>1, ChoiceIn
  <2> HIDE DEF r
  <2>2. PICK t \in TermId : Changed(old, new, t) /\ r = [id |-> t, old |-> old[t], new |-> new[t]]
    BY <2>1, AfterOne
  <2>3. h[T \ {r}] = StatsOf(map, old)
    OBVIOUS
  <2> HIDE DEF old, new, h
  <2>4. MoveSample(map, [id |-> t, old |-> old[t], new |-> new[t]], StatsOf(map, old)) = StatsOf(map, new)
    BY <2>2, MoveOne
  <2> QED
    BY <2>2, <2>3, <2>4 DEF new, r
<1>2. StatsOf(map, After(a, b, {})) = StatsOf(map, a)
  BY AfterNone
<1>3. \A T \in SUBSET batch :
        h[T] = IF T = {} THEN StatsOf(map, a)
               ELSE MoveSample(map, Choice(T), h[T \ {Choice(T)}])
  BY <1>1, <1>2
<1>4. h = [T \in SUBSET batch |-> h[T]]
  OBVIOUS
<1> HIDE DEF h
<1>5. h = [T \in SUBSET batch |-> IF T = {} THEN StatsOf(map, a)
                                  ELSE MoveSample(map, Choice(T), h[T \ {Choice(T)}])]
  BY <1>3, <1>4
<1> QED
  BY <1>5 DEF IsMoving, h

LEMMA MovingUnique ==
  ASSUME NEW map, NEW stats, NEW U, IsFiniteSet(U), NEW f, IsMoving(map, stats, U, f),
         NEW g, IsMoving(map, stats, U, g)
  PROVE  f[U] = g[U]
<1> DEFINE Q == {T \in SUBSET U : f[T] = g[T]}
<1>1. ASSUME NEW T \in SUBSET U, \A t \in T : T \ {t} \in Q PROVE T \in Q
  <2>1. CASE T = {}
    BY <2>1 DEF IsMoving
  <2>2. CASE T # {}
    <3>1. Choice(T) \in T
      BY <2>2, ChoiceIn
    <3>2. f[T \ {Choice(T)}] = g[T \ {Choice(T)}]
      BY <1>1, <3>1
    <3>3. /\ f[T] = MoveSample(map, Choice(T), f[T \ {Choice(T)}])
          /\ g[T] = MoveSample(map, Choice(T), g[T \ {Choice(T)}])
      BY <2>2 DEF IsMoving
    <3> QED
      BY <3>2, <3>3
  <2> QED
    BY <2>1, <2>2
<1> HIDE DEF Q
<1>2. \A T \in SUBSET U : T \in Q
  BY <1>1, SubsetInduction
<1>3. U \in Q
  BY <1>2
<1> QED
  BY <1>3 DEF Q

LEMMA BatchMoves ==
  ASSUME NEW map, Injective(map), NEW batch, NEW a, NEW b, Moves(batch, a, b)
  PROVE  MoveBatch(map, StatsOf(map, a), batch) = StatsOf(map, b)
<1> DEFINE stats == StatsOf(map, a)
           f == CHOOSE f : IsMoving(map, stats, batch, f)
           h == [T \in SUBSET batch |-> StatsOf(map, After(a, b, T))]
<1>1. IsMoving(map, stats, batch, h)
  BY MovingSolved
<1>2. h[batch] = StatsOf(map, b)
  BY AfterAll
<1> HIDE DEF stats, h
<1>3. MoveBatch(map, stats, batch) = f[batch]
  BY DEF MoveBatch, MapThenFoldSet, IsMoving, Choice
<1>4. IsMoving(map, stats, batch, f)
  BY <1>1
<1> HIDE DEF f
<1>5. f[batch] = h[batch]
  BY <1>1, <1>4, BatchFinite, MovingUnique
<1> QED
  BY <1>2, <1>3, <1>5 DEF stats

(* The calls of a transaction, one after another, take the frequencies     *)
(* from a to b.                                                            *)
Steps(batches, D, a, b) ==
  /\ D \in [0 .. Len(batches) -> DfTables]
  /\ D[0] = a /\ D[Len(batches)] = b
  /\ \A i \in 1 .. Len(batches) : Moves(batches[i], D[i - 1], D[i])

Chain(batches, a, b) ==
  /\ batches \in Seq(SUBSET [id : TermId, old : 0 .. MaxSegId, new : 0 .. MaxSegId])
  /\ a \in DfTables /\ b \in DfTables
  /\ \E D : Steps(batches, D, a, b)

IsSequel(m, batches, f) ==
  f = [i \in 0 .. Len(batches) |->
        IF i = 0 THEN m.stats ELSE MoveBatch(m.map, f[i - 1], batches[i])]

LEMMA SequelUnique ==
  ASSUME NEW m, NEW batches, Len(batches) \in Nat, NEW f, IsSequel(m, batches, f),
         NEW g, IsSequel(m, batches, g)
  PROVE  f[Len(batches)] = g[Len(batches)]
<1> DEFINE n == Len(batches)
           T == {i \in Nat : i <= n => f[i] = g[i]}
<1>1. 0 \in T
  BY DEF IsSequel
<1>2. ASSUME NEW i \in Nat, i \in T PROVE i + 1 \in T
  <2> SUFFICES ASSUME i + 1 <= n PROVE f[i + 1] = g[i + 1]
    OBVIOUS
  <2>1. f[i] = g[i]
    BY <1>2
  <2>2. i + 1 \in 0 .. n /\ i + 1 # 0 /\ (i + 1) - 1 = i
    OBVIOUS
  <2>3. /\ f[i + 1] = MoveBatch(m.map, f[i], batches[i + 1])
        /\ g[i + 1] = MoveBatch(m.map, g[i], batches[i + 1])
    BY <2>2 DEF IsSequel
  <2> QED
    BY <2>1, <2>3
<1> HIDE DEF T
<1>3. \A i \in Nat : i \in T
  BY <1>1, <1>2, NatSet
<1>4. n \in T
  BY <1>3
<1> QED
  BY <1>4 DEF T

(* The statistics after a commit are those of the frequencies after it.    *)
LEMMA ChainMoves ==
  ASSUME NEW m, Injective(m.map), NEW batches, NEW a, NEW b, Chain(batches, a, b),
         m.stats = StatsOf(m.map, a)
  PROVE  MoveSamples(m, batches) = StatsOf(m.map, b)
<1>1. PICK D : Steps(batches, D, a, b)
  BY DEF Chain
<1> DEFINE n == Len(batches)
           f == CHOOSE f : IsSequel(m, batches, f)
           h == [i \in 0 .. n |-> StatsOf(m.map, D[i])]
<1>2. n \in Nat
  BY DEF Chain
<1>3. D[0] = a /\ D[n] = b /\ \A i \in 1 .. n : Moves(batches[i], D[i - 1], D[i])
  BY <1>1 DEF Steps
<1>4. ASSUME NEW i \in 0 .. n
      PROVE  h[i] = IF i = 0 THEN m.stats ELSE MoveBatch(m.map, h[i - 1], batches[i])
  <2>1. CASE i = 0
    BY <1>2, <1>3, <2>1
  <2>2. CASE i # 0
    <3>1. i \in 1 .. n /\ i - 1 \in 0 .. n
      BY <1>2, <2>2
    <3>2. Moves(batches[i], D[i - 1], D[i])
      BY <1>3, <3>1
    <3>3. MoveBatch(m.map, StatsOf(m.map, D[i - 1]), batches[i]) = StatsOf(m.map, D[i])
      BY <3>2, BatchMoves
    <3> QED
      BY <2>2, <3>1, <3>3
  <2> QED
    BY <2>1, <2>2
<1>5. h[n] = StatsOf(m.map, b)
  BY <1>2, <1>3
<1>6. h = [i \in 0 .. n |-> h[i]]
  OBVIOUS
<1> HIDE DEF h, n
<1>7. h = [i \in 0 .. n |-> IF i = 0 THEN m.stats ELSE MoveBatch(m.map, h[i - 1], batches[i])]
  BY <1>4, <1>6
<1>8. IsSequel(m, batches, h)
  BY <1>7 DEF IsSequel, n
<1>9. MoveSamples(m, batches) = f[n]
  BY DEF MoveSamples, IsSequel, n
<1>10. IsSequel(m, batches, f)
  BY <1>8
<1> HIDE DEF f
<1>11. f[n] = h[n]
  BY <1>2, <1>8, <1>10, SequelUnique DEF n
<1> QED
  BY <1>5, <1>9, <1>11

(* Frequencies that are counted from postings are frequencies.             *)
LEMMA SoundFrequencies ==
  ASSUME NEW db, Sound(db)
  PROVE  db.post.df \in DfTables
<1>1. db.post \in PostingTables /\ Exact(db.post)
  BY DEF Sound
<1>2. ASSUME NEW t \in TermId PROVE db.post.df[t] \in 0 .. MaxSegId
  <2>1. Effective(db.post, t) \in SUBSET SegId
    BY <1>1, EffectiveType
  <2>2. IsFiniteSet(SegId) /\ Cardinality(SegId) = MaxSegId
    BY IdCeilings, FS_Interval DEF SegId
  <2>3. Cardinality(Effective(db.post, t)) \in Nat
        /\ Cardinality(Effective(db.post, t)) <= MaxSegId
    BY <2>1, <2>2, FS_Subset, FS_CardinalityType
  <2>4. db.post.df[t] = Cardinality(Effective(db.post, t))
    BY <1>1 DEF Exact
  <2> QED
    BY <2>3, <2>4, IdCeilings
<1> QED
  BY <1>1, <1>2 DEF DfTables, PostingTables

(* A term some segment holds is the id of a gram.                          *)
Named(map, df) == \A t \in TermId : df[t] > 0 => \E g \in Grams : map[g] = t

LEMMA SoundNamed ==
  ASSUME NEW db, Sound(db)
  PROVE  Named(db.dict, db.post.df)
<1> SUFFICES ASSUME NEW t \in TermId, db.post.df[t] > 0
             PROVE  \E g \in Grams : db.dict[g] = t
  BY DEF Named
<1>1. db.post.df[t] = Cardinality(Effective(db.post, t))
  BY DEF Sound, Exact
<1>2. Effective(db.post, t) # {}
  BY <1>1, FS_EmptySet
<1>3. PICK s \in SegId : t \in db.segs.fwd[s]
  BY <1>2 DEF Sound, Inverts, Holders
<1>4. /\ s \in DOMAIN db.segs.row
      /\ t \in TermsOf(db.dict, db.segs.row[s].txt)
      /\ db.segs.row[s].txt \in Texts
  BY <1>3 DEF Sound, Live, IsSegmentTables, Row
<1> QED
  BY <1>4, Tokenizer DEF TermsOf

(* Names that are added to a map change no statistics.                     *)
LEMMA NamesAdded ==
  ASSUME NEW map, NEW more, NEW df, Named(map, df), Injective(more),
         \A g \in Grams : map[g] # NoTerm => more[g] = map[g]
  PROVE  StatsOf(more, df) = StatsOf(map, df)
<1>1. ASSUME NEW c PROVE Sampled(more, df, c) = Sampled(map, df, c)
  <2> SUFFICES ASSUME NEW t \in TermId, df[t] > 0
               PROVE  (\E g \in Grams : more[g] = t /\ ClassOf[g] = c)
                        <=> (\E g \in Grams : map[g] = t /\ ClassOf[g] = c)
    BY DEF Sampled
  <2>1. t # NoTerm
    BY IdCeilings DEF TermId, NoTerm
  <2>2. PICK h \in Grams : map[h] = t
    BY DEF Named
  <2>3. more[h] = t
    BY <2>1, <2>2
  <2>4. \A g \in Grams : map[g] = t => more[g] = t
    BY <2>1
  <2>5. \A g \in Grams : more[g] = t => g = h
    BY <2>1, <2>3 DEF Injective
  <2> QED
    BY <2>2, <2>4, <2>5
<1> QED
  BY <1>1 DEF StatsOf

LEMMA ChainNone ==
  ASSUME NEW a, a \in DfTables
  PROVE  Chain(<<>>, a, a)
<1> DEFINE D == [i \in 0 .. 0 |-> a]
<1>1. Steps(<<>>, D, a, a)
  BY DEF Steps
<1> QED
  BY <1>1 DEF Chain

LEMMA ChainAppend ==
  ASSUME NEW batches, NEW a, NEW b, Chain(batches, a, b), NEW batch, NEW c, Moves(batch, b, c)
  PROVE  Chain(Append(batches, batch), a, c)
<1> DEFINE n == Len(batches)
           longer == Append(batches, batch)
           Batch == [id : TermId, old : 0 .. MaxSegId, new : 0 .. MaxSegId]
<1>1. PICK D : Steps(batches, D, a, b)
  BY DEF Chain
<1>2. batches \in Seq(SUBSET Batch) /\ n \in Nat
  BY DEF Chain
<1>3. batch \in SUBSET Batch
  BY DEF Moves, DfTables, Change
<1> HIDE DEF Batch
<1>4. /\ longer \in Seq(SUBSET Batch) /\ Len(longer) = n + 1
      /\ longer[n + 1] = batch /\ \A i \in 1 .. n : longer[i] = batches[i]
  BY <1>2, <1>3
<1> DEFINE E == [i \in 0 .. n + 1 |-> IF i = n + 1 THEN c ELSE D[i]]
<1>5. c \in DfTables /\ a \in DfTables
  BY DEF Moves, Chain
<1>6. /\ D \in [0 .. n -> DfTables] /\ D[0] = a /\ D[n] = b
      /\ \A i \in 1 .. n : Moves(batches[i], D[i - 1], D[i])
  BY <1>1 DEF Steps
<1>7. /\ E \in [0 .. n + 1 -> DfTables] /\ E[n + 1] = c
      /\ \A i \in 0 .. n : E[i] = D[i]
  BY <1>2, <1>5, <1>6
<1> HIDE DEF E, longer, n
<1>8. \A i \in 1 .. n + 1 : Moves(longer[i], E[i - 1], E[i])
  <2> SUFFICES ASSUME NEW i \in 1 .. n + 1 PROVE Moves(longer[i], E[i - 1], E[i])
    OBVIOUS
  <2>1. CASE i = n + 1
    <3>1. i - 1 = n /\ n \in 0 .. n
      BY <1>2, <2>1
    <3> QED
      BY <1>4, <1>6, <1>7, <2>1, <3>1
  <2>2. CASE i # n + 1
    <3>1. i \in 1 .. n /\ i \in 0 .. n /\ i - 1 \in 0 .. n
      BY <1>2, <2>2
    <3> QED
      BY <1>4, <1>6, <1>7, <3>1
  <2> QED
    BY <2>1, <2>2
<1>9. E[0] = a
  BY <1>2, <1>6, <1>7
<1>10. Steps(longer, E, a, c)
  BY <1>4, <1>7, <1>8, <1>9 DEF Steps
<1> QED
  BY <1>4, <1>5, <1>10 DEF Chain, longer, Batch

LEMMA WholeSequence ==
  ASSUME NEW batches, NEW a, NEW b, Chain(batches, a, b)
  PROVE  SubSeq(batches, 1, Len(batches)) = batches
<1> DEFINE S == SUBSET [id : TermId, old : 0 .. MaxSegId, new : 0 .. MaxSegId]
<1>1. batches \in Seq(S)
  BY DEF Chain
<1> HIDE DEF S
<1> QED
  BY <1>1

(* The changes a call records are those it makes.                          *)
LEMMA RecordsMoves ==
  ASSUME NEW post, post.df \in DfTables, NEW add, NEW remove,
         ApplyWrites(post, add, remove).df \in DfTables
  PROVE  Moves(DfChanges(post, add, remove), post.df, ApplyWrites(post, add, remove).df)
<1> DEFINE a == post.df
           b == ApplyWrites(post, add, remove).df
<1>1. \A t \in TermId : b[t] = a[t] + (Cardinality(add[t]) - Cardinality(remove[t]))
  BY DEF ApplyWrites
<1>2. ASSUME NEW t \in TermId, add[t] \cup remove[t] = {} PROVE a[t] = b[t]
  <2>1. add[t] = {} /\ remove[t] = {}
    BY <1>2
  <2>2. Cardinality(add[t]) = 0 /\ Cardinality(remove[t]) = 0
    BY <2>1, FS_EmptySet
  <2>3. a[t] \in Int
    BY DEF DfTables
  <2> QED
    BY <1>1, <2>2, <2>3
<1>3. DfChanges(post, add, remove)
        = {Change(a, b, t) : t \in {u \in TermId : add[u] \cup remove[u] # {}}}
  BY DEF DfChanges, Change
<1> HIDE DEF a, b
<1> QED
  BY <1>2, <1>3 DEF Moves, a, b

-----------------------------------------------------------------------------
(* The id mark.                                                            *)

(* The ids in use are the ones below some mark, all of them.               *)
Tight(d) == \E n : Distinct(d, n) /\ Dense(d, n)

StageDense(m, st) == Dense(Resolved(m, st), st.base + Cardinality(Staged(st)))

LEMMA DenseMark ==
  ASSUME NEW d, NEW n, Dense(d, n)
  PROVE  n \in Nat /\ n - 1 = Cardinality({g \in Grams : d[g] # NoTerm})
<1>1. Cardinality({g \in Grams : d[g] # NoTerm}) \in Nat
  <2>1. {g \in Grams : d[g] # NoTerm} \in SUBSET Grams
    OBVIOUS
  <2> QED
    BY <2>1, Tokenizer, FS_Subset, FS_CardinalityType
<1> QED
  BY <1>1 DEF Dense

(* Dictionary::load finds the mark the ids were handed out with.           *)
LEMMA LoadMark ==
  ASSUME NEW db, IsTables(db), NEW n, Distinct(db.dict, n), Dense(db.dict, n)
  PROVE  Load(db).nextTerm = n
<1> DEFINE d == db.dict
           H == {g \in Grams : d[g] # NoTerm}
           S == {t \in TermId : \E g \in Grams : d[g] >= t}
           ids == {d[g] : g \in H}
           f == [g \in H |-> d[g]]
<1>1. n \in Nat /\ n - 1 = Cardinality(H)
  BY DenseMark
<1>2. d \in [Grams -> TermId \cup {NoTerm}]
  BY DEF IsTables, Dictionaries
<1>3. IsFiniteSet(H)
  BY Tokenizer, FS_Subset
<1>4. f \in Surjection(H, ids) /\ f \in Injection(H, ids)
  <2>1. f \in [H -> ids] /\ \A t \in ids : \E g \in H : f[g] = t
    OBVIOUS
  <2>2. \A g, h \in H : f[g] = f[h] => g = h
    BY DEF Distinct
  <2> HIDE DEF f, ids, H
  <2> QED
    BY <2>1, <2>2 DEF Surjection, Injection, IsInjective
<1> HIDE DEF f
<1>5. Cardinality(ids) = n - 1
  <2> HIDE DEF H, ids
  <2> QED
    BY <1>1, <1>3, <1>4, FS_Surjection
<1>6. ids \subseteq S
  <2> SUFFICES ASSUME NEW g \in H PROVE d[g] \in TermId /\ d[g] >= d[g]
    OBVIOUS
  <2>1. d[g] \in TermId
    BY <1>2
  <2> QED
    BY <2>1 DEF TermId
<1>7. S \subseteq 1 .. n - 1
  <2> SUFFICES ASSUME NEW t \in TermId, NEW g \in Grams, d[g] >= t PROVE t \in 1 .. n - 1
    OBVIOUS
  <2>1. d[g] < n /\ d[g] \in Int /\ t \in Int /\ t >= 1
    BY <1>2, IdCeilings DEF Distinct, TermId, NoTerm
  <2> QED
    BY <1>1, <2>1
<1>8. IsFiniteSet(1 .. n - 1) /\ Cardinality(1 .. n - 1) = n - 1
  <2>1. n - 1 \in Nat
    BY <1>1, <1>3, FS_CardinalityType
  <2> QED
    BY <2>1, FS_Interval
<1> HIDE DEF S, ids
<1>9. IsFiniteSet(S) /\ Cardinality(S) <= n - 1
  BY <1>7, <1>8, FS_Subset
<1>10. Cardinality(ids) <= Cardinality(S) /\ Cardinality(S) \in Nat
  BY <1>6, <1>9, FS_Subset, FS_CardinalityType
<1>11. Cardinality(S) = n - 1
  BY <1>1, <1>5, <1>9, <1>10
<1>12. Load(db).nextTerm = 1 + Cardinality(S)
  BY DEF Load, S
<1> QED
  BY <1>1, <1>11, <1>12

LEMMA LoadDense ==
  ASSUME NEW db, IsTables(db), Tight(db.dict)
  PROVE  Dense(Load(db).map, Load(db).nextTerm)
<1>1. PICK n : Distinct(db.dict, n) /\ Dense(db.dict, n)
  BY DEF Tight
<1> QED
  BY <1>1, LoadMark, LoadType

LEMMA EmptyStageDense ==
  ASSUME NEW m, IsDictionary(m), Dense(m.map, m.nextTerm)
  PROVE  StageDense(m, NewStage(m))
<1>1. Staged(NewStage(m)) = {}
  BY DEF Staged, NewStage, EmptyDict
<1>2. NewStage(m).base + Cardinality(Staged(NewStage(m))) = m.nextTerm
  <2>1. Cardinality(Staged(NewStage(m))) = 0
    BY <1>1, FS_EmptySet
  <2>2. NewStage(m).base = m.nextTerm /\ m.nextTerm \in Nat
    BY IdCeilings DEF NewStage, IsDictionary
  <2> QED
    BY <2>1, <2>2
<1>3. Resolved(m, NewStage(m)) = m.map
  BY EmptyStage
<1> QED
  BY <1>2, <1>3 DEF StageDense

LEMMA MergeDense ==
  ASSUME NEW m, NEW st, IsDictionary(m), IsStage(m, st), StageDense(m, st),
         Dense(m.map, m.nextTerm)
  PROVE  Dense(Merge(m, st).map, Merge(m, st).nextTerm)
<1> DEFINE next == IF Staged(st) = {} THEN m.nextTerm ELSE st.base + Cardinality(Staged(st))
<1>1. Merge(m, st).map = Resolved(m, st) /\ Merge(m, st).nextTerm = next
  BY DEF Merge, IsDictionary
<1>2. CASE Staged(st) = {}
  <2>1. \A g \in Grams : (IF m.map[g] # NoTerm THEN m.map[g] ELSE st.new[g]) = m.map[g]
    BY <1>2 DEF Staged
  <2>2. Resolved(m, st) = m.map
    BY <2>1 DEF Resolved, IsDictionary, Dictionaries
  <2> QED
    BY <1>1, <1>2, <2>2
<1>3. CASE Staged(st) # {}
  BY <1>1, <1>3 DEF StageDense
<1> QED
  BY <1>2, <1>3

LEMMA StagingDense ==
  ASSUME NEW m, NEW st, NEW G, NEW s2,
         IsDictionary(m), IsStage(m, st), G \in SUBSET Grams, s2 \in Stagings(m, st, G),
         StageDense(m, st)
  PROVE  StageDense(m, s2)
<1> DEFINE old  == Resolved(m, st)
           next == st.base + Cardinality(Staged(st))
           d    == Resolved(m, s2)
<1>1. /\ d \in Interned(old, next, G)
      /\ s2.base + Cardinality(Staged(s2)) = next + Cardinality({g \in Grams : d[g] # old[g]})
  <2>1. InternsNext(m, st, G, s2)
    BY StagingAdds
  <2> QED
    BY <2>1 DEF InternsNext
<1>2. old \in Dictionaries /\ next \in 1 .. MaxTermId + 1 /\ Dense(old, next)
  BY StageExtends DEF IsStage, StageDense
<1> HIDE DEF old, next, d
<1>3. Dense(d, next + Cardinality({g \in Grams : d[g] # old[g]}))
  BY <1>1, <1>2, InternedDense
<1> QED
  BY <1>1, <1>3 DEF StageDense, d

-----------------------------------------------------------------------------
(* The inductive invariant, beside LeaseInv and TablesInv.                 *)

Late    == \E p \in Threads : pc[p] \in {"loading", "merging", "merged"}
Folding == \E p \in Threads : pc[p] \in {"merging", "merged"}
Leasing == \E p \in Threads : pc[p] \in {"leased", "in_call", "merging", "merged", "failed"}

(* The mark and the ids in use, of the map, the tables and the stage.      *)
DenseMarks ==
  /\ Dense(mem.map, mem.nextTerm)
  /\ Tight(disk.dict)
  /\ Committing => StageDense(mem, stage)
  /\ InACall => StageDense(mem, RollbackTo(stage, call.stageMark))

(* Between a COMMIT and apply_df_changes the statistics are those of some  *)
(* earlier frequencies, and what pending records leads from them to the    *)
(* committed ones.                                                         *)
FreshStats ==
  /\ ~poisoned /\ ~Late => mem.stats = StatsOf(disk.dict, disk.post.df)
  /\ Folding => \E df : /\ mem.stats = StatsOf(mem.map, df)
                        /\ Named(mem.map, df)
                        /\ Chain(pending, df, disk.post.df)

(* What pending records leads from the committed frequencies to those of   *)
(* the transaction, or of the savepoint of a call.                         *)
Recorded ==
  /\ txn # NoTxn /\ ~InACall => Chain(pending, disk.post.df, txn.post.df)
  /\ InACall => /\ call.dfMark = Len(pending)
                /\ txn.post = call.saved.post
                /\ Chain(pending, disk.post.df, call.saved.post.df)
  /\ ~Leasing => pending = <<>>

MemoryInv == DenseMarks /\ FreshStats /\ Recorded

Before == LeaseInv /\ TablesInv /\ MemoryInv

LEMMA HolderIs ==
  ASSUME LeaseInv, NEW p \in Threads, pc[p] \in Holding
  PROVE  /\ InACall <=> pc[p] = "in_call"
         /\ (\E q \in Threads : pc[q] = "merging") <=> pc[p] = "merging"
         /\ Late <=> pc[p] \in {"loading", "merging", "merged"}
         /\ Folding <=> pc[p] \in {"merging", "merged"}
         /\ Leasing <=> pc[p] \in {"leased", "in_call", "merging", "merged", "failed"}
         /\ pc[p] \notin {"leased", "in_call"} => txn = NoTxn
<1>1. \A q \in Threads : pc[q] \in Holding => q = p
  BY Alone DEF LeaseInv
<1>2. txn # NoTxn => \E q \in Threads : pc[q] \in {"leased", "in_call"}
  BY DEF LeaseInv, Transaction
<1> QED
  BY <1>1, <1>2 DEF InACall, Late, Folding, Leasing, Holding

LEMMA HolderGoes ==
  ASSUME LeaseInv, NEW p \in Threads, pc[p] \in Holding, NEW to \in PCs, Goto(p, to)
  PROVE  /\ InACall' <=> to = "in_call"
         /\ (\E q \in Threads : pc'[q] = "merging") <=> to = "merging"
         /\ Late' <=> to \in {"loading", "merging", "merged"}
         /\ Folding' <=> to \in {"merging", "merged"}
         /\ Leasing' <=> to \in {"leased", "in_call", "merging", "merged", "failed"}
<1>1. \A q \in Threads : pc[q] \in Holding => q = p
  BY Alone DEF LeaseInv
<1>2. \A q \in Threads : pc'[q] = IF q = p THEN to ELSE pc[q]
  BY Moved DEF LeaseInv
<1> QED
  BY <1>1, <1>2 DEF InACall, Late, Folding, Leasing, Holding

LEMMA NobodyIs ==
  ASSUME LeaseInv, holder = NoThread
  PROVE  /\ txn = NoTxn /\ ~InACall /\ ~(\E q \in Threads : pc[q] = "merging")
         /\ ~Late /\ ~Folding /\ ~Leasing /\ ~Committing
BY FreeLock DEF InACall, Late, Folding, Leasing, Committing, Holding

LEMMA NobodyGoes ==
  ASSUME LeaseInv, holder = NoThread, NEW p \in Threads, NEW to \in PCs, Goto(p, to)
  PROVE  /\ InACall' <=> to = "in_call"
         /\ (\E q \in Threads : pc'[q] = "merging") <=> to = "merging"
         /\ Late' <=> to \in {"loading", "merging", "merged"}
         /\ Folding' <=> to \in {"merging", "merged"}
         /\ Leasing' <=> to \in {"leased", "in_call", "merging", "merged", "failed"}
<1>1. \A q \in Threads : pc[q] \notin Holding
  BY FreeLock
<1>2. \A q \in Threads : pc'[q] = IF q = p THEN to ELSE pc[q]
  BY Moved DEF LeaseInv
<1> QED
  BY <1>1, <1>2 DEF InACall, Late, Folding, Leasing, Holding

(* Steps that leave the tables, the memory and what is recorded.           *)
LEMMA QuietMemory ==
  ASSUME MemoryInv, UNCHANGED <<disk, mem, poisoned, txn, stage, pending, call>>,
         InACall' <=> InACall, Committing' => Committing,
         Late' <=> Late, Folding' <=> Folding, Leasing' <=> Leasing
  PROVE  MemoryInv'
<1>1. DenseMarks'
  BY DEF MemoryInv, DenseMarks
<1>2. FreshStats'
  <2>1. /\ ~poisoned /\ ~Late => mem.stats = StatsOf(disk.dict, disk.post.df)
        /\ Folding => \E df : /\ mem.stats = StatsOf(mem.map, df)
                              /\ Named(mem.map, df)
                              /\ Chain(pending, df, disk.post.df)
    BY DEF MemoryInv, FreshStats
  <2> QED
    BY <2>1 DEF FreshStats
<1>3. Recorded'
  BY DEF MemoryInv, Recorded
<1> QED
  BY <1>1, <1>2, <1>3 DEF MemoryInv

-----------------------------------------------------------------------------
(* Each action.                                                            *)

LEMMA LoadFresh ==
  ASSUME NEW db, IsTables(db), Sound(db)
  PROVE  Load(db).stats = StatsOf(db.dict, db.post.df)
BY SoundFrequencies, LoadComputes DEF Load

LEMMA InitMemory == Init => MemoryInv
<1> SUFFICES ASSUME Init PROVE MemoryInv
  OBVIOUS
<1>1. /\ disk = [segs |-> NoSegments, post |-> NoPostings, dict |-> EmptyDict, gen |-> 0]
      /\ mem = Load(disk) /\ pc = [p \in Threads |-> "idle"] /\ txn = NoTxn /\ pending = <<>>
  BY DEF Init
<1>2. ~InACall /\ ~Committing /\ ~Late /\ ~Folding /\ ~Leasing
  BY <1>1 DEF InACall, Committing, Late, Folding, Leasing
<1>3. IsTables(disk) /\ Sound(disk)
  BY InitLease, InitTables DEF LeaseInv, Generations, TablesInv
<1>4. Tight(disk.dict)
  BY <1>1, EmptyDictDistinct, EmptyDictDense DEF Tight
<1>5. Dense(mem.map, mem.nextTerm) /\ mem.stats = StatsOf(disk.dict, disk.post.df)
  BY <1>1, <1>3, <1>4, LoadDense, LoadFresh
<1> QED
  BY <1>1, <1>2, <1>4, <1>5 DEF MemoryInv, DenseMarks, FreshStats, Recorded

LEMMA CheckPoisonedMemory ==
  ASSUME Before, NEW p \in Threads, CheckPoisoned(p) PROVE MemoryInv'
<1>1. PICK next \in {"want_writer", "want_compact"} : Goto(p, next)
  BY DEF CheckPoisoned
<1>2. /\ pc[p] = "idle" /\ next \in PCs
      /\ UNCHANGED <<disk, mem, poisoned, txn, stage, pending, call>>
  BY DEF CheckPoisoned, lease, PCs
<1>3. \A q \in Threads : pc'[q] = IF q = p THEN next ELSE pc[q]
  BY <1>1, <1>2, Moved DEF Before, LeaseInv
<1>4. \A q \in Threads, h \in Holding : pc'[q] = h <=> pc[q] = h
  BY <1>1, <1>2, <1>3 DEF Holding
<1>5. /\ InACall' <=> InACall
      /\ Late' <=> Late
      /\ Folding' <=> Folding
      /\ Leasing' <=> Leasing
      /\ Committing' => Committing
  BY <1>2, <1>4 DEF InACall, Late, Folding, Leasing, Committing, Holding
<1> QED
  BY <1>2, <1>5, QuietMemory DEF Before

LEMMA BeginMemory ==
  ASSUME Before, NEW p \in Threads, Begin(p) PROVE MemoryInv'
<1>1. /\ holder = NoThread /\ txn' = disk /\ stage' = NewStage(mem) /\ Goto(p, "leased")
      /\ UNCHANGED <<disk, mem, poisoned, pending>>
  BY DEF Begin
<1>2. /\ ~InACall' /\ ~Late /\ ~Folding' /\ Leasing' /\ ~Leasing
  BY <1>1, NobodyIs, NobodyGoes DEF Before, PCs, Holding
<1>3. pending = <<>> /\ Dense(mem.map, mem.nextTerm) /\ Tight(disk.dict)
  BY <1>2 DEF Before, MemoryInv, Recorded, DenseMarks
<1>4. StageDense(mem, NewStage(mem))
  BY <1>3, EmptyStageDense DEF Before, LeaseInv, Generations
<1>5. DenseMarks'
  BY <1>1, <1>2, <1>3, <1>4 DEF DenseMarks
<1>6. FreshStats'
  BY <1>1, <1>2 DEF Before, MemoryInv, FreshStats
<1>7. Chain(<<>>, disk.post.df, disk.post.df)
  BY SoundFrequencies, ChainNone DEF Before, TablesInv
<1>8. Recorded'
  BY <1>1, <1>2, <1>3, <1>7 DEF Recorded
<1> QED
  BY <1>5, <1>6, <1>8 DEF MemoryInv

LEMMA UpsertMemory ==
  ASSUME Before, NEW p \in Threads, NEW k \in Keys, NEW doc \in Docs, Upsert(p, k, doc)
  PROVE  MemoryInv'
<1>1. /\ pc[p] = "leased" /\ txnOpen
      /\ call' = [key |-> k, doc |-> doc, todo |-> DOMAIN doc, saved |-> txn,
                  stageMark |-> Cardinality(Staged(stage)), dfMark |-> Len(pending),
                  add |-> NoChange, remove |-> NoChange]
      /\ txn' = View /\ Goto(p, "in_call")
      /\ UNCHANGED <<disk, mem, poisoned, stage, pending>>
  BY DEF Upsert
<1>2. txn # NoTxn /\ txn' = txn /\ IsDictionary(mem) /\ IsStage(mem, stage)
  BY <1>1 DEF Before, LeaseInv, Generations, Transaction, Matches, View
<1>3. /\ InACall' /\ ~InACall /\ ~Late /\ ~Folding' /\ Leasing'
  BY <1>1, HolderIs, HolderGoes DEF Before, Holding, PCs
<1>4. /\ Dense(mem.map, mem.nextTerm) /\ Tight(disk.dict) /\ StageDense(mem, stage)
      /\ Chain(pending, disk.post.df, txn.post.df)
  BY <1>2, <1>3 DEF Before, MemoryInv, Recorded, DenseMarks, Committing
<1>5. RollbackTo(stage, Cardinality(Staged(stage))) = stage
  BY <1>2, RollbackToAll
<1>6. /\ call'.saved = txn /\ call'.stageMark = Cardinality(Staged(stage))
      /\ call'.dfMark = Len(pending)
  BY <1>1
<1>7. DenseMarks'
  BY <1>1, <1>4, <1>5, <1>6 DEF DenseMarks
<1>8. FreshStats'
  BY <1>1, <1>3 DEF Before, MemoryInv, FreshStats
<1>9. Recorded'
  BY <1>1, <1>2, <1>3, <1>4, <1>6 DEF Recorded
<1> QED
  BY <1>7, <1>8, <1>9 DEF MemoryInv

LEMMA WriteSegmentMemory ==
  ASSUME Before, NEW p \in Threads, NEW l \in Labels, WriteSegment(p, l)
  PROVE  MemoryInv'
<1> DEFINE G == GramsOf[call.doc[l]]
<1>1. /\ pc[p] = "in_call" /\ l \in call.todo
      /\ UNCHANGED <<disk, mem, poisoned, pc, pending>>
  BY DEF WriteSegment
<1>2. /\ InACall /\ InACall' /\ ~Late /\ ~Folding' /\ Leasing'
  BY <1>1, HolderIs DEF Before, InACall, Late, Folding, Leasing, Holding
<1>3. /\ IsTables(txn) /\ txn # NoTxn
      /\ IsDictionary(mem) /\ IsStage(mem, stage)
      /\ call \in [key : {call.key}, doc : Docs, todo : SUBSET DOMAIN call.doc,
                   saved : {call.saved}, stageMark : {call.stageMark},
                   dfMark : {call.dfMark}, add : {call.add}, remove : {call.remove}]
      /\ call.stageMark \in Nat /\ call.stageMark <= Cardinality(Staged(stage))
  BY <1>1 DEF Before, LeaseInv, Generations, Transaction, InCall, Matches
<1>4. G \in SUBSET Grams
  <2>1. call.doc[l] \in Texts
    BY <1>1, <1>3 DEF Docs
  <2> QED
    BY <2>1, GramsOfText
<1>5. PICK st, sg, dict, todo, add, remove :
        /\ st \in Stagings(mem, stage, G)
        /\ stage' = st
        /\ txn' = [txn EXCEPT !.segs = sg, !.dict = dict]
        /\ call' = [call EXCEPT !.todo = todo, !.add = add, !.remove = remove]
  <2> DEFINE new  == AllocIds(txn.segs, 1)
             old  == FindSegments(txn.segs, call.key, {l})
             rows == DocRows(call.key, call.doc, [s \in new |-> l])
  <2>1. PICK st \in Stagings(mem, stage, G) :
          LET ids == Resolved(mem, st)
          IN /\ stage' = st
             /\ txn' = [txn EXCEPT
                         !.segs = InsertSegments(DropSegments(@, old), rows, ids),
                         !.dict = WithStaged(@, stage, st)]
             /\ call' = [call EXCEPT
                  !.todo = @ \ {l},
                  !.add = [t \in TermId |-> @[t] \cup AdditionsOf(rows, ids)[t]],
                  !.remove = [t \in TermId |-> @[t] \cup RemovalsOf(txn.segs, old)[t]]]
    BY DEF WriteSegment
  <2> DEFINE ids    == Resolved(mem, st)
             sg     == InsertSegments(DropSegments(txn.segs, old), rows, ids)
             dict   == WithStaged(txn.dict, stage, st)
             todo   == call.todo \ {l}
             add    == [t \in TermId |-> call.add[t] \cup AdditionsOf(rows, ids)[t]]
             remove == [t \in TermId |-> call.remove[t] \cup RemovalsOf(txn.segs, old)[t]]
  <2>2. /\ st \in Stagings(mem, stage, G) /\ stage' = st
        /\ txn' = [txn EXCEPT !.segs = sg, !.dict = dict]
        /\ call' = [call EXCEPT !.todo = todo, !.add = add, !.remove = remove]
    BY <2>1
  <2> HIDE DEF G, sg, dict, todo, add, remove
  <2> QED
    BY <2>2
<1> HIDE DEF G
<1>6. /\ txn'.post = txn.post /\ call'.saved = call.saved
      /\ call'.stageMark = call.stageMark /\ call'.dfMark = call.dfMark
  BY <1>3, <1>5 DEF IsTables
<1>7. /\ Dense(mem.map, mem.nextTerm) /\ Tight(disk.dict) /\ StageDense(mem, stage)
      /\ StageDense(mem, RollbackTo(stage, call.stageMark))
  BY <1>2, <1>3 DEF Before, MemoryInv, DenseMarks, Committing
<1>8. StageDense(mem, st) /\ RollbackTo(st, call.stageMark) = RollbackTo(stage, call.stageMark)
  <2>1. st \in Stagings(mem, stage, G)
    BY <1>5
  <2>2. StageDense(mem, st)
    BY <1>3, <1>4, <1>7, <2>1, StagingDense
  <2>3. RollbackTo(st, call.stageMark) = RollbackTo(stage, call.stageMark)
    BY <1>3, <1>4, <2>1, RollbackOfAdded
  <2> QED
    BY <2>2, <2>3
<1>9. DenseMarks'
  BY <1>1, <1>5, <1>6, <1>7, <1>8 DEF DenseMarks
<1>10. FreshStats'
  BY <1>1, <1>2 DEF Before, MemoryInv, FreshStats
<1>11. Recorded'
  BY <1>1, <1>2, <1>6 DEF Before, MemoryInv, Recorded
<1> QED
  BY <1>9, <1>10, <1>11 DEF MemoryInv

LEMMA FinishUpsertMemory ==
  ASSUME Before, TablesInv', NEW p \in Threads, FinishUpsert(p) PROVE MemoryInv'
<1> DEFINE paid == ApplyWrites(txn.post, call.add, call.remove)
           batch == DfChanges(txn.post, call.add, call.remove)
<1>1. /\ pc[p] = "in_call" /\ Goto(p, "leased") /\ UNCHANGED <<mem, poisoned, stage>>
      /\ pending' = Append(pending, batch)
      /\ Release([txn EXCEPT !.post = paid], call.saved)
  BY DEF FinishUpsert
<1>2. InACall /\ ~InACall' /\ ~Late /\ ~Folding' /\ Leasing'
  BY <1>1, HolderIs, HolderGoes DEF Before, Holding, PCs
<1>3. txn # NoTxn /\ call.saved # NoTxn /\ IsTables(txn) /\ IsTables(txn')
  BY <1>1, FinishUpsertInv DEF Before, LeaseInv, Transaction, InCall, Matches, Release, IsTables
<1> HIDE DEF paid
<1>4. txn' = [txn EXCEPT !.post = paid] /\ disk' = disk /\ txn' # NoTxn
  BY <1>1, <1>3, NoTxnIsNoTables DEF Release
<1>5. txn'.post = paid
  BY <1>3, <1>4 DEF IsTables
<1>6. /\ txn.post = call.saved.post
      /\ Chain(pending, disk.post.df, txn.post.df)
  BY <1>2 DEF Before, MemoryInv, Recorded
<1>7. Moves(batch, txn.post.df, paid.df)
  <2>1. Sound(txn')
    BY <1>2, <1>4 DEF TablesInv
  <2>2. txn.post.df \in DfTables /\ paid.df \in DfTables
    BY <1>5, <1>6, <2>1, SoundFrequencies DEF Chain
  <2> QED
    BY <2>2, RecordsMoves DEF paid
<1> HIDE DEF batch
<1>8. Chain(pending', disk'.post.df, txn'.post.df)
  BY <1>1, <1>4, <1>5, <1>6, <1>7, ChainAppend
<1>9. DenseMarks'
  BY <1>1, <1>2, <1>3, <1>4 DEF Before, MemoryInv, DenseMarks, Committing
<1>10. FreshStats'
  BY <1>1, <1>2, <1>4 DEF Before, MemoryInv, FreshStats
<1>11. Recorded'
  BY <1>2, <1>8 DEF Recorded
<1> QED
  BY <1>9, <1>10, <1>11 DEF MemoryInv

LEMMA CallFailsMemory ==
  ASSUME Before, NEW p \in Threads, CallFails(p) PROVE MemoryInv'
<1>1. /\ pc[p] = "in_call" /\ Goto(p, "leased") /\ UNCHANGED <<disk, mem, poisoned>>
      /\ txn' = call.saved \/ txn' = NoTxn
      /\ stage' = RollbackTo(stage, call.stageMark)
      /\ pending' = SubSeq(pending, 1, call.dfMark)
  BY DEF CallFails
<1>2. InACall /\ ~InACall' /\ ~Late /\ ~Folding' /\ Leasing'
  BY <1>1, HolderIs, HolderGoes DEF Before, Holding, PCs
<1>3. /\ call.dfMark = Len(pending) /\ Chain(pending, disk.post.df, call.saved.post.df)
  BY <1>2 DEF Before, MemoryInv, Recorded
<1>4. pending' = pending
  BY <1>1, <1>3, WholeSequence
<1>5. DenseMarks'
  BY <1>1, <1>2 DEF Before, MemoryInv, DenseMarks
<1>6. FreshStats'
  BY <1>1, <1>2 DEF Before, MemoryInv, FreshStats
<1>7. Recorded'
  BY <1>1, <1>2, <1>3, <1>4 DEF Recorded
<1> QED
  BY <1>5, <1>6, <1>7 DEF MemoryInv

LEMMA DropCallMemory ==
  ASSUME Before, TablesInv', NEW p \in Threads, pc[p] = "leased", txnOpen, NEW S, DropCall(p, S)
  PROVE  MemoryInv'
<1> DEFINE loss == RemovalsOf(txn.segs, S)
           paid == ApplyWrites(txn.post, NoChange, loss)
           batch == DfChanges(txn.post, NoChange, loss)
<1>1. txn # NoTxn /\ View = txn /\ IsTables(txn)
  BY DEF Before, LeaseInv, Transaction, Matches, View
<1>2. /\ txn' = [txn EXCEPT !.segs = DropSegments(txn.segs, S), !.post = paid]
      /\ pending' = Append(pending, batch)
      /\ UNCHANGED <<disk, mem, poisoned, pc, stage, call>>
  BY <1>1 DEF DropCall, Release
<1>3. ~InACall /\ ~InACall' /\ ~Late /\ ~Folding' /\ Leasing'
  BY <1>2, HolderIs DEF Before, InACall, Late, Folding, Leasing, Holding
<1> HIDE DEF paid
<1>4. txn'.post = paid /\ txn' # NoTxn
  <2>1. IsTables(txn')
    BY <1>1, <1>2 DEF IsTables
  <2> QED
    BY <1>1, <1>2, <2>1, NoTxnIsNoTables DEF IsTables
<1>5. Chain(pending, disk.post.df, txn.post.df)
  BY <1>1, <1>3 DEF Before, MemoryInv, Recorded
<1>6. Moves(batch, txn.post.df, paid.df)
  <2>1. Sound(txn')
    BY <1>3, <1>4 DEF TablesInv
  <2>2. txn.post.df \in DfTables /\ paid.df \in DfTables
    BY <1>4, <1>5, <2>1, SoundFrequencies DEF Chain
  <2> QED
    BY <2>2, RecordsMoves DEF paid
<1> HIDE DEF batch
<1>7. Chain(pending', disk'.post.df, txn'.post.df)
  BY <1>2, <1>4, <1>5, <1>6, ChainAppend
<1>8. DenseMarks'
  BY <1>1, <1>2, <1>3 DEF Before, MemoryInv, DenseMarks, Committing
<1>9. FreshStats'
  BY <1>2, <1>3 DEF Before, MemoryInv, FreshStats, Late
<1>10. Recorded'
  BY <1>3, <1>7 DEF Recorded
<1> QED
  BY <1>8, <1>9, <1>10 DEF MemoryInv

LEMMA CommitSqlMemory ==
  ASSUME Before, NEW p \in Threads, CommitSql(p) PROVE MemoryInv'
<1>1. /\ pc[p] = "leased" /\ txn # NoTxn /\ disk' = txn /\ txn' = NoTxn
      /\ Goto(p, "merging") /\ UNCHANGED <<mem, poisoned, stage, pending>>
  BY DEF CommitSql
<1>2. ~InACall /\ ~InACall' /\ ~Late /\ Late' /\ Leasing'
  BY <1>1, HolderIs, HolderGoes DEF Before, Holding, PCs
<1>3. ~poisoned /\ mem.map = disk.dict /\ txn.dict = Resolved(mem, stage)
  BY <1>1, LeaseSettled DEF Before, LeaseInv, Transaction, Matches
<1>4. Dense(mem.map, mem.nextTerm) /\ StageDense(mem, stage) /\ StageDistinct(mem, stage)
  BY <1>1, <1>2 DEF Before, MemoryInv, DenseMarks, TablesInv, Marks, Committing
<1>5. Tight(disk'.dict)
  BY <1>1, <1>3, <1>4 DEF Tight, StageDense, StageDistinct
<1>6. DenseMarks'
  BY <1>1, <1>2, <1>4, <1>5 DEF DenseMarks
<1>7. /\ mem.stats = StatsOf(mem.map, disk.post.df)
      /\ Chain(pending, disk.post.df, txn.post.df)
  BY <1>1, <1>2, <1>3 DEF Before, MemoryInv, FreshStats, Recorded
<1>8. Named(mem.map, disk.post.df)
  BY <1>3, SoundNamed DEF Before, TablesInv
<1>9. FreshStats'
  BY <1>1, <1>2, <1>7, <1>8 DEF FreshStats
<1>10. Recorded'
  BY <1>1, <1>2 DEF Recorded
<1> QED
  BY <1>6, <1>9, <1>10 DEF MemoryInv

LEMMA CommitFailsMemory ==
  ASSUME Before, ~ReuseFailedWriter, NEW p \in Threads, CommitFails(p)
  PROVE  MemoryInv'
<1>1. /\ pc[p] = "leased" /\ txn' = NoTxn /\ Goto(p, "failed")
      /\ UNCHANGED <<disk, mem, poisoned>>
  BY DEF CommitFails
<1>2. /\ ~InACall' /\ ~(\E q \in Threads : pc'[q] = "merging")
      /\ ~Late /\ ~Folding' /\ Leasing'
  BY <1>1, HolderIs, HolderGoes DEF Before, Holding, PCs
<1>3. DenseMarks'
  BY <1>1, <1>2 DEF Before, MemoryInv, DenseMarks, Committing
<1>4. FreshStats'
  BY <1>1, <1>2 DEF Before, MemoryInv, FreshStats
<1>5. Recorded'
  BY <1>1, <1>2 DEF Recorded
<1> QED
  BY <1>3, <1>4, <1>5 DEF MemoryInv

LEMMA MergeStageMemory ==
  ASSUME Before, TablesInv', NEW p \in Threads, MergeStage(p) PROVE MemoryInv'
<1>1. /\ pc[p] = "merging" /\ mem' = Merge(mem, stage) /\ Goto(p, "merged")
      /\ UNCHANGED <<disk, poisoned, txn, pending>>
  BY DEF MergeStage, lease
<1>2. /\ ~InACall' /\ ~(\E q \in Threads : pc'[q] = "merging")
      /\ Folding /\ Late' /\ Leasing' /\ txn = NoTxn
  BY <1>1, HolderIs, HolderGoes DEF Before, Holding, PCs
<1>3. IsDictionary(mem) /\ IsStage(mem, stage)
  BY <1>1 DEF Before, LeaseInv, Generations, Merging
<1>4. StageDense(mem, stage) /\ Dense(mem.map, mem.nextTerm) /\ Tight(disk.dict)
  BY <1>1 DEF Before, MemoryInv, DenseMarks, Committing
<1>5. DenseMarks'
  BY <1>1, <1>2, <1>3, <1>4, MergeDense DEF DenseMarks, Committing
<1>6. mem'.map = Resolved(mem, stage) /\ mem'.stats = mem.stats
  BY <1>1, <1>3 DEF Merge, IsDictionary
<1>7. PICK df : /\ mem.stats = StatsOf(mem.map, df) /\ Named(mem.map, df)
                /\ Chain(pending, df, disk.post.df)
  BY <1>2 DEF Before, MemoryInv, FreshStats
<1>8. \A g \in Grams : mem.map[g] # NoTerm => mem'.map[g] = mem.map[g]
  BY <1>3, <1>6, StageExtends
<1>9. Injective(mem'.map)
  BY DEF TablesInv, Marks, Distinct, Injective
<1>10. StatsOf(mem'.map, df) = StatsOf(mem.map, df)
  BY <1>7, <1>8, <1>9, NamesAdded
<1>11. Named(mem'.map, df)
  <2> SUFFICES ASSUME NEW t \in TermId, df[t] > 0 PROVE \E g \in Grams : mem'.map[g] = t
    BY DEF Named
  <2>1. PICK g \in Grams : mem.map[g] = t
    BY <1>7 DEF Named
  <2>2. t # NoTerm
    BY IdCeilings DEF TermId, NoTerm
  <2> QED
    BY <1>8, <2>1, <2>2
<1>12. FreshStats'
  BY <1>1, <1>2, <1>6, <1>7, <1>10, <1>11 DEF FreshStats
<1>13. Recorded'
  BY <1>1, <1>2 DEF Recorded
<1> QED
  BY <1>5, <1>12, <1>13 DEF MemoryInv

LEMMA ApplyDfChangesMemory ==
  ASSUME Before, NEW p \in Threads, ApplyDfChanges(p) PROVE MemoryInv'
<1>1. /\ pc[p] = "merged" /\ mem' = [mem EXCEPT !.stats = MoveSamples(mem, pending)]
      /\ pending' = <<>> /\ Goto(p, "reopening") /\ UNCHANGED <<disk, poisoned, txn>>
  BY DEF ApplyDfChanges
<1>2. /\ ~InACall' /\ ~(\E q \in Threads : pc'[q] = "merging")
      /\ Folding /\ ~Late' /\ ~Folding' /\ txn = NoTxn
  BY <1>1, HolderIs, HolderGoes DEF Before, Holding, PCs
<1>3. /\ mem'.map = mem.map /\ mem'.nextTerm = mem.nextTerm
      /\ mem'.stats = MoveSamples(mem, pending)
  BY <1>1 DEF Before, LeaseInv, Generations, IsDictionary
<1>4. mem.map = disk.dict
  BY <1>1, LeaseSettled DEF Before
<1>5. PICK df : mem.stats = StatsOf(mem.map, df) /\ Chain(pending, df, disk.post.df)
  BY <1>2 DEF Before, MemoryInv, FreshStats
<1>6. Injective(mem.map)
  BY DEF Before, TablesInv, Marks, Distinct, Injective
<1>7. MoveSamples(mem, pending) = StatsOf(mem.map, disk.post.df)
  BY <1>5, <1>6, ChainMoves
<1>8. DenseMarks'
  BY <1>1, <1>2, <1>3 DEF Before, MemoryInv, DenseMarks, Committing
<1>9. FreshStats'
  BY <1>1, <1>2, <1>3, <1>4, <1>7 DEF FreshStats
<1>10. Recorded'
  BY <1>1, <1>2 DEF Recorded
<1> QED
  BY <1>8, <1>9, <1>10 DEF MemoryInv

LEMMA BeginNextMemory ==
  ASSUME Before, NEW p \in Threads, BeginNext(p) PROVE MemoryInv'
<1>1. /\ pc[p] = "reopening" /\ Goto(p, "leased")
      /\ txn' = disk \/ txn' = txn
      /\ UNCHANGED <<disk, mem, poisoned, stage, pending>>
  BY DEF BeginNext
<1>2. /\ ~InACall' /\ ~Late /\ ~Leasing /\ ~Folding' /\ Leasing' /\ txn = NoTxn
  BY <1>1, HolderIs, HolderGoes DEF Before, Holding, PCs
<1>3. stage = NewStage(mem) /\ IsDictionary(mem)
  BY <1>1 DEF Before, LeaseInv, Generations, Merging
<1>4. Dense(mem.map, mem.nextTerm) /\ Tight(disk.dict) /\ pending = <<>>
  BY <1>2 DEF Before, MemoryInv, DenseMarks, Recorded
<1>5. StageDense(mem, stage)
  BY <1>3, <1>4, EmptyStageDense
<1>6. Chain(<<>>, disk.post.df, disk.post.df)
  BY SoundFrequencies, ChainNone DEF Before, TablesInv
<1>7. DenseMarks'
  BY <1>1, <1>2, <1>4, <1>5 DEF DenseMarks
<1>8. FreshStats'
  BY <1>1, <1>2 DEF Before, MemoryInv, FreshStats
<1>9. Recorded'
  BY <1>1, <1>2, <1>4, <1>6 DEF Recorded
<1> QED
  BY <1>7, <1>8, <1>9 DEF MemoryInv

LEMMA DropWriterMemory ==
  ASSUME Before, NEW p \in Threads, DropWriter(p) PROVE MemoryInv'
<1>1. /\ pc[p] \in {"leased", "failed"} /\ Goto(p, "idle") /\ txn' = NoTxn /\ pending' = <<>>
      /\ UNCHANGED <<disk, mem, poisoned>>
  BY DEF DropWriter, NoLease
<1>2. /\ ~InACall' /\ ~(\E q \in Threads : pc'[q] = "merging") /\ ~Late /\ ~Folding'
  BY <1>1, HolderIs, HolderGoes DEF Before, Holding, PCs
<1>3. DenseMarks'
  BY <1>1, <1>2 DEF Before, MemoryInv, DenseMarks, Committing
<1>4. FreshStats'
  BY <1>1, <1>2 DEF Before, MemoryInv, FreshStats
<1>5. Recorded'
  BY <1>1, <1>2 DEF Recorded
<1> QED
  BY <1>3, <1>4, <1>5 DEF MemoryInv

LEMMA CompactMemory ==
  ASSUME Before, NEW p \in Threads, Compact(p) PROVE MemoryInv'
<1>1. /\ holder = NoThread /\ Goto(p, "idle") /\ disk' = [disk EXCEPT !.post = Fold(disk.post)]
      /\ UNCHANGED <<mem, poisoned, txn, pending>>
  BY DEF Compact, lease
<1>2. /\ ~InACall' /\ ~(\E q \in Threads : pc'[q] = "merging") /\ ~Late /\ ~Folding'
      /\ txn = NoTxn /\ ~Leasing
  BY <1>1, NobodyIs, NobodyGoes DEF Before, PCs
<1>3. disk'.dict = disk.dict /\ disk'.post = Fold(disk.post)
  BY <1>1 DEF Before, LeaseInv, Generations, IsTables
<1>4. disk'.post.df = disk.post.df
  <2>1. disk.post \in PostingTables /\ Exact(disk.post)
    BY DEF Before, TablesInv, Sound
  <2>2. \A t \in TermId : Fold(disk.post).df[t] = disk.post.df[t]
    BY <2>1, FoldKeepsDf
  <2>3. Fold(disk.post).df = [t \in TermId |-> Fold(disk.post).df[t]]
    BY DEF Fold
  <2>4. disk.post.df = [t \in TermId |-> disk.post.df[t]]
    BY <2>1 DEF PostingTables
  <2> QED
    BY <1>3, <2>2, <2>3, <2>4
<1>5. DenseMarks'
  BY <1>1, <1>2, <1>3 DEF Before, MemoryInv, DenseMarks, Committing
<1>6. FreshStats'
  BY <1>1, <1>2, <1>3, <1>4 DEF Before, MemoryInv, FreshStats
<1>7. Recorded'
  BY <1>1, <1>2 DEF Before, MemoryInv, Recorded
<1> QED
  BY <1>5, <1>6, <1>7 DEF MemoryInv

LEMMA RebuildMemory ==
  ASSUME Before, NEW p \in Threads, NEW corpus \in [Keys -> Docs], Rebuild(p, corpus)
  PROVE  MemoryInv'
<1> DEFINE G == CorpusGrams(corpus)
<1>1. /\ holder = NoThread /\ Goto(p, "loading") /\ UNCHANGED <<mem, poisoned, txn, pending>>
  BY DEF Rebuild, lease
<1>2. PICK d \in Interned(EmptyDict, 1, G) :
         \E rows : disk' = RebuiltTables(rows, d, disk.gen)
  BY DEF Rebuild
<1>3. /\ ~InACall' /\ ~(\E q \in Threads : pc'[q] = "merging") /\ Late' /\ ~Folding'
      /\ txn = NoTxn /\ ~Leasing
  BY <1>1, NobodyIs, NobodyGoes DEF Before, PCs, Holding
<1>4. G \in SUBSET Grams
  <2>1. ASSUME NEW f \in FieldsOf(corpus) PROVE GramsOf[corpus[f[1]][f[2]]] \in SUBSET Grams
    <3>1. f[1] \in Keys /\ f[2] \in DOMAIN corpus[f[1]]
      BY DEF FieldsOf
    <3>2. corpus[f[1]] \in Docs
      BY <3>1
    <3>3. corpus[f[1]][f[2]] \in Texts
      BY <3>1, <3>2 DEF Docs
    <3> QED
      BY <3>3, Tokenizer
  <2> QED
    BY <2>1 DEF CorpusGrams
<1> HIDE DEF G
<1>5. Tight(d)
  <2>1. /\ EmptyDict \in Dictionaries /\ 1 \in 1 .. MaxTermId + 1
        /\ d \in Interned(EmptyDict, 1, G)
        /\ Distinct(EmptyDict, 1) /\ Dense(EmptyDict, 1)
    BY EmptyDictType, EmptyDictDistinct, EmptyDictDense, IdCeilings
  <2>2. Distinct(d, 1 + Cardinality({g \in Grams : d[g] # EmptyDict[g]}))
    BY <1>4, <2>1, InternedDistinct
  <2>3. Dense(d, 1 + Cardinality({g \in Grams : d[g] # EmptyDict[g]}))
    BY <1>4, <2>1, InternedDense
  <2> QED
    BY <2>2, <2>3 DEF Tight
<1>6. disk'.dict = d
  BY <1>2 DEF RebuiltTables
<1>7. DenseMarks'
  BY <1>1, <1>3, <1>5, <1>6 DEF Before, MemoryInv, DenseMarks, Committing
<1>8. FreshStats'
  BY <1>3 DEF FreshStats
<1>9. Recorded'
  BY <1>1, <1>3 DEF Before, MemoryInv, Recorded
<1> QED
  BY <1>7, <1>8, <1>9 DEF MemoryInv

LEMMA ReloadSucceedsMemory ==
  ASSUME Before, NEW p \in Threads, ReloadSucceeds(p) PROVE MemoryInv'
<1>1. /\ pc[p] = "loading" /\ mem' = Load(disk) /\ Goto(p, "idle")
      /\ UNCHANGED <<disk, txn, pending>>
  BY DEF ReloadSucceeds, lease
<1>2. /\ ~InACall' /\ ~(\E q \in Threads : pc'[q] = "merging") /\ ~Folding' /\ ~Leasing
      /\ txn = NoTxn
  BY <1>1, HolderIs, HolderGoes DEF Before, Holding, PCs
<1>3. /\ Dense(Load(disk).map, Load(disk).nextTerm)
      /\ Load(disk).stats = StatsOf(disk.dict, disk.post.df)
  BY LoadDense, LoadFresh DEF Before, LeaseInv, Generations, TablesInv, MemoryInv, DenseMarks
<1>4. DenseMarks'
  BY <1>1, <1>2, <1>3 DEF Before, MemoryInv, DenseMarks, Committing
<1>5. FreshStats'
  BY <1>1, <1>2, <1>3 DEF FreshStats
<1>6. Recorded'
  BY <1>1, <1>2 DEF Before, MemoryInv, Recorded
<1> QED
  BY <1>4, <1>5, <1>6 DEF MemoryInv

LEMMA ReloadFailsMemory ==
  ASSUME Before, NEW p \in Threads, ReloadFails(p) PROVE MemoryInv'
<1>1. /\ pc[p] = "loading" /\ poisoned' = TRUE /\ Goto(p, "idle")
      /\ UNCHANGED <<disk, mem, txn, pending>>
  BY DEF ReloadFails, lease
<1>2. /\ ~InACall' /\ ~(\E q \in Threads : pc'[q] = "merging") /\ ~Folding' /\ ~Leasing
      /\ txn = NoTxn
  BY <1>1, HolderIs, HolderGoes DEF Before, Holding, PCs
<1>3. DenseMarks'
  BY <1>1, <1>2 DEF Before, MemoryInv, DenseMarks, Committing
<1>4. FreshStats'
  BY <1>1, <1>2 DEF FreshStats
<1>5. Recorded'
  BY <1>1, <1>2 DEF Before, MemoryInv, Recorded
<1> QED
  BY <1>3, <1>4, <1>5 DEF MemoryInv

LEMMA CrashAndOpenMemory ==
  ASSUME Before, CrashAndOpen PROVE MemoryInv'
<1>1. /\ mem' = Load(disk) /\ pc' = [p \in Threads |-> "idle"] /\ txn' = NoTxn
      /\ pending' = <<>> /\ disk' = disk
  BY DEF CrashAndOpen, NoLease
<1>2. ~InACall' /\ ~(\E q \in Threads : pc'[q] = "merging") /\ ~Folding'
  BY <1>1 DEF InACall, Folding
<1>3. /\ Dense(Load(disk).map, Load(disk).nextTerm)
      /\ Load(disk).stats = StatsOf(disk.dict, disk.post.df)
  BY LoadDense, LoadFresh DEF Before, LeaseInv, Generations, TablesInv, MemoryInv, DenseMarks
<1>4. DenseMarks'
  BY <1>1, <1>2, <1>3 DEF Before, MemoryInv, DenseMarks, Committing
<1>5. FreshStats'
  BY <1>1, <1>2, <1>3 DEF FreshStats
<1>6. Recorded'
  BY <1>1, <1>2 DEF Recorded
<1> QED
  BY <1>4, <1>5, <1>6 DEF MemoryInv

LEMMA NextMemoryInv ==
  ASSUME Before, Disciplined, [Next]_vars PROVE MemoryInv'
<1>0. LeaseInv /\ TablesInv /\ TablesInv'
  BY NextTablesInv DEF Before
<1>1. ASSUME NEW p \in Threads, Lease(p) PROVE MemoryInv'
  <2>1. CASE CheckPoisoned(p)
    BY <2>1, CheckPoisonedMemory
  <2>2. CASE Begin(p)
    BY <2>2, BeginMemory
  <2>3. ASSUME NEW k \in Keys, NEW doc \in Docs, Upsert(p, k, doc) PROVE MemoryInv'
    BY <2>3, UpsertMemory
  <2>4. ASSUME NEW l \in Labels, WriteSegment(p, l) PROVE MemoryInv'
    BY <2>4, WriteSegmentMemory
  <2>5. CASE FinishUpsert(p)
    BY <1>0, <2>5, FinishUpsertMemory
  <2>6. CASE CallFails(p)
    BY <2>6, CallFailsMemory
  <2>7. ASSUME NEW k \in Keys, Remove(p, k) PROVE MemoryInv'
    BY <1>0, <2>7, DropCallMemory DEF Remove
  <2>8. ASSUME NEW k \in Keys, NEW l \in Labels, RemoveSegment(p, k, l) PROVE MemoryInv'
    BY <1>0, <2>8, DropCallMemory DEF RemoveSegment
  <2>9. CASE CommitSql(p)
    BY <2>9, CommitSqlMemory
  <2>10. CASE CommitFails(p)
    BY <2>10, CommitFailsMemory DEF Disciplined
  <2>11. CASE MergeStage(p)
    BY <1>0, <2>11, MergeStageMemory
  <2>12. CASE ApplyDfChanges(p)
    BY <2>12, ApplyDfChangesMemory
  <2>13. CASE BeginNext(p)
    BY <2>13, BeginNextMemory
  <2>14. CASE DropWriter(p)
    BY <2>14, DropWriterMemory
  <2> QED
    BY <1>1, <2>1, <2>2, <2>3, <2>4, <2>5, <2>6, <2>7, <2>8, <2>9, <2>10, <2>11,
       <2>12, <2>13, <2>14 DEF Lease
<1>2. ASSUME NEW p \in Threads, Maintenance(p) PROVE MemoryInv'
  <2>1. CASE Compact(p)
    BY <2>1, CompactMemory
  <2>2. ASSUME NEW corpus \in [Keys -> Docs], Rebuild(p, corpus) PROVE MemoryInv'
    BY <2>2, RebuildMemory
  <2>3. CASE ReloadSucceeds(p)
    BY <2>3, ReloadSucceedsMemory
  <2>4. CASE ReloadFails(p)
    BY <2>4, ReloadFailsMemory
  <2> QED
    BY <1>2, <2>1, <2>2, <2>3, <2>4 DEF Maintenance
<1>3. CASE CrashAndOpen
  BY <1>3, CrashAndOpenMemory
<1>4. CASE UNCHANGED vars
  <2>1. UNCHANGED <<disk, mem, poisoned, pc, txn, stage, pending, call>>
    BY <1>4 DEF vars, lease
  <2>2. /\ InACall' <=> InACall
        /\ Late' <=> Late
        /\ Folding' <=> Folding
        /\ Leasing' <=> Leasing
        /\ Committing' => Committing
    BY <2>1 DEF InACall, Late, Folding, Leasing, Committing
  <2> QED
    BY <2>1, <2>2, QuietMemory DEF Before
<1> QED
  BY <1>1, <1>2, <1>3, <1>4 DEF Next

-----------------------------------------------------------------------------
(* The theorems.                                                           *)

(* The inductive invariant: the id mark is one past the ids in use, of the *)
(* map and of the stage, and the class statistics are those of the         *)
(* committed tables, or of the tables before a commit whose recorded       *)
(* changes are still to be applied.                                        *)
THEOREM MemoryInvariant == Disciplined /\ Spec => []Before
<1>1. Disciplined /\ Init => Before
  BY InitLease, InitTables, InitMemory DEF Before
<1>2. ASSUME Disciplined, Before, [Next]_vars PROVE Before'
  BY <1>2, NextLeaseInv, NextTablesInv, NextMemoryInv DEF Before
<1>3. Disciplined => Disciplined'
  BY DEF Disciplined
<1> QED
  BY <1>1, <1>2, <1>3, PTL DEF Spec

(* With the lock free and no failed reload behind it, the Dictionary in    *)
(* memory is the one Dictionary::load would build from the tables: the     *)
(* map, the id mark, the generation, and each class's count, mean and      *)
(* squared deviations, however many calls moved samples in and out.        *)
THEOREM MemoryFollowsDisk == Disciplined /\ Spec => []MemoryMatchesDisk
<1>1. Before => MemoryMatchesDisk
  <2> SUFFICES ASSUME Before, holder = NoThread, ~poisoned
               PROVE  /\ mem = Load(disk)
                      /\ \A c \in Classes :
                           LET terms == Sampled(disk.dict, disk.post.df, c)
                           IN mem.stats[c] =
                                Stats!Recount([t \in terms |-> LnDf[disk.post.df[t]]], terms)
    BY DEF MemoryMatchesDisk
  <2>1. ~Late /\ \A p \in Threads : pc[p] # "loading" /\ pc[p] # "merging"
    BY NobodyIs DEF Before, Late
  <2>2. mem.gen = disk.gen /\ mem.map = disk.dict
    BY <2>1 DEF Before, LeaseInv, Settled
  <2>3. IsTables(disk) /\ IsDictionary(mem) /\ disk.post.df \in DfTables
    BY SoundFrequencies DEF Before, LeaseInv, Generations, TablesInv
  <2>4. Load(disk).nextTerm = mem.nextTerm
    BY <2>2, <2>3, LoadMark DEF Before, TablesInv, Marks, MemoryInv, DenseMarks
  <2>5. mem.stats = StatsOf(disk.dict, disk.post.df)
    BY <2>1 DEF Before, MemoryInv, FreshStats
  <2>6. mem = Load(disk)
    <3>1. Load(disk).stats = mem.stats
      BY <2>3, <2>5, LoadFresh DEF Before, TablesInv
    <3>2. /\ Load(disk).map = mem.map /\ Load(disk).gen = mem.gen
          /\ IsDictionary(Load(disk))
      BY <2>2, <2>3, LoadType
    <3>3. \A m : IsDictionary(m) =>
            m = [map |-> m.map, nextTerm |-> m.nextTerm, gen |-> m.gen, stats |-> m.stats]
      BY DEF IsDictionary
    <3> QED
      BY <2>3, <2>4, <3>1, <3>2, <3>3
  <2>7. ASSUME NEW c \in Classes
        PROVE  LET terms == Sampled(disk.dict, disk.post.df, c)
               IN mem.stats[c] = Stats!Recount([t \in terms |-> LnDf[disk.post.df[t]]], terms)
    <3> DEFINE terms == Sampled(disk.dict, disk.post.df, c)
               taken == [t \in terms |-> LnDf[disk.post.df[t]]]
    <3>1. AllHeld(disk.post.df, terms)
      BY <2>3, SampledHeld
    <3>2. mem.stats[c] = Stats!Recount(Logs(disk.post.df), terms)
      BY <2>5 DEF StatsOf
    <3> HIDE DEF terms
    <3>3. /\ IsFiniteSet(terms) /\ Weights(Logs(disk.post.df), terms)
          /\ \A t \in terms : Logs(disk.post.df)[t] = taken[t]
      BY <3>1, HeldWeights, TermIdFinite DEF AllHeld
    <3> HIDE DEF taken
    <3>4. Stats!Recount(Logs(disk.post.df), terms) = Stats!Recount(taken, terms)
      BY <3>3, RecountAgree
    <3> QED
      BY <3>2, <3>4 DEF terms, taken
  <2> QED
    BY <2>6, <2>7
<1> QED
  BY <1>1, MemoryInvariant, PTL

-----------------------------------------------------------------------------
(* A search beside the writer.                                             *)

(* The ids a search me resolved, as long as db is of their generation:     *)
(* none is another gram's, and a quiet search has all of them.             *)
IdsCurrent(me, db) ==
  /\ me \in [step : {"resolved"}, q : SUBSET Grams, ids : {me.ids}, gen : Nat,
             quiet : BOOLEAN]
  /\ me.gen <= db.gen
  /\ me.gen = db.gen =>
       \A g \in me.q : /\ me.ids[g] # NoTerm => me.ids[g] = db.dict[g]
                       /\ me.quiet => me.ids[g] = db.dict[g]

(* A pinned search me: its snapshot has typed rows, no candidate is wrong  *)
(* and, of a quiet search, none is missing.                                *)
PinnedWell(me) ==
  /\ IsSegmentTables(me.snap.segs)
  /\ \A s \in DOMAIN me.cands :
       /\ s \in DOMAIN me.snap.segs.row
       /\ me.cands[s] \subseteq GramsOf[me.snap.segs.row[s].txt]
  /\ me.quiet => me.cands = TrueMatches(me.q, me.snap)

AnsweredWell(me) ==
  \A s \in DOMAIN me.cands :
    /\ me.texts[s] # NoSearch
    /\ me.cands[s] \subseteq GramsOf[me.texts[s]]

(* The inductive invariant of the searches.                                *)
SearchInv ==
  /\ search = [r \in Readers |-> search[r]]
  /\ \A r \in Readers :
       /\ search[r] # NoSearch => search[r].q \in SUBSET Grams
       /\ At(r, "resolved") => IdsCurrent(search[r], disk)
       /\ At(r, "pinned") => PinnedWell(search[r])
       /\ At(r, "answered") => AnsweredWell(search[r])

-----------------------------------------------------------------------------
(* The postings of sound tables say what the texts say.                    *)

LEMMA HeldMeansHas ==
  ASSUME NEW db, IsTables(db), Sound(db), NEW g, g \in Grams, db.dict[g] # NoTerm, NEW s
  PROVE  s \in Effective(db.post, db.dict[g])
           <=> s \in DOMAIN db.segs.row /\ g \in GramsOf[db.segs.row[s].txt]
<1>1. db.dict[g] \in TermId
  BY DEF IsTables, Dictionaries
<1>2. /\ Live(db.segs, db.dict) /\ Injective(db.dict)
      /\ Effective(db.post, db.dict[g]) = Holders(db.segs, db.dict[g])
  BY <1>1 DEF Sound, Inverts
<1>3. DOMAIN db.segs.row \subseteq SegId
  BY <1>2 DEF Live, IsSegmentTables
<1>4. s \in Holders(db.segs, db.dict[g])
        <=> s \in DOMAIN db.segs.row /\ db.dict[g] \in TermsOf(db.dict, db.segs.row[s].txt)
  BY <1>2, <1>3 DEF Live, Holders
<1>5. ASSUME s \in DOMAIN db.segs.row
      PROVE  db.dict[g] \in TermsOf(db.dict, db.segs.row[s].txt)
               <=> g \in GramsOf[db.segs.row[s].txt]
  <2>1. db.segs.row[s].txt \in Texts
    BY <1>2, <1>5 DEF Live, IsSegmentTables, Row
  <2>2. GramsOf[db.segs.row[s].txt] \in SUBSET Grams
    BY <2>1, GramsOfText
  <2> QED
    BY <1>2, <2>2 DEF TermsOf, Injective
<1> QED
  BY <1>2, <1>4, <1>5

(* Pinning tables of the generation the ids were resolved in.              *)
LEMMA PinWell ==
  ASSUME NEW db, IsTables(db), Sound(db), NEW me, IdsCurrent(me, db), me.gen = db.gen,
         NEW rec, rec.q = me.q, rec.snap = db, rec.quiet = me.quiet,
         rec.cands = [s \in {x \in SegId : Matched(me.q, me.ids, db, x) # {}} |->
                       Matched(me.q, me.ids, db, s)]
  PROVE  PinnedWell(rec)
<1> DEFINE m(s) == Matched(me.q, me.ids, db, s)
           has(s) == me.q \cap GramsOf[db.segs.row[s].txt]
<1>1. /\ me.q \in SUBSET Grams
      /\ \A g \in me.q : /\ me.ids[g] # NoTerm => me.ids[g] = db.dict[g]
                         /\ me.quiet => me.ids[g] = db.dict[g]
  BY DEF IdsCurrent
<1>2. /\ IsSegmentTables(db.segs) /\ Live(db.segs, db.dict)
      /\ DOMAIN db.segs.row \subseteq SegId
  BY DEF Sound, Live, IsSegmentTables
<1>3. ASSUME NEW s, NEW g \in m(s)
      PROVE  s \in DOMAIN db.segs.row /\ g \in has(s)
  <2>1. g \in me.q /\ me.ids[g] # NoTerm /\ s \in Effective(db.post, me.ids[g])
    BY DEF Matched
  <2>2. g \in Grams /\ me.ids[g] = db.dict[g] /\ db.dict[g] # NoTerm
    BY <1>1, <2>1
  <2> QED
    BY <2>1, <2>2, HeldMeansHas
<1>4. ASSUME me.quiet, NEW s \in DOMAIN db.segs.row, NEW g \in has(s)
      PROVE  g \in m(s)
  <2>1. g \in Grams /\ g \in me.q /\ me.ids[g] = db.dict[g]
    BY <1>1, <1>4
  <2>2. db.dict[g] # NoTerm
    BY <1>2 DEF Live, TermsOf
  <2>3. s \in Effective(db.post, db.dict[g])
    BY <2>1, <2>2, HeldMeansHas
  <2> QED
    BY <2>1, <2>2, <2>3 DEF Matched
<1> HIDE DEF m, has
<1>5. rec.cands = [s \in {x \in SegId : m(x) # {}} |-> m(s)]
  BY DEF m
<1>6. ASSUME NEW s \in DOMAIN rec.cands
      PROVE  /\ s \in DOMAIN rec.snap.segs.row
             /\ rec.cands[s] \subseteq GramsOf[rec.snap.segs.row[s].txt]
  <2>1. m(s) # {} /\ rec.cands[s] = m(s)
    BY <1>5
  <2>2. s \in DOMAIN db.segs.row /\ m(s) \subseteq has(s)
    BY <1>3, <2>1
  <2> QED
    BY <2>1, <2>2 DEF has
<1>7. ASSUME rec.quiet
      PROVE  rec.cands = TrueMatches(rec.q, rec.snap)
  <2>1. \A s \in DOMAIN db.segs.row : m(s) = has(s)
    BY <1>3, <1>4, <1>7
  <2>2. {x \in SegId : m(x) # {}} = {x \in DOMAIN db.segs.row : has(x) # {}}
    BY <1>2, <1>3, <2>1
  <2>3. TrueMatches(rec.q, rec.snap)
          = [s \in {x \in DOMAIN db.segs.row : has(x) # {}} |-> has(s)]
    BY DEF TrueMatches, has
  <2> QED
    BY <1>5, <2>1, <2>2, <2>3
<1> QED
  BY <1>2, <1>6, <1>7 DEF PinnedWell

-----------------------------------------------------------------------------
(* A step of the writer under a search.                                    *)

(* Generations never go back, and within one every committed id stays.     *)
LEMMA DiskMoves ==
  ASSUME LeaseInv, NEW p \in Threads, Lease(p) \/ Maintenance(p)
  PROVE  /\ disk.gen \in Nat
         /\ disk'.gen \in Nat
         /\ disk.gen <= disk'.gen
         /\ disk'.gen = disk.gen =>
              \A g \in Grams : disk.dict[g] # NoTerm => disk'.dict[g] = disk.dict[g]
<1>1. disk.gen \in Nat
  BY DEF LeaseInv, Generations, IsTables
<1>2. CASE Lease(p)
  <2>1. disk' = disk \/ \A g \in Grams : disk.dict[g] # NoTerm => disk'.dict[g] = disk.dict[g]
    BY <1>2, LeaseKeepsIds
  <2>2. disk'.gen = disk.gen
    <3>1. CASE CommitSql(p)
      BY <3>1 DEF LeaseInv, Transaction, Matches, CommitSql
    <3>2. CASE FinishUpsert(p)
      BY <3>2 DEF LeaseInv, InCall, FinishUpsert, Release
    <3>3. ASSUME NEW k \in Keys, Remove(p, k) PROVE disk' = disk
      BY <3>3 DEF LeaseInv, Transaction, Remove, DropCall, Release
    <3>4. ASSUME NEW k \in Keys, NEW l \in Labels, RemoveSegment(p, k, l) PROVE disk' = disk
      BY <3>4 DEF LeaseInv, Transaction, RemoveSegment, DropCall, Release
    <3> QED
      BY <1>2, <3>1, <3>2, <3>3, <3>4 DEF Lease, CheckPoisoned, Begin, Upsert, WriteSegment,
         CallFails, CommitFails, MergeStage, ApplyDfChanges, BeginNext, DropWriter
  <2> QED
    BY <1>1, <2>1, <2>2
<1>3. CASE Maintenance(p)
  <2>1. disk'.gen = disk.gen \/ disk'.gen = disk.gen + 1
    <3>1. CASE Compact(p)
      BY <3>1 DEF LeaseInv, Generations, IsTables, Compact
    <3>2. ASSUME NEW corpus \in [Keys -> Docs], Rebuild(p, corpus)
          PROVE  disk'.gen = disk.gen + 1
      <4>1. PICK rows, d : disk' = RebuiltTables(rows, d, disk.gen)
        BY <3>2 DEF Rebuild
      <4> QED
        BY <4>1 DEF RebuiltTables
    <3>3. CASE ReloadSucceeds(p) \/ ReloadFails(p)
      BY <3>3 DEF ReloadSucceeds, ReloadFails
    <3> QED
      BY <1>3, <3>1, <3>2, <3>3 DEF Maintenance
  <2>2. disk'.gen = disk.gen => disk'.dict = disk.dict
    BY <1>3, MaintenanceKeepsIds
  <2> QED
    BY <1>1, <2>1, <2>2
<1> QED
  BY <1>2, <1>3

(* Resolved ids outlive any step that keeps the generation; after a commit *)
(* they may be incomplete.                                                 *)
LEMMA IdsOutlive ==
  ASSUME NEW me, NEW old, NEW new, IdsCurrent(me, old),
         old.gen \in Nat, new.gen \in Nat, old.gen <= new.gen,
         new.gen = old.gen =>
           \A g \in Grams : old.dict[g] # NoTerm => new.dict[g] = old.dict[g]
  PROVE  IdsCurrent([me EXCEPT !.quiet = FALSE], new)
<1> DEFINE you == [me EXCEPT !.quiet = FALSE]
<1>1. me \in [step : {"resolved"}, q : SUBSET Grams, ids : {me.ids}, gen : Nat,
              quiet : BOOLEAN]
  BY DEF IdsCurrent
<1>2. /\ you.q = me.q /\ you.ids = me.ids /\ you.gen = me.gen /\ you.quiet = FALSE
      /\ you \in [step : {"resolved"}, q : SUBSET Grams, ids : {me.ids}, gen : Nat,
                  quiet : BOOLEAN]
  BY <1>1
<1> HIDE DEF you
<1>3. me.gen \in Nat /\ me.q \in SUBSET Grams /\ me.gen <= old.gen
  BY <1>1 DEF IdsCurrent
<1>4. me.gen <= new.gen
  BY <1>3
<1>5. ASSUME me.gen = new.gen, NEW g \in me.q, me.ids[g] # NoTerm
      PROVE  me.ids[g] = new.dict[g]
  <2>1. me.gen = old.gen /\ new.gen = old.gen
    BY <1>3, <1>5
  <2> QED
    BY <1>3, <1>5, <2>1 DEF IdsCurrent
<1> QED
  BY <1>2, <1>4, <1>5 DEF IdsCurrent, you

LEMMA OvertakenInv ==
  ASSUME LeaseInv, SearchInv, NEW p \in Threads, Lease(p) \/ Maintenance(p), Overtaken
  PROVE  SearchInv'
<1>1. /\ disk.gen \in Nat /\ disk'.gen \in Nat /\ disk.gen <= disk'.gen
      /\ disk'.gen = disk.gen =>
           \A g \in Grams : disk.dict[g] # NoTerm => disk'.dict[g] = disk.dict[g]
  BY DiskMoves
<1>2. /\ search' = [r \in Readers |-> search'[r]]
      /\ \A r \in Readers :
           search'[r] = IF At(r, "resolved") /\ disk' # disk
                        THEN [search[r] EXCEPT !.quiet = FALSE] ELSE search[r]
  BY DEF Overtaken
<1>3. ASSUME NEW r \in Readers
      PROVE  /\ search'[r] # NoSearch => search'[r].q \in SUBSET Grams
             /\ At(r, "resolved")' => IdsCurrent(search'[r], disk')
             /\ At(r, "pinned")' => PinnedWell(search'[r])
             /\ At(r, "answered")' => AnsweredWell(search'[r])
  <2>1. CASE At(r, "resolved") /\ disk' # disk
    <3>1. search'[r] = [search[r] EXCEPT !.quiet = FALSE] /\ IdsCurrent(search[r], disk)
      BY <1>2, <2>1 DEF SearchInv
    <3>2. IdsCurrent(search'[r], disk')
      BY <1>1, <3>1, IdsOutlive
    <3>3. search'[r].step = "resolved" /\ search'[r].q \in SUBSET Grams
      BY <3>2 DEF IdsCurrent
    <3> QED
      BY <3>2, <3>3 DEF At
  <2>2. CASE ~(At(r, "resolved") /\ disk' # disk)
    <3>1. search'[r] = search[r] /\ (At(r, "resolved") => disk' = disk)
      BY <1>2, <2>2
    <3>2. /\ search[r] # NoSearch => search[r].q \in SUBSET Grams
          /\ At(r, "resolved") => IdsCurrent(search[r], disk)
          /\ At(r, "pinned") => PinnedWell(search[r])
          /\ At(r, "answered") => AnsweredWell(search[r])
      BY DEF SearchInv
    <3> QED
      BY <3>1, <3>2 DEF At
  <2> QED
    BY <2>1, <2>2
<1> QED
  BY <1>2, <1>3 DEF SearchInv

-----------------------------------------------------------------------------
(* A step of a search.                                                     *)

(* What Becomes leaves to show: the one search that moved.                 *)
LEMMA BecomesInv ==
  ASSUME SearchInv, NEW r \in Readers, NEW rec, Becomes(r, rec),
         rec # NoSearch => rec.q \in SUBSET Grams,
         rec # NoSearch /\ rec.step = "resolved" => IdsCurrent(rec, disk),
         rec # NoSearch /\ rec.step = "pinned" => PinnedWell(rec),
         rec # NoSearch /\ rec.step = "answered" => AnsweredWell(rec)
  PROVE  SearchInv'
<1>1. /\ search' = [search EXCEPT ![r] = rec] /\ disk' = disk
      /\ search = [x \in Readers |-> search[x]]
  BY DEF Becomes, vars, SearchInv
<1>2. /\ search' = [x \in Readers |-> search'[x]]
      /\ \A x \in Readers : search'[x] = IF x = r THEN rec ELSE search[x]
  BY <1>1
<1>3. ASSUME NEW x \in Readers
      PROVE  /\ search'[x] # NoSearch => search'[x].q \in SUBSET Grams
             /\ At(x, "resolved")' => IdsCurrent(search'[x], disk')
             /\ At(x, "pinned")' => PinnedWell(search'[x])
             /\ At(x, "answered")' => AnsweredWell(search'[x])
  <2>1. CASE x = r
    BY <1>1, <1>2, <2>1 DEF At
  <2>2. CASE x # r
    <3>1. /\ search[x] # NoSearch => search[x].q \in SUBSET Grams
          /\ At(x, "resolved") => IdsCurrent(search[x], disk)
          /\ At(x, "pinned") => PinnedWell(search[x])
          /\ At(x, "answered") => AnsweredWell(search[x])
      BY DEF SearchInv
    <3> QED
      BY <1>1, <1>2, <2>2, <3>1 DEF At
  <2> QED
    BY <2>1, <2>2
<1> QED
  BY <1>2, <1>3 DEF SearchInv

LEMMA AskInv ==
  ASSUME SearchInv, NEW r \in Readers, NEW q \in SUBSET Grams, Ask(r, q)
  PROVE  SearchInv'
<1> DEFINE rec == [step |-> "asked", q |-> q]
<1>1. Becomes(r, rec)
  BY DEF Ask
<1>2. rec.q = q /\ rec.step = "asked"
  OBVIOUS
<1> HIDE DEF rec
<1> QED
  BY <1>1, <1>2, BecomesInv

LEMMA CheckNotPoisonedInv ==
  ASSUME SearchInv, NEW r \in Readers, CheckNotPoisoned(r) PROVE SearchInv'
<1> DEFINE rec == [step |-> "unpinned", q |-> search[r].q]
<1>1. At(r, "asked") /\ (Becomes(r, NoSearch) \/ Becomes(r, rec))
  BY DEF CheckNotPoisoned
<1>2. search[r].q \in SUBSET Grams
  BY <1>1 DEF SearchInv, At
<1>3. rec.q = search[r].q /\ rec.step = "unpinned"
  OBVIOUS
<1> HIDE DEF rec
<1>4. CASE Becomes(r, NoSearch)
  BY <1>4, BecomesInv
<1>5. CASE Becomes(r, rec)
  BY <1>2, <1>3, <1>5, BecomesInv
<1> QED
  BY <1>1, <1>4, <1>5

LEMMA ResolveTermsInv ==
  ASSUME LeaseInv, SearchInv, NEW r \in Readers, ResolveTerms(r) PROVE SearchInv'
<1> DEFINE q   == search[r].q
           ids == Restrict(mem.map, q)
           quiet == \A p \in Threads : pc[p] # "merging"
           rec == [step |-> "resolved", q |-> q, ids |-> ids, gen |-> mem.gen, quiet |-> quiet]
<1>1. At(r, "unpinned") /\ Becomes(r, rec)
  BY DEF ResolveTerms
<1>2. q \in SUBSET Grams
  BY <1>1 DEF SearchInv, At
<1>3. \A g \in q : ids[g] = mem.map[g]
  BY DEF Restrict
<1>4. mem.gen \in Nat /\ mem.gen <= disk.gen /\ disk.gen \in Nat
  BY DEF LeaseInv, Generations, IsDictionary, IsTables
<1>5. ASSUME mem.gen = disk.gen
      PROVE  /\ ~poisoned /\ \A p \in Threads : pc[p] # "loading"
             /\ quiet => mem.map = disk.dict
             /\ \A g \in Grams : mem.map[g] # NoTerm => mem.map[g] = disk.dict[g]
  <2>1. ~poisoned /\ \A p \in Threads : pc[p] # "loading"
    BY <1>4, <1>5 DEF LeaseInv, Generations
  <2>2. quiet => mem.map = disk.dict
    BY <2>1 DEF LeaseInv, Settled
  <2>3. CASE ~quiet
    <3>1. IsDictionary(mem) /\ IsStage(mem, stage) /\ disk.dict = Resolved(mem, stage)
      BY <2>3 DEF LeaseInv, Generations, Merging
    <3>2. \A g \in Grams : mem.map[g] # NoTerm => mem.map[g] = disk.dict[g]
      BY <3>1, StageExtends
    <3> QED
      BY <2>1, <2>2, <3>2
  <2> QED
    BY <2>1, <2>2, <2>3
<1>6. quiet \in BOOLEAN
  OBVIOUS
<1> HIDE DEF q, ids, quiet
<1>7. IdsCurrent(rec, disk)
  <2>1. /\ rec.q = q /\ rec.ids = ids /\ rec.gen = mem.gen /\ rec.quiet = quiet
        /\ rec \in [step : {"resolved"}, q : SUBSET Grams, ids : {rec.ids}, gen : Nat,
                    quiet : BOOLEAN]
    BY <1>2, <1>4, <1>6
  <2> HIDE DEF rec
  <2>2. ASSUME rec.gen = disk.gen, NEW g \in rec.q
        PROVE  /\ rec.ids[g] # NoTerm => rec.ids[g] = disk.dict[g]
               /\ rec.quiet => rec.ids[g] = disk.dict[g]
    <3>1. g \in Grams /\ rec.ids[g] = mem.map[g]
      BY <1>2, <1>3, <2>1
    <3> QED
      BY <1>5, <2>1, <2>2, <3>1
  <2> QED
    BY <1>4, <2>1, <2>2 DEF IdsCurrent
<1>8. rec.q = q /\ rec.step = "resolved"
  OBVIOUS
<1> HIDE DEF rec
<1> QED
  BY <1>1, <1>2, <1>7, <1>8, BecomesInv

LEMMA PinInv ==
  ASSUME LeaseInv, TablesInv, SearchInv, NEW r \in Readers, Pin(r) PROVE SearchInv'
<1> DEFINE me   == search[r]
           m(s) == Matched(me.q, me.ids, disk, s)
           busy == [step |-> "busy", q |-> me.q]
           rec  == [step |-> "pinned", q |-> me.q, snap |-> disk,
                    cands |-> [s \in {x \in SegId : m(x) # {}} |-> m(s)],
                    quiet |-> me.quiet]
<1>1. At(r, "resolved") /\ Becomes(r, IF disk.gen # me.gen THEN busy ELSE rec)
  BY DEF Pin
<1>2. me.q \in SUBSET Grams /\ IdsCurrent(me, disk)
  BY <1>1 DEF SearchInv, At
<1>3. busy.q = me.q /\ busy.step = "busy"
  OBVIOUS
<1>4. CASE disk.gen # me.gen
  <2>1. Becomes(r, busy)
    BY <1>1, <1>4
  <2> HIDE DEF busy
  <2> QED
    BY <1>2, <1>3, <2>1, BecomesInv
<1>5. CASE disk.gen = me.gen
  <2>1. Becomes(r, rec)
    BY <1>1, <1>5
  <2>2. /\ rec.q = me.q /\ rec.snap = disk /\ rec.quiet = me.quiet /\ rec.step = "pinned"
        /\ rec.cands = [s \in {x \in SegId : Matched(me.q, me.ids, disk, x) # {}} |->
                         Matched(me.q, me.ids, disk, s)]
    OBVIOUS
  <2> HIDE DEF rec, me
  <2>3. IsTables(disk) /\ Sound(disk)
    BY DEF LeaseInv, Generations, TablesInv
  <2>4. PinnedWell(rec)
    BY <1>2, <1>5, <2>2, <2>3, PinWell
  <2> QED
    BY <1>2, <2>1, <2>2, <2>4, BecomesInv
<1> QED
  BY <1>4, <1>5

LEMMA RetryInv ==
  ASSUME SearchInv, NEW r \in Readers, Retry(r) PROVE SearchInv'
<1> DEFINE rec == [step |-> "asked", q |-> search[r].q]
<1>1. At(r, "busy") /\ Becomes(r, rec)
  BY DEF Retry
<1>2. search[r].q \in SUBSET Grams
  BY <1>1 DEF SearchInv, At
<1>3. rec.q = search[r].q /\ rec.step = "asked"
  OBVIOUS
<1> HIDE DEF rec
<1> QED
  BY <1>1, <1>2, <1>3, BecomesInv

LEMMA HydrateInv ==
  ASSUME SearchInv, NEW r \in Readers, Hydrate(r) PROVE SearchInv'
<1> DEFINE me  == search[r]
           rec == [step |-> "answered", q |-> me.q, cands |-> me.cands,
                   texts |-> RowsOf(me.snap, DOMAIN me.cands)]
<1>1. At(r, "pinned") /\ Becomes(r, rec)
  BY DEF Hydrate
<1>2. me.q \in SUBSET Grams /\ PinnedWell(me)
  BY <1>1 DEF SearchInv, At
<1>3. /\ rec.q = me.q /\ rec.step = "answered" /\ rec.cands = me.cands
      /\ rec.texts = RowsOf(me.snap, DOMAIN me.cands)
  OBVIOUS
<1> HIDE DEF rec, me
<1>4. ASSUME NEW s \in DOMAIN me.cands
      PROVE  /\ rec.texts[s] # NoSearch
             /\ me.cands[s] \subseteq GramsOf[rec.texts[s]]
  <2>1. /\ s \in DOMAIN me.snap.segs.row /\ IsSegmentTables(me.snap.segs)
        /\ me.cands[s] \subseteq GramsOf[me.snap.segs.row[s].txt]
    BY <1>2 DEF PinnedWell
  <2>2. me.snap.segs.row[s].txt \in Texts
    BY <2>1 DEF IsSegmentTables, Row
  <2>3. rec.texts[s] = me.snap.segs.row[s].txt
    BY <1>3, <2>1 DEF RowsOf
  <2> QED
    BY <2>1, <2>2, <2>3, NoSearchIsNoText
<1>5. AnsweredWell(rec)
  BY <1>3, <1>4 DEF AnsweredWell
<1> QED
  BY <1>1, <1>2, <1>3, <1>5, BecomesInv

LEMMA CloseInv ==
  ASSUME SearchInv, NEW r \in Readers, Close(r) PROVE SearchInv'
BY BecomesInv DEF Close

-----------------------------------------------------------------------------

LEMMA SearchInitInv == SearchInit => LeaseInv /\ TablesInv /\ SearchInv
<1> SUFFICES ASSUME SearchInit PROVE LeaseInv /\ TablesInv /\ SearchInv
  OBVIOUS
<1>1. LeaseInv /\ TablesInv
  BY InitLease, InitTables DEF SearchInit
<1>2. SearchInv
  BY DEF SearchInit, SearchInv, At
<1> QED
  BY <1>1, <1>2

LEMMA SearchNextInv ==
  ASSUME Disciplined, LeaseInv, TablesInv, SearchInv, [SearchNext]_searchVars
  PROVE  LeaseInv' /\ TablesInv' /\ SearchInv'
<1>1. [Next]_vars
  <2>1. CASE \E p \in Threads : (Lease(p) \/ Maintenance(p)) /\ Overtaken
    BY <2>1 DEF Next
  <2>2. CASE CrashAndOpen
    BY <2>2 DEF Next
  <2>3. ASSUME NEW r \in Readers,
               \/ \E q \in SUBSET Grams \ {{}} : Ask(r, q)
               \/ Search(r) \/ Hydrate(r) \/ Close(r)
        PROVE  UNCHANGED vars
    BY <2>3 DEF Search, Ask, CheckNotPoisoned, ResolveTerms, Pin, Retry, Hydrate, Close, Becomes
  <2>4. CASE UNCHANGED searchVars
    BY <2>4 DEF searchVars
  <2> QED
    BY <2>1, <2>2, <2>3, <2>4 DEF SearchNext
<1>2. LeaseInv' /\ TablesInv'
  BY <1>1, NextLeaseInv, NextTablesInv
<1>3. SearchInv'
  <2>1. ASSUME NEW p \in Threads, Lease(p) \/ Maintenance(p), Overtaken PROVE SearchInv'
    BY <2>1, OvertakenInv
  <2>2. CASE search' = [r \in Readers |-> NoSearch]
    BY <2>2 DEF SearchInv, At
  <2>3. ASSUME NEW r \in Readers, NEW q \in SUBSET Grams, Ask(r, q) PROVE SearchInv'
    BY <2>3, AskInv
  <2>4. ASSUME NEW r \in Readers, Search(r) PROVE SearchInv'
    BY <2>4, CheckNotPoisonedInv, ResolveTermsInv, PinInv, RetryInv DEF Search
  <2>5. ASSUME NEW r \in Readers, Hydrate(r) \/ Close(r) PROVE SearchInv'
    BY <2>5, HydrateInv, CloseInv
  <2>6. CASE UNCHANGED searchVars
    <3>1. search' = search /\ disk' = disk
      BY <2>6 DEF searchVars, vars
    <3> QED
      BY <3>1 DEF SearchInv, At
  <2> QED
    BY <2>1, <2>2, <2>3, <2>4, <2>5, <2>6 DEF SearchNext
<1> QED
  BY <1>2, <1>3

-----------------------------------------------------------------------------
(* The theorems.                                                           *)

(* The inductive invariant of searches beside the writer: the ids a search *)
(* holds are those of its generation's tables, also while a merge or a     *)
(* reload is still to come, and what it pinned matches what it counted.    *)
THEOREM SearchInvariant ==
  Disciplined /\ SearchSpec => [](LeaseInv /\ TablesInv /\ SearchInv)
<1>1. Disciplined /\ SearchInit => LeaseInv /\ TablesInv /\ SearchInv
  BY SearchInitInv
<1>2. ASSUME Disciplined, LeaseInv /\ TablesInv /\ SearchInv, [SearchNext]_searchVars
      PROVE  (LeaseInv /\ TablesInv /\ SearchInv)'
  BY <1>2, SearchNextInv
<1>3. Disciplined => Disciplined'
  BY DEF Disciplined
<1> QED
  BY <1>1, <1>2, <1>3, PTL DEF SearchSpec

(* Candidates of a search (matches_batch, CandidateStream) never count a   *)
(* gram for a segment whose text lacks it, whatever rebuild, commit or     *)
(* failed reload came between resolve_terms and the snapshot.              *)
THEOREM SearchNeverMisroutes == Disciplined /\ SearchSpec => []NeverMisroutes
<1>1. SearchInv => NeverMisroutes
  BY DEF SearchInv, PinnedWell, NeverMisroutes, Pinned
<1> QED
  BY <1>1, SearchInvariant, PTL

(* A search that no commit overtook between its two reads finds every      *)
(* segment that shares a gram with its query, with every gram it shares.   *)
THEOREM QuietSearchFindsAll == Disciplined /\ SearchSpec => []QuietSearchExact
<1>1. SearchInv => QuietSearchExact
  BY DEF SearchInv, PinnedWell, QuietSearchExact, Pinned
<1> QED
  BY <1>1, SearchInvariant, PTL

(* Hydration gives each candidate a text of the state the candidate was    *)
(* found in, however long the writer went on in between.                   *)
THEOREM HydrationTrue == Disciplined /\ SearchSpec => []HydratedTextMatches
<1>1. SearchInv => HydratedTextMatches
  BY DEF SearchInv, AnsweredWell, HydratedTextMatches
<1> QED
  BY <1>1, SearchInvariant, PTL

=============================================================================
