----------------------------- MODULE WriterLease ----------------------------
(***************************************************************************)
(* The write side of trifle: the Writer lease with its SAVEPOINT per call  *)
(* and its commit-and-continue, Index::compact and Index::rebuild, all     *)
(* serialized by the writer connection's mutex, over two copies of the     *)
(* dictionary that must agree: the dict table and the in-memory            *)
(* Dictionary (src/lib.rs, src/dict.rs).                                   *)
(*                                                                         *)
(* SQLite is modelled as its users see it: disk is what is committed, txn  *)
(* what the open transaction sees, NoTxn when there is none.  A COMMIT     *)
(* that fails rolls back, as the doc of Writer::commit says.  A bare       *)
(* ROLLBACK leaves no transaction: SQLite refuses one only where there is  *)
(* none to roll back, and the code ignores its result.                     *)
(***************************************************************************)
EXTENDS Segments, Sequences

CONSTANTS
  Threads,            (* callers sharing one Index                         *)
  NoThread,
  Classes,            (* (script, order) classes                           *)
  ClassOf,            (* ClassOf[g]: the class of a gram                   *)
  LnDf,               (* df -> its sample, ln(df), as an integer           *)
  Unit,               (* of module Welford                                 *)
  MaxGen,             (* bound: generations explored                       *)
  ReloadMayFail,      (* may Dictionary::load fail after a rebuild's swap? *)
  FailBesideWaiters,  (* ... and while another thread waits for the lock?  *)
  ReuseFailedWriter   (* do callers keep a lease whose COMMIT failed?      *)

ASSUME Idle == NoThread \notin Threads
ASSUME Bounds ==
  /\ MaxGen \in Nat
  /\ {ReloadMayFail, FailBesideWaiters, ReuseFailedWriter} \subseteq BOOLEAN
ASSUME Classification ==
  /\ ClassOf \in [Grams -> Classes]
  /\ LnDf \in [1..MaxSegId -> Nat]
  /\ Unit \in Nat \ {0} /\ \A n \in 1..MaxTermId : Unit % n = 0

VARIABLES
  disk,       (* committed tables: [segs, post, dict, gen]                 *)
  mem,        (* Dictionary: [map, nextTerm, gen, stats]                   *)
  poisoned,   (* Index.poisoned                                            *)
  holder,     (* the thread that holds the writer connection's mutex       *)
  pc,         (* where each thread is                                      *)
  txn,        (* the tables as the open transaction sees them, or NoTxn    *)
  txnOpen,    (* Writer.txn_open                                           *)
  stage,      (* Writer.stage: [base, new], new[g] the id staged for g     *)
  pending,    (* Writer.pending_df, one set of changes per finished call   *)
  call        (* the write call inside its SAVEPOINT, or NoCall            *)

lease == <<txn, txnOpen, stage, pending, call>>
vars  == <<disk, mem, poisoned, holder, pc, lease>>

-----------------------------------------------------------------------------
(* No open transaction: equal to no state of the tables.                   *)
NoTxn == [gen |-> -1]

(* No write call in progress: equal to no call.                            *)
NoCall == [todo |-> {}]

-----------------------------------------------------------------------------
(* The in-memory dictionary.                                               *)

Stats == INSTANCE Welford

(* The terms of a class that some segment holds.                           *)
Sampled(dict, df, c) ==
  {t \in TermId : df[t] > 0 /\ \E g \in Grams : dict[g] = t /\ ClassOf[g] = c}

(* ClassStats as Dictionary::load builds it.                               *)
ClassStats(dict, df) ==
  [c \in Classes |->
    MapThenFoldSet(LAMBDA t, w : Stats!Add(w, LnDf[df[t]]), Stats!NoSamples,
                   LAMBDA t : t, LAMBDA T : CHOOSE t \in T : TRUE,
                   Sampled(dict, df, c))]

(* Each operator below whose comment says Faulty is a bug the code does    *)
(* not have, against which the properties are tested.                      *)

(* Faulty: a load that forgets the generation.                             *)
LoadWithoutGeneration(db) ==
  [map      |-> db.dict,
   nextTerm |-> 1 + Cardinality({t \in TermId :
                      \E g \in Grams : db.dict[g] >= t}),
   gen      |-> 0,
   stats    |-> ClassStats(db.dict, db.post.df)]

(* Dictionary::load: one pass over dict joined to the df column.           *)
Load(db) ==
  [map      |-> db.dict,
   nextTerm |-> 1 + Cardinality({t \in TermId :
                      \E g \in Grams : db.dict[g] >= t}),
   gen      |-> db.gen,
   stats    |-> ClassStats(db.dict, db.post.df)]

NoStage == [base |-> 1, new |-> EmptyDict]

NewStage(m) == [base |-> m.nextTerm, new |-> EmptyDict]

Staged(st) == {g \in Grams : st.new[g] # NoTerm}

(* The lookup order of intern_key: the committed map, then this            *)
(* transaction's own allocations.                                          *)
Resolved(m, st) ==
  [g \in Grams |-> IF m.map[g] # NoTerm THEN m.map[g] ELSE st.new[g]]

(* The stages that interning the grams of G can leave: a miss takes the    *)
(* next id after the ones already staged.                                  *)
Stagings(m, st, G) ==
  {[base |-> st.base,
    new  |-> [g \in Grams |-> IF m.map[g] # NoTerm THEN st.new[g] ELSE d[g]]] :
     d \in Interned(Resolved(m, st), st.base + Cardinality(Staged(st)), G)}

(* Faulty: a failed call keeps what it staged.                             *)
RollbackToNothing(st, mark) == st

(* InternStage::rollback_to: discard what was staged after the mark.       *)
RollbackTo(st, mark) ==
  [base |-> st.base,
   new  |-> [g \in Grams |-> IF st.new[g] >= st.base + mark THEN NoTerm ELSE st.new[g]]]

(* The dict rows that staging inserts, in the writer's transaction.        *)
WithStaged(dict, old, st) ==
  [g \in Grams |-> IF g \in Staged(st) \ Staged(old) THEN st.new[g] ELSE dict[g]]

(* Faulty: a merge that leaves the mark, or leaves the map.                *)
MergeKeepingMark(m, st) == [m EXCEPT !.map = Resolved(m, st)]

MergeKeepingMap(m, st) == [m EXCEPT !.nextTerm = st.base + Cardinality(Staged(st))]

(* InternStage::commit: merge into the shared map, advance the mark to one *)
(* past the highest id merged.                                             *)
Merge(m, st) ==
  [m EXCEPT
    !.map = Resolved(m, st),
    !.nextTerm = IF Staged(st) = {} THEN @ ELSE st.base + Cardinality(Staged(st))]

(* One (id, old, new) of Dictionary::apply_df_changes: a term of a known   *)
(* class moves its sample.                                                 *)
MoveSample(map, r, stats) ==
  LET known == {g \in Grams : map[g] = r.id}
      class == ClassOf[CHOOSE g \in known : TRUE]
  IN IF known = {} THEN stats
     ELSE [stats EXCEPT ![class] = Stats!Update(@, LnDf, r.old, r.new)]

MoveBatch(map, stats, batch) ==
  MapThenFoldSet(LAMBDA r, moved : MoveSample(map, r, moved), stats,
                 LAMBDA r : r, LAMBDA B : CHOOSE r \in B : TRUE, batch)

(* Dictionary::apply_df_changes, call by call.                             *)
MoveSamples(m, batches) ==
  LET moved[i \in 0 .. Len(batches)] ==
        IF i = 0 THEN m.stats ELSE MoveBatch(m.map, moved[i - 1], batches[i])
  IN moved[Len(batches)]

-----------------------------------------------------------------------------

Init ==
  /\ disk = [segs |-> NoSegments, post |-> NoPostings, dict |-> EmptyDict, gen |-> 0]
  /\ mem = Load(disk)
  /\ poisoned = FALSE
  /\ holder = NoThread
  /\ pc = [p \in Threads |-> "idle"]
  /\ txn = NoTxn
  /\ txnOpen = FALSE
  /\ stage = NoStage
  /\ pending = <<>>
  /\ call = NoCall

NoLease ==
  /\ txn' = NoTxn
  /\ txnOpen' = FALSE
  /\ stage' = NoStage
  /\ pending' = <<>>
  /\ call' = NoCall

Goto(p, to) == pc' = [pc EXCEPT ![p] = to]

(* Index::writer and Index::compact look at the flag before they take the  *)
(* mutex, and not again.                                                   *)
CheckPoisoned(p) ==
  /\ pc[p] = "idle"
  /\ ~poisoned
  /\ \E next \in {"want_writer", "want_compact"} : Goto(p, next)
  /\ UNCHANGED <<disk, mem, poisoned, holder, lease>>

(* Faulty: a lease that does not wait for the lock.                        *)
BeginWithoutLock(p) ==
  /\ pc[p] = "want_writer"
  /\ holder' = p
  /\ txn' = disk
  /\ txnOpen' = TRUE
  /\ stage' = NewStage(mem)
  /\ Goto(p, "leased")
  /\ UNCHANGED <<disk, mem, poisoned, pending, call>>

(* Writer::begin: BEGIN IMMEDIATE and a stage off the current mark.        *)
Begin(p) ==
  /\ pc[p] = "want_writer"
  /\ holder = NoThread
  /\ holder' = p
  /\ txn' = disk
  /\ txnOpen' = TRUE
  /\ stage' = NewStage(mem)
  /\ Goto(p, "leased")
  /\ UNCHANGED <<disk, mem, poisoned, pending, call>>

-----------------------------------------------------------------------------
(* Write calls, each in its SAVEPOINT (Writer::atomic).                    *)

(* A SAVEPOINT outside a transaction opens one of its own.                 *)
View == IF txn = NoTxn THEN disk ELSE txn

Upsert(p, k, doc) ==
  /\ pc[p] = "leased" /\ txnOpen
  /\ DOMAIN doc # {}
  /\ call' = [key |-> k, doc |-> doc, todo |-> DOMAIN doc, saved |-> txn,
              stageMark |-> Cardinality(Staged(stage)), dfMark |-> Len(pending),
              add |-> NoChange, remove |-> NoChange]
  /\ txn' = View
  /\ Goto(p, "in_call")
  /\ UNCHANGED <<disk, mem, poisoned, holder, txnOpen, stage, pending>>

(* Index::write_segment: replace, allocate, intern, insert, note changes.  *)
WriteSegment(p, l) ==
  LET old  == FindSegments(txn.segs, call.key, {l})
      text == call.doc[l]
      new  == AllocIds(txn.segs, 1)
  IN /\ pc[p] = "in_call"
     /\ l \in call.todo
     /\ new \subseteq SegId
     /\ \E st \in Stagings(mem, stage, GramsOf[text]) :
          LET ids  == Resolved(mem, st)
              rows == DocRows(call.key, call.doc, [s \in new |-> l])
          IN /\ stage' = st
             /\ txn' = [txn EXCEPT
                         !.segs = InsertSegments(DropSegments(@, old), rows, ids),
                         !.dict = WithStaged(@, stage, st)]
             /\ call' = [call EXCEPT
                  !.todo = @ \ {l},
                  !.add = [t \in TermId |-> @[t] \cup AdditionsOf(rows, ids)[t]],
                  !.remove = [t \in TermId |-> @[t] \cup RemovalsOf(txn.segs, old)[t]]]
     /\ UNCHANGED <<disk, mem, poisoned, holder, pc, txnOpen, pending>>

(* What apply_writes returns: (id, old df, new df) of every touched term.  *)
DfChanges(post, add, remove) ==
  {[id |-> t, old |-> post.df[t], new |-> ApplyWrites(post, add, remove).df[t]] :
     t \in {u \in TermId : add[u] \cup remove[u] # {}}}

(* Release the savepoint after the call's work.  The ? of a RELEASE that   *)
(* fails returns with no rollback and no un-staging.  A nested savepoint   *)
(* has then kept its work in the transaction all the same: the call's next *)
(* state is the one of success.  The outermost one of no transaction       *)
(* commits, and a failure rolls back the tables, but not the stage.        *)
Release(tables, outer) ==
  IF outer = NoTxn THEN disk' \in {tables, disk} /\ txn' = NoTxn
                   ELSE txn' = tables /\ UNCHANGED disk

(* Faulty: the staged grams are shared before they are committed.          *)
FinishUpsertMerging(p) ==
  /\ pc[p] = "in_call"
  /\ call.todo = {}
  /\ pending' = Append(pending, DfChanges(txn.post, call.add, call.remove))
  /\ Release([txn EXCEPT !.post = ApplyWrites(@, call.add, call.remove)], call.saved)
  /\ mem' = Merge(mem, stage)
  /\ call' = NoCall
  /\ Goto(p, "leased")
  /\ UNCHANGED <<poisoned, holder, txnOpen, stage>>

FinishUpsert(p) ==
  /\ pc[p] = "in_call"
  /\ call.todo = {}
  /\ pending' = Append(pending, DfChanges(txn.post, call.add, call.remove))
  /\ Release([txn EXCEPT !.post = ApplyWrites(@, call.add, call.remove)], call.saved)
  /\ call' = NoCall
  /\ Goto(p, "leased")
  /\ UNCHANGED <<mem, poisoned, holder, txnOpen, stage>>

(* Faulty: a failed call keeps the rows it wrote.                          *)
CallFailsKeepingRows(p) ==
  /\ pc[p] = "in_call"
  /\ stage' = RollbackTo(stage, call.stageMark)
  /\ pending' = SubSeq(pending, 1, call.dfMark)
  /\ call' = NoCall
  /\ Goto(p, "leased")
  /\ UNCHANGED <<disk, mem, poisoned, holder, txn, txnOpen>>

(* A call that fails at any point (a label outside the schema, an id space *)
(* exhausted, a SQL error) rolls back to its savepoint and un-stages; when *)
(* ROLLBACK TO or the RELEASE after it fails, the fallback ROLLBACK ends   *)
(* the transaction, if SQLite has not, and the lease strands.              *)
CallFails(p) ==
  /\ pc[p] = "in_call"
  /\ \/ txn' = call.saved /\ UNCHANGED txnOpen
     \/ txn' = NoTxn /\ txnOpen' = FALSE
  /\ stage' = RollbackTo(stage, call.stageMark)
  /\ pending' = SubSeq(pending, 1, call.dfMark)
  /\ call' = NoCall
  /\ Goto(p, "leased")
  /\ UNCHANGED <<disk, mem, poisoned, holder>>

DropCall(p, S) ==
  /\ pending' = Append(pending, DfChanges(View.post, NoChange, RemovalsOf(View.segs, S)))
  /\ Release([View EXCEPT
               !.segs = DropSegments(@, S),
               !.post = ApplyWrites(@, NoChange, RemovalsOf(View.segs, S))], txn)
  /\ UNCHANGED <<mem, poisoned, holder, pc, txnOpen, stage, call>>

(* Writer::remove and Writer::remove_segment.                              *)
Remove(p, k) ==
  /\ pc[p] = "leased" /\ txnOpen
  /\ SegmentsOf(View.segs, k) # {}
  /\ DropCall(p, SegmentsOf(View.segs, k))

RemoveSegment(p, k, l) ==
  /\ pc[p] = "leased" /\ txnOpen
  /\ FindSegments(View.segs, k, {l}) # {}
  /\ DropCall(p, FindSegments(View.segs, k, {l}))

-----------------------------------------------------------------------------
(* Writer::commit, statement by statement.                                 *)

CommitSql(p) ==
  /\ pc[p] = "leased"
  /\ txn # NoTxn
  /\ disk' = txn
  /\ txn' = NoTxn
  /\ txnOpen' = FALSE
  /\ Goto(p, "merging")
  /\ UNCHANGED <<mem, poisoned, holder, stage, pending, call>>

(* The COMMIT fails and rolls back; the ? returns before txn_open is reset *)
(* and before the stage is taken.                                          *)
CommitFails(p) ==
  /\ pc[p] = "leased"
  /\ txn # NoTxn
  /\ txn' = NoTxn
  /\ Goto(p, IF ReuseFailedWriter THEN "leased" ELSE "failed")
  /\ UNCHANGED <<disk, mem, poisoned, holder, txnOpen, stage, pending, call>>

MergeStage(p) ==
  /\ pc[p] = "merging"
  /\ mem' = Merge(mem, stage)
  /\ Goto(p, "merged")
  /\ UNCHANGED <<disk, poisoned, holder, lease>>

ApplyDfChanges(p) ==
  /\ pc[p] = "merged"
  /\ mem' = [mem EXCEPT !.stats = MoveSamples(mem, pending)]
  /\ pending' = <<>>
  /\ stage' = NewStage(mem)
  /\ Goto(p, "reopening")
  /\ UNCHANGED <<disk, poisoned, holder, txn, txnOpen, call>>

(* The follow-on BEGIN; when it fails the lease is stranded.               *)
BeginNext(p) ==
  /\ pc[p] = "reopening"
  /\ \/ txn' = disk /\ txnOpen' = TRUE
     \/ UNCHANGED <<txn, txnOpen>>
  /\ Goto(p, "leased")
  /\ UNCHANGED <<disk, mem, poisoned, holder, stage, pending, call>>

(* Drop for Writer.                                                        *)
DropWriter(p) ==
  /\ pc[p] \in {"leased", "failed"}
  /\ holder' = NoThread
  /\ NoLease
  /\ Goto(p, "idle")
  /\ UNCHANGED <<disk, mem, poisoned>>

-----------------------------------------------------------------------------
(* Maintenance.                                                            *)

Compact(p) ==
  /\ pc[p] = "want_compact"
  /\ holder = NoThread
  /\ disk' = [disk EXCEPT !.post = Fold(@)]
  /\ Goto(p, "idle")
  /\ UNCHANGED <<mem, poisoned, holder, lease>>

(* Faulty: a rebuild that keeps the generation.                            *)
RebuiltTablesSameGeneration(rows, d, gen) ==
  [segs |-> InsertSegments(NoSegments, rows, d),
   post |-> BasePostings(AdditionsOf(rows, d)),
   dict |-> d, gen |-> gen]

(* The tables that replace all others by the shadow swap.                  *)
RebuiltTables(rows, d, gen) ==
  [segs |-> InsertSegments(NoSegments, rows, d),
   post |-> BasePostings(AdditionsOf(rows, d)),
   dict |-> d, gen |-> gen + 1]

(* Index::rebuild up to its COMMIT: no look at the poison flag (it is the  *)
(* cure), and the mutex is kept until the dictionary is reloaded.          *)
Rebuild(p, corpus) ==
  LET ids == AllocIds(NoSegments, Cardinality(FieldsOf(corpus)))
  IN /\ pc[p] = "idle"
     /\ holder = NoThread
     /\ disk.gen < MaxGen
     /\ ids \subseteq SegId
     /\ \E at \in Bijection(ids, FieldsOf(corpus)),
           d \in Interned(EmptyDict, 1, CorpusGrams(corpus)) :
          disk' = RebuiltTables(CorpusRows(corpus, at), d, disk.gen)
     /\ holder' = p
     /\ Goto(p, "loading")
     /\ UNCHANGED <<mem, poisoned, lease>>

ReloadSucceeds(p) ==
  /\ pc[p] = "loading"
  /\ mem' = Load(disk)
  /\ poisoned' = FALSE
  /\ holder' = NoThread
  /\ Goto(p, "idle")
  /\ UNCHANGED <<disk, lease>>

ReloadFails(p) ==
  /\ ReloadMayFail
  /\ FailBesideWaiters \/ \A q \in Threads \ {p} : pc[q] = "idle"
  /\ pc[p] = "loading"
  /\ poisoned' = TRUE
  /\ holder' = NoThread
  /\ Goto(p, "idle")
  /\ UNCHANGED <<disk, mem, lease>>

(* The process dies at any point and the index is opened again with the    *)
(* same stamps: nothing in memory survives, everything committed does.     *)
CrashAndOpen ==
  /\ mem' = Load(disk)
  /\ poisoned' = FALSE
  /\ holder' = NoThread
  /\ pc' = [p \in Threads |-> "idle"]
  /\ NoLease
  /\ UNCHANGED disk

Lease(p) ==
  \/ CheckPoisoned(p)
  \/ Begin(p)
  \/ \E k \in Keys, doc \in Docs : Upsert(p, k, doc)
  \/ \E l \in Labels : WriteSegment(p, l)
  \/ FinishUpsert(p)
  \/ CallFails(p)
  \/ \E k \in Keys : Remove(p, k)
  \/ \E k \in Keys, l \in Labels : RemoveSegment(p, k, l)
  \/ CommitSql(p)
  \/ CommitFails(p)
  \/ MergeStage(p)
  \/ ApplyDfChanges(p)
  \/ BeginNext(p)
  \/ DropWriter(p)

Maintenance(p) ==
  \/ Compact(p)
  \/ \E corpus \in [Keys -> Docs] : Rebuild(p, corpus)
  \/ ReloadSucceeds(p)
  \/ ReloadFails(p)

Next == (\E p \in Threads : Lease(p) \/ Maintenance(p)) \/ CrashAndOpen

Spec == Init /\ [][Next]_vars

-----------------------------------------------------------------------------
(* Properties.                                                             *)

(* The tables describe one index: postings, frequencies and forward rows   *)
(* say the same, every id was handed out, no two grams share an id.        *)
Consistent(db) ==
  /\ \A t \in TermId : Effective(db.post, t) = {s \in SegId : t \in db.segs.fwd[s]}
  /\ \A t \in TermId : db.post.df[t] = Cardinality(Effective(db.post, t))
  /\ \A s \in SegId :
       db.segs.fwd[s] = IF s \in DOMAIN db.segs.row
                        THEN TermsOf(db.dict, db.segs.row[s].txt) ELSE {}
  /\ \A s \in DOMAIN db.segs.row : NoTerm \notin TermsOf(db.dict, db.segs.row[s].txt)
  /\ \A g, h \in Grams : db.dict[g] = db.dict[h] /\ db.dict[g] # NoTerm => g = h
  /\ \A t \in TermId :
       \A s \in db.post.base[t] \cup db.post.added[t] \cup db.post.removed[t] :
         s < db.segs.nextId
  /\ \A s \in DOMAIN db.segs.row : s < db.segs.nextId
  /\ db.segs.count = Cardinality(DOMAIN db.segs.row)

(* Whatever was rolled back, stranded or cut off by a crash, what is       *)
(* committed is one consistent index (the promise of Writer::atomic, of    *)
(* Writer::commit and of the shadow swap).                                 *)
DiskConsistent == Consistent(disk)

(* Between calls the transaction is consistent too: a failed call left     *)
(* nothing behind, neither a table row nor half of its postings.           *)
TxnConsistent == txn # NoTxn /\ call = NoCall => Consistent(txn)

(* Whenever the lock is free and the index is not poisoned, the dictionary *)
(* in memory and its id mark equal what a fresh load from the tables would *)
(* compute, and each class's count, mean and squared deviations, moved     *)
(* sample by sample at every commit, are those of the terms now in it.     *)
MemoryMatchesDisk ==
  holder = NoThread /\ ~poisoned =>
    /\ mem = Load(disk)
    /\ \A c \in Classes :
         LET terms == Sampled(disk.dict, disk.post.df, c)
         IN mem.stats[c] =
              Stats!Recount([t \in terms |-> LnDf[disk.post.df[t]]], terms)

(* In an open transaction a gram staged in memory has its dict row, so     *)
(* InternStage::commit never merges an id whose row was rolled back.       *)
StagedRowsExist ==
  txn # NoTxn => \A g \in Staged(stage) : txn.dict[g] = stage.new[g]

(* The generation is what tells a reader its ids are of another id space:  *)
(* whenever the memory and the tables carry the same one, each id the      *)
(* memory hands out is the id the tables use for that gram, at every point *)
(* of a commit, a rebuild and a reload.                                    *)
GenerationGuardsIds ==
  mem.gen = disk.gen =>
    \A g \in Grams : mem.map[g] # NoTerm => mem.map[g] = disk.dict[g]

(* Within one generation a committed gram keeps its id for ever.           *)
IdsStableInGeneration ==
  [][disk'.gen = disk.gen =>
       \A g \in Grams : disk.dict[g] # NoTerm => disk'.dict[g] = disk.dict[g]]_vars

(* A rolled-back tail leaves no orphan id (doc of Writer::commit): every   *)
(* id a committed forward row holds is the id of a gram.  A caller that    *)
(* keeps writing on the lease whose COMMIT failed breaks it.               *)
NoOrphanIds ==
  \A s \in SegId : \A t \in disk.segs.fwd[s] : \E g \in Grams : disk.dict[g] = t

(* No write is accepted against a mis-routed map (doc of check_poisoned):  *)
(* a write call only ever runs on a dictionary of the tables' generation.  *)
WritesUseCurrentMap ==
  \A p \in Threads : pc[p] = "in_call" => mem.gen = disk.gen

=============================================================================
