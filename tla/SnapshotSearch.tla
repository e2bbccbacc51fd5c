--------------------------- MODULE SnapshotSearch ---------------------------
(***************************************************************************)
(* Searches beside the writer (src/search.rs: matches_batch, candidates,   *)
(* prepare, CandidateStream).  A search resolves the grams of its query in *)
(* the shared in-memory dictionary, then pins a WAL snapshot of the tables *)
(* by its first read, and from there on reads that snapshot only.  The two *)
(* are taken at different moments; the dictionary generation, captured     *)
(* with the ids and compared with the snapshot's, is all that ties them.   *)
(*                                                                         *)
(* A query is its set of grams.  Selection, scores and the order of the    *)
(* results are left out: a candidate is a segment that shares a gram with  *)
(* the query, with the grams its postings say it shares.                   *)
(***************************************************************************)
EXTENDS WriterLease

CONSTANTS
  Readers,            (* searches that run at the same time                *)
  NoSearch

ASSUME NoSearchIsNoText == NoSearch \notin Texts

VARIABLE search       (* search[r]: where the search of a reader is        *)

searchVars == <<vars, search>>

-----------------------------------------------------------------------------

(* ids and gen are what resolve_terms returned, snap the pinned snapshot,  *)
(* cands[s] the query grams whose posting there holds segment s.  quiet is *)
(* kept for the properties only: no commit was being merged when the terms *)
(* were resolved, and none has followed.                                   *)
SearchInit == Init /\ search = [r \in Readers |-> NoSearch]

At(r, step) == search[r] # NoSearch /\ search[r].step = step

Becomes(r, rec) == search' = [search EXCEPT ![r] = rec] /\ UNCHANGED vars

(* A caller asks; check_poisoned comes first.                              *)
Ask(r, q) ==
  /\ search[r] = NoSearch
  /\ Becomes(r, [step |-> "asked", q |-> q])

CheckNotPoisoned(r) ==
  /\ At(r, "asked")
  /\ Becomes(r, IF poisoned THEN NoSearch
                ELSE [step |-> "unpinned", q |-> search[r].q])

(* Dictionary::resolve_terms, under one read lock.                         *)
ResolveTerms(r) ==
  /\ At(r, "unpinned")
  /\ Becomes(r, [step |-> "resolved", q |-> search[r].q,
                 ids |-> Restrict(mem.map, search[r].q), gen |-> mem.gen,
                 quiet |-> \A p \in Threads : pc[p] # "merging"])

(* What a step of the writer does to the searches: nothing, but a commit   *)
(* between the two reads of one is noted.                                  *)
Overtaken ==
  search' = [r \in Readers |->
    IF At(r, "resolved") /\ disk' # disk
    THEN [search[r] EXCEPT !.quiet = FALSE] ELSE search[r]]

Matched(q, ids, db, s) ==
  {g \in q : ids[g] # NoTerm /\ s \in Effective(db.post, ids[g])}

(* Faulty: the generations are not compared.                               *)
PinUnchecked(r) ==
  LET me   == search[r]
      m(s) == Matched(me.q, me.ids, disk, s)
  IN /\ At(r, "resolved")
     /\ Becomes(r,
          [step |-> "pinned", q |-> me.q, snap |-> disk,
           cands |-> [s \in {x \in SegId : m(x) # {}} |-> m(s)],
           quiet |-> me.quiet])

(* The first read of the read transaction: it pins the snapshot, and a     *)
(* generation skew ends the search with Error::Busy.  The postings are     *)
(* read from the snapshot right after.                                     *)
Pin(r) ==
  LET me   == search[r]
      m(s) == Matched(me.q, me.ids, disk, s)
  IN /\ At(r, "resolved")
     /\ Becomes(r,
          IF disk.gen # me.gen THEN [step |-> "busy", q |-> me.q]
          ELSE [step |-> "pinned", q |-> me.q, snap |-> disk,
                cands |-> [s \in {x \in SegId : m(x) # {}} |-> m(s)],
                quiet |-> me.quiet])

(* Error::Busy tells the caller to retry on a fresh reader.                *)
Retry(r) ==
  /\ At(r, "busy")
  /\ Becomes(r, [step |-> "asked", q |-> search[r].q])

(* Provenance and hydration, later, of the candidates kept: by segment id, *)
(* from the pinned snapshot; an id without a row hydrates to no text.      *)
RowsOf(db, S) == [s \in S |-> IF s \in DOMAIN db.segs.row
                              THEN db.segs.row[s].txt ELSE NoSearch]

(* Faulty: hydration on a connection of its own.                           *)
HydrateFromDisk(r) ==
  /\ At(r, "pinned")
  /\ Becomes(r, [step |-> "answered", q |-> search[r].q,
                 cands |-> search[r].cands,
                 texts |-> RowsOf(disk, DOMAIN search[r].cands)])

Hydrate(r) ==
  /\ At(r, "pinned")
  /\ Becomes(r, [step |-> "answered", q |-> search[r].q,
                 cands |-> search[r].cands,
                 texts |-> RowsOf(search[r].snap, DOMAIN search[r].cands)])

(* The results are handed over, or the stream is dropped.                  *)
Close(r) ==
  /\ At(r, "pinned") \/ At(r, "answered")
  /\ Becomes(r, NoSearch)

Search(r) ==
  \/ CheckNotPoisoned(r)
  \/ ResolveTerms(r)
  \/ Pin(r)
  \/ Retry(r)

SearchNext ==
  \/ \E p \in Threads : (Lease(p) \/ Maintenance(p)) /\ Overtaken
  \/ CrashAndOpen /\ search' = [r \in Readers |-> NoSearch]
  \/ \E r \in Readers :
       \/ \E q \in SUBSET Grams \ {{}} : Ask(r, q)
       \/ Search(r)
       \/ Hydrate(r)
       \/ Close(r)

SearchSpec == SearchInit /\ [][SearchNext]_searchVars

(* A search that was begun runs and is retried, and a rebuild whose swap   *)
(* committed reloads the dictionary: plain code on a running thread.  That *)
(* a caller asks, writes, commits or lets go is never assumed.             *)
FairSearchSpec ==
  /\ SearchSpec
  /\ \A r \in Readers : WF_searchVars(Search(r))
  /\ \A p \in Threads : WF_searchVars((ReloadSucceeds(p) \/ ReloadFails(p)) /\ UNCHANGED search)

-----------------------------------------------------------------------------
(* Properties.                                                             *)

Pinned(r) == At(r, "pinned")

(* A search never mis-routes: whatever rebuild, commit or failed reload    *)
(* came between resolving and pinning, a gram is only ever counted for a   *)
(* segment whose text has it.                                              *)
NeverMisroutes ==
  \A r \in Readers : Pinned(r) =>
    \A s \in DOMAIN search[r].cands :
      /\ s \in DOMAIN search[r].snap.segs.row
      /\ search[r].cands[s] \subseteq GramsOf[search[r].snap.segs.row[s].txt]

TrueMatches(q, db) ==
  LET m(s) == q \cap GramsOf[db.segs.row[s].txt]
  IN [s \in {x \in DOMAIN db.segs.row : m(x) # {}} |-> m(s)]

(* A search that no commit overtook between its two reads, and that did    *)
(* not resolve between a COMMIT and the merge that follows it, finds every *)
(* matching segment with every gram it shares: what commit() acknowledged  *)
(* is seen, in and out of rebuilds, compactions and rolled-back tails.     *)
QuietSearchExact ==
  \A r \in Readers : Pinned(r) /\ search[r].quiet =>
    search[r].cands = TrueMatches(search[r].q, search[r].snap)

(* Hydration is of the same index state as the candidates, also after a    *)
(* rebuild gave their ids to other segments: every candidate has its text, *)
(* and the text has the grams.                                             *)
HydratedTextMatches ==
  \A r \in Readers : At(r, "answered") =>
    \A s \in DOMAIN search[r].cands :
      /\ search[r].texts[s] # NoSearch
      /\ search[r].cands[s] \subseteq GramsOf[search[r].texts[s]]

(* Busy is transient: a search retried on a fresh reader pins a snapshot,  *)
(* or is refused by a poisoned index, once rebuilds stop.                  *)
SearchEnds ==
  \A r \in Readers : At(r, "asked") ~> Pinned(r) \/ search[r] = NoSearch

=============================================================================
