---------------------------- MODULE InvertedIndex ---------------------------
(***************************************************************************)
(* The stored index: segment tables, dictionary and postings under the     *)
(* operations of a writer lease, of compact and of rebuild, each one call  *)
(* and one committed step (the SAVEPOINT of every call makes it so; module *)
(* WriterLease opens it up).  The id ceilings are constants, so an index   *)
(* that runs out of ids is reached by TLC: there the call fails and leaves *)
(* everything as it was.                                                   *)
(***************************************************************************)
EXTENDS Segments

CONSTANT NoText    (* the content store's value where nothing is stored  *)

ASSUME Absent == NoText \notin Texts

VARIABLES
  segs,        (* seg and fwd rows, next_id, seg_count, seg_len_sum        *)
  post,        (* post, delta and term rows                                *)
  dict,        (* gram -> term id                                          *)
  nextTerm     (* DictInner.next_id, one past the highest id interned      *)

vars == <<segs, post, dict, nextTerm>>

(* Faulty: the mark moves by the size of the alphabet.                     *)
NextTermAfterAll(d) == nextTerm + Cardinality(Grams)

NextTermAfter(d) == nextTerm + Cardinality({g \in Grams : d[g] # dict[g]})

-----------------------------------------------------------------------------

Init ==
  /\ segs = NoSegments
  /\ post = NoPostings
  /\ dict = EmptyDict
  /\ nextTerm = 1

(* Writer::upsert: replace the named segments of key k, then insert them   *)
(* under fresh ids; one ApplyWrites carries the whole call's changes.      *)
Upsert(k, doc) ==
  LET old == FindSegments(segs, k, DOMAIN doc)
      new == AllocIds(segs, Cardinality(DOMAIN doc))
  IN /\ DOMAIN doc # {}
     /\ new \subseteq SegId
     /\ \E at \in Bijection(new, DOMAIN doc),
           d \in Interned(dict, nextTerm, UNION {GramsOf[doc[l]] : l \in DOMAIN doc}) :
          /\ segs' = InsertSegments(DropSegments(segs, old), DocRows(k, doc, at), d)
          /\ post' = ApplyWrites(post, AdditionsOf(DocRows(k, doc, at), d),
                                 RemovalsOf(segs, old))
          /\ dict' = d
          /\ nextTerm' = NextTermAfter(d)

Drop(S) ==
  /\ segs' = DropSegments(segs, S)
  /\ post' = ApplyWrites(post, NoChange, RemovalsOf(segs, S))
  /\ UNCHANGED <<dict, nextTerm>>

(* Writer::remove and Writer::remove_segment: no-ops on what is absent.    *)
Remove(k) == Drop(SegmentsOf(segs, k))

RemoveSegment(k, l) == Drop(FindSegments(segs, k, {l}))

(* Index::compact.                                                         *)
Compact ==
  /\ post' = Fold(post)
  /\ UNCHANGED <<segs, dict, nextTerm>>

(* Index::rebuild: both id spaces are reassigned from 1, in the order of   *)
(* the corpus; a document without segments leaves no row.                  *)
Rebuild(corpus) ==
  LET ids == AllocIds(NoSegments, Cardinality(FieldsOf(corpus)))
  IN /\ ids \subseteq SegId
     /\ \E at \in Bijection(ids, FieldsOf(corpus)),
           d \in Interned(EmptyDict, 1, CorpusGrams(corpus)) :
          /\ segs' = InsertSegments(NoSegments, CorpusRows(corpus, at), d)
          /\ post' = BasePostings(AdditionsOf(CorpusRows(corpus, at), d))
          /\ dict' = d
          /\ nextTerm' = 1 + Cardinality({g \in Grams : d[g] # NoTerm})

(* An open that finds drift or a desync empties the index (schema::reset). *)
Reset ==
  /\ segs' = NoSegments
  /\ post' = NoPostings
  /\ dict' = EmptyDict
  /\ nextTerm' = 1

Next ==
  \/ \E k \in Keys, doc \in Docs : Upsert(k, doc)
  \/ \E k \in Keys : Remove(k)
  \/ \E k \in Keys, l \in Labels : RemoveSegment(k, l)
  \/ Compact
  \/ \E corpus \in [Keys -> Docs] : Rebuild(corpus)
  \/ Reset

Spec == Init /\ [][Next]_vars

-----------------------------------------------------------------------------
(* What a search reads: per segment, the number of query grams whose       *)
(* effective posting holds it.                                             *)

Overlap(q, s) ==
  Cardinality({g \in q : /\ dict[g] # NoTerm
                         /\ s \in Effective(post, dict[g])})

ContentOf(sg) ==
  [f \in Keys \X Labels |->
    LET at == FindSegments(sg, f[1], {f[2]})
    IN IF at = {} THEN NoText ELSE sg.row[CHOOSE s \in at : TRUE].txt]

Store == INSTANCE SegmentStore WITH content <- ContentOf(segs)

-----------------------------------------------------------------------------
(* Properties.                                                             *)

(* Every table holds rows of its declared shape.                           *)
TypeOK ==
  /\ IsSegmentTables(segs)
  /\ post \in PostingTables
  /\ dict \in Dictionaries
  /\ nextTerm \in 1 .. MaxTermId + 1

(* However writes, deletions and folds were interleaved, the effective     *)
(* posting of a term is exactly the set of segments whose forward row      *)
(* names it: no delta is lost, applied twice or resurrected by a fold.     *)
PostingsMatchForward ==
  \A t \in TermId : Effective(post, t) = {s \in SegId : t \in segs.fwd[s]}

(* The stored df, only ever moved by differences, is the cardinality of    *)
(* the effective posting (the TermWrite contract of src/postings.rs).      *)
DfExact == \A t \in TermId : post.df[t] = Cardinality(Effective(post, t))

(* A live segment's forward row is the encoding of its own text under the  *)
(* current dictionary, and a dead id has none.                             *)
ForwardDecodes ==
  \A s \in SegId :
    segs.fwd[s] = IF s \in DOMAIN segs.row
                  THEN TermsOf(dict, segs.row[s].txt) ELSE {}

(* Every id that occurs in a table, lingering in a base or a delta after   *)
(* its segment is gone included, was given out before: the next segment    *)
(* written never inherits a stale posting.                                 *)
NoStaleAlias ==
  /\ \A s \in DOMAIN segs.row : s < segs.nextId
  /\ \A t \in TermId :
       \A s \in post.base[t] \cup post.added[t] \cup post.removed[t] :
         s < segs.nextId

(* No two grams share a term id, and the ids in use lie below the mark the *)
(* next interning starts from.                                             *)
DictInjective ==
  /\ \A g, h \in Grams : dict[g] = dict[h] /\ dict[g] # NoTerm => g = h
  /\ \A g \in Grams : dict[g] < nextTerm

(* A document holds each label at most once.                               *)
FieldsUnique ==
  \A r, s \in DOMAIN segs.row :
    /\ segs.row[r].key = segs.row[s].key
    /\ segs.row[r].label = segs.row[s].label
    => r = s

(* The rolling stats in meta equal what counting the rows would give.      *)
StatsMatchRows ==
  /\ segs.count = Cardinality(DOMAIN segs.row)
  /\ segs.lenSum = SumLen(segs.row, DOMAIN segs.row)

(* A search over the postings counts for every stored segment and every    *)
(* query what the reference counts on the texts.                           *)
AnswersMatchContent ==
  \A s \in DOMAIN segs.row, q \in SUBSET Grams :
    Overlap(q, s) = Store!Overlap(q, <<segs.row[s].key, segs.row[s].label>>)

(* The detailed index implements the plain (key, label) -> text store,     *)
(* operation by operation: each call changes the content exactly as the    *)
(* store's operation of that name does, and a compaction not at all.  (The *)
(* store's Rebuild can load anything, so Store!Spec alone would say too    *)
(* little.)                                                                *)
ImplementsStore ==
  /\ Store!Init
  /\ [][/\ \A k \in Keys, doc \in Docs : Upsert(k, doc) => Store!Upsert(k, doc)
        /\ \A k \in Keys : Remove(k) => Store!Remove(k)
        /\ \A k \in Keys, l \in Labels :
             RemoveSegment(k, l) => Store!RemoveSegment(k, l)
        /\ \A corpus \in [Keys -> Docs] : Rebuild(corpus) => Store!Rebuild(corpus)
        /\ Reset => Store!Reset
        /\ Compact => UNCHANGED ContentOf(segs)]_vars

(* A fold changes no answer: every effective posting and every df is what  *)
(* it was, though base and delta are rewritten.                            *)
CompactKeepsAnswers ==
  [][Compact => \A t \in TermId : /\ Effective(post', t) = Effective(post, t)
                                  /\ post'.df[t] = post.df[t]]_vars

=============================================================================
