------------------------- MODULE InvertedIndexProofs ------------------------
(***************************************************************************)
(* Theorems of InvertedIndex for every corpus, every tokenizer and every   *)
(* id ceiling.  First the tables: postings, frequencies, forward rows and  *)
(* ids.  Then the index as a store: no two grams share a term id, a        *)
(* document holds a label at most once, the stats count the rows, every    *)
(* search counts what the texts say, and each operation changes the        *)
(* content exactly as the plain store of module SegmentStore does.  Last   *)
(* Lifecycle, for any configs and schemas: what an open session finds and  *)
(* serves, whatever stamps were lost and however far the id mark was set   *)
(* back while the file was closed.                                         *)
(***************************************************************************)
EXTENDS Lifecycle, SegmentsProofs

(* The inductive invariant, in three parts: what holds of the tables       *)
(* whatever the id mark is, and the two halves of NoStaleAlias.            *)
(* PostingsMatchForward is not inductive alone: an additions set is        *)
(* disjoint from the postings only because the fresh ids lie above every   *)
(* row, and a later interning leaves old rows decodable only because they  *)
(* name no missing term.                                                   *)
TablesAgree ==
  /\ TypeOK
  /\ PostingsMatchForward
  /\ DfExact
  /\ ForwardDecodes

RowsBelow == \A s \in DOMAIN segs.row : s < segs.nextId

PostingsBelow ==
  \A t \in TermId :
    \A s \in post.base[t] \cup post.added[t] \cup post.removed[t] : s < segs.nextId

IndexInv == TablesAgree /\ RowsBelow /\ PostingsBelow

-----------------------------------------------------------------------------
(* Consequences of the invariant.                                          *)

LEMMA InvForwardLive ==
  ASSUME ForwardDecodes
  PROVE  ForwardLive(segs)
BY DEF ForwardDecodes, ForwardLive

LEMMA InvHolders ==
  ASSUME PostingsMatchForward, NEW t \in TermId
  PROVE  Effective(post, t) = Holders(segs, t)
BY DEF PostingsMatchForward, Holders

(* The grams of a live text are all interned. *)
LEMMA LiveTextInterned ==
  ASSUME TypeOK, ForwardDecodes, NEW s \in DOMAIN segs.row
  PROVE  /\ segs.row[s].txt \in Texts
         /\ \A g \in GramsOf[segs.row[s].txt] : g \in Grams /\ dict[g] \in TermId
<1>1. s \in SegId /\ segs.row[s].txt \in Texts
  BY DEF TypeOK, IsSegmentTables, Row
<1>2. segs.fwd[s] = TermsOf(dict, segs.row[s].txt)
  BY <1>1 DEF ForwardDecodes
<1>3. segs.fwd[s] \in SUBSET TermId
  BY <1>1 DEF TypeOK, IsSegmentTables
<1>4. GramsOf[segs.row[s].txt] \in SUBSET Grams
  BY <1>1, Tokenizer
<1> QED
  BY <1>1, <1>2, <1>3, <1>4 DEF TermsOf

-----------------------------------------------------------------------------
(* One write: the segments of old go, those of rows come, under the        *)
(* dictionary d.  Every writing action is an instance of it.               *)

LEMMA WritePreservesInv ==
  ASSUME TablesAgree, RowsBelow,
         NEW old \in SUBSET DOMAIN segs.row,
         NEW n \in Nat, NEW rows, NEW d \in Dictionaries,
         DOMAIN rows = AllocIds(segs, n), IsRows(rows, d),
         \A g \in Grams : dict[g] # NoTerm => d[g] = dict[g],
         segs' = InsertSegments(DropSegments(segs, old), rows, d),
         post' = ApplyWrites(post, AdditionsOf(rows, d), RemovalsOf(segs, old)),
         dict' = d,
         nextTerm' \in 1 .. MaxTermId + 1
  PROVE  /\ TablesAgree' /\ RowsBelow'
         /\ PostingsBelow => PostingsBelow'
<1> DEFINE mid == DropSegments(segs, old)
           add == AdditionsOf(rows, d)
           rem == RemovalsOf(segs, old)
<1>1. IsSegmentTables(segs) /\ ForwardLive(segs) /\ post \in PostingTables
  BY InvForwardLive DEF TablesAgree, TypeOK
<1>2. IsSegmentTables(mid) /\ ForwardLive(mid) /\ mid.nextId = segs.nextId
  BY <1>1, DropSegmentsType, DropSegmentsHolders DEF DropSegments
<1>3. DOMAIN rows = AllocIds(mid, n)
  BY <1>2 DEF AllocIds
<1>4. add \in TermChange /\ rem \in TermChange
  BY <1>1, AdditionsOfType, RemovalsOfType
<1>5. IsSegmentTables(segs') /\ segs'.nextId = segs.nextId + n
  BY <1>2, <1>3, InsertSegmentsType
<1>6. ForwardLive(segs')
  BY <1>2, InsertSegmentsHolders
<1>7. segs.nextId \in Nat
  BY <1>1, IdCeilings DEF IsSegmentTables
<1>8. ASSUME NEW t \in TermId
      PROVE  /\ rem[t] \subseteq Effective(post, t)
             /\ DOMAIN rows \cap Effective(post, t) = {}
             /\ add[t] \subseteq DOMAIN rows
             /\ Holders(segs', t) = (Effective(post, t) \ rem[t]) \cup add[t]
  <2>1. Effective(post, t) = Holders(segs, t)
    BY InvHolders DEF TablesAgree
  <2>2. rem[t] \subseteq Effective(post, t)
    BY <1>1, <2>1, RemovalsOfType
  <2>3. \A s \in Effective(post, t) : s < segs.nextId
    BY <1>1, <2>1 DEF RowsBelow, Holders, ForwardLive
  <2>4. \A s \in DOMAIN rows : s >= segs.nextId /\ s \in Nat
    BY <1>7 DEF AllocIds
  <2>5. DOMAIN rows \cap Effective(post, t) = {}
    <3>1. SUFFICES ASSUME NEW s \in DOMAIN rows \cap Effective(post, t) PROVE FALSE
      OBVIOUS
    <3>2. s < segs.nextId /\ s >= segs.nextId /\ s \in Nat
      BY <2>3, <2>4
    <3> QED
      BY <3>2, <1>7
  <2>6. add[t] \subseteq DOMAIN rows
    BY DEF AdditionsOf
  <2>7. Holders(mid, t) = Effective(post, t) \ rem[t]
    BY <1>1, <2>1, DropSegmentsHolders
  <2>8. Holders(segs', t) = (Holders(mid, t) \ DOMAIN rows) \cup add[t]
    BY <1>2, InsertSegmentsHolders
  <2> HIDE DEF mid, add, rem
  <2> QED
    BY <2>2, <2>5, <2>6, <2>7, <2>8
<1>9. post' \in PostingTables
  BY <1>1, <1>4, ApplyWritesType
<1>10. TypeOK'
  BY <1>5, <1>9 DEF TypeOK
<1>11. PostingsMatchForward'
  <2>1. ASSUME NEW t \in TermId
        PROVE  Effective(post', t) = Holders(segs', t)
    <3>1. Effective(post', t) = (Effective(post, t) \ rem[t]) \cup add[t]
      BY <1>1, <1>4, ApplyWritesEffective
    <3> QED
      BY <3>1, <1>8
  <2> QED
    BY <2>1 DEF PostingsMatchForward, Holders
<1>12. DfExact'
  <2>1. Exact(post)
    BY DEF TablesAgree, DfExact, Exact
  <2>2. \A t \in TermId : /\ rem[t] \subseteq Effective(post, t)
                          /\ add[t] \cap Effective(post, t) = {}
    BY <1>8
  <2>3. Exact(post')
    BY <1>1, <1>4, <2>1, <2>2, ApplyWritesExact
  <2> QED
    BY <2>3 DEF DfExact, Exact
<1>13. ForwardDecodes'
  <2>1. SUFFICES ASSUME NEW s \in SegId, s \in DOMAIN segs'.row
                 PROVE  segs'.fwd[s] = TermsOf(d, segs'.row[s].txt)
    BY <1>6 DEF ForwardDecodes, ForwardLive
  <2>2. /\ segs'.row = [r \in DOMAIN mid.row \cup DOMAIN rows |->
                         IF r \in DOMAIN rows THEN rows[r] ELSE mid.row[r]]
        /\ segs'.fwd = [r \in SegId |-> IF r \in DOMAIN rows
                                        THEN TermsOf(d, rows[r].txt)
                                        ELSE mid.fwd[r]]
    BY DEF InsertSegments
  <2>3. /\ mid.row = [r \in DOMAIN segs.row \ old |-> segs.row[r]]
        /\ mid.fwd = [r \in SegId |-> IF r \in old THEN {} ELSE segs.fwd[r]]
    BY DEF DropSegments, Restrict
  <2>4. CASE s \in DOMAIN rows
    BY <2>2, <2>4
  <2>5. CASE s \notin DOMAIN rows
    <3> HIDE DEF mid
    <3>1. s \in DOMAIN segs.row \ old
      BY <2>1, <2>2, <2>3, <2>5
    <3>2. segs'.row[s] = segs.row[s] /\ segs'.fwd[s] = segs.fwd[s]
      BY <2>1, <2>2, <2>3, <2>5, <3>1
    <3>3. segs.fwd[s] = TermsOf(dict, segs.row[s].txt)
      BY <3>1 DEF TablesAgree, ForwardDecodes
    <3>4. \A g \in GramsOf[segs.row[s].txt] : g \in Grams /\ dict[g] \in TermId
      BY <3>1, LiveTextInterned DEF TablesAgree
    <3>5. NoTerm \notin TermId
      BY IdCeilings DEF NoTerm, TermId
    <3>6. \A g \in GramsOf[segs.row[s].txt] : d[g] = dict[g]
      BY <3>4, <3>5
    <3>7. TermsOf(d, segs.row[s].txt) = TermsOf(dict, segs.row[s].txt)
      BY <3>6 DEF TermsOf
    <3> QED
      BY <3>2, <3>3, <3>7
  <2> QED
    BY <2>4, <2>5
<1>14. \A s \in DOMAIN rows : s < segs.nextId + n
  BY <1>7 DEF AllocIds
<1>15. RowsBelow'
  <2> SUFFICES ASSUME NEW s \in DOMAIN segs'.row PROVE s < segs'.nextId
    BY DEF RowsBelow
  <2>1. s \in DOMAIN segs.row \cup DOMAIN rows
    BY DEF InsertSegments, DropSegments, Restrict
  <2>2. CASE s \in DOMAIN rows
    BY <2>2, <1>14, <1>5
  <2>3. CASE s \in DOMAIN segs.row
    <3>1. s < segs.nextId /\ s \in Int
      BY <2>3, <1>1 DEF RowsBelow, IsSegmentTables, SegId
    <3> QED
      BY <3>1, <1>5, <1>7
  <2> QED
    BY <2>1, <2>2, <2>3
<1>16. ASSUME PostingsBelow PROVE PostingsBelow'
  <2> SUFFICES ASSUME NEW t \in TermId,
                      NEW s \in post'.base[t] \cup post'.added[t] \cup post'.removed[t]
               PROVE  s < segs'.nextId
    BY DEF PostingsBelow
  <2>1. s \in post.base[t] \cup post.added[t] \cup post.removed[t]
              \cup rem[t] \cup add[t]
    BY DEF ApplyWrites
  <2>2. CASE s \in add[t]
    BY <2>2, <1>8, <1>14, <1>5
  <2>3. CASE s \in post.base[t] \cup post.added[t] \cup post.removed[t] \cup rem[t]
    <3>1. rem[t] \subseteq post.base[t] \cup post.added[t]
      BY <1>8 DEF Effective
    <3>2. s < segs.nextId
      BY <1>16, <2>3, <3>1 DEF PostingsBelow
    <3>3. s \in Int
      BY <2>3, <3>1, <1>1 DEF PostingTables, TermChange, SegId
    <3> QED
      BY <3>2, <3>3, <1>5, <1>7
  <2> QED
    BY <2>1, <2>2, <2>3
<1> QED
  BY <1>10, <1>11, <1>12, <1>13, <1>15, <1>16 DEF TablesAgree

-----------------------------------------------------------------------------
(* Removing documents and segments.                                        *)

LEMMA DropPreservesInv ==
  ASSUME TablesAgree, RowsBelow, NEW S \in SUBSET DOMAIN segs.row, Drop(S)
  PROVE  /\ TablesAgree' /\ RowsBelow'
         /\ PostingsBelow => PostingsBelow'
<1> DEFINE rem == RemovalsOf(segs, S)
<1>1. IsSegmentTables(segs) /\ ForwardLive(segs) /\ post \in PostingTables
  BY InvForwardLive DEF TablesAgree, TypeOK
<1>2. /\ segs' = DropSegments(segs, S)
      /\ post' = ApplyWrites(post, NoChange, rem)
      /\ dict' = dict /\ nextTerm' = nextTerm
  BY DEF Drop
<1>3. IsSegmentTables(segs') /\ ForwardLive(segs')
  BY <1>1, <1>2, DropSegmentsType, DropSegmentsHolders
<1>4. rem \in TermChange /\ NoChange \in TermChange
  BY <1>1, RemovalsOfType, NoChangeType
<1>5. /\ segs'.row = [r \in DOMAIN segs.row \ S |-> segs.row[r]]
      /\ segs'.fwd = [r \in SegId |-> IF r \in S THEN {} ELSE segs.fwd[r]]
      /\ segs'.nextId = segs.nextId
  BY <1>2 DEF DropSegments, Restrict
<1>6. ASSUME NEW t \in TermId
      PROVE  /\ rem[t] \subseteq Effective(post, t)
             /\ Holders(segs', t) = Effective(post, t) \ rem[t]
  <2>1. Effective(post, t) = Holders(segs, t)
    BY InvHolders DEF TablesAgree
  <2>2. rem[t] \subseteq Effective(post, t)
    BY <1>1, <2>1, RemovalsOfType
  <2>3. Holders(segs', t) = Holders(segs, t) \ rem[t]
    BY <1>1, <1>2, DropSegmentsHolders
  <2> QED
    BY <2>1, <2>2, <2>3
<1>7. TypeOK'
  BY <1>1, <1>2, <1>3, <1>4, ApplyWritesType DEF TablesAgree, TypeOK
<1>8. PostingsMatchForward'
  <2>1. ASSUME NEW t \in TermId
        PROVE  Effective(post', t) = Holders(segs', t)
    <3>1. Effective(post', t) = (Effective(post, t) \ rem[t]) \cup NoChange[t]
      BY <1>1, <1>2, <1>4, ApplyWritesEffective
    <3>2. NoChange[t] = {}
      BY DEF NoChange
    <3> QED
      BY <3>1, <3>2, <1>6
  <2> QED
    BY <2>1 DEF PostingsMatchForward, Holders
<1>9. DfExact'
  <2>1. Exact(post)
    BY DEF TablesAgree, DfExact, Exact
  <2>2. \A t \in TermId : /\ rem[t] \subseteq Effective(post, t)
                          /\ NoChange[t] \cap Effective(post, t) = {}
    BY <1>6 DEF NoChange
  <2>3. Exact(post')
    BY <1>1, <1>2, <1>4, <2>1, <2>2, ApplyWritesExact
  <2> QED
    BY <2>3 DEF DfExact, Exact
<1>10. ForwardDecodes'
  BY <1>2, <1>5 DEF TablesAgree, ForwardDecodes
<1>11. RowsBelow'
  BY <1>5 DEF RowsBelow
<1>12. ASSUME PostingsBelow PROVE PostingsBelow'
  <2> SUFFICES ASSUME NEW t \in TermId,
                      NEW s \in post'.base[t] \cup post'.added[t] \cup post'.removed[t]
               PROVE  s < segs'.nextId
    BY DEF PostingsBelow
  <2>1. s \in post.base[t] \cup post.added[t] \cup post.removed[t] \cup rem[t]
    BY <1>2 DEF ApplyWrites, NoChange
  <2>2. rem[t] \subseteq post.base[t] \cup post.added[t]
    BY <1>6 DEF Effective
  <2> QED
    BY <1>12, <2>1, <2>2, <1>5 DEF PostingsBelow
<1> QED
  BY <1>7, <1>8, <1>9, <1>10, <1>11, <1>12 DEF TablesAgree

-----------------------------------------------------------------------------
(* The initial state and a reset.                                          *)

LEMMA EmptyInv ==
  ASSUME segs = NoSegments, post = NoPostings, dict = EmptyDict, nextTerm = 1
  PROVE  IndexInv
<1>1. TypeOK
  BY NoSegmentsType, NoPostingsType, EmptyDictType, IdCeilings DEF TypeOK
<1>2. PostingsMatchForward
  BY NoSegmentsType, NoPostingsEffective DEF PostingsMatchForward, Holders
<1>3. DfExact
  BY NoPostingsEffective, FS_EmptySet DEF DfExact
<1>4. ForwardDecodes
  BY DEF ForwardDecodes, NoSegments
<1>5. RowsBelow /\ PostingsBelow
  BY DEF RowsBelow, PostingsBelow, NoSegments, NoPostings, NoChange
<1> QED
  BY <1>1, <1>2, <1>3, <1>4, <1>5 DEF IndexInv, TablesAgree

-----------------------------------------------------------------------------
(* Compaction.                                                             *)

LEMMA CompactPreservesInv ==
  ASSUME TablesAgree, RowsBelow, Compact
  PROVE  /\ TablesAgree' /\ RowsBelow'
         /\ PostingsBelow => PostingsBelow'
<1>1. /\ post' = Fold(post) /\ segs' = segs /\ dict' = dict /\ nextTerm' = nextTerm
      /\ post \in PostingTables
  BY DEF Compact, TablesAgree, TypeOK
<1>2. Exact(post)
  BY DEF TablesAgree, DfExact, Exact
<1>3. TypeOK'
  BY <1>1, FoldType DEF TablesAgree, TypeOK
<1>4. PostingsMatchForward'
  BY <1>1, FoldEffective DEF TablesAgree, PostingsMatchForward
<1>5. DfExact'
  BY <1>1, <1>2, FoldExact DEF DfExact, Exact
<1>6. ForwardDecodes'
  BY <1>1 DEF TablesAgree, ForwardDecodes
<1>7. RowsBelow'
  BY <1>1 DEF RowsBelow
<1>8. PostingsBelow => PostingsBelow'
  BY <1>1 DEF PostingsBelow, Fold, Effective, NoChange
<1> QED
  BY <1>3, <1>4, <1>5, <1>6, <1>7, <1>8 DEF TablesAgree

-----------------------------------------------------------------------------
(* Inserting: the rows of a document, the rows of a corpus.                *)

LEMMA GramCountNat ==
  ASSUME NEW txt \in Texts
  PROVE  GramsOf[txt] \in SUBSET Grams /\ Cardinality(GramsOf[txt]) \in Nat
BY Tokenizer, FS_Subset, FS_CardinalityType

(* The rows a document becomes are well-typed, and its grams interned.     *)
LEMMA DocRowsAre ==
  ASSUME NEW k \in Keys, NEW doc \in Docs, NEW new \in SUBSET SegId,
         NEW at \in [new -> DOMAIN doc], NEW d,
         \A g \in UNION {GramsOf[doc[l]] : l \in DOMAIN doc} : d[g] \in TermId
  PROVE  /\ DOMAIN DocRows(k, doc, at) = new
         /\ IsRows(DocRows(k, doc, at), d)
<1> DEFINE L    == DOMAIN doc
           G    == UNION {GramsOf[doc[l]] : l \in L}
           rows == DocRows(k, doc, at)
<1>1. L \in SUBSET Labels /\ doc \in [L -> Texts]
  BY DEF Docs
<1>2. /\ DOMAIN rows = new
      /\ \A s \in new : rows[s] = [key |-> k, label |-> at[s], txt |-> doc[at[s]],
                                    len |-> Cardinality(GramsOf[doc[at[s]]])]
  BY DEF DocRows
<1>3. \A s \in new : at[s] \in L /\ doc[at[s]] \in Texts
  BY <1>1
<1>4. \A s \in new : rows[s] \in Row
  BY <1>1, <1>2, <1>3, GramCountNat DEF Row
<1>5. rows \in [new -> Row]
  <2>1. rows = [s \in new |-> rows[s]]
    BY DEF DocRows
  <2> HIDE DEF rows
  <2> QED
    BY <1>4, <2>1
<1>6. \A s \in new : TermsOf(d, rows[s].txt) \in SUBSET TermId
  BY <1>2, <1>3 DEF TermsOf
<1> HIDE DEF rows
<1>7. IsRows(rows, d)
  BY <1>2, <1>5, <1>6 DEF IsRows
<1> QED
  BY <1>2, <1>7 DEF rows

LEMMA UpsertPreservesInv ==
  ASSUME TablesAgree, RowsBelow, NEW k \in Keys, NEW doc \in Docs, Upsert(k, doc)
  PROVE  /\ TablesAgree' /\ RowsBelow'
         /\ PostingsBelow => PostingsBelow'
<1> DEFINE L   == DOMAIN doc
           old == FindSegments(segs, k, L)
           n   == Cardinality(L)
           new == AllocIds(segs, n)
           G   == UNION {GramsOf[doc[l]] : l \in L}
<1>1. L \in SUBSET Labels /\ doc \in [L -> Texts]
  BY DEF Docs
<1>2. n \in Nat
  BY <1>1, Documents, FS_Subset, FS_CardinalityType
<1>3. PICK at \in Bijection(new, L), d \in Interned(dict, nextTerm, G) :
        /\ segs' = InsertSegments(DropSegments(segs, old), DocRows(k, doc, at), d)
        /\ post' = ApplyWrites(post, AdditionsOf(DocRows(k, doc, at), d),
                               RemovalsOf(segs, old))
        /\ dict' = d
        /\ nextTerm' = NextTermAfter(d)
  BY DEF Upsert
<1> DEFINE rows == DocRows(k, doc, at)
<1>4. at \in [new -> L]
  BY DEF Bijection, Injection
<1>6. new \subseteq SegId
  BY DEF Upsert
<1>7. G \in SUBSET Grams
  BY <1>1, GramCountNat
<1>8. /\ d \in Dictionaries
      /\ \A g \in G : d[g] \in TermId
      /\ \A g \in Grams : dict[g] # NoTerm => d[g] = dict[g]
      /\ nextTerm + Cardinality({g \in Grams : d[g] # dict[g]}) \in 1 .. MaxTermId + 1
  <2>1. dict \in Dictionaries /\ nextTerm \in 1 .. MaxTermId + 1
    BY DEF TablesAgree, TypeOK
  <2> HIDE DEF G
  <2> QED
    BY <1>7, <2>1, InternedProperties
<1>9. DOMAIN rows = new /\ IsRows(rows, d)
  <2> HIDE DEF new
  <2> QED
    BY <1>4, <1>6, <1>8, DocRowsAre
<1>10. old \in SUBSET DOMAIN segs.row
  BY DEF FindSegments, SegmentsOf
<1>11. nextTerm' \in 1 .. MaxTermId + 1
  BY <1>3, <1>8 DEF NextTermAfter
<1> HIDE DEF rows, old, n
<1> QED
  BY <1>2, <1>3, <1>8, <1>9, <1>10, <1>11, WritePreservesInv DEF rows

(* A rebuild starts from nothing, so the base postings are all there is.   *)
LEMMA LoadPreservesInv ==
  ASSUME NEW n \in Nat, NEW rows, NEW d \in Dictionaries,
         DOMAIN rows = AllocIds(NoSegments, n), IsRows(rows, d),
         segs' = InsertSegments(NoSegments, rows, d),
         post' = BasePostings(AdditionsOf(rows, d)),
         dict' = d,
         nextTerm' \in 1 .. MaxTermId + 1
  PROVE  IndexInv'
<1> DEFINE add == AdditionsOf(rows, d)
<1>1. add \in TermChange
  BY AdditionsOfType
<1>2. IsSegmentTables(segs') /\ segs'.nextId = 1 + n
  BY NoSegmentsType, InsertSegmentsType DEF NoSegments
<1>3. /\ ForwardLive(segs')
      /\ \A t \in TermId : Holders(segs', t) = add[t]
  BY NoSegmentsType, InsertSegmentsHolders
<1>4. \A t \in TermId : /\ Effective(post', t) = add[t]
                        /\ post'.df[t] = Cardinality(add[t])
  BY <1>1, BasePostingsEffective
<1>5. TypeOK'
  BY <1>1, <1>2, BasePostingsType DEF TypeOK
<1>6. PostingsMatchForward'
  BY <1>3, <1>4 DEF PostingsMatchForward, Holders
<1>7. DfExact'
  BY <1>4 DEF DfExact
<1>8. /\ DOMAIN segs'.row = DOMAIN rows
      /\ \A s \in DOMAIN rows : segs'.row[s] = rows[s]
      /\ \A s \in SegId : s \in DOMAIN rows => segs'.fwd[s] = TermsOf(d, rows[s].txt)
  BY DEF InsertSegments, NoSegments
<1>9. ForwardDecodes'
  BY <1>3, <1>8 DEF ForwardDecodes, ForwardLive
<1>10. \A s \in DOMAIN rows : s < segs'.nextId
  BY <1>2 DEF AllocIds, NoSegments
<1>11. RowsBelow' /\ PostingsBelow'
  BY <1>8, <1>10 DEF RowsBelow, PostingsBelow, BasePostings, NoChange, AdditionsOf
<1> QED
  BY <1>5, <1>6, <1>7, <1>9, <1>11 DEF IndexInv, TablesAgree

(* The rows a corpus becomes.                                              *)
LEMMA CorpusRowsAre ==
  ASSUME NEW corpus \in [Keys -> Docs], NEW ids \in SUBSET SegId,
         NEW at \in [ids -> FieldsOf(corpus)], NEW d,
         \A g \in CorpusGrams(corpus) : d[g] \in TermId
  PROVE  /\ DOMAIN CorpusRows(corpus, at) = ids
         /\ IsRows(CorpusRows(corpus, at), d)
<1> DEFINE fields == FieldsOf(corpus)
           txt(f) == corpus[f[1]][f[2]]
           G      == CorpusGrams(corpus)
           rows   == CorpusRows(corpus, at)
<1>1. \A f \in fields : f[1] \in Keys /\ f[2] \in Labels /\ txt(f) \in Texts
  BY DEF Docs, FieldsOf
<1>2. /\ DOMAIN at = ids
      /\ \A s \in ids : at[s] \in fields /\ txt(at[s]) \in Texts
  BY <1>1
<1>3. rows \in [ids -> Row] /\ \A s \in ids : rows[s].txt = txt(at[s])
  BY <1>1, <1>2, GramCountNat DEF CorpusRows, Row
<1>4. \A s \in ids : TermsOf(d, rows[s].txt) \in SUBSET TermId
  <2> SUFFICES ASSUME NEW s \in ids
               PROVE  TermsOf(d, rows[s].txt) \in SUBSET TermId
    OBVIOUS
  <2>1. GramsOf[txt(at[s])] \subseteq G
    BY <1>2 DEF CorpusGrams
  <2>2. TermsOf(d, rows[s].txt) = {d[g] : g \in GramsOf[txt(at[s])]}
    BY <1>3 DEF TermsOf
  <2> QED
    BY <2>1, <2>2
<1> HIDE DEF rows
<1>5. IsRows(rows, d) /\ DOMAIN rows = ids
  BY <1>3, <1>4 DEF IsRows
<1> QED
  BY <1>5 DEF rows

LEMMA RebuildPreservesInv ==
  ASSUME NEW corpus \in [Keys -> Docs], Rebuild(corpus)
  PROVE  IndexInv'
<1> DEFINE fields == FieldsOf(corpus)
           txt(f) == corpus[f[1]][f[2]]
           n      == Cardinality(fields)
           ids    == AllocIds(NoSegments, n)
           G      == CorpusGrams(corpus)
<1>1. \A f \in fields : f[1] \in Keys /\ f[2] \in Labels /\ txt(f) \in Texts
  BY DEF Docs, FieldsOf
<1>2. n \in Nat
  <2>1. IsFiniteSet(Keys \X Labels)
    BY Documents, FS_Product
  <2>2. fields \in SUBSET (Keys \X Labels)
    BY DEF FieldsOf
  <2> QED
    BY <2>1, <2>2, FS_Subset, FS_CardinalityType
<1>3. PICK at \in Bijection(ids, fields), d \in Interned(EmptyDict, 1, G) :
        /\ segs' = InsertSegments(NoSegments, CorpusRows(corpus, at), d)
        /\ post' = BasePostings(AdditionsOf(CorpusRows(corpus, at), d))
        /\ dict' = d
        /\ nextTerm' = 1 + Cardinality({g \in Grams : d[g] # NoTerm})
  BY DEF Rebuild
<1> DEFINE rows == CorpusRows(corpus, at)
<1>4. at \in [ids -> fields]
  BY DEF Bijection, Injection
<1>5. ids \subseteq SegId
  BY DEF Rebuild
<1>6. G \in SUBSET Grams
  BY <1>1, GramCountNat DEF CorpusGrams
<1>7. /\ d \in Dictionaries
      /\ \A g \in G : d[g] \in TermId
      /\ 1 + Cardinality({g \in Grams : d[g] # NoTerm}) \in 1 .. MaxTermId + 1
  <2>1. 1 \in 1 .. MaxTermId + 1
    BY IdCeilings
  <2> HIDE DEF G
  <2>2. /\ d \in Dictionaries
        /\ \A g \in G : d[g] \in TermId
        /\ 1 + Cardinality({g \in Grams : d[g] # EmptyDict[g]}) \in 1 .. MaxTermId + 1
    BY <1>6, <2>1, EmptyDictType, InternedProperties
  <2>3. {g \in Grams : d[g] # EmptyDict[g]} = {g \in Grams : d[g] # NoTerm}
    BY DEF EmptyDict
  <2> QED
    BY <2>2, <2>3
<1>11. IsRows(rows, d) /\ DOMAIN rows = ids
  <2> HIDE DEF ids
  <2> QED
    BY <1>4, <1>5, <1>7, CorpusRowsAre
<1>12. /\ segs' = InsertSegments(NoSegments, rows, d)
       /\ post' = BasePostings(AdditionsOf(rows, d))
       /\ dict' = d
       /\ nextTerm' \in 1 .. MaxTermId + 1
  BY <1>3, <1>7
<1> HIDE DEF rows, n
<1> QED
  BY <1>2, <1>7, <1>11, <1>12, LoadPreservesInv

-----------------------------------------------------------------------------

LEMMA NextPreservesInv == IndexInv /\ [Next]_vars => IndexInv'
<1> SUFFICES ASSUME IndexInv, [Next]_vars PROVE IndexInv'
  OBVIOUS
<1>1. ASSUME NEW k \in Keys, NEW doc \in Docs, Upsert(k, doc) PROVE IndexInv'
  BY <1>1, UpsertPreservesInv DEF IndexInv
<1>2. ASSUME NEW k \in Keys, Remove(k) PROVE IndexInv'
  BY <1>2, DropPreservesInv DEF IndexInv, Remove, SegmentsOf
<1>3. ASSUME NEW k \in Keys, NEW l \in Labels, RemoveSegment(k, l) PROVE IndexInv'
  BY <1>3, DropPreservesInv DEF IndexInv, RemoveSegment, FindSegments, SegmentsOf
<1>4. CASE Compact
  BY <1>4, CompactPreservesInv DEF IndexInv
<1>5. ASSUME NEW corpus \in [Keys -> Docs], Rebuild(corpus) PROVE IndexInv'
  BY <1>5, RebuildPreservesInv
<1>6. CASE Reset
  <2>1. (/\ segs = NoSegments /\ post = NoPostings
         /\ dict = EmptyDict /\ nextTerm = 1)'
    BY <1>6 DEF Reset
  <2> QED
    BY <2>1, EmptyInv, PTL
<1>7. CASE UNCHANGED vars
  BY <1>7 DEF vars, IndexInv, TablesAgree, TypeOK, PostingsMatchForward,
              DfExact, ForwardDecodes, RowsBelow, PostingsBelow
<1> QED
  BY <1>1, <1>2, <1>3, <1>4, <1>5, <1>6, <1>7 DEF Next

(* The inductive invariant holds in every reachable state. *)
THEOREM IndexInvariant == Spec => []IndexInv
<1>1. Init => IndexInv
  BY EmptyInv DEF Init
<1> QED
  BY <1>1, NextPreservesInv, PTL DEF Spec

(* Every table keeps its declared shape, the id marks their ceilings.      *)
THEOREM TypeCorrect == Spec => []TypeOK
<1>1. IndexInv => TypeOK
  BY DEF IndexInv, TablesAgree
<1> QED
  BY <1>1, IndexInvariant, PTL

(* However upserts, removals, folds and rebuilds interleave, the effective *)
(* posting of a term is the set of segments whose forward row names it.    *)
THEOREM PostingsCorrect == Spec => []PostingsMatchForward
<1>1. IndexInv => PostingsMatchForward
  BY DEF IndexInv, TablesAgree
<1> QED
  BY <1>1, IndexInvariant, PTL

(* The df maintained by differences is the size of the effective posting.  *)
THEOREM DfCorrect == Spec => []DfExact
<1>1. IndexInv => DfExact
  BY DEF IndexInv, TablesAgree
<1> QED
  BY <1>1, IndexInvariant, PTL

(* No stored id reaches the id mark: fresh ids never alias stale ones.     *)
THEOREM IdsNeverAlias == Spec => []NoStaleAlias
<1>1. IndexInv => NoStaleAlias
  BY DEF IndexInv, RowsBelow, PostingsBelow, NoStaleAlias
<1> QED
  BY <1>1, IndexInvariant, PTL

(* Every forward row is the encoding of its own segment's text.            *)
THEOREM ForwardCorrect == Spec => []ForwardDecodes
<1>1. IndexInv => ForwardDecodes
  BY DEF IndexInv, TablesAgree
<1> QED
  BY <1>1, IndexInvariant, PTL

(* A compaction step changes no effective posting and no frequency.        *)
THEOREM CompactionKeepsAnswers == Spec => CompactKeepsAnswers
<1>1. IndexInv /\ [Next]_vars =>
        [Compact => \A t \in TermId : /\ Effective(post', t) = Effective(post, t)
                                      /\ post'.df[t] = post.df[t]]_vars
  <2> SUFFICES ASSUME IndexInv, Compact, NEW t \in TermId
               PROVE  /\ Effective(post', t) = Effective(post, t)
                      /\ post'.df[t] = post.df[t]
    OBVIOUS
  <2>1. post' = Fold(post) /\ post \in PostingTables /\ Exact(post)
    BY DEF Compact, IndexInv, TablesAgree, TypeOK, DfExact, Exact
  <2> QED
    BY <2>1, FoldEffective, FoldKeepsDf
<1> QED
  BY <1>1, IndexInvariant, PTL DEF Spec, CompactKeepsAnswers

-----------------------------------------------------------------------------
(* The index as a store.                                                   *)

(* FieldsUnique, of any tables.                                            *)
Unique(sg) ==
  \A r, s \in DOMAIN sg.row :
    /\ sg.row[r].key = sg.row[s].key
    /\ sg.row[r].label = sg.row[s].label
    => r = s

(* The inductive invariant.  TablesAgree is needed for the types of rows   *)
(* and dictionaries; the rows lie below the mark, so that fresh segment    *)
(* ids are nobody's; the term mark counts the interned grams, which a load *)
(* of the dictionary relies on.                                            *)
ContentInv ==
  /\ TablesAgree
  /\ RowsBelow
  /\ DictInjective
  /\ FieldsUnique
  /\ Dense(dict, nextTerm)

LEMMA InvParts ==
  ASSUME ContentInv
  PROVE  /\ IsSegmentTables(segs)
         /\ dict \in Dictionaries
         /\ nextTerm \in 1 .. MaxTermId + 1
         /\ Distinct(dict, nextTerm)
         /\ Dense(dict, nextTerm)
         /\ Unique(segs)
BY DEF ContentInv, TablesAgree, TypeOK, DictInjective, Distinct, FieldsUnique, Unique

-----------------------------------------------------------------------------
(* Content of tables with one row per field.                               *)

(* Row s holds the segment of key k and label l; its text.                 *)
At(sg, s, k, l) ==
  /\ s \in DOMAIN sg.row
  /\ sg.row[s].key = k
  /\ sg.row[s].label = l

TextAt(sg, s) == sg.row[s].txt

(* The value of the content at one field, the field's parts named.         *)
LEMMA ContentValue ==
  ASSUME NEW sg, NEW k, NEW l, k \in Keys, l \in Labels
  PROVE  \/ /\ \A s : ~At(sg, s, k, l)
            /\ ContentOf(sg)[<<k, l>>] = NoText
         \/ \E s : /\ At(sg, s, k, l)
                   /\ ContentOf(sg)[<<k, l>>] = TextAt(sg, s)
<1> DEFINE f == <<k, l>>
           at == FindSegments(sg, k, {l})
<1>1. f \in Keys \X Labels /\ f[1] = k /\ f[2] = l
  OBVIOUS
<1>2. ContentOf(sg)[f] = IF FindSegments(sg, f[1], {f[2]}) = {} THEN NoText
                         ELSE sg.row[CHOOSE s \in FindSegments(sg, f[1], {f[2]}) : TRUE].txt
  <2> HIDE DEF f
  <2> QED
    BY <1>1, Zenon DEF ContentOf
<1>3. ContentOf(sg)[f] = IF at = {} THEN NoText ELSE TextAt(sg, CHOOSE s \in at : TRUE)
  BY <1>1, <1>2, Zenon DEF TextAt
<1>4. \A s : s \in at <=> At(sg, s, k, l)
  BY DEF FindSegments, SegmentsOf, At
<1>5. CASE at = {}
  <2>1. ContentOf(sg)[f] = NoText
    BY <1>3, <1>5, Zenon
  <2> HIDE DEF f, at
  <2> QED
    BY <1>4, <1>5, <2>1 DEF f
<1>6. CASE at # {}
  <2>1. PICK s : s = CHOOSE r \in at : TRUE
    OBVIOUS
  <2>2. s \in at
    BY <1>6, <2>1, Zenon
  <2>3. ContentOf(sg)[f] = TextAt(sg, s)
    BY <1>3, <1>6, <2>1, Zenon
  <2> HIDE DEF f, at
  <2> QED
    BY <1>4, <2>2, <2>3 DEF f
<1> QED
  BY <1>5, <1>6

(* What the content says of one field.                                     *)
LEMMA ContentAt ==
  ASSUME NEW sg, Unique(sg), NEW k, NEW l, k \in Keys, l \in Labels
  PROVE  /\ \A s : At(sg, s, k, l) => ContentOf(sg)[<<k, l>>] = TextAt(sg, s)
         /\ (\A s : ~At(sg, s, k, l)) => ContentOf(sg)[<<k, l>>] = NoText
<1>1. \A r, s : At(sg, r, k, l) /\ At(sg, s, k, l) => r = s
  BY DEF Unique, At
<1>2. \/ /\ \A s : ~At(sg, s, k, l)
         /\ ContentOf(sg)[<<k, l>>] = NoText
      \/ \E s : /\ At(sg, s, k, l)
                /\ ContentOf(sg)[<<k, l>>] = TextAt(sg, s)
  BY ContentValue
<1> QED
  BY <1>1, <1>2

(* Function c over the fields says what the rows of sg say.                *)
Describes(c, sg) ==
  /\ c = [f \in Keys \X Labels |-> c[f]]
  /\ \A k \in Keys, l \in Labels :
       /\ \A s : At(sg, s, k, l) => c[<<k, l>>] = TextAt(sg, s)
       /\ (\A s : ~At(sg, s, k, l)) => c[<<k, l>>] = NoText

LEMMA ContentIs ==
  ASSUME NEW sg, Unique(sg), NEW c, Describes(c, sg)
  PROVE  ContentOf(sg) = c
<1>1. ASSUME NEW k \in Keys, NEW l \in Labels
      PROVE  ContentOf(sg)[<<k, l>>] = c[<<k, l>>]
  <2>1. k \in Keys /\ l \in Labels
    OBVIOUS
  <2>2. /\ \A s : At(sg, s, k, l) => ContentOf(sg)[<<k, l>>] = TextAt(sg, s)
        /\ (\A s : ~At(sg, s, k, l)) => ContentOf(sg)[<<k, l>>] = NoText
    BY <2>1, ContentAt
  <2> QED
    BY <2>1, <2>2 DEF Describes
<1>2. ContentOf(sg) = [f \in Keys \X Labels |-> ContentOf(sg)[f]]
  BY DEF ContentOf
<1>3. \A f \in Keys \X Labels : ContentOf(sg)[f] = c[f]
  BY <1>1
<1> QED
  BY <1>2, <1>3 DEF Describes

-----------------------------------------------------------------------------
(* The rows that a drop and an insert leave.                               *)

LEMMA UniqueAt ==
  ASSUME NEW sg
  PROVE  Unique(sg) <=> \A r, s, k, l : At(sg, r, k, l) /\ At(sg, s, k, l) => r = s
BY DEF Unique, At

LEMMA AtDrop ==
  ASSUME NEW sg, NEW S
  PROVE  /\ \A s, k, l : At(DropSegments(sg, S), s, k, l) <=> At(sg, s, k, l) /\ s \notin S
         /\ \A s, k, l : At(DropSegments(sg, S), s, k, l)
                           => TextAt(DropSegments(sg, S), s) = TextAt(sg, s)
<1> DEFINE q == DropSegments(sg, S)
<1>1. q.row = [s \in DOMAIN sg.row \ S |-> sg.row[s]]
  BY DEF DropSegments, Restrict
<1> HIDE DEF q
<1>2. /\ \A s, k, l : At(q, s, k, l) <=> At(sg, s, k, l) /\ s \notin S
      /\ \A s, k, l : At(q, s, k, l) => TextAt(q, s) = TextAt(sg, s)
  BY <1>1 DEF At, TextAt
<1> QED
  BY <1>2 DEF q

(* Row s of the rows to insert is the segment of key k and label l.        *)
New(rows, s, k, l) ==
  /\ s \in DOMAIN rows
  /\ rows[s].key = k
  /\ rows[s].label = l

LEMMA AtInsert ==
  ASSUME NEW sg, NEW rows, NEW d
  PROVE  /\ \A s, k, l : At(InsertSegments(sg, rows, d), s, k, l)
                           <=> \/ New(rows, s, k, l)
                               \/ s \notin DOMAIN rows /\ At(sg, s, k, l)
         /\ \A s \in DOMAIN rows : TextAt(InsertSegments(sg, rows, d), s) = rows[s].txt
         /\ \A s, k, l : s \notin DOMAIN rows /\ At(sg, s, k, l)
                           => TextAt(InsertSegments(sg, rows, d), s) = TextAt(sg, s)
<1> DEFINE q == InsertSegments(sg, rows, d)
<1>1. q.row = [s \in DOMAIN sg.row \cup DOMAIN rows |->
                IF s \in DOMAIN rows THEN rows[s] ELSE sg.row[s]]
  BY DEF InsertSegments
<1> HIDE DEF q
<1>2. /\ \A s, k, l : At(q, s, k, l) <=> \/ New(rows, s, k, l)
                                         \/ s \notin DOMAIN rows /\ At(sg, s, k, l)
      /\ \A s \in DOMAIN rows : TextAt(q, s) = rows[s].txt
      /\ \A s, k, l : s \notin DOMAIN rows /\ At(sg, s, k, l) => TextAt(q, s) = TextAt(sg, s)
  BY <1>1 DEF At, TextAt, New
<1> QED
  BY <1>2 DEF q

(* Fresh ids are above every row.                                          *)
LEMMA FreshIds ==
  ASSUME ContentInv, NEW n, n \in Nat
  PROVE  \A s, k, l : At(segs, s, k, l) => s \notin AllocIds(segs, n)
<1>1. \A s \in DOMAIN segs.row : s < segs.nextId /\ s \in Int
  BY DEF ContentInv, TablesAgree, TypeOK, RowsBelow, IsSegmentTables, SegId
<1>2. segs.nextId \in Int
  BY IdCeilings DEF ContentInv, TablesAgree, TypeOK, IsSegmentTables
<1> QED
  BY <1>1, <1>2 DEF AllocIds, At

-----------------------------------------------------------------------------
(* Removing.                                                               *)

LEMMA DropContent ==
  ASSUME ContentInv, NEW S, S \in SUBSET DOMAIN segs.row, Drop(S)
  PROVE  /\ Unique(segs')
         /\ \A c, l \in Int : StatsOff(segs, c, l) => StatsOff(segs', c, l)
         /\ Distinct(dict', nextTerm')
         /\ Dense(dict', nextTerm')
         /\ \A s, k, l : At(segs', s, k, l) <=> At(segs, s, k, l) /\ s \notin S
         /\ \A s, k, l : At(segs', s, k, l) => TextAt(segs', s) = TextAt(segs, s)
<1>1. /\ segs' = DropSegments(segs, S)
      /\ dict' = dict /\ nextTerm' = nextTerm
  BY DEF Drop
<1>2. /\ \A s, k, l : At(segs', s, k, l) <=> At(segs, s, k, l) /\ s \notin S
      /\ \A s, k, l : At(segs', s, k, l) => TextAt(segs', s) = TextAt(segs, s)
  BY <1>1, AtDrop
<1>3. Unique(segs')
  BY <1>2, InvParts, UniqueAt
<1>4. Distinct(dict', nextTerm') /\ Dense(dict', nextTerm')
  BY <1>1, InvParts
<1>5. \A c, l \in Int : StatsOff(segs, c, l) => StatsOff(segs', c, l)
  BY <1>1, InvParts, DropStats
<1> QED
  BY <1>2, <1>3, <1>4, <1>5

(* What is left when the segments of key k under the labels of L go.       *)
Cleared(content, k, L) ==
  [f \in Keys \X Labels |-> IF f[1] = k /\ f[2] \in L THEN NoText ELSE content[f]]

LEMMA DropFields ==
  ASSUME ContentInv, NEW k0, NEW L, Drop(FindSegments(segs, k0, L))
  PROVE  ContentOf(segs') = Cleared(ContentOf(segs), k0, L)
<1> DEFINE c == Cleared(ContentOf(segs), k0, L)
           S == FindSegments(segs, k0, L)
<1>0. S \in SUBSET DOMAIN segs.row
  BY DEF FindSegments, SegmentsOf
<1>1. /\ Unique(segs')
      /\ \A s, k, l : At(segs', s, k, l) <=> At(segs, s, k, l) /\ s \notin S
      /\ \A s, k, l : At(segs', s, k, l) => TextAt(segs', s) = TextAt(segs, s)
  BY <1>0, DropContent
<1>2. \A s, k, l : At(segs', s, k, l) <=> At(segs, s, k, l) /\ ~(k = k0 /\ l \in L)
  <2>1. \A s, k, l : At(segs, s, k, l) => (s \in S <=> k = k0 /\ l \in L)
    BY DEF At, FindSegments, SegmentsOf
  <2> HIDE DEF S
  <2> QED
    BY <1>1, <2>1
<1>3. \A k \in Keys, l \in Labels :
         c[<<k, l>>] = IF k = k0 /\ l \in L THEN NoText ELSE ContentOf(segs)[<<k, l>>]
  BY DEF Cleared
<1>4. c = [f \in Keys \X Labels |-> c[f]]
  BY DEF Cleared
<1> HIDE DEF c, S
<1>5. ASSUME NEW k \in Keys, NEW l \in Labels
      PROVE  /\ \A s : At(segs', s, k, l) => c[<<k, l>>] = TextAt(segs', s)
             /\ (\A s : ~At(segs', s, k, l)) => c[<<k, l>>] = NoText
  <2>1. k \in Keys /\ l \in Labels /\ Unique(segs)
    BY InvParts
  <2>2. /\ \A s : At(segs, s, k, l) => ContentOf(segs)[<<k, l>>] = TextAt(segs, s)
        /\ (\A s : ~At(segs, s, k, l)) => ContentOf(segs)[<<k, l>>] = NoText
    BY <2>1, ContentAt
  <2> QED
    BY <1>1, <1>2, <1>3, <2>2
<1>6. Describes(c, segs')
  BY <1>4, <1>5 DEF Describes
<1>7. ContentOf(segs') = c
  BY <1>1, <1>6, ContentIs
<1> QED
  BY <1>7 DEF c

-----------------------------------------------------------------------------
(* Writing.                                                                *)

LEMMA OntoOneToOne ==
  ASSUME NEW A, NEW B, NEW at, at \in Bijection(A, B)
  PROVE  /\ at \in [A -> B]
         /\ \A r, s \in A : at[r] = at[s] => r = s
         /\ \A b \in B : \E s \in A : at[s] = b
BY DEF Bijection, Injection, Surjection, IsInjective

LEMMA UpsertContent ==
  ASSUME ContentInv, NEW k0 \in Keys, NEW doc \in Docs, Upsert(k0, doc)
  PROVE  /\ Unique(segs')
         /\ \A c, l \in Int : StatsOff(segs, c, l) => StatsOff(segs', c, l)
         /\ Distinct(dict', nextTerm')
         /\ Dense(dict', nextTerm')
         /\ ContentOf(segs') =
              [f \in Keys \X Labels |-> IF f[1] = k0 /\ f[2] \in DOMAIN doc
                                        THEN doc[f[2]] ELSE ContentOf(segs)[f]]
<1> DEFINE L   == DOMAIN doc
           old == FindSegments(segs, k0, L)
           new == AllocIds(segs, Cardinality(L))
           G   == UNION {GramsOf[doc[l]] : l \in L}
           c   == [f \in Keys \X Labels |-> IF f[1] = k0 /\ f[2] \in L
                                            THEN doc[f[2]] ELSE ContentOf(segs)[f]]
<1>1. L \in SUBSET Labels /\ doc \in [L -> Texts]
  BY DEF Docs
<1>2. PICK at \in Bijection(new, L), d \in Interned(dict, nextTerm, G) :
        /\ segs' = InsertSegments(DropSegments(segs, old), DocRows(k0, doc, at), d)
        /\ dict' = d
        /\ nextTerm' = NextTermAfter(d)
  BY DEF Upsert
<1>3. /\ at \in [new -> L]
      /\ \A r, s \in new : at[r] = at[s] => r = s
      /\ \A l \in L : \E s \in new : at[s] = l
  BY OntoOneToOne
<1>4. /\ Distinct(dict', nextTerm') /\ Dense(dict', nextTerm')
      /\ \A g \in G : d[g] \in TermId
  <2>1. G \in SUBSET Grams
    BY <1>1, GramCountNat
  <2> HIDE DEF G
  <2>2. /\ dict \in Dictionaries /\ nextTerm \in 1 .. MaxTermId + 1
        /\ Distinct(dict, nextTerm) /\ Dense(dict, nextTerm)
        /\ d \in Interned(dict, nextTerm, G)
    BY InvParts
  <2>3. Distinct(d, nextTerm + Cardinality({g \in Grams : d[g] # dict[g]}))
    BY <2>1, <2>2, InternedDistinct
  <2>4. Dense(d, nextTerm + Cardinality({g \in Grams : d[g] # dict[g]}))
    BY <2>1, <2>2, InternedDense
  <2>5. \A g \in G : d[g] \in TermId
    BY <2>1, <2>2, InternedProperties
  <2> QED
    BY <1>2, <2>3, <2>4, <2>5 DEF NextTermAfter
<1> DEFINE rows == DocRows(k0, doc, at)
           mid  == DropSegments(segs, old)
<1>5. /\ DOMAIN rows = new
      /\ \A s \in new : /\ rows[s].key = k0
                        /\ rows[s].label = at[s]
                        /\ rows[s].txt = doc[at[s]]
  BY <1>3 DEF DocRows
<1>6. \A s, k, l : At(segs, s, k, l) => (s \in old <=> k = k0 /\ l \in L)
  BY DEF At, FindSegments, SegmentsOf
<1>7. Cardinality(L) \in Nat
  BY <1>1, Documents, FS_Subset, FS_CardinalityType
<1>8. \A s, k, l : At(segs, s, k, l) => s \notin new
  BY <1>7, FreshIds
<1>19. DOMAIN rows = new /\ IsRows(rows, d)
  <2>1. new \in SUBSET SegId /\ at \in [new -> DOMAIN doc]
    BY <1>3 DEF Upsert
  <2> HIDE DEF new
  <2> QED
    BY <1>4, <2>1, DocRowsAre
<1>20. old \in SUBSET DOMAIN segs.row
  BY DEF FindSegments, SegmentsOf
<1> HIDE DEF rows, new, old, mid, L, G, c
<1>21. ASSUME NEW i \in Int, NEW j \in Int, StatsOff(segs, i, j)
       PROVE  StatsOff(segs', i, j)
  <2>1. IsSegmentTables(mid) /\ StatsOff(mid, i, j)
    BY <1>20, <1>21, InvParts, DropSegmentsType, DropStats DEF mid
  <2>2. DOMAIN mid.row \subseteq DOMAIN segs.row
    BY DEF mid, DropSegments, Restrict
  <2>3. \A s \in DOMAIN segs.row : s \notin new
    BY <1>8 DEF At
  <2>4. segs' = InsertSegments(mid, rows, d)
    BY <1>2 DEF mid, rows
  <2> QED
    BY <1>19, <2>1, <2>2, <2>3, <2>4, InsertStats
<1>9. /\ \A s, k, l : At(mid, s, k, l) <=> At(segs, s, k, l) /\ s \notin old
      /\ \A s, k, l : At(mid, s, k, l) => TextAt(mid, s) = TextAt(segs, s)
  BY AtDrop DEF mid
<1>10. segs' = InsertSegments(mid, rows, d)
  BY <1>2 DEF mid, rows
<1>11. /\ \A s, k, l : At(segs', s, k, l) <=> \/ New(rows, s, k, l)
                                              \/ s \notin DOMAIN rows /\ At(mid, s, k, l)
       /\ \A s \in DOMAIN rows : TextAt(segs', s) = rows[s].txt
       /\ \A s, k, l : s \notin DOMAIN rows /\ At(mid, s, k, l)
                         => TextAt(segs', s) = TextAt(mid, s)
  BY <1>10, AtInsert
<1>12. \A s, k, l : New(rows, s, k, l) <=> s \in new /\ k = k0 /\ at[s] = l
  BY <1>5 DEF New
<1>13. \A s, k, l : At(segs', s, k, l) <=>
         \/ s \in new /\ k = k0 /\ at[s] = l
         \/ At(segs, s, k, l) /\ ~(k = k0 /\ l \in L)
  BY <1>5, <1>6, <1>8, <1>9, <1>11, <1>12
<1>14. /\ \A s \in new : TextAt(segs', s) = doc[at[s]]
       /\ \A s, k, l : At(segs, s, k, l) /\ ~(k = k0 /\ l \in L)
                         => TextAt(segs', s) = TextAt(segs, s)
  BY <1>5, <1>6, <1>8, <1>9, <1>11
<1>15. \A r, s, k, l : At(segs', r, k, l) /\ At(segs', s, k, l) => r = s
  <2>1. \A r, s, k, l : At(segs, r, k, l) /\ At(segs, s, k, l) => r = s
    BY InvParts, UniqueAt
  <2>2. \A s \in new : at[s] \in L
    BY <1>3
  <2> QED
    BY <1>3, <1>13, <2>1, <2>2
<1>16. Unique(segs')
  BY <1>15, UniqueAt
<1>17. Describes(c, segs')
  <2>1. c = [f \in Keys \X Labels |-> c[f]]
    BY DEF c
  <2>2. \A k \in Keys, l \in Labels :
          c[<<k, l>>] = IF k = k0 /\ l \in L THEN doc[l] ELSE ContentOf(segs)[<<k, l>>]
    BY DEF c
  <2>3. ASSUME NEW k \in Keys, NEW l \in Labels
        PROVE  /\ \A s : At(segs', s, k, l) => c[<<k, l>>] = TextAt(segs', s)
               /\ (\A s : ~At(segs', s, k, l)) => c[<<k, l>>] = NoText
    <3>1. k \in Keys /\ l \in Labels /\ Unique(segs)
      BY InvParts
    <3>2. /\ \A s : At(segs, s, k, l) => ContentOf(segs)[<<k, l>>] = TextAt(segs, s)
          /\ (\A s : ~At(segs, s, k, l)) => ContentOf(segs)[<<k, l>>] = NoText
      BY <3>1, ContentAt
    <3>3. c[<<k, l>>] = IF k = k0 /\ l \in L THEN doc[l] ELSE ContentOf(segs)[<<k, l>>]
      BY <2>2
    <3>4. CASE k = k0 /\ l \in L
      <4>1. \A s : At(segs', s, k, l) <=> s \in new /\ at[s] = l
        BY <1>13, <3>4
      <4>2. \A s : At(segs', s, k, l) => TextAt(segs', s) = doc[l]
        BY <1>14, <4>1
      <4>3. \E s : At(segs', s, k, l)
        BY <1>3, <3>4, <4>1
      <4>4. c[<<k, l>>] = doc[l]
        BY <3>3, <3>4
      <4> QED
        BY <4>2, <4>3, <4>4
    <3>5. CASE ~(k = k0 /\ l \in L)
      <4>1. \A s : At(segs', s, k, l) <=> At(segs, s, k, l)
        BY <1>3, <1>13, <3>5
      <4> QED
        BY <1>14, <3>2, <3>3, <3>5, <4>1
    <3> QED
      BY <3>4, <3>5
  <2> QED
    BY <2>1, <2>3 DEF Describes
<1>18. ContentOf(segs') = c
  BY <1>16, <1>17, ContentIs
<1> QED
  BY <1>4, <1>16, <1>18, <1>21 DEF c, L

LEMMA RebuildContent ==
  ASSUME NEW corpus \in [Keys -> Docs], Rebuild(corpus)
  PROVE  /\ Unique(segs')
         /\ StatsOff(segs', 0, 0)
         /\ Distinct(dict', nextTerm')
         /\ Dense(dict', nextTerm')
         /\ ContentOf(segs') =
              [f \in Keys \X Labels |-> IF f[2] \in DOMAIN corpus[f[1]]
                                        THEN corpus[f[1]][f[2]] ELSE NoText]
<1> DEFINE fields == FieldsOf(corpus)
           ids == AllocIds(NoSegments, Cardinality(fields))
           G   == CorpusGrams(corpus)
           c   == [f \in Keys \X Labels |-> IF f[2] \in DOMAIN corpus[f[1]]
                                            THEN corpus[f[1]][f[2]] ELSE NoText]
<1>1. PICK at \in Bijection(ids, fields), d \in Interned(EmptyDict, 1, G) :
        /\ segs' = InsertSegments(NoSegments, CorpusRows(corpus, at), d)
        /\ dict' = d
        /\ nextTerm' = 1 + Cardinality({g \in Grams : d[g] # NoTerm})
  BY DEF Rebuild
<1>2. /\ at \in [ids -> fields]
      /\ \A r, s \in ids : at[r] = at[s] => r = s
      /\ \A f \in fields : \E s \in ids : at[s] = f
  BY OntoOneToOne
<1>3. /\ Distinct(dict', nextTerm') /\ Dense(dict', nextTerm')
      /\ \A g \in G : d[g] \in TermId
  <2>1. \A f \in fields : corpus[f[1]][f[2]] \in Texts
    BY DEF Docs, FieldsOf
  <2>2. G \in SUBSET Grams
    BY <2>1, GramCountNat DEF CorpusGrams
  <2>3. 1 \in 1 .. MaxTermId + 1
    BY IdCeilings
  <2> HIDE DEF G
  <2>4. EmptyDict \in Dictionaries /\ Distinct(EmptyDict, 1) /\ Dense(EmptyDict, 1)
    BY EmptyDictType, EmptyDictDistinct, EmptyDictDense
  <2>5. d \in Interned(EmptyDict, 1, G)
    OBVIOUS
  <2>6. Distinct(d, 1 + Cardinality({g \in Grams : d[g] # EmptyDict[g]}))
    BY <2>2, <2>3, <2>4, <2>5, InternedDistinct
  <2>7. {g \in Grams : d[g] # EmptyDict[g]} = {g \in Grams : d[g] # NoTerm}
    BY DEF EmptyDict
  <2>8. Dense(d, 1 + Cardinality({g \in Grams : d[g] # EmptyDict[g]}))
    BY <2>2, <2>3, <2>4, <2>5, InternedDense
  <2>9. \A g \in G : d[g] \in TermId
    BY <2>2, <2>3, <2>4, <2>5, InternedProperties
  <2> QED
    BY <1>1, <2>6, <2>7, <2>8, <2>9
<1> DEFINE rows == CorpusRows(corpus, at)
<1>4. /\ DOMAIN rows = ids
      /\ \A s \in ids : /\ rows[s].key = at[s][1]
                        /\ rows[s].label = at[s][2]
                        /\ rows[s].txt = corpus[at[s][1]][at[s][2]]
  BY <1>2 DEF CorpusRows
<1>15. DOMAIN rows = ids /\ IsRows(rows, d)
  <2>1. ids \in SUBSET SegId /\ at \in [ids -> FieldsOf(corpus)]
    BY <1>2 DEF Rebuild
  <2> HIDE DEF ids
  <2> QED
    BY <1>3, <2>1, CorpusRowsAre
<1>16. StatsOff(segs', 0, 0)
  <2>1. DOMAIN NoSegments.row = {}
    BY DEF NoSegments
  <2>2. segs' = InsertSegments(NoSegments, rows, d)
    BY <1>1
  <2> HIDE DEF rows
  <2> QED
    BY <1>15, <2>1, <2>2, NoSegmentsType, NoSegmentsStats, InsertStats
<1>5. \A f \in fields : f = <<f[1], f[2]>> /\ f[1] \in Keys /\ f[2] \in Labels
  BY DEF FieldsOf
<1>6. \A k \in Keys, l \in Labels : <<k, l>> \in fields <=> l \in DOMAIN corpus[k]
  BY DEF FieldsOf
<1> HIDE DEF rows, ids, fields, G, c
<1>7. /\ \A s, k, l : At(segs', s, k, l) <=> \/ New(rows, s, k, l)
                                             \/ s \notin DOMAIN rows /\ At(NoSegments, s, k, l)
      /\ \A s \in DOMAIN rows : TextAt(segs', s) = rows[s].txt
  BY <1>1, AtInsert DEF rows
<1>8. \A s, k, l : ~At(NoSegments, s, k, l)
  BY DEF At, NoSegments
<1>9. \A s, k, l : New(rows, s, k, l) <=> s \in ids /\ at[s] = <<k, l>>
  <2>1. \A s \in ids : at[s] = <<at[s][1], at[s][2]>>
    BY <1>2, <1>5
  <2>2. \A s, k, l : New(rows, s, k, l) <=> s \in ids /\ at[s][1] = k /\ at[s][2] = l
    BY <1>4 DEF New
  <2> QED
    BY <2>1, <2>2
<1>10. \A s, k, l : At(segs', s, k, l) <=> s \in ids /\ at[s] = <<k, l>>
  BY <1>7, <1>8, <1>9
<1>11. \A r, s, k, l : At(segs', r, k, l) /\ At(segs', s, k, l) => r = s
  BY <1>2, <1>10
<1>12. Unique(segs')
  BY <1>11, UniqueAt
<1>13. Describes(c, segs')
  <2>1. c = [f \in Keys \X Labels |-> c[f]]
    BY DEF c
  <2>2. \A k \in Keys, l \in Labels :
          c[<<k, l>>] = IF l \in DOMAIN corpus[k] THEN corpus[k][l] ELSE NoText
    BY DEF c
  <2>3. ASSUME NEW k \in Keys, NEW l \in Labels
        PROVE  /\ \A s : At(segs', s, k, l) => c[<<k, l>>] = TextAt(segs', s)
               /\ (\A s : ~At(segs', s, k, l)) => c[<<k, l>>] = NoText
    <3>1. \A s : At(segs', s, k, l) => l \in DOMAIN corpus[k] /\ TextAt(segs', s) = corpus[k][l]
      <4> SUFFICES ASSUME NEW s, At(segs', s, k, l)
                   PROVE  l \in DOMAIN corpus[k] /\ TextAt(segs', s) = corpus[k][l]
        OBVIOUS
      <4>1. s \in ids /\ at[s] = <<k, l>>
        BY <1>10
      <4>2. <<k, l>> \in fields
        BY <1>2, <4>1
      <4>3. TextAt(segs', s) = corpus[at[s][1]][at[s][2]]
        BY <1>4, <1>7, <4>1
      <4>4. at[s][1] = k /\ at[s][2] = l
        BY <4>1
      <4> QED
        BY <1>6, <4>2, <4>3, <4>4
    <3>2. l \in DOMAIN corpus[k] => \E s : At(segs', s, k, l)
      BY <1>2, <1>6, <1>10
    <3> QED
      BY <2>2, <3>1, <3>2
  <2> QED
    BY <2>1, <2>3 DEF Describes
<1>14. ContentOf(segs') = c
  BY <1>12, <1>13, ContentIs
<1> QED
  BY <1>3, <1>12, <1>14, <1>16 DEF c

(* Empty tables.                                                           *)
LEMMA EmptyContent ==
  /\ Unique(NoSegments)
  /\ ContentOf(NoSegments) = [f \in Keys \X Labels |-> NoText]
<1> DEFINE c == [f \in Keys \X Labels |-> NoText]
<1>1. \A s, k, l : ~At(NoSegments, s, k, l)
  BY DEF At, NoSegments
<1>2. Unique(NoSegments)
  BY <1>1, UniqueAt
<1>3. Describes(c, NoSegments)
  BY <1>1 DEF Describes
<1> QED
  BY <1>2, <1>3, ContentIs

-----------------------------------------------------------------------------
(* The invariant.                                                          *)

(* The part of the invariant that is about the content.                    *)
Stored(sg, d, next) ==
  Unique(sg) /\ Distinct(d, next) /\ Dense(d, next)

LEMMA ContentInvIs == ContentInv <=> TablesAgree /\ RowsBelow /\ Stored(segs, dict, nextTerm)
BY DEF ContentInv, Stored, DictInjective, Distinct, FieldsUnique, Unique

LEMMA EmptyContentInv ==
  ASSUME segs = NoSegments, post = NoPostings, dict = EmptyDict, nextTerm = 1
  PROVE  ContentInv
<1>1. TablesAgree /\ RowsBelow
  BY EmptyInv DEF IndexInv
<1>2. Stored(segs, dict, nextTerm)
  BY EmptyContent, EmptyDictDistinct, EmptyDictDense DEF Stored
<1> QED
  BY <1>1, <1>2, ContentInvIs

LEMMA NextPreservesContentInv == ContentInv /\ [Next]_vars => ContentInv'
<1> SUFFICES ASSUME ContentInv, [Next]_vars PROVE ContentInv'
  OBVIOUS
<1>0. /\ TablesAgree /\ RowsBelow /\ Stored(segs, dict, nextTerm)
      /\ (ContentInv <=> TablesAgree /\ RowsBelow /\ Stored(segs, dict, nextTerm))'
  <2>1. (ContentInv <=> TablesAgree /\ RowsBelow /\ Stored(segs, dict, nextTerm))'
    BY ContentInvIs, PTL
  <2> QED
    BY <2>1, ContentInvIs
<1>1. ASSUME NEW k \in Keys, NEW doc \in Docs, Upsert(k, doc) PROVE ContentInv'
  BY <1>0, <1>1, UpsertContent, UpsertPreservesInv DEF Stored
<1>2. ASSUME NEW k \in Keys, Remove(k) PROVE ContentInv'
  <2>1. SegmentsOf(segs, k) \in SUBSET DOMAIN segs.row
    BY DEF SegmentsOf
  <2> QED
    BY <1>0, <1>2, <2>1, DropContent, DropPreservesInv DEF Remove, Stored
<1>3. ASSUME NEW k \in Keys, NEW l \in Labels, RemoveSegment(k, l) PROVE ContentInv'
  <2>1. FindSegments(segs, k, {l}) \in SUBSET DOMAIN segs.row
    BY DEF FindSegments, SegmentsOf
  <2> QED
    BY <1>0, <1>3, <2>1, DropContent, DropPreservesInv DEF RemoveSegment, Stored
<1>4. ASSUME Compact PROVE ContentInv'
  <2>1. Stored(segs, dict, nextTerm)'
    BY <1>0, <1>4 DEF Compact, Stored
  <2> QED
    BY <1>0, <1>4, <2>1, CompactPreservesInv
<1>5. ASSUME NEW corpus \in [Keys -> Docs], Rebuild(corpus) PROVE ContentInv'
  BY <1>0, <1>5, RebuildContent, RebuildPreservesInv DEF Stored, IndexInv
<1>6. ASSUME Reset PROVE ContentInv'
  <2>1. (/\ segs = NoSegments /\ post = NoPostings
         /\ dict = EmptyDict /\ nextTerm = 1)'
    BY <1>6 DEF Reset
  <2> QED
    BY <2>1, EmptyContentInv, PTL
<1>7. ASSUME UNCHANGED vars PROVE ContentInv'
  BY <1>7 DEF vars, ContentInv, TablesAgree, TypeOK, PostingsMatchForward, DfExact,
              ForwardDecodes, RowsBelow, DictInjective, FieldsUnique
<1> QED
  BY <1>1, <1>2, <1>3, <1>4, <1>5, <1>6, <1>7 DEF Next

(* The stats miss after a write what they missed before.                   *)
LEMMA WritesKeepStats ==
  ASSUME ContentInv, NEW c \in Int, NEW l \in Int, StatsOff(segs, c, l)
  PROVE  /\ \A k \in Keys, doc \in Docs : Upsert(k, doc) => StatsOff(segs', c, l)
         /\ \A k \in Keys : Remove(k) => StatsOff(segs', c, l)
         /\ \A k \in Keys, b \in Labels : RemoveSegment(k, b) => StatsOff(segs', c, l)
         /\ Compact => StatsOff(segs', c, l)
<1>1. ASSUME NEW S, S \in SUBSET DOMAIN segs.row, Drop(S) PROVE StatsOff(segs', c, l)
  BY <1>1, DropContent
<1>2. ASSUME NEW k \in Keys, NEW doc \in Docs, Upsert(k, doc) PROVE StatsOff(segs', c, l)
  BY <1>2, UpsertContent
<1>3. /\ \A k : SegmentsOf(segs, k) \in SUBSET DOMAIN segs.row
      /\ \A k, L : FindSegments(segs, k, L) \in SUBSET DOMAIN segs.row
  BY DEF SegmentsOf, FindSegments
<1>4. ASSUME NEW k \in Keys, Remove(k) PROVE StatsOff(segs', c, l)
  BY <1>1, <1>3, <1>4 DEF Remove
<1>5. ASSUME NEW k \in Keys, NEW b \in Labels, RemoveSegment(k, b)
      PROVE  StatsOff(segs', c, l)
  BY <1>1, <1>3, <1>5 DEF RemoveSegment
<1>6. ASSUME Compact PROVE StatsOff(segs', c, l)
  BY <1>6 DEF Compact
<1> QED
  BY <1>2, <1>4, <1>5, <1>6

(* After every write call, compaction and rebuild, dict and field are      *)
(* injective, and the postings hold exactly the terms of the stored texts. *)
THEOREM ContentInvariant == Spec => []ContentInv
<1>1. Init => ContentInv
  BY EmptyContentInv DEF Init
<1> QED
  BY <1>1, NextPreservesContentInv, PTL DEF Spec

(* No two grams ever share a term id, and no id in use reaches the mark    *)
(* that the next interning starts from.                                    *)
THEOREM TermIdsDistinct == Spec => []DictInjective
<1>1. ContentInv => DictInjective
  BY DEF ContentInv
<1> QED
  BY <1>1, ContentInvariant, PTL

(* A document never holds a label twice, however often it is written.      *)
THEOREM OneRowPerField == Spec => []FieldsUnique
<1>1. ContentInv => FieldsUnique
  BY DEF ContentInv
<1> QED
  BY <1>1, ContentInvariant, PTL

(* What a search counts for a stored segment.                              *)
LEMMA OverlapIs ==
  ASSUME TypeOK, ForwardDecodes, PostingsMatchForward, DictInjective,
         NEW s \in DOMAIN segs.row, NEW q \in SUBSET Grams
  PROVE  Overlap(q, s) = Cardinality(q \cap GramsOf[segs.row[s].txt])
<1> DEFINE txt == segs.row[s].txt
<1>1. s \in SegId
  BY DEF TypeOK, IsSegmentTables
<1>2. \A g \in GramsOf[txt] : g \in Grams /\ dict[g] \in TermId
  BY LiveTextInterned
<1>3. segs.fwd[s] = TermsOf(dict, txt)
  BY <1>1 DEF ForwardDecodes
<1> HIDE DEF txt
<1>4. \A g \in Grams : dict[g] \in TermId =>
         (s \in Effective(post, dict[g]) <=> dict[g] \in segs.fwd[s])
  BY <1>1 DEF PostingsMatchForward
<1>5. \A g \in Grams : dict[g] = NoTerm \/ dict[g] \in TermId
  BY DEF TypeOK, Dictionaries
<1>6. NoTerm \notin TermId
  BY IdCeilings DEF NoTerm, TermId
<1>7. \A g \in Grams : dict[g] \in TermId => (dict[g] \in segs.fwd[s] <=> g \in GramsOf[txt])
  <2>1. \A g, h \in Grams : dict[g] = dict[h] /\ dict[g] # NoTerm => g = h
    BY DEF DictInjective
  <2> QED
    BY <1>2, <1>3, <1>6, <2>1 DEF TermsOf
<1>8. {g \in q : dict[g] # NoTerm /\ s \in Effective(post, dict[g])} = q \cap GramsOf[txt]
  BY <1>2, <1>4, <1>5, <1>6, <1>7
<1> QED
  BY <1>8 DEF Overlap, txt

(* The abstract store counts with the same operator.                       *)
LEMMA SameCardinality == \A S : Store!Cardinality(S) = Cardinality(S)
BY Zenon DEF Store!Cardinality, Cardinality

(* A search over the postings counts, for every stored segment and every   *)
(* query, the query grams that the segment's text carries.                 *)
THEOREM AnswersCorrect == Spec => []AnswersMatchContent
<1>1. ContentInv => AnswersMatchContent
  <2> SUFFICES ASSUME ContentInv, NEW s \in DOMAIN segs.row, NEW q \in SUBSET Grams
               PROVE  Overlap(q, s) = Store!Overlap(q, <<segs.row[s].key, segs.row[s].label>>)
    BY DEF AnswersMatchContent
  <2> DEFINE k == segs.row[s].key
             l == segs.row[s].label
             txt == segs.row[s].txt
  <2>1. k \in Keys /\ l \in Labels /\ txt \in Texts
    BY DEF ContentInv, TablesAgree, TypeOK, IsSegmentTables, Row
  <2>2. At(segs, s, k, l) /\ TextAt(segs, s) = txt
    BY DEF At, TextAt
  <2>3. Overlap(q, s) = Cardinality(q \cap GramsOf[txt])
    BY OverlapIs DEF ContentInv, TablesAgree
  <2> HIDE DEF k, l, txt
  <2>4. ContentOf(segs)[<<k, l>>] = txt
    BY <2>1, <2>2, InvParts, ContentAt
  <2>5. Store!Overlap(q, <<k, l>>) = Cardinality(q \cap GramsOf[txt])
    BY <2>1, <2>4, Absent, SameCardinality DEF Store!Overlap
  <2> QED
    BY <2>3, <2>5 DEF k, l
<1> QED
  BY <1>1, ContentInvariant, PTL

(* The rolling stats of meta are what counting the rows would give: the    *)
(* number of segments, and the sum of their gram counts.                   *)
THEOREM StatsCorrect == Spec => []StatsMatchRows
<1> DEFINE Inv == ContentInv /\ StatsOff(segs, 0, 0)
<1>1. Init => Inv
  BY EmptyContentInv, NoSegmentsStats DEF Init
<1>2. Inv /\ [Next]_vars => Inv'
  <2> SUFFICES ASSUME Inv, [Next]_vars PROVE StatsOff(segs', 0, 0)
    BY NextPreservesContentInv
  <2>1. ASSUME NEW corpus \in [Keys -> Docs], Rebuild(corpus) PROVE StatsOff(segs', 0, 0)
    BY <2>1, RebuildContent
  <2>2. CASE Reset
    BY <2>2, NoSegmentsStats DEF Reset
  <2>3. CASE UNCHANGED vars
    BY <2>3 DEF vars
  <2> QED
    BY <2>1, <2>2, <2>3, WritesKeepStats DEF Next
<1>3. Inv => StatsMatchRows
  <2> SUFFICES ASSUME Inv PROVE StatsMatchRows
    OBVIOUS
  <2>1. IsFiniteSet(DOMAIN segs.row) /\ Counted(segs.row, DOMAIN segs.row)
    BY InvParts, TablesCounted
  <2>2. Cardinality(DOMAIN segs.row) \in Int
    BY <2>1, FS_CardinalityType
  <2>3. SumLen(segs.row, DOMAIN segs.row) \in Int
    BY <2>1, SumLenType
  <2> QED
    BY <2>2, <2>3 DEF StatsOff, StatsMatchRows
<1> QED
  BY <1>1, <1>2, <1>3, PTL DEF Spec

-----------------------------------------------------------------------------
(* Refinement.                                                             *)

LEMMA UpsertRefines ==
  ASSUME ContentInv, NEW k \in Keys, NEW doc \in Docs, Upsert(k, doc)
  PROVE  Store!Upsert(k, doc)
<1>1. ContentOf(segs') =
        [f \in Keys \X Labels |-> IF f[1] = k /\ f[2] \in DOMAIN doc
                                  THEN doc[f[2]] ELSE ContentOf(segs)[f]]
  BY UpsertContent
<1> QED
  BY <1>1 DEF Store!Upsert, Store!Fields

LEMMA RemoveRefines ==
  ASSUME ContentInv, NEW k \in Keys, Remove(k)
  PROVE  Store!Remove(k)
<1>1. SegmentsOf(segs, k) = FindSegments(segs, k, Labels)
  BY DEF SegmentsOf, FindSegments, ContentInv, TablesAgree, TypeOK, IsSegmentTables, Row
<1>2. Drop(FindSegments(segs, k, Labels))
  BY <1>1 DEF Remove
<1>3. ContentOf(segs') = Cleared(ContentOf(segs), k, Labels)
  BY <1>2, DropFields
<1>4. ContentOf(segs') =
        [f \in Keys \X Labels |-> IF f[1] = k THEN NoText ELSE ContentOf(segs)[f]]
  BY <1>3 DEF Cleared
<1> QED
  BY <1>4 DEF Store!Remove, Store!Fields

LEMMA RemoveSegmentRefines ==
  ASSUME ContentInv, NEW k \in Keys, NEW l \in Labels, RemoveSegment(k, l)
  PROVE  Store!RemoveSegment(k, l)
<1>1. ContentOf(segs') = Cleared(ContentOf(segs), k, {l})
  BY DropFields DEF RemoveSegment
<1>2. ContentOf(segs) = [f \in Keys \X Labels |-> ContentOf(segs)[f]]
  BY DEF ContentOf
<1>3. \A f \in Keys \X Labels : f = <<k, l>> <=> f[1] = k /\ f[2] \in {l}
  OBVIOUS
<1>4. [ContentOf(segs) EXCEPT ![<<k, l>>] = NoText] =
        [f \in Keys \X Labels |-> IF f = <<k, l>> THEN NoText ELSE ContentOf(segs)[f]]
  BY <1>2
<1>5. ContentOf(segs') = [ContentOf(segs) EXCEPT ![<<k, l>>] = NoText]
  BY <1>1, <1>3, <1>4 DEF Cleared
<1> QED
  BY <1>5 DEF Store!RemoveSegment

LEMMA RebuildRefines ==
  ASSUME NEW corpus \in [Keys -> Docs], Rebuild(corpus)
  PROVE  Store!Rebuild(corpus)
<1>1. ContentOf(segs') =
        [f \in Keys \X Labels |-> IF f[2] \in DOMAIN corpus[f[1]]
                                  THEN corpus[f[1]][f[2]] ELSE NoText]
  BY RebuildContent
<1> QED
  BY <1>1 DEF Store!Rebuild, Store!Fields

(* The index implements the (key, label) -> text store operation by        *)
(* operation, and a compaction leaves the content as it was.               *)
THEOREM StoreRefined == Spec => ImplementsStore
<1>1. Init => Store!Init
  BY EmptyContent DEF Init, Store!Init, Store!Fields
<1>2. ContentInv /\ [Next]_vars =>
        [/\ \A k \in Keys, doc \in Docs : Upsert(k, doc) => Store!Upsert(k, doc)
         /\ \A k \in Keys : Remove(k) => Store!Remove(k)
         /\ \A k \in Keys, l \in Labels :
              RemoveSegment(k, l) => Store!RemoveSegment(k, l)
         /\ \A corpus \in [Keys -> Docs] : Rebuild(corpus) => Store!Rebuild(corpus)
         /\ Reset => Store!Reset
         /\ Compact => UNCHANGED ContentOf(segs)]_vars
  <2> SUFFICES ASSUME ContentInv
               PROVE  /\ \A k \in Keys, doc \in Docs : Upsert(k, doc) => Store!Upsert(k, doc)
                      /\ \A k \in Keys : Remove(k) => Store!Remove(k)
                      /\ \A k \in Keys, l \in Labels :
                           RemoveSegment(k, l) => Store!RemoveSegment(k, l)
                      /\ \A corpus \in [Keys -> Docs] : Rebuild(corpus) => Store!Rebuild(corpus)
                      /\ Reset => Store!Reset
                      /\ Compact => UNCHANGED ContentOf(segs)
    OBVIOUS
  <2>1. \A k \in Keys, doc \in Docs : Upsert(k, doc) => Store!Upsert(k, doc)
    BY UpsertRefines
  <2>2. \A k \in Keys : Remove(k) => Store!Remove(k)
    BY RemoveRefines
  <2>3. \A k \in Keys, l \in Labels : RemoveSegment(k, l) => Store!RemoveSegment(k, l)
    BY RemoveSegmentRefines
  <2>4. \A corpus \in [Keys -> Docs] : Rebuild(corpus) => Store!Rebuild(corpus)
    BY RebuildRefines
  <2>5. Reset => Store!Reset
    BY EmptyContent DEF Reset, Store!Reset, Store!Fields
  <2>6. Compact => UNCHANGED ContentOf(segs)
    BY DEF Compact
  <2> QED
    BY <2>1, <2>2, <2>3, <2>4, <2>5, <2>6
<1> QED
  BY <1>1, <1>2, ContentInvariant, PTL DEF Spec, ImplementsStore

(* Every behaviour of the index is a behaviour of the plain store.         *)
THEOREM BehavesAsStore == Spec => Store!Spec
<1>1. Init => Store!Init
  BY EmptyContent DEF Init, Store!Init, Store!Fields
<1>2. ContentInv /\ [Next]_vars => [Store!Next]_(ContentOf(segs))
  <2> SUFFICES ASSUME ContentInv, [Next]_vars PROVE [Store!Next]_(ContentOf(segs))
    OBVIOUS
  <2> USE DEF Store!Next, Store!Docs, Docs
  <2>1. ASSUME NEW k \in Keys, NEW doc \in Docs, Upsert(k, doc) PROVE Store!Next
    BY <2>1, UpsertRefines
  <2>2. ASSUME NEW k \in Keys, Remove(k) PROVE Store!Next
    BY <2>2, RemoveRefines
  <2>3. ASSUME NEW k \in Keys, NEW l \in Labels, RemoveSegment(k, l) PROVE Store!Next
    BY <2>3, RemoveSegmentRefines
  <2>4. ASSUME Compact PROVE ContentOf(segs)' = ContentOf(segs)
    BY <2>4 DEF Compact
  <2>5. ASSUME NEW corpus \in [Keys -> Docs], Rebuild(corpus) PROVE Store!Next
    BY <2>5, RebuildRefines
  <2>6. ASSUME Reset PROVE Store!Next
    BY <2>6, EmptyContent DEF Reset, Store!Reset, Store!Fields
  <2>7. ASSUME UNCHANGED vars PROVE ContentOf(segs)' = ContentOf(segs)
    BY <2>7 DEF vars
  <2> QED
    BY <2>1, <2>2, <2>3, <2>4, <2>5, <2>6, <2>7 DEF Next
<1> QED
  BY <1>1, <1>2, ContentInvariant, PTL DEF Spec, Store!Spec

-----------------------------------------------------------------------------
(* Lifecycle.                                                              *)

(* Every row was written under config c, has a label that the schema of c  *)
(* accepts, and carries the number of its grams.                           *)
RowUnder(r, c) ==
  /\ r.txt \in RawTexts \X {c}
  /\ r.label \in Accepts[c.schema_fingerprint]
  /\ r.len = Cardinality(GramsOf[r.txt])

RowsUnder(c) == \A s \in DOMAIN segs.row : RowUnder(segs.row[s], c)

AllStamps == \A f \in Stamps : stamps[f] # NoStamp

(* The columns of segs and meta that the tables consist of.                *)
Columns(sg) ==
  sg = [row |-> sg.row, fwd |-> sg.fwd, nextId |-> sg.nextId,
        count |-> sg.count, lenSum |-> sg.lenSum]

StatsOffByLost ==
  lost \in [Stats -> Int] /\ StatsOff(segs, lost["count"], lost["lenSum"])

(* The inductive invariant.  The tables agree with each other at all       *)
(* times, and the term mark counts the interned grams, so that a warm open *)
(* loads the mark that the last session had; only that the rows lie below  *)
(* the id mark may fail while the file is closed.  The rows of an index    *)
(* with all four stamps were written under them: a file that lost a stamp  *)
(* says nothing of its rows, and no open serves them.  The stats are off   *)
(* by what was lost of them, however often that was.                       *)
LifeInv ==
  /\ TablesAgree
  /\ Stored(segs, dict, nextTerm)
  /\ Columns(segs)
  /\ stamps = [f \in Stamps |-> stamps[f]]
  /\ AllStamps => stamps \in Configs /\ RowsUnder(stamps)
  /\ config # Closed => config \in Configs /\ stamps = config /\ RowsBelow
  /\ StatsOffByLost

-----------------------------------------------------------------------------
(* The documents of a session are documents.                               *)

LEMMA SessionDocsAreDocs ==
  ASSUME config \in Configs
  PROVE  /\ SessionDocs \subseteq Docs
         /\ \A doc \in SessionDocs : \A l \in DOMAIN doc :
              l \in Accepts[config.schema_fingerprint] /\ doc[l] \in RawTexts \X {config}
<1>1. Accepted \subseteq Labels
  BY SchemaLabels DEF Accepted
<1>2. RawTexts \X {config} \subseteq Texts
  BY TaggedTexts
<1> DEFINE R == RawTexts \X {config}
<1> HIDE DEF R
<1>3. ASSUME NEW doc \in SessionDocs
      PROVE  /\ doc \in Docs
             /\ \A l \in DOMAIN doc : l \in Accepted /\ doc[l] \in R
  <2>1. PICK L \in SUBSET Accepted : doc \in [L -> R]
    BY DEF SessionDocs, R
  <2>2. L \in SUBSET Labels /\ doc \in [L -> Texts]
    BY <1>1, <1>2, <2>1 DEF R
  <2> QED
    BY <2>1, <2>2 DEF Docs
<1> QED
  BY <1>3 DEF R, Accepted

-----------------------------------------------------------------------------
(* Where the rows of the next state come from.                             *)

LEMMA UpsertRows ==
  ASSUME NEW k, NEW doc, Upsert(k, doc)
  PROVE  /\ Columns(segs')
         /\ \A s \in DOMAIN segs'.row :
              \/ s \in DOMAIN segs.row /\ segs'.row[s] = segs.row[s]
              \/ \E l \in DOMAIN doc :
                   segs'.row[s] = [key |-> k, label |-> l, txt |-> doc[l],
                                   len |-> Cardinality(GramsOf[doc[l]])]
<1> DEFINE old == FindSegments(segs, k, DOMAIN doc)
           new == AllocIds(segs, Cardinality(DOMAIN doc))
           G   == UNION {GramsOf[doc[l]] : l \in DOMAIN doc}
<1>1. PICK at \in Bijection(new, DOMAIN doc), d \in Interned(dict, nextTerm, G) :
        segs' = InsertSegments(DropSegments(segs, old), DocRows(k, doc, at), d)
  BY DEF Upsert
<1>2. at \in [new -> DOMAIN doc]
  BY DEF Bijection, Injection
<1> DEFINE rows == DocRows(k, doc, at)
           mid  == DropSegments(segs, old)
<1>3. /\ DOMAIN rows = new
      /\ \A s \in new : /\ at[s] \in DOMAIN doc
                        /\ rows[s] = [key |-> k, label |-> at[s], txt |-> doc[at[s]],
                                      len |-> Cardinality(GramsOf[doc[at[s]]])]
  BY <1>2 DEF DocRows
<1>4. mid.row = [s \in DOMAIN segs.row \ old |-> segs.row[s]]
  BY DEF DropSegments, Restrict
<1> HIDE DEF rows, mid, old, new, G
<1>5. segs' = InsertSegments(mid, rows, d)
  BY <1>1 DEF rows, mid, old
<1>6. segs'.row = [s \in DOMAIN mid.row \cup DOMAIN rows |->
                    IF s \in DOMAIN rows THEN rows[s] ELSE mid.row[s]]
  BY <1>5 DEF InsertSegments
<1>7. Columns(segs')
  BY <1>5 DEF InsertSegments, Columns
<1> QED
  BY <1>3, <1>4, <1>6, <1>7

LEMMA DropRows ==
  ASSUME NEW S, Drop(S)
  PROVE  /\ Columns(segs')
         /\ \A s \in DOMAIN segs'.row :
              s \in DOMAIN segs.row /\ segs'.row[s] = segs.row[s]
<1>1. segs' = DropSegments(segs, S)
  BY DEF Drop
<1>2. segs'.row = [s \in DOMAIN segs.row \ S |-> segs.row[s]]
  BY <1>1 DEF DropSegments, Restrict
<1>3. Columns(segs')
  BY <1>1 DEF DropSegments, Columns
<1> QED
  BY <1>2, <1>3

LEMMA RebuildRows ==
  ASSUME NEW corpus, Rebuild(corpus)
  PROVE  /\ Columns(segs')
         /\ \A s \in DOMAIN segs'.row : \E f \in FieldsOf(corpus) :
              segs'.row[s] = [key |-> f[1], label |-> f[2], txt |-> corpus[f[1]][f[2]],
                              len |-> Cardinality(GramsOf[corpus[f[1]][f[2]]])]
<1> DEFINE fields == FieldsOf(corpus)
           ids == AllocIds(NoSegments, Cardinality(fields))
           G   == CorpusGrams(corpus)
<1>1. PICK at \in Bijection(ids, fields), d \in Interned(EmptyDict, 1, G) :
        segs' = InsertSegments(NoSegments, CorpusRows(corpus, at), d)
  BY DEF Rebuild
<1>2. at \in [ids -> fields]
  BY DEF Bijection, Injection
<1> DEFINE rows == CorpusRows(corpus, at)
<1>3. /\ DOMAIN rows = ids
      /\ \A s \in ids :
           /\ at[s] \in fields
           /\ rows[s] = [key |-> at[s][1], label |-> at[s][2],
                         txt |-> corpus[at[s][1]][at[s][2]],
                         len |-> Cardinality(GramsOf[corpus[at[s][1]][at[s][2]]])]
  BY <1>2 DEF CorpusRows
<1> HIDE DEF rows, ids, G, fields
<1>4. segs' = InsertSegments(NoSegments, rows, d)
  BY <1>1 DEF rows
<1>5. DOMAIN NoSegments.row = {}
  BY DEF NoSegments
<1>6. segs'.row = [s \in DOMAIN NoSegments.row \cup DOMAIN rows |->
                    IF s \in DOMAIN rows THEN rows[s] ELSE NoSegments.row[s]]
  BY <1>4 DEF InsertSegments
<1>7. Columns(segs')
  BY <1>4 DEF InsertSegments, Columns
<1> QED
  BY <1>3, <1>5, <1>6, <1>7 DEF fields

-----------------------------------------------------------------------------
(* Steps of a session.                                                     *)

LEMMA ConfigIs ==
  ASSUME NEW c \in Configs
  PROVE  c = [f \in Stamps |-> c[f]] /\ c # Closed /\ \A f \in Stamps : c[f] # NoStamp
BY ConfigShape

LEMMA OpenParts ==
  ASSUME LifeInv, config # Closed
  PROVE  /\ ContentInv
         /\ config \in Configs /\ stamps = config
         /\ RowsUnder(config)
<1>1. config \in Configs /\ stamps = config
  BY DEF LifeInv
<1>2. AllStamps
  BY <1>1, ConfigIs DEF AllStamps
<1> QED
  BY <1>1, <1>2, ContentInvIs DEF LifeInv

LEMMA SessionStep ==
  ASSUME LifeInv, config # Closed, config' = config, stamps' = config,
         ContentInv', Columns(segs'),
         \A s \in DOMAIN segs'.row : RowUnder(segs'.row[s], config),
         StatsOffByLost'
  PROVE  LifeInv'
<1>1. config \in Configs
  BY OpenParts
<1>2. (TablesAgree /\ RowsBelow /\ Stored(segs, dict, nextTerm))'
  BY ContentInvIs, PTL
<1>3. stamps' = [f \in Stamps |-> stamps'[f]]
  BY <1>1, ConfigIs
<1>4. RowsUnder(stamps)'
  BY DEF RowsUnder
<1> QED
  BY <1>1, <1>2, <1>3, <1>4 DEF LifeInv

LEMMA WriteInv ==
  ASSUME LifeInv, Write
  PROVE  LifeInv'
<1>1. config # Closed /\ config' = config /\ stamps' = stamps /\ lost' = lost
  BY DEF Write
<1>2. ContentInv /\ config \in Configs /\ stamps = config /\ RowsUnder(config)
  BY <1>1, OpenParts
<1>3. StatsOffByLost'
  <2> DEFINE c == lost["count"]
             l == lost["lenSum"]
  <2>1. c \in Int /\ l \in Int /\ StatsOff(segs, c, l)
    BY DEF LifeInv, StatsOffByLost, Stats
  <2> HIDE DEF c, l
  <2>2. SessionDocs \subseteq Docs
    BY <1>2, SessionDocsAreDocs
  <2>3. StatsOff(segs', c, l)
    BY <1>2, <2>1, <2>2, WritesKeepStats DEF Write
  <2> QED
    BY <1>1, <2>3 DEF c, l, LifeInv, StatsOffByLost
<1>4. ASSUME NEW k \in Keys, NEW doc \in SessionDocs, Upsert(k, doc)
      PROVE  LifeInv'
  <2>1. /\ doc \in Docs
        /\ \A l \in DOMAIN doc :
             l \in Accepts[config.schema_fingerprint] /\ doc[l] \in RawTexts \X {config}
    BY <1>2, SessionDocsAreDocs
  <2>2. ContentInv'
    BY <1>2, <1>4, <2>1, NextPreservesContentInv DEF Next
  <2>3. /\ Columns(segs')
        /\ \A s \in DOMAIN segs'.row :
              \/ s \in DOMAIN segs.row /\ segs'.row[s] = segs.row[s]
              \/ \E l \in DOMAIN doc :
                   segs'.row[s] = [key |-> k, label |-> l, txt |-> doc[l],
                                   len |-> Cardinality(GramsOf[doc[l]])]
    BY <1>4, UpsertRows
  <2>4. \A s \in DOMAIN segs'.row : RowUnder(segs'.row[s], config)
    <3> SUFFICES ASSUME NEW s \in DOMAIN segs'.row
                 PROVE  RowUnder(segs'.row[s], config)
      OBVIOUS
    <3>1. CASE s \in DOMAIN segs.row /\ segs'.row[s] = segs.row[s]
      BY <1>2, <3>1 DEF RowsUnder
    <3>2. ASSUME NEW l \in DOMAIN doc,
                 segs'.row[s] = [key |-> k, label |-> l, txt |-> doc[l],
                                 len |-> Cardinality(GramsOf[doc[l]])]
          PROVE  RowUnder(segs'.row[s], config)
      BY <2>1, <3>2 DEF RowUnder
    <3> QED
      BY <2>3, <3>1, <3>2
  <2> QED
    BY <1>1, <1>2, <1>3, <2>2, <2>3, <2>4, SessionStep
<1>5. ASSUME NEW S, Drop(S), ContentInv' PROVE LifeInv'
  <2>1. /\ Columns(segs')
        /\ \A s \in DOMAIN segs'.row :
             s \in DOMAIN segs.row /\ segs'.row[s] = segs.row[s]
    BY <1>5, DropRows
  <2>2. \A s \in DOMAIN segs'.row : RowUnder(segs'.row[s], config)
    BY <1>2, <2>1 DEF RowsUnder
  <2> QED
    BY <1>1, <1>2, <1>5, <1>3, <2>1, <2>2, SessionStep
<1>6. ASSUME NEW k \in Keys, Remove(k) PROVE LifeInv'
  <2>1. ContentInv'
    BY <1>2, <1>6, NextPreservesContentInv DEF Next
  <2> QED
    BY <1>5, <1>6, <2>1 DEF Remove
<1>7. ASSUME NEW k \in Keys, NEW l \in Labels, RemoveSegment(k, l) PROVE LifeInv'
  <2>1. ContentInv'
    BY <1>2, <1>7, NextPreservesContentInv DEF Next
  <2> QED
    BY <1>5, <1>7, <2>1 DEF RemoveSegment
<1>8. ASSUME Compact PROVE LifeInv'
  <2>1. ContentInv'
    BY <1>2, <1>8, NextPreservesContentInv DEF Next
  <2>2. segs' = segs /\ Columns(segs)
    BY <1>8 DEF Compact, LifeInv
  <2> QED
    BY <1>1, <1>2, <1>3, <2>1, <2>2, SessionStep DEF RowsUnder
<1> QED
  BY <1>4, <1>6, <1>7, <1>8 DEF Write

LEMMA RebuildAllInv ==
  ASSUME LifeInv, RebuildAll
  PROVE  LifeInv'
<1>1. config # Closed /\ config' = config /\ stamps' = config
  BY DEF RebuildAll, StampsOf
<1>2. ContentInv /\ config \in Configs
  BY <1>1, OpenParts
<1>3. PICK corpus \in [Keys -> SessionDocs] : Rebuild(corpus)
  BY DEF RebuildAll
<1>4. corpus \in [Keys -> Docs]
  BY <1>2, SessionDocsAreDocs
<1>5. ContentInv'
  BY <1>2, <1>3, <1>4, NextPreservesContentInv DEF Next
<1>6. /\ Columns(segs')
      /\ \A s \in DOMAIN segs'.row : \E f \in FieldsOf(corpus) :
           segs'.row[s] = [key |-> f[1], label |-> f[2], txt |-> corpus[f[1]][f[2]],
                           len |-> Cardinality(GramsOf[corpus[f[1]][f[2]]])]
  BY <1>3, RebuildRows
<1>7. \A f \in FieldsOf(corpus) : /\ f[2] \in Accepts[config.schema_fingerprint]
                                 /\ corpus[f[1]][f[2]] \in RawTexts \X {config}
  <2> SUFFICES ASSUME NEW f \in FieldsOf(corpus)
               PROVE  /\ f[2] \in Accepts[config.schema_fingerprint]
                      /\ corpus[f[1]][f[2]] \in RawTexts \X {config}
    OBVIOUS
  <2>1. corpus[f[1]] \in SessionDocs /\ f[2] \in DOMAIN corpus[f[1]]
    BY DEF FieldsOf
  <2> QED
    BY <1>2, <2>1, SessionDocsAreDocs
<1>8. \A s \in DOMAIN segs'.row : RowUnder(segs'.row[s], config)
  <2> SUFFICES ASSUME NEW s \in DOMAIN segs'.row
               PROVE  RowUnder(segs'.row[s], config)
    OBVIOUS
  <2>1. PICK f \in FieldsOf(corpus) :
           segs'.row[s] = [key |-> f[1], label |-> f[2], txt |-> corpus[f[1]][f[2]],
                           len |-> Cardinality(GramsOf[corpus[f[1]][f[2]]])]
    BY <1>6
  <2> QED
    BY <1>7, <2>1 DEF RowUnder
<1>9. StatsOffByLost'
  <2>1. StatsOff(segs', 0, 0)
    BY <1>3, <1>4, RebuildContent
  <2>2. lost' = NothingLost
    BY DEF RebuildAll
  <2> QED
    BY <2>1, <2>2 DEF StatsOffByLost, NothingLost, Stats
<1> QED
  BY <1>1, <1>5, <1>6, <1>8, <1>9, SessionStep

-----------------------------------------------------------------------------
(* Opening, closing and damage.                                            *)

LEMMA OpenColdInv ==
  ASSUME LifeInv, NEW c \in Configs, OpenCold(c)
  PROVE  LifeInv'
<1>1. /\ segs' = NoSegments /\ post' = NoPostings
      /\ dict' = EmptyDict /\ nextTerm' = 1
      /\ stamps' = c /\ config' = c /\ lost' = NothingLost
  BY DEF OpenCold, Reset, StampsOf
<1>2. ContentInv'
  <2>1. (/\ segs = NoSegments /\ post = NoPostings
         /\ dict = EmptyDict /\ nextTerm = 1)'
    BY <1>1
  <2> QED
    BY <2>1, EmptyContentInv, PTL
<1>3. (TablesAgree /\ RowsBelow /\ Stored(segs, dict, nextTerm))'
  BY <1>2, ContentInvIs, PTL
<1>4. Columns(segs') /\ DOMAIN segs'.row = {}
  BY <1>1 DEF Columns, NoSegments
<1>5. RowsUnder(stamps)'
  BY <1>4 DEF RowsUnder
<1>6. stamps' = [f \in Stamps |-> stamps'[f]]
  BY <1>1, ConfigIs
<1>7. StatsOffByLost'
  BY <1>1, NoSegmentsStats DEF StatsOffByLost, NothingLost, Stats
<1> QED
  BY <1>1, <1>3, <1>4, <1>5, <1>6, <1>7 DEF LifeInv

(* A warm open finds the stamps of its config, rows below the mark and, by *)
(* counting the dictionary, the term mark of the session before.           *)
LEMMA OpenWarmFinds ==
  ASSUME LifeInv, NEW c \in Configs, OpenWarm(c)
  PROVE  /\ UNCHANGED <<segs, post, dict, nextTerm, stamps, lost>>
         /\ config' = c /\ stamps = c /\ RowsBelow
<1>1. \A f \in Stamps : stamps[f] = c[f]
  BY DEF OpenWarm, Drift
<1>2. stamps = [f \in Stamps |-> stamps[f]] /\ c = [f \in Stamps |-> c[f]]
  BY ConfigIs DEF LifeInv
<1>3. stamps = c
  BY <1>1, <1>2
<1>4. nextTerm' = nextTerm
  BY DEF OpenWarm, LoadedMark, LifeInv, Stored, Dense
<1>5. RowsBelow
  <2>1. IsSegmentTables(segs)
    BY DEF LifeInv, TablesAgree, TypeOK
  <2> QED
    BY <2>1, IdCeilings DEF OpenWarm, Desync, RowsBelow, IsSegmentTables, SegId
<1> QED
  BY <1>3, <1>4, <1>5 DEF OpenWarm

(* The variables of the index only.                                        *)
LEMMA TablesKept ==
  ASSUME LifeInv, UNCHANGED vars, UNCHANGED lost
  PROVE  /\ TablesAgree' /\ Stored(segs, dict, nextTerm)' /\ Columns(segs)'
         /\ StatsOffByLost'
         /\ \A c : RowsUnder(c)' <=> RowsUnder(c)
         /\ RowsBelow' <=> RowsBelow
BY DEF LifeInv, vars, TablesAgree, TypeOK, PostingsMatchForward, DfExact, ForwardDecodes,
       Stored, RowsUnder, RowsBelow, StatsOffByLost

LEMMA OpenWarmInv ==
  ASSUME LifeInv, NEW c \in Configs, OpenWarm(c)
  PROVE  LifeInv'
<1>1. /\ UNCHANGED vars /\ UNCHANGED <<stamps, lost>>
      /\ config' = c /\ stamps = c /\ RowsBelow
  BY OpenWarmFinds DEF vars
<1>2. /\ TablesAgree' /\ Stored(segs, dict, nextTerm)' /\ Columns(segs)'
      /\ StatsOffByLost'
      /\ RowsUnder(c)' <=> RowsUnder(c)
      /\ RowsBelow' <=> RowsBelow
  BY <1>1, TablesKept
<1>3. AllStamps
  BY <1>1, ConfigIs DEF AllStamps
<1>4. RowsUnder(stamps)'
  BY <1>1, <1>2, <1>3 DEF LifeInv, RowsUnder
<1> QED
  BY <1>1, <1>2, <1>4 DEF LifeInv

LEMMA CloseInv ==
  ASSUME LifeInv, Close
  PROVE  LifeInv'
<1>1. UNCHANGED vars /\ UNCHANGED <<stamps, lost>> /\ config' = Closed
  BY DEF Close
<1>2. TablesAgree' /\ Stored(segs, dict, nextTerm)' /\ Columns(segs)' /\ StatsOffByLost'
  BY <1>1, TablesKept
<1> QED
  BY <1>1, <1>2 DEF LifeInv, AllStamps, RowsUnder, vars

LEMMA LoseStampInv ==
  ASSUME LifeInv, NEW f \in Stamps, LoseStamp(f)
  PROVE  LifeInv'
<1>1. /\ UNCHANGED vars /\ UNCHANGED <<config, lost>> /\ config = Closed
      /\ stamps' = [stamps EXCEPT ![f] = NoStamp]
  BY DEF LoseStamp
<1>2. TablesAgree' /\ Stored(segs, dict, nextTerm)' /\ Columns(segs)' /\ StatsOffByLost'
  BY <1>1, TablesKept
<1>3. stamps' = [h \in Stamps |-> stamps'[h]] /\ stamps'[f] = NoStamp
  BY <1>1 DEF LifeInv
<1>4. ~ AllStamps'
  BY <1>3 DEF AllStamps
<1> QED
  BY <1>1, <1>2, <1>3, <1>4 DEF LifeInv

LEMMA SetBackMarkInv ==
  ASSUME LifeInv, NEW n \in SegId, SetBackMark(n)
  PROVE  LifeInv'
<1>1. /\ segs' = [segs EXCEPT !.nextId = n]
      /\ UNCHANGED <<post, dict, nextTerm, config, stamps, lost>> /\ config = Closed
  BY DEF SetBackMark
<1>2. segs \in [row : {segs.row}, fwd : {segs.fwd}, nextId : {segs.nextId},
                count : {segs.count}, lenSum : {segs.lenSum}]
  BY DEF LifeInv, Columns
<1>3. /\ segs'.row = segs.row /\ segs'.fwd = segs.fwd /\ segs'.nextId = n
      /\ segs'.count = segs.count /\ segs'.lenSum = segs.lenSum
      /\ Columns(segs')
  BY <1>1, <1>2 DEF Columns
<1>4. IsSegmentTables(segs')
  <2>1. n \in 1 .. MaxSegId + 1
    BY IdCeilings DEF SegId
  <2> QED
    BY <1>3, <2>1 DEF LifeInv, TablesAgree, TypeOK, IsSegmentTables
<1>5. TablesAgree'
  BY <1>1, <1>3, <1>4 DEF LifeInv, TablesAgree, TypeOK, PostingsMatchForward, DfExact,
                          ForwardDecodes
<1>6. Stored(segs, dict, nextTerm)'
  BY <1>1, <1>3 DEF LifeInv, Stored, Unique
<1>7. StatsOffByLost'
  BY <1>1, <1>3 DEF LifeInv, StatsOffByLost, StatsOff
<1> QED
  BY <1>1, <1>3, <1>5, <1>6, <1>7 DEF LifeInv, AllStamps, RowsUnder

LEMMA LoseStatInv ==
  ASSUME LifeInv, NEW f \in Stats, LoseStat(f)
  PROVE  LifeInv'
<1>1. /\ segs' = [segs EXCEPT ![f] = 0]
      /\ lost' = [lost EXCEPT ![f] = @ + segs[f]]
      /\ UNCHANGED <<post, dict, nextTerm, config, stamps>> /\ config = Closed
  BY DEF LoseStat
<1>2. segs = [row |-> segs.row, fwd |-> segs.fwd, nextId |-> segs.nextId,
              count |-> segs.count, lenSum |-> segs.lenSum]
  BY DEF LifeInv, Columns
<1>3. f = "count" \/ f = "lenSum"
  BY DEF Stats
<1>4. /\ segs'.row = segs.row /\ segs'.fwd = segs.fwd /\ segs'.nextId = segs.nextId
      /\ segs'.count = (IF f = "count" THEN 0 ELSE segs.count)
      /\ segs'.lenSum = (IF f = "lenSum" THEN 0 ELSE segs.lenSum)
      /\ Columns(segs')
  BY <1>1, <1>2, <1>3 DEF Columns
<1>5. TablesAgree'
  BY <1>1, <1>4 DEF LifeInv, TablesAgree, TypeOK, IsSegmentTables, PostingsMatchForward,
                    DfExact, ForwardDecodes
<1>6. Stored(segs, dict, nextTerm)'
  BY <1>1, <1>4 DEF LifeInv, Stored, Unique
<1>7. StatsOffByLost'
  <2> DEFINE n == Cardinality(DOMAIN segs.row)
             m == SumLen(segs.row, DOMAIN segs.row)
  <2>1. IsSegmentTables(segs)
    BY DEF LifeInv, TablesAgree, TypeOK
  <2>2. n \in Int /\ m \in Int
    BY <2>1, TablesCounted, FS_CardinalityType, SumLenType
  <2> HIDE DEF n, m
  <2>3. /\ lost \in [Stats -> Int] /\ lost["count"] \in Int /\ lost["lenSum"] \in Int
        /\ segs.count = n - lost["count"] /\ segs.lenSum = m - lost["lenSum"]
    BY DEF LifeInv, StatsOffByLost, StatsOff, Stats, n, m
  <2>4. CASE f = "count"
    <3>1. lost' = [lost EXCEPT !["count"] = lost["count"] + segs.count]
      BY <1>1, <2>4
    <3>2. lost["count"] + segs.count = n /\ n \in Int
      BY <2>2, <2>3
    <3>3. lost' \in [Stats -> Int] /\ lost'["count"] = n /\ lost'["lenSum"] = lost["lenSum"]
      BY <2>3, <3>1, <3>2 DEF Stats
    <3>4. segs'.count = n - lost'["count"] /\ segs'.lenSum = m - lost'["lenSum"]
      BY <1>4, <2>2, <2>3, <2>4, <3>3
    <3> QED
      BY <1>4, <3>3, <3>4 DEF StatsOffByLost, StatsOff, n, m
  <2>5. CASE f = "lenSum"
    <3>1. lost' = [lost EXCEPT !["lenSum"] = lost["lenSum"] + segs.lenSum]
      BY <1>1, <2>5
    <3>2. lost["lenSum"] + segs.lenSum = m /\ m \in Int
      BY <2>2, <2>3
    <3>3. lost' \in [Stats -> Int] /\ lost'["lenSum"] = m /\ lost'["count"] = lost["count"]
      BY <2>3, <3>1, <3>2 DEF Stats
    <3>4. segs'.count = n - lost'["count"] /\ segs'.lenSum = m - lost'["lenSum"]
      BY <1>4, <2>2, <2>3, <2>5, <3>3
    <3> QED
      BY <1>4, <3>3, <3>4 DEF StatsOffByLost, StatsOff, n, m
  <2> QED
    BY <1>3, <2>4, <2>5
<1> QED
  BY <1>1, <1>4, <1>5, <1>6, <1>7 DEF LifeInv, AllStamps, RowsUnder

-----------------------------------------------------------------------------

LEMMA NextLifeInv == LifeInv /\ [LifeNext]_lifeVars => LifeInv'
<1> SUFFICES ASSUME LifeInv, [LifeNext]_lifeVars PROVE LifeInv'
  OBVIOUS
<1>1. ASSUME NEW c \in Configs, OpenCold(c) \/ OpenWarm(c) PROVE LifeInv'
  BY <1>1, OpenColdInv, OpenWarmInv
<1>2. CASE Close
  BY <1>2, CloseInv
<1>3. ASSUME NEW f \in Stamps, LoseStamp(f) PROVE LifeInv'
  BY <1>3, LoseStampInv
<1>4. ASSUME NEW n \in SegId, SetBackMark(n) PROVE LifeInv'
  BY <1>4, SetBackMarkInv
<1>5. CASE Write
  BY <1>5, WriteInv
<1>6. CASE RebuildAll
  BY <1>6, RebuildAllInv
<1>7. CASE UNCHANGED lifeVars
  <2>1. UNCHANGED vars /\ UNCHANGED <<config, stamps, lost>>
    BY <1>7 DEF lifeVars
  <2>2. /\ TablesAgree' /\ Stored(segs, dict, nextTerm)' /\ Columns(segs)'
        /\ RowsBelow' <=> RowsBelow
        /\ StatsOffByLost'
    BY <2>1, TablesKept
  <2> QED
    BY <2>1, <2>2 DEF LifeInv, AllStamps, RowsUnder, vars
<1>8. ASSUME NEW f \in Stats, LoseStat(f) PROVE LifeInv'
  BY <1>8, LoseStatInv
<1> QED
  BY <1>1, <1>2, <1>3, <1>4, <1>5, <1>6, <1>7, <1>8 DEF LifeNext

(* Over any number of sessions, losses of stamps and stats, and set-back   *)
(* marks.                                                                  *)
THEOREM LifeInvariant == LifeSpec => []LifeInv
<1>1. LifeInit => LifeInv
  <2> SUFFICES ASSUME LifeInit PROVE LifeInv
    OBVIOUS
  <2>1. /\ segs = NoSegments /\ post = NoPostings
        /\ dict = EmptyDict /\ nextTerm = 1
        /\ stamps = NoStamps /\ config = Closed /\ lost = NothingLost
    BY DEF LifeInit, Init
  <2>2. TablesAgree /\ Stored(segs, dict, nextTerm)
    BY <2>1, EmptyContentInv, ContentInvIs
  <2>3. Columns(segs)
    BY <2>1 DEF Columns, NoSegments
  <2>4. stamps = [f \in Stamps |-> stamps[f]] /\ ~ AllStamps
    BY <2>1 DEF NoStamps, AllStamps, Stamps
  <2>5. StatsOffByLost
    BY <2>1, NoSegmentsStats DEF StatsOffByLost, NothingLost, Stats
  <2> QED
    BY <2>1, <2>2, <2>3, <2>4, <2>5 DEF LifeInv
<1> QED
  BY <1>1, NextLifeInv, PTL DEF LifeSpec

(* Whatever an open session serves was written under its own four stamps,  *)
(* has a label its schema accepts, and is found by all of its grams.       *)
THEOREM SessionsServeOwnContent == LifeSpec => []ContentCurrent
<1>1. LifeInv => ContentCurrent
  <2> SUFFICES ASSUME LifeInv, config # Closed
               PROVE  /\ WrittenUnder(config)
                      /\ \A s \in DOMAIN segs.row :
                           LET r == segs.row[s]
                           IN /\ r.label \in Accepted
                              /\ Overlap(GramsOf[<<r.txt[1], config>>], s) = r.len
    BY DEF ContentCurrent
  <2>1. ContentInv /\ config \in Configs /\ RowsUnder(config)
    BY OpenParts
  <2>2. ASSUME NEW s \in DOMAIN segs.row
        PROVE  /\ segs.row[s].txt[2] = config
               /\ segs.row[s].label \in Accepted
               /\ Overlap(GramsOf[<<segs.row[s].txt[1], config>>], s) = segs.row[s].len
    <3> DEFINE txt == segs.row[s].txt
    <3>1. /\ txt \in RawTexts \X {config}
          /\ segs.row[s].label \in Accepts[config.schema_fingerprint]
          /\ segs.row[s].len = Cardinality(GramsOf[txt])
      BY <2>1 DEF RowsUnder, RowUnder
    <3>2. txt[2] = config /\ <<txt[1], config>> = txt
      BY <3>1
    <3>3. txt \in Texts
      BY <2>1, <3>1, TaggedTexts
    <3>4. GramsOf[txt] \in SUBSET Grams
      BY <3>3, Tokenizer
    <3>5. Overlap(GramsOf[txt], s) = Cardinality(GramsOf[txt] \cap GramsOf[segs.row[s].txt])
      BY <2>1, <3>4, OverlapIs DEF ContentInv, TablesAgree
    <3> QED
      BY <3>1, <3>2, <3>5 DEF Accepted
  <2> QED
    BY <2>2 DEF WrittenUnder
<1> QED
  BY <1>1, LifeInvariant, PTL

(* Whatever stamps were lost and wherever the id mark was set back while   *)
(* the file was closed, an open session finds tables that agree; the stats *)
(* miss exactly what was lost of them since the last reset or rebuild.     *)
THEOREM OpenFindsTablesThatAgree == LifeSpec => []OpenConsistent
<1>1. LifeInv => OpenConsistent
  <2> SUFFICES ASSUME LifeInv, config # Closed
               PROVE  /\ \A s \in DOMAIN segs.row : s < segs.nextId
                      /\ PostingsMatchForward /\ DfExact /\ ForwardDecodes
                      /\ FieldsUnique
                      /\ StatsOff(segs, lost["count"], lost["lenSum"])
    BY DEF OpenConsistent, StatsOff
  <2> QED
    BY OpenParts DEF ContentInv, TablesAgree, RowsBelow, LifeInv, StatsOffByLost
<1> QED
  BY <1>1, LifeInvariant, PTL

(* An undamaged file is kept by the next open under its own config: an     *)
(* index is rebuilt only when something changed.                           *)
THEOREM UndamagedFileIsKept == LifeSpec => WarmReopen
<1>1. LifeInv /\ [LifeNext]_lifeVars =>
        [\A c \in Configs :
           /\ config = Closed /\ config' = c
           /\ DOMAIN segs.row # {} /\ WrittenUnder(c)
           /\ \A f \in Stamps : stamps[f] # NoStamp
           /\ \A s \in DOMAIN segs.row : s < segs.nextId
           => /\ ContentOf(segs') = ContentOf(segs)
              /\ \A t \in TermId : Effective(post', t) = Effective(post, t)]_lifeVars
  <2> SUFFICES ASSUME LifeInv, LifeNext, NEW c \in Configs,
                      config = Closed, config' = c,
                      DOMAIN segs.row # {}, WrittenUnder(c),
                      \A f \in Stamps : stamps[f] # NoStamp,
                      \A s \in DOMAIN segs.row : s < segs.nextId
               PROVE  segs' = segs /\ post' = post
    BY DEF lifeVars, vars
  <2>1. c # Closed
    BY ConfigIs
  <2>2. PICK d \in Configs : OpenCold(d) \/ OpenWarm(d)
    BY <2>1 DEF LifeNext, Close, LoseStamp, SetBackMark, LoseStat, Write, RebuildAll
  <2>3. stamps \in Configs /\ RowsUnder(stamps)
    BY DEF LifeInv, AllStamps
  <2>4. stamps = c
    BY <2>3 DEF WrittenUnder, RowsUnder, RowUnder
  <2>5. d = c
    BY <2>2 DEF OpenCold, OpenWarm
  <2>6. ~ Drift(c)
    BY <2>4 DEF Drift
  <2>7. ~ Desync
    <3>1. \A s \in DOMAIN segs.row : s \in Int /\ s < segs.nextId
      BY DEF LifeInv, TablesAgree, TypeOK, IsSegmentTables, SegId
    <3>2. segs.nextId \in Int
      BY IdCeilings DEF LifeInv, TablesAgree, TypeOK, IsSegmentTables
    <3> QED
      BY <3>1, <3>2 DEF Desync
  <2>8. OpenWarm(c)
    BY <2>2, <2>5, <2>6, <2>7 DEF OpenCold
  <2> QED
    BY <2>8 DEF OpenWarm
<1> QED
  BY <1>1, LifeInvariant, PTL DEF LifeSpec, WarmReopen

=============================================================================
