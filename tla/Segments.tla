------------------------------ MODULE Segments ------------------------------
(***************************************************************************)
(* The segment tables of trifle (seg, fwd, the id mark and the rolling     *)
(* stats in meta) and the gram dictionary, as pure operators, from         *)
(* src/lib.rs, src/schema.rs and src/dict.rs.                              *)
(*                                                                         *)
(* A text is a member of Texts; all the index ever takes from it is its    *)
(* set of distinct grams, GramsOf[txt].  The forward table is a total      *)
(* function (an absent fwd row reads as the empty set); the dictionary     *)
(* maps every gram to its term id, or to NoTerm when it has none (its      *)
(* UNIQUE index makes the id -> gram table a function of the gram).        *)
(***************************************************************************)
EXTENDS Postings, Functions, Folds

CONSTANTS
  Keys,        (* caller keys of documents                                 *)
  Labels,      (* segment labels the schema accepts                        *)
  Texts,       (* segment texts                                            *)
  Grams,       (* the grams a tokenizer makes of them                      *)
  GramsOf      (* GramsOf[txt]: the distinct grams of a text               *)

ASSUME Tokenizer == IsFiniteSet(Grams) /\ GramsOf \in [Texts -> SUBSET Grams]
ASSUME Documents == IsFiniteSet(Keys) /\ IsFiniteSet(Labels)

NoTerm == 0

Row == [key : Keys, label : Labels, txt : Texts, len : Nat]

(* What a caller may pass for one document: a text for some of the labels. *)
Docs == UNION {[L -> Texts] : L \in SUBSET Labels}

Dictionaries == [Grams -> TermId \cup {NoTerm}]

NoSegments ==
  [row |-> [s \in {} |-> NoTerm], fwd |-> [s \in SegId |-> {}],
   nextId |-> 1, count |-> 0, lenSum |-> 0]

IsSegmentTables(segs) ==
  /\ DOMAIN segs.row \subseteq SegId
  /\ segs.row \in [DOMAIN segs.row -> Row]
  /\ segs.fwd \in [SegId -> SUBSET TermId]
  /\ segs.nextId \in 1 .. MaxSegId + 1

EmptyDict == [g \in Grams |-> NoTerm]

-----------------------------------------------------------------------------
(* Interning.                                                              *)

(* The dictionaries that interning the grams of G can leave: a gram        *)
(* without an id takes one of the next ids, the order being that of a hash *)
(* set.  There is none when the id space is exhausted (Error::Corrupt).    *)
Interned(dict, next, G) ==
  LET fresh == {g \in G : dict[g] = NoTerm}
      ids   == next .. next + Cardinality(fresh) - 1
  IN IF ids \subseteq TermId
     THEN {[g \in Grams |-> IF g \in fresh THEN a[g] ELSE dict[g]] :
             a \in Bijection(fresh, ids)}
     ELSE {}

TermsOf(dict, txt) == {dict[g] : g \in GramsOf[txt]}

-----------------------------------------------------------------------------
(* Segment rows.                                                           *)

SegmentsOf(segs, k) == {s \in DOMAIN segs.row : segs.row[s].key = k}

FindSegments(segs, k, L) ==
  {s \in SegmentsOf(segs, k) : segs.row[s].label \in L}

SumLen(rows, S) ==
  MapThenFoldSet(LAMBDA m, n : m + n, 0, LAMBDA s : rows[s].len,
                 LAMBDA T : CHOOSE s \in T : TRUE, S)

(* Faulty: the fwd row stays; a delete by label takes other keys along.    *)
DropSegmentsKeepingFwd(segs, S) ==
  [row    |-> Restrict(segs.row, DOMAIN segs.row \ S),
   fwd    |-> segs.fwd,
   nextId |-> segs.nextId,
   count  |-> segs.count - Cardinality(S),
   lenSum |-> segs.lenSum - SumLen(segs.row, S)]

DropSegmentsByLabel(segs, S) ==
  LET all == {s \in DOMAIN segs.row :
                \E d \in S : segs.row[d].label = segs.row[s].label}
  IN [row    |-> Restrict(segs.row, DOMAIN segs.row \ all),
      fwd    |-> [s \in SegId |-> IF s \in all THEN {} ELSE segs.fwd[s]],
      nextId |-> segs.nextId,
      count  |-> segs.count - Cardinality(all),
      lenSum |-> segs.lenSum - SumLen(segs.row, all)]

(* drop_segment for every segment of S, and the bulk form in remove: the   *)
(* seg and fwd rows go, the rolling stats back out the stored lengths.     *)
DropSegments(segs, S) ==
  [row    |-> Restrict(segs.row, DOMAIN segs.row \ S),
   fwd    |-> [s \in SegId |-> IF s \in S THEN {} ELSE segs.fwd[s]],
   nextId |-> segs.nextId,
   count  |-> segs.count - Cardinality(S),
   lenSum |-> segs.lenSum - SumLen(segs.row, S)]

(* The posting removals a drop owes, read from fwd before the rows go.     *)
RemovalsOf(segs, S) == [t \in TermId |-> {s \in S : t \in segs.fwd[s]}]

(* Faulty: an allocation that starts one past the mark.                    *)
AllocIdsPastMark(segs, n) == segs.nextId + 1 .. segs.nextId + n

(* The next n segment ids of the monotonic mark.                           *)
AllocIds(segs, n) == segs.nextId .. segs.nextId + n - 1

(* The rows that the segments of a document become, at[s] being the label  *)
(* that id s is given (the order of the caller's slice).                   *)
DocRows(k, doc, at) ==
  [s \in DOMAIN at |-> [key |-> k, label |-> at[s], txt |-> doc[at[s]],
                        len |-> Cardinality(GramsOf[doc[at[s]]])]]

(* The segments of a rebuild corpus, and the rows they become when id s is *)
(* given to segment at[s] (the order of the caller's iterator).            *)
FieldsOf(corpus) == {f \in Keys \X Labels : f[2] \in DOMAIN corpus[f[1]]}

CorpusGrams(corpus) == UNION {GramsOf[corpus[f[1]][f[2]]] : f \in FieldsOf(corpus)}

CorpusRows(corpus, at) ==
  [s \in DOMAIN at |-> [key |-> at[s][1], label |-> at[s][2],
                        txt |-> corpus[at[s][1]][at[s][2]],
                        len |-> Cardinality(GramsOf[corpus[at[s][1]][at[s][2]]])]]

InsertSegments(segs, rows, dict) ==
  [row    |-> [s \in DOMAIN segs.row \cup DOMAIN rows |->
                IF s \in DOMAIN rows THEN rows[s] ELSE segs.row[s]],
   fwd    |-> [s \in SegId |-> IF s \in DOMAIN rows
                               THEN TermsOf(dict, rows[s].txt)
                               ELSE segs.fwd[s]],
   nextId |-> segs.nextId + Cardinality(DOMAIN rows),
   count  |-> segs.count + Cardinality(DOMAIN rows),
   lenSum |-> segs.lenSum + SumLen(rows, DOMAIN rows)]

(* The posting additions an insert owes.                                   *)
AdditionsOf(rows, dict) ==
  [t \in TermId |-> {s \in DOMAIN rows : t \in TermsOf(dict, rows[s].txt)}]

=============================================================================
