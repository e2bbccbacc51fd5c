---------------------------- MODULE SegmentStore ----------------------------
(***************************************************************************)
(* What trifle promises of its content, with no index in sight: a map from *)
(* (key, label) to a text that a write changes in one step, and the        *)
(* reference answer a search is compared with, computed from the texts.    *)
(***************************************************************************)
EXTENDS FiniteSets

CONSTANTS Keys, Labels, Texts, Grams, GramsOf,
          NoText           (* no segment is stored under this (key, label) *)

VARIABLE content

Fields == Keys \X Labels
Docs == UNION {[L -> Texts] : L \in SUBSET Labels}

ContentType == content \in [Fields -> Texts \cup {NoText}]

Init == content = [f \in Fields |-> NoText]

(* The named segments are inserted or replaced, the key's others kept.     *)
Upsert(k, doc) ==
  content' = [f \in Fields |-> IF f[1] = k /\ f[2] \in DOMAIN doc
                               THEN doc[f[2]] ELSE content[f]]

Remove(k) ==
  content' = [f \in Fields |-> IF f[1] = k THEN NoText ELSE content[f]]

RemoveSegment(k, l) == content' = [content EXCEPT ![<<k, l>>] = NoText]

Rebuild(corpus) ==
  content' = [f \in Fields |-> IF f[2] \in DOMAIN corpus[f[1]]
                               THEN corpus[f[1]][f[2]] ELSE NoText]

Reset == content' = [f \in Fields |-> NoText]

Next ==
  \/ \E k \in Keys, doc \in Docs : Upsert(k, doc)
  \/ \E k \in Keys : Remove(k)
  \/ \E k \in Keys, l \in Labels : RemoveSegment(k, l)
  \/ \E corpus \in [Keys -> Docs] : Rebuild(corpus)
  \/ Reset

Spec == Init /\ [][Next]_content

(* The number of query grams q that the text of field f carries.           *)
Overlap(q, f) ==
  IF content[f] = NoText THEN 0 ELSE Cardinality(q \cap GramsOf[content[f]])

=============================================================================
