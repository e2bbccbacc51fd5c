------------------------------ MODULE Lifecycle -----------------------------
(***************************************************************************)
(* One index file over the sessions that open it: Index::init compares the *)
(* four version stamps of meta with what the caller brings, probes the id  *)
(* mark, and keeps or empties the cache before the session may write.      *)
(* Between sessions the file may lose a stamp or a row of its rolling      *)
(* stats, or have its mark set back.                                       *)
(* One session at a time holds the file, as src/dict.rs assumes.           *)
(*                                                                         *)
(* A text of this module is a pair <<text, config>>: what the caller wrote *)
(* and the config it was written under.  Its grams depend on both; nothing *)
(* of the config but those grams is stored, so the properties can compare  *)
(* what is in the tables with what should be.                              *)
(***************************************************************************)
EXTENDS InvertedIndex

CONSTANTS
  Configs,     (* what sessions open with: records of the four stamps      *)
  RawTexts,    (* the texts of callers                                     *)
  Accepts,     (* Accepts[f]: labels of the schema of fingerprint f        *)
  Closed,      (* no session                                               *)
  NoStamp      (* a stamp absent from meta                                 *)

Stamps == {"schema_version", "data_version", "fingerprint", "schema_fingerprint"}

ASSUME ConfigShape ==
  /\ \A c \in Configs : /\ c = [f \in Stamps |-> c[f]]
                        /\ \A f \in Stamps : c[f] # NoStamp
  /\ Closed \notin Configs
ASSUME TaggedTexts == Texts = RawTexts \X Configs
ASSUME SchemaLabels == \A c \in Configs : Accepts[c.schema_fingerprint] \subseteq Labels

VARIABLES
  config,      (* the config of the open session, or Closed                *)
  stamps,      (* the stamps in meta                                       *)
  lost         (* history only: what lost rows of the stats had counted,   *)
               (* since the index was last emptied or rebuilt              *)

lifeVars == <<vars, config, stamps, lost>>

NoStamps == [f \in Stamps |-> NoStamp]

Stats == {"count", "lenSum"}

NothingLost == [f \in Stats |-> 0]

LifeInit == Init /\ config = Closed /\ stamps = NoStamps /\ lost = NothingLost

-----------------------------------------------------------------------------
(* Opening.                                                                *)

(* Faulty: a drift check that forgot two stamps; a probe that is off by    *)
(* one; a reset that leaves the stamps it finds.                           *)
DriftOfFormat(c) ==
  \E f \in Stamps \ {"data_version", "schema_fingerprint"} : stamps[f] # c[f]

DesyncBeyond == \E s \in DOMAIN segs.row : s > segs.nextId

StampsKept(c) == IF stamps = NoStamps THEN c ELSE stamps

(* An absent stamp is drift like a different one.                          *)
Drift(c) == \E f \in Stamps : stamps[f] # c[f]

(* max(seg.id) has reached the mark.                                       *)
Desync == \E s \in DOMAIN segs.row : s >= segs.nextId

(* write_stamps.                                                           *)
StampsOf(c) == c

(* Dictionary::load puts the mark one past the ids it finds.               *)
LoadedMark(d) == 1 + Cardinality({g \in Grams : d[g] # NoTerm})

OpenCold(c) ==
  /\ config = Closed
  /\ Drift(c) \/ Desync
  /\ Reset
  /\ stamps' = StampsOf(c)
  /\ config' = c
  /\ lost' = NothingLost

OpenWarm(c) ==
  /\ config = Closed
  /\ ~Drift(c) /\ ~Desync
  /\ nextTerm' = LoadedMark(dict)
  /\ config' = c
  /\ UNCHANGED <<segs, post, dict, stamps, lost>>

(* The handle is dropped, or the process dies between two calls.           *)
Close ==
  /\ config # Closed
  /\ config' = Closed
  /\ UNCHANGED <<vars, stamps, lost>>

-----------------------------------------------------------------------------
(* Damage to meta while no session is open.                                *)

(* One stamp at a time is lost: the next open resets whatever is missing.  *)
LoseStamp(f) ==
  /\ config = Closed
  /\ \A h \in Stamps : stamps[h] # NoStamp
  /\ stamps' = [stamps EXCEPT ![f] = NoStamp]
  /\ UNCHANGED <<vars, config, lost>>

(* The next_id row is lost (it then reads as 1) or set back.               *)
SetBackMark(n) ==
  /\ config = Closed
  /\ n < segs.nextId
  /\ segs' = [segs EXCEPT !.nextId = n]
  /\ UNCHANGED <<post, dict, nextTerm, config, stamps, lost>>

(* The row of seg_count or seg_len_sum is lost: it reads as 0 from then    *)
(* on, which no open notices, and later writes count on from there.        *)
LoseStat(f) ==
  /\ config = Closed
  /\ segs' = [segs EXCEPT ![f] = 0]
  /\ lost' = [lost EXCEPT ![f] = @ + segs[f]]
  /\ UNCHANGED <<post, dict, nextTerm, config, stamps>>

-----------------------------------------------------------------------------
(* A session's writes.                                                     *)

(* Schema::accepts_label; a segment of another label fails its call.       *)
Accepted == Accepts[config.schema_fingerprint]

SessionDocs == UNION {[L -> RawTexts \X {config}] : L \in SUBSET Accepted}

Write ==
  /\ config # Closed
  /\ \/ \E k \in Keys, doc \in SessionDocs : Upsert(k, doc)
     \/ \E k \in Keys : Remove(k)
     \/ \E k \in Keys, l \in Labels : RemoveSegment(k, l)
     \/ Compact
  /\ UNCHANGED <<config, stamps, lost>>

RebuildAll ==
  /\ config # Closed
  /\ \E corpus \in [Keys -> SessionDocs] : Rebuild(corpus)
  /\ stamps' = StampsOf(config)
  /\ lost' = NothingLost
  /\ UNCHANGED config

LifeNext ==
  \/ \E c \in Configs : OpenCold(c) \/ OpenWarm(c)
  \/ Close
  \/ \E f \in Stamps : LoseStamp(f)
  \/ \E n \in SegId : SetBackMark(n)
  \/ \E f \in Stats : LoseStat(f)
  \/ Write
  \/ RebuildAll

LifeSpec == LifeInit /\ [][LifeNext]_lifeVars

-----------------------------------------------------------------------------
(* Properties.                                                             *)

WrittenUnder(c) == \A s \in DOMAIN segs.row : segs.row[s].txt[2] = c

(* An open session serves only content of its own config: every row was    *)
(* written under the same format, tokenizer, schema and data version, has  *)
(* a label the schema accepts, and is found by all grams that its text has *)
(* under the session's tokenizer (the drift check of Index::init).         *)
ContentCurrent ==
  config # Closed =>
    /\ WrittenUnder(config)
    /\ \A s \in DOMAIN segs.row :
         LET r == segs.row[s]
         IN /\ r.label \in Accepted
            /\ Overlap(GramsOf[<<r.txt[1], config>>], s) = r.len

(* Whatever stamps were lost and wherever the id mark was set back to, an  *)
(* open session finds tables that agree: one row per key and label, ids    *)
(* below the mark, postings and frequencies of exactly the rows (the       *)
(* desync probe).  The stats count the rows too, but for what was lost of  *)
(* them since the index was last emptied or rebuilt, which alone set them  *)
(* anew: no other call adds to the error or takes from it.                 *)
OpenConsistent ==
  config # Closed =>
    /\ \A s \in DOMAIN segs.row : s < segs.nextId
    /\ PostingsMatchForward /\ DfExact /\ ForwardDecodes
    /\ FieldsUnique
    /\ segs.count = Cardinality(DOMAIN segs.row) - lost["count"]
    /\ segs.lenSum = SumLen(segs.row, DOMAIN segs.row) - lost["lenSum"]

(* Reopening an undamaged file under the config its rows were written      *)
(* under keeps them all: a reset leaves stamps that the next open accepts. *)
WarmReopen ==
  [][\A c \in Configs :
       /\ config = Closed /\ config' = c
       /\ DOMAIN segs.row # {} /\ WrittenUnder(c)
       /\ \A f \in Stamps : stamps[f] # NoStamp
       /\ \A s \in DOMAIN segs.row : s < segs.nextId
       => /\ ContentOf(segs') = ContentOf(segs)
          /\ \A t \in TermId : Effective(post', t) = Effective(post, t)]_lifeVars

=============================================================================
