------------------------------ MODULE ReadPool ------------------------------
(***************************************************************************)
(* The read pool (src/store/pool.rs) and the searches that borrow its      *)
(* connections: the lazy CandidateStream and the eager matches_batch of    *)
(* src/search.rs, beside commits of the writer.                            *)
(*                                                                         *)
(* A search runs on one thread, or on the several that pass its stream on; *)
(* between any two of its steps others run.  A snapshot is the number of   *)
(* commits it contains, and Hits[v] how many candidates a query has in     *)
(* snapshot v.  SQLite is modelled as it is used: BEGIN DEFERRED fails in  *)
(* an open transaction, the first read after it pins the latest commit,    *)
(* and outside a transaction each read sees the latest commit.             *)
(***************************************************************************)
EXTENDS Naturals, Sequences, FiniteSets

CONSTANTS
  Searches,     (* the searches of the callers, each used again and again  *)
  Conns,        (* connections the factory may open (bound)                *)
  MaxCommits,   (* bound on the commits                                    *)
  Hits,         (* candidates per snapshot                                 *)
  NoConn, NoSnap

ASSUME Inputs ==
  /\ IsFiniteSet(Searches) /\ IsFiniteSet(Conns) /\ NoConn \notin Conns
  /\ MaxCommits \in Nat /\ Hits \in [0..MaxCommits -> Nat] /\ NoSnap \notin Nat

VARIABLES
  commits,      (* how many the writer has made                            *)
  idle,         (* ReadPool.idle                                           *)
  opened,       (* connections the factory has opened                      *)
  tx,           (* connection -> is it in a transaction, at which snapshot *)
  search,       (* each search                                             *)
  leaked        (* connections of forgotten streams                        *)

vars == <<commits, idle, opened, tx, search, leaked>>

-----------------------------------------------------------------------------

NoTx == [open |-> FALSE, snap |-> NoSnap]

(* A search: pc, its ReadConn, started, errored and ready of the stream,   *)
(* and what the caller has seen: candidates, an error, the end, and the    *)
(* snapshots its reads were made on.                                       *)
Unborn ==
  [pc |-> "none", conn |-> NoConn, started |-> FALSE, errored |-> FALSE, ready |-> 0,
   got |-> 0, failed |-> FALSE, ended |-> FALSE, reads |-> {}]

UnderWay(s) == search[s].pc # "none"

(* What a read over c sees, and the transaction after it.                  *)
Sees(c) == IF tx[c].snap = NoSnap THEN commits ELSE tx[c].snap
Pinned(c) == [tx[c] EXCEPT !.snap = IF tx[c].open THEN Sees(c) ELSE NoSnap]

Set(s, r) == search' = [search EXCEPT ![s] = r]

Init ==
  /\ commits = 0 /\ idle = <<>> /\ opened = {}
  /\ tx = [c \in Conns |-> NoTx]
  /\ search = [s \in Searches |-> Unborn]
  /\ leaked = {}

(* The writer, on its own connection.                                      *)
Commit ==
  /\ commits < MaxCommits
  /\ commits' = commits + 1
  /\ UNCHANGED <<idle, opened, tx, search, leaked>>

(* Faulty: the connection stays in the idle list while it is used.         *)
CheckoutPeek(s) ==
  /\ ~UnderWay(s)
  /\ IF idle = <<>>
     THEN Set(s, [Unborn EXCEPT !.pc = "opening"])
     ELSE Set(s, [Unborn EXCEPT !.pc = "begin", !.conn = idle[Len(idle)]])
  /\ UNCHANGED <<commits, idle, opened, tx, leaked>>

(* checkout, under the lock: pop the last idle connection, if any.         *)
Checkout(s) ==
  /\ ~UnderWay(s)
  /\ IF idle = <<>>
     THEN Set(s, [Unborn EXCEPT !.pc = "opening"]) /\ UNCHANGED idle
     ELSE /\ Set(s, [Unborn EXCEPT !.pc = "begin", !.conn = idle[Len(idle)]])
          /\ idle' = SubSeq(idle, 1, Len(idle) - 1)
  /\ UNCHANGED <<commits, opened, tx, leaked>>

(* checkout, the lock released: the factory opens one, or fails.           *)
Open(s) ==
  /\ search[s].pc = "opening"
  /\ \/ \E c \in Conns \ opened :
          /\ opened' = opened \cup {c}
          /\ Set(s, [search[s] EXCEPT !.pc = "begin", !.conn = c])
     \/ Set(s, Unborn) /\ UNCHANGED opened
  /\ UNCHANGED <<commits, idle, tx, leaked>>

(* Faulty: no transaction is opened.                                       *)
BeginNothing(s) ==
  /\ search[s].pc = "begin"
  /\ Set(s, [search[s] EXCEPT !.pc = "prepare"])
  /\ UNCHANGED <<commits, idle, opened, tx, leaked>>

(* BEGIN DEFERRED.  When it fails the connection goes back as it is.       *)
Begin(s) ==
  /\ search[s].pc = "begin"
  /\ \/ /\ ~tx[search[s].conn].open
        /\ tx' = [tx EXCEPT ![search[s].conn] = [open |-> TRUE, snap |-> NoSnap]]
        /\ Set(s, [search[s] EXCEPT !.pc = "prepare"])
     \/ /\ Set(s, [search[s] EXCEPT !.pc = "checkin"])
        /\ UNCHANGED tx
  /\ UNCHANGED <<commits, idle, opened, leaked>>

(* prepare: its first read pins the snapshot.  On an error, Busy for one,  *)
(* the caller gets no stream.                                              *)
Prepare(s) ==
  /\ search[s].pc = "prepare"
  /\ LET c == search[s].conn
     IN /\ tx' = [tx EXCEPT ![c] = Pinned(c)]
        /\ \/ Set(s, [search[s] EXCEPT !.pc = "live", !.reads = {Sees(c)}])
           \/ Set(s, [search[s] EXCEPT !.pc = "drop"])
  /\ UNCHANGED <<commits, idle, opened, leaked>>

Pop(r) == IF r.ready > 0 THEN [r EXCEPT !.ready = @ - 1, !.got = @ + 1]
          ELSE [r EXCEPT !.ended = TRUE]

(* Faulty: next reports a failed scoring but does not fuse.                *)
NextItemUnfused(s) ==
  LET r == search[s]
      c == r.conn
      v == Sees(c)
  IN /\ r.pc = "live" /\ ~r.ended
     /\ IF r.started THEN Set(s, Pop(r))
        ELSE \/ Set(s, Pop([r EXCEPT !.started = TRUE, !.ready = Hits[v], !.reads = @ \cup {v}]))
             \/ Set(s, [r EXCEPT !.failed = TRUE])
     /\ UNCHANGED <<commits, idle, opened, tx, leaked>>

(* CandidateStream::next: the first call scores the whole union and may    *)
(* fail; after an error it only ever says None.                            *)
NextItem(s) ==
  LET r == search[s]
      c == r.conn
      v == Sees(c)
  IN /\ r.pc = "live" /\ ~r.ended
     /\ IF r.errored THEN Set(s, [r EXCEPT !.ended = TRUE])
        ELSE IF r.started THEN Set(s, Pop(r))
        ELSE \/ Set(s, Pop([r EXCEPT !.started = TRUE, !.ready = Hits[v], !.reads = @ \cup {v}]))
             \/ Set(s, [r EXCEPT !.started = TRUE, !.errored = TRUE, !.failed = TRUE])
     /\ UNCHANGED <<commits, idle, opened, tx, leaked>>

(* hydrate: one more read on the same connection.                          *)
Hydrate(s) ==
  /\ search[s].pc = "live" /\ search[s].got > 0
  /\ Set(s, [search[s] EXCEPT !.reads = @ \cup {Sees(search[s].conn)}])
  /\ UNCHANGED <<commits, idle, opened, tx, leaked>>

(* The caller is done with it, or a panic unwinds through it.              *)
Finish(s) ==
  /\ search[s].pc = "live"
  /\ Set(s, [search[s] EXCEPT !.pc = "drop"])
  /\ UNCHANGED <<commits, idle, opened, tx, leaked>>

(* Drop for CandidateStream, the rollback after a failed prepare, and that *)
(* of the Transaction of matches_batch: best effort.                       *)
DropStream(s) ==
  /\ search[s].pc = "drop"
  /\ tx' \in {tx, [tx EXCEPT ![search[s].conn] = NoTx]}
  /\ Set(s, [search[s] EXCEPT !.pc = "checkin"])
  /\ UNCHANGED <<commits, idle, opened, leaked>>

(* Faulty: check-in trusts the rollback of the stream.                     *)
CheckInAsIs(s) ==
  /\ search[s].pc = "checkin"
  /\ idle' = Append(idle, search[s].conn)
  /\ Set(s, Unborn)
  /\ UNCHANGED <<commits, opened, tx, leaked>>

(* Drop for ReadConn: checkin rolls an open transaction back, then pushes. *)
(* It ignores the result of ROLLBACK, which is issued only where           *)
(* is_autocommit found a transaction, and SQLite refuses one only where    *)
(* there is none: that one ends the transaction is trusted.                *)
CheckIn(s) ==
  /\ search[s].pc = "checkin"
  /\ tx' = [tx EXCEPT ![search[s].conn] = NoTx]
  /\ idle' = Append(idle, search[s].conn)
  /\ Set(s, Unborn)
  /\ UNCHANGED <<commits, opened, leaked>>

(* The caller forgets the stream: neither Drop runs.                       *)
Forget(s) ==
  /\ search[s].pc = "live"
  /\ leaked' = leaked \cup {search[s].conn}
  /\ Set(s, Unborn)
  /\ UNCHANGED <<commits, idle, opened, tx>>

Next ==
  \/ Commit
  \/ \E s \in Searches :
       \/ Checkout(s) \/ Open(s) \/ Begin(s) \/ Prepare(s) \/ NextItem(s) \/ Hydrate(s)
       \/ Finish(s) \/ DropStream(s) \/ CheckIn(s) \/ Forget(s)

Spec == Init /\ [][Next]_vars

-----------------------------------------------------------------------------
(* Properties.                                                             *)

Holders(c) == {s \in Searches : search[s].conn = c}

(* A connection is in one place: once in the idle list, or in the hands of *)
(* one search, or lost with a forgotten stream.  Two searches in one       *)
(* transaction would end each other's snapshot.                            *)
OneOwner ==
  \A c \in opened :
    Cardinality({n \in DOMAIN idle : idle[n] = c}) + Cardinality(Holders(c))
      + Cardinality(leaked \cap {c}) = 1

(* A connection waits in the pool with no transaction on it, though the    *)
(* rollback of a stream may fail: so no BEGIN of a later search is refused *)
(* and no snapshot outlives its search.                                    *)
IdleClean == \A n \in DOMAIN idle : tx[idle[n]] = NoTx

(* All that one search reads, from prepare to hydrate, is of one snapshot, *)
(* however long the caller takes.                                          *)
OneSnapshot == \A s \in Searches : Cardinality(search[s].reads) <= 1

(* A stream that says it is over has given every candidate of its          *)
(* snapshot, or an error before: never a prefix that looks complete.       *)
NoSilentPrefix ==
  \A s \in Searches :
    LET r == search[s]
    IN /\ r.ended /\ ~r.failed => \A v \in r.reads : r.got = Hits[v]
       /\ r.failed => r.got = 0

=============================================================================
