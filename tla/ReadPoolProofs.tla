--------------------------- MODULE ReadPoolProofs ---------------------------
(***************************************************************************)
(* Theorems of ReadPool for any number of searches, connections and        *)
(* commits and any number of candidates per snapshot.                      *)
(***************************************************************************)
EXTENDS ReadPool, FiniteSetTheorems, TLAPS

Held == {"begin", "prepare", "live", "drop", "checkin"}
PCs  == {"none", "opening"} \cup Held
Snap == 0 .. MaxCommits

SearchState ==
  [pc : PCs, conn : Conns \cup {NoConn}, started : BOOLEAN, errored : BOOLEAN,
   ready : Nat, got : Nat, failed : BOOLEAN, ended : BOOLEAN, reads : SUBSET Snap]

TxState == [open : BOOLEAN, snap : Snap \cup {NoSnap}]

TypeOK ==
  /\ commits \in Snap
  /\ idle \in Seq(Conns)
  /\ opened \in SUBSET Conns
  /\ tx \in [Conns -> TxState]
  /\ search \in [Searches -> SearchState]
  /\ leaked \in SUBSET Conns

-----------------------------------------------------------------------------
(* The inductive invariant.                                                *)

(* Who may hold a connection, and no two of them the same one.             *)
Placed ==
  /\ \A s \in Searches : /\ search[s].pc \in Held <=> search[s].conn # NoConn
                         /\ search[s].conn # NoConn => search[s].conn \in opened \ leaked
  /\ \A n \in DOMAIN idle : idle[n] \in opened \ leaked
  /\ leaked \subseteq opened

Apart ==
  /\ \A m, n \in DOMAIN idle : idle[m] = idle[n] => m = n
  /\ \A s, t \in Searches : search[s].conn = search[t].conn /\ search[s].conn # NoConn => s = t
  /\ \A s \in Searches, n \in DOMAIN idle : search[s].conn # idle[n]

(* No connection is lost but with a forgotten stream.                      *)
Accounted ==
  \A c \in opened : \/ c \in leaked
                    \/ \E n \in DOMAIN idle : idle[n] = c
                    \/ \E s \in Searches : search[s].conn = c

(* A live search, of state r, is in a transaction x pinned to the one      *)
(* snapshot it has read.                                                   *)
PinnedTo(r, x) ==
  /\ r.pc \in {"none", "opening", "begin", "prepare"} => r.reads = {} /\ ~r.started
  /\ r.pc = "prepare" => x.open
  /\ r.pc = "live" => x.open /\ x.snap # NoSnap /\ r.reads = {x.snap}
  /\ \A u, v \in r.reads : u = v

(* What a stream has given and still holds is what its snapshot holds.     *)
Complete(r) ==
  /\ r.failed <=> r.errored
  /\ r.errored => r.got = 0
  /\ ~r.started => r.got = 0 /\ r.ready = 0 /\ ~r.ended /\ ~r.errored
  /\ r.started /\ ~r.errored => \A v \in r.reads : r.got + r.ready = Hits[v]
  /\ r.ended /\ ~r.errored => r.ready = 0

Pinning == \A s \in Searches : PinnedTo(search[s], tx[search[s].conn])
Streams == \A s \in Searches : Complete(search[s])

PoolInv ==
  /\ TypeOK
  /\ Placed
  /\ Apart
  /\ Accounted
  /\ IdleClean
  /\ Pinning
  /\ Streams

-----------------------------------------------------------------------------

LEMMA InitInv == Init => PoolInv
<1> SUFFICES ASSUME Init PROVE PoolInv
  OBVIOUS
<1> USE Inputs DEF Init, Unborn
<1>1. TypeOK
  BY DEF TypeOK, SearchState, TxState, PCs, Snap, NoTx
<1>2. Placed /\ Apart /\ Accounted /\ IdleClean
  BY DEF Placed, Apart, Accounted, IdleClean, Held
<1>3. Pinning /\ Streams
  BY DEF Pinning, Streams, PinnedTo, Complete, Held
<1> QED
  BY <1>1, <1>2, <1>3 DEF PoolInv

LEMMA CommitInv == ASSUME PoolInv, Commit PROVE PoolInv'
<1> USE Inputs DEF Commit, PoolInv
<1>1. TypeOK'
  BY DEF TypeOK, Snap
<1>2. (Placed /\ Apart /\ Accounted /\ IdleClean /\ Pinning /\ Streams)'
  BY DEF Placed, Apart, Accounted, IdleClean, Pinning, Streams
<1> QED
  BY <1>1, <1>2

(* A step of a search that holds a connection and keeps it: the search     *)
(* becomes r, its transaction x.                                           *)
LEMMA HolderInv ==
  ASSUME PoolInv, NEW s \in Searches, NEW r \in SearchState, NEW x \in TxState,
         search[s].pc \in Held, r.pc \in Held, r.conn = search[s].conn,
         Set(s, r), tx' = [tx EXCEPT ![search[s].conn] = x],
         UNCHANGED <<commits, idle, opened, leaked>>,
         PinnedTo(r, x), Complete(r)
  PROVE  PoolInv'
<1> DEFINE c == search[s].conn
<1>1. c \in Conns /\ c # NoConn
  BY Inputs DEF PoolInv, TypeOK, SearchState, Placed
<1>2. /\ search' \in [Searches -> SearchState]
      /\ \A t \in Searches : search'[t] = IF t = s THEN r ELSE search[t]
  BY DEF Set, PoolInv, TypeOK
<1>3. /\ tx' \in [Conns -> TxState]
      /\ \A d \in Conns : tx'[d] = IF d = c THEN x ELSE tx[d]
  BY <1>1 DEF PoolInv, TypeOK
<1>4. \A t \in Searches : /\ search'[t].conn = search[t].conn
                          /\ search'[t].pc \in Held <=> search[t].pc \in Held
  BY <1>2
<1>5. TypeOK'
  BY <1>2, <1>3 DEF PoolInv, TypeOK
<1>6. Placed' /\ Apart' /\ Accounted'
  BY <1>4 DEF PoolInv, Placed, Apart, Accounted
<1>7. IdleClean'
  <2>1. \A n \in DOMAIN idle : idle[n] \in Conns /\ idle[n] # c
    BY <1>1 DEF PoolInv, TypeOK, Apart
  <2> QED
    BY <1>3, <2>1 DEF PoolInv, IdleClean
<1>8. Streams'
  BY <1>2 DEF PoolInv, Streams
<1>9. Pinning'
  <2> SUFFICES ASSUME NEW t \in Searches
               PROVE  PinnedTo(search'[t], tx'[search'[t].conn])
    BY DEF Pinning
  <2>1. CASE t = s
    BY <2>1, <1>1, <1>2, <1>3
  <2>2. CASE t # s /\ search[t].conn = NoConn
    <3>1. search'[t] = search[t] /\ search[t].pc \in {"none", "opening"}
      BY <2>2, <1>2 DEF PoolInv, TypeOK, SearchState, PCs, Held, Placed
    <3> QED
      BY <3>1 DEF PoolInv, Pinning, PinnedTo
  <2>3. CASE t # s /\ search[t].conn # NoConn
    <3>1. search[t].conn \in Conns \ {c}
      BY <2>3, <1>1 DEF PoolInv, TypeOK, SearchState, Apart
    <3>2. search'[t] = search[t] /\ tx'[search[t].conn] = tx[search[t].conn]
      BY <2>3, <3>1, <1>2, <1>3
    <3> QED
      BY <3>2 DEF PoolInv, Pinning
  <2> QED
    BY <2>1, <2>2, <2>3
<1> QED
  BY <1>5, <1>6, <1>7, <1>8, <1>9 DEF PoolInv

(* What the invariant says of a search that holds a connection.            *)
LEMMA Holding ==
  ASSUME PoolInv, NEW s \in Searches, search[s].pc \in Held
  PROVE  /\ search[s] \in SearchState
         /\ search[s].conn \in Conns
         /\ tx[search[s].conn] \in TxState
         /\ tx = [tx EXCEPT ![search[s].conn] = tx[search[s].conn]]
         /\ PinnedTo(search[s], tx[search[s].conn])
         /\ Complete(search[s])
<1>1. search[s] \in SearchState /\ search[s].conn \in Conns
  BY DEF PoolInv, TypeOK, SearchState, Placed
<1> QED
  BY <1>1 DEF PoolInv, TypeOK, Pinning, Streams

(* The same when nothing but the search changes.                           *)
LEMMA SearchStepInv ==
  ASSUME PoolInv, NEW s \in Searches, NEW r \in SearchState,
         search[s].pc \in Held, r.pc \in Held, r.conn = search[s].conn,
         Set(s, r), UNCHANGED <<commits, idle, opened, tx, leaked>>,
         PinnedTo(r, tx[search[s].conn]), Complete(r)
  PROVE  PoolInv'
<1>1. tx' = [tx EXCEPT ![search[s].conn] = tx[search[s].conn]]
  BY Holding
<1>2. tx[search[s].conn] \in TxState
  BY Holding
<1> QED
  BY <1>1, <1>2, HolderInv

LEMMA FinishInv == ASSUME PoolInv, NEW s \in Searches, Finish(s) PROVE PoolInv'
<1> DEFINE r == [search[s] EXCEPT !.pc = "drop"]
<1>1. search[s].pc \in Held /\ search[s].pc = "live"
  BY DEF Finish, Held
<1>2. r \in SearchState /\ r.conn = search[s].conn /\ r.pc \in Held
  BY <1>1, Holding DEF SearchState, PCs, Held
<1>3. PinnedTo(r, tx[search[s].conn]) /\ Complete(r)
  BY <1>1, Holding DEF SearchState, PinnedTo, Complete
<1> QED
  BY <1>1, <1>2, <1>3, SearchStepInv DEF Finish

LEMMA BeginInv == ASSUME PoolInv, NEW s \in Searches, Begin(s) PROVE PoolInv'
<1> DEFINE c  == search[s].conn
           x  == [open |-> TRUE, snap |-> NoSnap]
           ok == [search[s] EXCEPT !.pc = "prepare"]
           no == [search[s] EXCEPT !.pc = "checkin"]
<1>1. search[s].pc \in Held /\ search[s].pc = "begin"
  BY DEF Begin, Held
<1>2. /\ ok \in SearchState /\ ok.conn = c /\ ok.pc \in Held
      /\ no \in SearchState /\ no.conn = c /\ no.pc \in Held
      /\ x \in TxState
  BY <1>1, Holding DEF SearchState, PCs, Held, TxState
<1>3. /\ PinnedTo(ok, x) /\ Complete(ok)
      /\ PinnedTo(no, tx[c]) /\ Complete(no)
  BY <1>1, Holding DEF SearchState, PinnedTo, Complete
<1>4. CASE tx' = [tx EXCEPT ![c] = x] /\ Set(s, ok)
  BY <1>1, <1>2, <1>3, <1>4, HolderInv DEF Begin
<1>5. CASE Set(s, no) /\ UNCHANGED tx
  BY <1>1, <1>2, <1>3, <1>5, SearchStepInv DEF Begin
<1> QED
  BY <1>4, <1>5 DEF Begin

LEMMA PrepareInv == ASSUME PoolInv, NEW s \in Searches, Prepare(s) PROVE PoolInv'
<1> DEFINE c  == search[s].conn
           v  == Sees(c)
           x  == [open |-> TRUE, snap |-> v]
           ok == [search[s] EXCEPT !.pc = "live", !.reads = {v}]
           no == [search[s] EXCEPT !.pc = "drop"]
<1>1. /\ search[s].pc \in Held /\ search[s].pc = "prepare"
      /\ tx[c].open /\ tx[c] \in TxState
  BY Holding DEF Prepare, Held, PinnedTo
<1>2. v \in Snap /\ v # NoSnap
  BY <1>1, Inputs DEF Sees, PoolInv, TypeOK, Snap, TxState
<1>3. Pinned(c) = x
  <2>1. Pinned(c) = [tx[c] EXCEPT !.snap = v]
    BY <1>1 DEF Pinned
  <2> HIDE DEF v
  <2> QED
    BY <1>1, <2>1 DEF TxState
<1> HIDE DEF v
<1>4. /\ ok \in SearchState /\ ok.conn = c /\ ok.pc \in Held
      /\ no \in SearchState /\ no.conn = c /\ no.pc \in Held
      /\ x \in TxState
  BY <1>1, <1>2, Holding DEF SearchState, PCs, Held, TxState
<1>5. /\ PinnedTo(ok, x) /\ Complete(ok)
      /\ PinnedTo(no, x) /\ Complete(no)
  BY <1>1, <1>2, Holding DEF SearchState, PinnedTo, Complete
<1>6. tx' = [tx EXCEPT ![c] = x]
  BY <1>3 DEF Prepare
<1>7. Set(s, ok) \/ Set(s, no)
  BY DEF Prepare, v
<1> QED
  BY <1>1, <1>4, <1>5, <1>6, <1>7, HolderInv DEF Prepare

(* A read of a live search sees the snapshot it is pinned to.              *)
LEMMA LiveSees ==
  ASSUME PoolInv, NEW s \in Searches, search[s].pc = "live"
  PROVE  /\ Sees(search[s].conn) \in Snap
         /\ search[s].reads = {Sees(search[s].conn)}
<1>1. search[s].pc \in Held
  BY DEF Held
<1> QED
  BY <1>1, Holding DEF PinnedTo, Sees, TxState

LEMMA HydrateInv == ASSUME PoolInv, NEW s \in Searches, Hydrate(s) PROVE PoolInv'
<1> DEFINE r == [search[s] EXCEPT !.reads = search[s].reads \cup {Sees(search[s].conn)}]
<1>1. search[s].pc \in Held /\ search[s].pc = "live"
  BY DEF Hydrate, Held
<1>2. search[s].reads \cup {Sees(search[s].conn)} = search[s].reads
  BY <1>1, LiveSees
<1>3. /\ r \in SearchState /\ r.conn = search[s].conn /\ r.pc \in Held
      /\ PinnedTo(r, tx[search[s].conn]) /\ Complete(r)
  BY <1>1, <1>2, Holding DEF SearchState, PinnedTo, Complete
<1> QED
  BY <1>1, <1>3, SearchStepInv DEF Hydrate

LEMMA DropStreamInv == ASSUME PoolInv, NEW s \in Searches, DropStream(s) PROVE PoolInv'
<1> DEFINE c == search[s].conn
           r == [search[s] EXCEPT !.pc = "checkin"]
<1>1. search[s].pc \in Held /\ search[s].pc = "drop"
  BY DEF DropStream, Held
<1>2. r \in SearchState /\ r.conn = c /\ r.pc \in Held /\ NoTx \in TxState
  BY <1>1, Holding DEF SearchState, PCs, Held, TxState, NoTx
<1>3. PinnedTo(r, tx[c]) /\ PinnedTo(r, NoTx) /\ Complete(r)
  BY <1>1, Holding DEF SearchState, PinnedTo, Complete
<1>4. CASE tx' = tx
  BY <1>1, <1>2, <1>3, <1>4, SearchStepInv DEF DropStream
<1>5. CASE tx' = [tx EXCEPT ![c] = NoTx]
  BY <1>1, <1>2, <1>3, <1>5, HolderInv DEF DropStream
<1> QED
  BY <1>4, <1>5 DEF DropStream

LEMMA NextItemInv == ASSUME PoolInv, NEW s \in Searches, NextItem(s) PROVE PoolInv'
<1> DEFINE old == search[s]
           c   == old.conn
           v   == Sees(c)
           full == [old EXCEPT !.started = TRUE, !.ready = Hits[v], !.reads = old.reads \cup {v}]
           over == [old EXCEPT !.ended = TRUE]
           bad  == [old EXCEPT !.started = TRUE, !.errored = TRUE, !.failed = TRUE]
<1>1. old.pc \in Held /\ old.pc = "live" /\ ~old.ended
  BY DEF NextItem, Held
<1>2. v \in Snap /\ old.reads = {v}
  BY <1>1, LiveSees
<1>3. Hits[v] \in Nat
  BY <1>2, Inputs DEF Snap
<1>4. /\ old \in SearchState /\ PinnedTo(old, tx[c]) /\ Complete(old)
  BY <1>1, Holding
<1>5. \/ old.errored /\ Set(s, over)
      \/ ~old.errored /\ old.started /\ Set(s, Pop(old))
      \/ ~old.errored /\ ~old.started /\ (Set(s, Pop(full)) \/ Set(s, bad))
  BY DEF NextItem
<1> HIDE DEF v
(* Popping keeps the sum of what was given and what is ready.              *)
<1>6. ASSUME NEW r \in SearchState, r.pc = "live", r.conn = c,
             PinnedTo(r, tx[c]), Complete(r), r.started, ~r.errored, ~r.ended
      PROVE  /\ Pop(r) \in SearchState /\ Pop(r).pc \in Held /\ Pop(r).conn = c
             /\ PinnedTo(Pop(r), tx[c]) /\ Complete(Pop(r))
  <2>1. CASE r.ready > 0
    <3> DEFINE p == [r EXCEPT !.ready = r.ready - 1, !.got = r.got + 1]
    <3>1. Pop(r) = p
      BY <2>1 DEF Pop
    <3>2. p \in SearchState /\ p.pc \in Held /\ p.conn = c
      <4>1. r.ready - 1 \in Nat /\ r.got + 1 \in Nat
        BY <2>1 DEF SearchState
      <4> QED
        BY <1>6, <4>1 DEF SearchState, Held
    <3>3. PinnedTo(p, tx[c])
      BY <1>6 DEF SearchState, PinnedTo
    <3>4. Complete(p)
      BY <1>6, <2>1 DEF SearchState, Complete
    <3> QED
      BY <3>1, <3>2, <3>3, <3>4
  <2>2. CASE ~(r.ready > 0)
    <3> DEFINE p == [r EXCEPT !.ended = TRUE]
    <3>1. Pop(r) = p
      BY <2>2 DEF Pop
    <3>2. p \in SearchState /\ p.pc \in Held /\ p.conn = c
      BY <1>6 DEF SearchState, Held
    <3>3. PinnedTo(p, tx[c])
      BY <1>6 DEF SearchState, PinnedTo
    <3>4. Complete(p)
      BY <1>6, <2>2 DEF SearchState, Complete
    <3> QED
      BY <3>1, <3>2, <3>3, <3>4
  <2> QED
    BY <2>1, <2>2
<1>7. CASE old.errored /\ Set(s, over)
  <2>1. /\ over \in SearchState /\ over.pc \in Held /\ over.conn = c
        /\ PinnedTo(over, tx[c]) /\ Complete(over)
    BY <1>1, <1>4, <1>7 DEF SearchState, PinnedTo, Complete
  <2> QED
    BY <1>1, <1>7, <2>1, SearchStepInv DEF NextItem
<1>8. CASE ~old.errored /\ old.started /\ Set(s, Pop(old))
  <2>1. /\ Pop(old) \in SearchState /\ Pop(old).pc \in Held /\ Pop(old).conn = c
        /\ PinnedTo(Pop(old), tx[c]) /\ Complete(Pop(old))
    BY <1>1, <1>4, <1>6, <1>8
  <2> QED
    BY <1>1, <1>8, <2>1, SearchStepInv DEF NextItem
<1>9. CASE ~old.errored /\ ~old.started /\ Set(s, Pop(full))
  <2>1. /\ full \in SearchState /\ full.pc = "live" /\ full.conn = c
        /\ full.started /\ ~full.errored /\ ~full.ended
    BY <1>1, <1>2, <1>3, <1>4, <1>9 DEF SearchState
  <2>2. PinnedTo(full, tx[c]) /\ Complete(full)
    BY <1>1, <1>2, <1>3, <1>4, <1>9 DEF SearchState, PinnedTo, Complete
  <2>3. /\ Pop(full) \in SearchState /\ Pop(full).pc \in Held /\ Pop(full).conn = c
        /\ PinnedTo(Pop(full), tx[c]) /\ Complete(Pop(full))
    BY <1>6, <2>1, <2>2
  <2> QED
    BY <1>1, <1>9, <2>3, SearchStepInv DEF NextItem
<1>10. CASE ~old.errored /\ ~old.started /\ Set(s, bad)
  <2>1. /\ bad \in SearchState /\ bad.pc \in Held /\ bad.conn = c
        /\ PinnedTo(bad, tx[c]) /\ Complete(bad)
    BY <1>1, <1>4, <1>10 DEF SearchState, PinnedTo, Complete
  <2> QED
    BY <1>1, <1>10, <2>1, SearchStepInv DEF NextItem
<1> QED
  BY <1>5, <1>7, <1>8, <1>9, <1>10

-----------------------------------------------------------------------------
(* The steps that move a connection.                                       *)

LEMMA UnbornState ==
  /\ Unborn \in SearchState /\ Complete(Unborn) /\ \A x : PinnedTo(Unborn, x)
  /\ Unborn.conn = NoConn /\ Unborn.pc \notin Held
BY DEF Unborn, SearchState, PCs, Held, Complete, PinnedTo

LEMMA CheckoutInv == ASSUME PoolInv, NEW s \in Searches, Checkout(s) PROVE PoolInv'
<1>1. search[s].pc = "none" /\ search[s].conn = NoConn
  BY DEF Checkout, UnderWay, PoolInv, Placed, Held
<1>2. CASE idle = <<>>
  <2> DEFINE r == [Unborn EXCEPT !.pc = "opening"]
  <2>1. /\ r \in SearchState /\ r.conn = NoConn /\ r.pc \notin Held
        /\ Complete(r) /\ \A x : PinnedTo(r, x)
    BY DEF Unborn, SearchState, PCs, Held, Complete, PinnedTo
  <2> HIDE DEF r
  <2>2. Set(s, r) /\ UNCHANGED <<commits, idle, opened, tx, leaked>>
    BY <1>2 DEF Checkout, r
  <2> QED
    BY <1>1, <2>1, <2>2
       DEF Set, PoolInv, TypeOK, Placed, Apart, Accounted, IdleClean, Pinning, Streams, Held
<1>3. CASE idle # <<>>
  <2> DEFINE n == Len(idle)
             r == [Unborn EXCEPT !.pc = "begin", !.conn = idle[n]]
  <2>1. /\ n \in Nat \ {0} /\ n \in DOMAIN idle /\ idle[n] \in Conns /\ idle \in Seq(Conns)
        /\ idle[n] # NoConn
    BY <1>3, Inputs DEF PoolInv, TypeOK
  <2>2. /\ r \in SearchState /\ r.conn = idle[n] /\ r.pc \in Held
        /\ Complete(r) /\ \A x : PinnedTo(r, x)
    BY <2>1 DEF Unborn, SearchState, PCs, Held, Complete, PinnedTo
  <2>3. /\ Set(s, r) /\ idle' = SubSeq(idle, 1, n - 1)
        /\ UNCHANGED <<commits, opened, tx, leaked>>
    BY <1>3 DEF Checkout
  <2> HIDE DEF r
  <2>4. /\ idle' \in Seq(Conns) /\ DOMAIN idle' = 1 .. n - 1
        /\ \A m \in 1 .. n - 1 : idle'[m] = idle[m]
        /\ DOMAIN idle = 1 .. n
    BY <2>1, <2>3
  <2>5. /\ search' \in [Searches -> SearchState]
        /\ \A t \in Searches : search'[t] = IF t = s THEN r ELSE search[t]
    BY <2>2, <2>3 DEF Set, PoolInv, TypeOK
  <2> HIDE DEF n
  <2>6. TypeOK'
    BY <2>3, <2>4, <2>5 DEF PoolInv, TypeOK
  <2>7. Placed'
    BY <2>1, <2>2, <2>3, <2>4, <2>5 DEF PoolInv, Placed
  <2>8. Apart'
    BY <2>1, <2>2, <2>4, <2>5 DEF PoolInv, Apart
  <2>9. Accounted'
    <3> SUFFICES ASSUME NEW d \in opened
                 PROVE  \/ d \in leaked
                        \/ \E m \in DOMAIN idle' : idle'[m] = d
                        \/ \E t \in Searches : search'[t].conn = d
      BY <2>3 DEF Accounted
    <3>1. CASE d \in leaked
      BY <3>1
    <3>2. ASSUME NEW m \in DOMAIN idle, idle[m] = d
          PROVE  \/ \E k \in DOMAIN idle' : idle'[k] = d
                 \/ \E t \in Searches : search'[t].conn = d
      BY <3>2, <2>1, <2>2, <2>4, <2>5
    <3>3. ASSUME NEW t \in Searches, search[t].conn = d
          PROVE  \E u \in Searches : search'[u].conn = d
      <4>1. d # NoConn
        BY Inputs DEF PoolInv, TypeOK
      <4> QED
        BY <3>3, <4>1, <1>1, <2>5
    <3> QED
      BY <3>1, <3>2, <3>3 DEF PoolInv, Accounted
  <2>10. IdleClean'
    BY <2>1, <2>3, <2>4 DEF PoolInv, IdleClean
  <2>11. Pinning' /\ Streams'
    BY <2>2, <2>3, <2>5 DEF PoolInv, Pinning, Streams
  <2> QED
    BY <2>6, <2>7, <2>8, <2>9, <2>10, <2>11 DEF PoolInv
<1> QED
  BY <1>2, <1>3

LEMMA OpenInv == ASSUME PoolInv, NEW s \in Searches, Open(s) PROVE PoolInv'
<1>1. search[s].pc = "opening" /\ search[s].conn = NoConn /\ search[s] \in SearchState
  BY DEF Open, PoolInv, TypeOK, Placed, Held
<1>2. ASSUME NEW c \in Conns \ opened, opened' = opened \cup {c},
             Set(s, [search[s] EXCEPT !.pc = "begin", !.conn = c])
      PROVE  PoolInv'
  <2> DEFINE r == [search[s] EXCEPT !.pc = "begin", !.conn = c]
  <2>1. /\ r \in SearchState /\ r.conn = c /\ r.pc \in Held
        /\ Complete(r) /\ \A x : PinnedTo(r, x)
    BY <1>1 DEF PoolInv, Pinning, Streams, SearchState, PCs, Held, Complete, PinnedTo
  <2>2. Set(s, r) /\ UNCHANGED <<commits, idle, tx, leaked>>
    BY <1>2 DEF Open
  <2> HIDE DEF r
  <2>3. /\ search' \in [Searches -> SearchState]
        /\ \A t \in Searches : search'[t] = IF t = s THEN r ELSE search[t]
    BY <2>1, <2>2 DEF Set, PoolInv, TypeOK
  <2>4. TypeOK'
    BY <1>2, <2>2, <2>3 DEF PoolInv, TypeOK
  <2>5. Placed'
    BY <1>2, <2>1, <2>2, <2>3, Inputs DEF PoolInv, TypeOK, Placed
  <2>6. Apart'
    BY <1>2, <2>1, <2>2, <2>3 DEF PoolInv, Placed, Apart
  <2>7. Accounted'
    BY <1>1, <1>2, <2>1, <2>2, <2>3, Inputs DEF PoolInv, TypeOK, Accounted
  <2>8. IdleClean'
    BY <2>2 DEF PoolInv, IdleClean
  <2>9. Pinning' /\ Streams'
    BY <2>1, <2>2, <2>3 DEF PoolInv, Pinning, Streams
  <2> QED
    BY <2>4, <2>5, <2>6, <2>7, <2>8, <2>9 DEF PoolInv
<1>3. ASSUME Set(s, Unborn), UNCHANGED opened PROVE PoolInv'
  <2>1. UNCHANGED <<commits, idle, tx, leaked>>
    BY DEF Open
  <2> QED
    BY <1>1, <1>3, <2>1, UnbornState
       DEF Set, PoolInv, TypeOK, Placed, Apart, Accounted, IdleClean, Pinning, Streams, Held
<1> QED
  BY <1>2, <1>3 DEF Open

LEMMA CheckInInv == ASSUME PoolInv, NEW s \in Searches, CheckIn(s) PROVE PoolInv'
<1> DEFINE c == search[s].conn
           n == Len(idle)
<1>1. search[s].pc \in Held /\ c \in Conns /\ c # NoConn /\ c \in opened \ leaked
  BY Inputs DEF CheckIn, PoolInv, TypeOK, SearchState, PCs, Held, Placed
<1>2. /\ n \in Nat /\ DOMAIN idle = 1 .. n /\ idle' = Append(idle, c)
      /\ idle' \in Seq(Conns) /\ DOMAIN idle' = 1 .. n + 1 /\ idle'[n + 1] = c
      /\ \A m \in 1 .. n : idle'[m] = idle[m]
  BY <1>1 DEF CheckIn, PoolInv, TypeOK
<1>3. /\ search' \in [Searches -> SearchState]
      /\ \A t \in Searches : search'[t] = IF t = s THEN Unborn ELSE search[t]
  BY UnbornState DEF CheckIn, Set, PoolInv, TypeOK
<1>4. /\ tx' \in [Conns -> TxState]
      /\ \A d \in Conns : tx'[d] = IF d = c THEN NoTx ELSE tx[d]
  BY <1>1 DEF CheckIn, PoolInv, TypeOK, TxState, NoTx
<1>5. UNCHANGED <<commits, opened, leaked>>
  BY DEF CheckIn
<1> HIDE DEF n
<1>6. TypeOK'
  BY <1>2, <1>3, <1>4, <1>5 DEF PoolInv, TypeOK
<1>7. Placed'
  BY <1>1, <1>2, <1>3, <1>5, UnbornState DEF PoolInv, Placed
<1>8. Apart'
  <2>1. \A m \in 1 .. n : idle[m] # c
    BY <1>1, <1>2 DEF PoolInv, Apart
  <2>2. \A t \in Searches : t # s => search[t].conn # c
    BY <1>1 DEF PoolInv, Apart
  <2>3. \A t \in Searches : search'[t].conn # c
    BY <1>1, <1>3, <2>2, UnbornState
  <2>4. \A k, m \in DOMAIN idle' : idle'[k] = idle'[m] => k = m
    BY <1>2, <2>1 DEF PoolInv, Apart
  <2>5. \A t, u \in Searches : search'[t].conn = search'[u].conn
                                 /\ search'[t].conn # NoConn => t = u
    BY <1>3, UnbornState DEF PoolInv, Apart
  <2>6. \A t \in Searches, m \in DOMAIN idle' : search'[t].conn # idle'[m]
    <3>1. \A t \in Searches, m \in 1 .. n : search'[t].conn # idle[m]
      <4>1. \A m \in 1 .. n : idle[m] # NoConn
        BY <1>2, Inputs DEF PoolInv, TypeOK
      <4> QED
        BY <1>2, <1>3, <4>1, UnbornState DEF PoolInv, Apart
    <3> QED
      BY <1>2, <2>3, <3>1
  <2> QED
    BY <2>4, <2>5, <2>6 DEF Apart
<1>9. Accounted'
  <2> SUFFICES ASSUME NEW d \in opened
               PROVE  \/ d \in leaked
                      \/ \E m \in DOMAIN idle' : idle'[m] = d
                      \/ \E t \in Searches : search'[t].conn = d
    BY <1>5 DEF Accounted
  <2>1. CASE d = c
    BY <2>1, <1>2
  <2>2. CASE d # c
    BY <2>2, <1>2, <1>3 DEF PoolInv, Accounted
  <2> QED
    BY <2>1, <2>2
<1>10. IdleClean'
  <2> SUFFICES ASSUME NEW m \in 1 .. n + 1 PROVE tx'[idle'[m]] = NoTx
    BY <1>2 DEF IdleClean
  <2>1. CASE m = n + 1
    BY <2>1, <1>1, <1>2, <1>4
  <2>2. CASE m \in 1 .. n
    <3>1. idle'[m] = idle[m] /\ idle[m] \in Conns /\ tx[idle[m]] = NoTx
      BY <2>2, <1>2 DEF PoolInv, TypeOK, IdleClean
    <3> QED
      BY <3>1, <1>4
  <2> QED
    BY <2>1, <2>2, <1>2
<1>11. Streams'
  BY <1>3, UnbornState DEF PoolInv, Streams
<1>12. Pinning'
  <2> SUFFICES ASSUME NEW t \in Searches
               PROVE  PinnedTo(search'[t], tx'[search'[t].conn])
    BY DEF Pinning
  <2>1. CASE t = s
    BY <2>1, <1>3, UnbornState
  <2>2. CASE t # s /\ search[t].conn = NoConn
    <3>1. search'[t] = search[t] /\ search[t].pc \in {"none", "opening"}
      BY <2>2, <1>3 DEF PoolInv, TypeOK, SearchState, PCs, Held, Placed
    <3> QED
      BY <3>1 DEF PoolInv, Pinning, PinnedTo
  <2>3. CASE t # s /\ search[t].conn # NoConn
    <3>1. search[t].conn \in Conns \ {c}
      BY <2>3, <1>1 DEF PoolInv, TypeOK, SearchState, Apart
    <3>2. search'[t] = search[t] /\ tx'[search[t].conn] = tx[search[t].conn]
      BY <2>3, <3>1, <1>3, <1>4
    <3> QED
      BY <3>2 DEF PoolInv, Pinning
  <2> QED
    BY <2>1, <2>2, <2>3
<1> QED
  BY <1>6, <1>7, <1>8, <1>9, <1>10, <1>11, <1>12 DEF PoolInv

LEMMA ForgetInv == ASSUME PoolInv, NEW s \in Searches, Forget(s) PROVE PoolInv'
<1> DEFINE c == search[s].conn
<1>1. search[s].pc \in Held /\ c \in Conns /\ c # NoConn /\ c \in opened \ leaked
  BY Inputs DEF Forget, PoolInv, TypeOK, SearchState, PCs, Held, Placed
<1>2. /\ search' \in [Searches -> SearchState]
      /\ \A t \in Searches : search'[t] = IF t = s THEN Unborn ELSE search[t]
  BY UnbornState DEF Forget, Set, PoolInv, TypeOK
<1>3. leaked' = leaked \cup {c} /\ UNCHANGED <<commits, idle, opened, tx>>
  BY DEF Forget
<1>4. TypeOK'
  BY <1>1, <1>2, <1>3 DEF PoolInv, TypeOK
<1>5. Placed'
  BY <1>1, <1>2, <1>3, UnbornState DEF PoolInv, Placed, Apart
<1>6. Apart'
  <2>1. \A m \in DOMAIN idle : idle[m] # NoConn
    BY Inputs DEF PoolInv, TypeOK
  <2> QED
    BY <1>2, <1>3, <2>1, UnbornState DEF PoolInv, Apart
<1>7. Accounted'
  BY <1>2, <1>3 DEF PoolInv, Accounted
<1>8. IdleClean'
  BY <1>3 DEF PoolInv, IdleClean
<1>9. Pinning' /\ Streams'
  BY <1>2, <1>3, UnbornState DEF PoolInv, Pinning, Streams
<1> QED
  BY <1>4, <1>5, <1>6, <1>7, <1>8, <1>9 DEF PoolInv

LEMMA NextInv == PoolInv /\ [Next]_vars => PoolInv'
<1> SUFFICES ASSUME PoolInv, [Next]_vars PROVE PoolInv'
  OBVIOUS
<1>1. ASSUME Commit PROVE PoolInv'
  BY <1>1, CommitInv
<1>2. ASSUME NEW s \in Searches,
             \/ Checkout(s) \/ Open(s) \/ Begin(s) \/ Prepare(s) \/ NextItem(s)
             \/ Hydrate(s) \/ Finish(s) \/ DropStream(s) \/ CheckIn(s) \/ Forget(s)
      PROVE  PoolInv'
  BY <1>2, CheckoutInv, OpenInv, BeginInv, PrepareInv, NextItemInv, HydrateInv,
     FinishInv, DropStreamInv, CheckInInv, ForgetInv
<1>3. ASSUME UNCHANGED vars PROVE PoolInv'
  BY <1>3 DEF vars, PoolInv, TypeOK, Placed, Apart, Accounted, IdleClean, Pinning, Streams
<1> QED
  BY <1>1, <1>2, <1>3 DEF Next

(* Through every checkout, failed rollback, dropped stream and error, each *)
(* connection is in one place and the idle ones carry no transaction.      *)
THEOREM PoolInvariant == Spec => []PoolInv
BY InitInv, NextInv, PTL DEF Spec

-----------------------------------------------------------------------------

(* Whatever rollbacks fail, no connection waits in the pool with a         *)
(* transaction on it.                                                      *)
THEOREM PoolClean == Spec => []IdleClean
<1>1. PoolInv => IdleClean
  BY DEF PoolInv
<1> QED
  BY <1>1, PoolInvariant, PTL

(* Every opened connection is in exactly one place.                        *)
THEOREM OwnedOnce == Spec => []OneOwner
<1>1. PoolInv => OneOwner
  <2> SUFFICES ASSUME PoolInv, NEW c \in opened
               PROVE  Cardinality({n \in DOMAIN idle : idle[n] = c})
                        + Cardinality(Holders(c)) + Cardinality(leaked \cap {c}) = 1
    BY DEF OneOwner
  <2> DEFINE I == {n \in DOMAIN idle : idle[n] = c}
             H == Holders(c)
             K == leaked \cap {c}
  <2>1. c # NoConn
    BY Inputs DEF PoolInv, TypeOK
  <2>2. /\ \A m, n \in I : m = n
        /\ \A s, t \in H : s = t
        /\ \A n \in I : H = {} /\ K = {}
        /\ \A s \in H : K = {}
        /\ K = {} \/ K = {c}
    BY <2>1 DEF PoolInv, Apart, Placed, Holders
  <2>3. I # {} \/ H # {} \/ K # {}
    BY DEF PoolInv, Accounted, Holders
  <2>4. \/ /\ \E n : I = {n}
           /\ H = {} /\ K = {}
        \/ /\ \E s : H = {s}
           /\ I = {} /\ K = {}
        \/ K = {c} /\ I = {} /\ H = {}
    <3> HIDE DEF I, H, K
    <3>1. I # {} => \E n : I = {n}
      BY <2>2
    <3>2. H # {} => \E s : H = {s}
      BY <2>2
    <3> QED
      BY <2>2, <2>3, <3>1, <3>2
  <2>5. /\ Cardinality({}) = 0
        /\ \A e : Cardinality({e}) = 1
    BY FS_EmptySet, FS_Singleton
  <2> HIDE DEF I, H, K
  <2>6. \/ Cardinality(I) = 1 /\ Cardinality(H) = 0 /\ Cardinality(K) = 0
        \/ Cardinality(I) = 0 /\ Cardinality(H) = 1 /\ Cardinality(K) = 0
        \/ Cardinality(I) = 0 /\ Cardinality(H) = 0 /\ Cardinality(K) = 1
    BY <2>4, <2>5, Zenon
  <2>7. Cardinality(I) + Cardinality(H) + Cardinality(K) = 1
    BY <2>6
  <2> QED
    BY <2>7 DEF I, H, K
<1> QED
  BY <1>1, PoolInvariant, PTL

(* All that a search reads is of one snapshot.                             *)
THEOREM SnapshotStable == Spec => []OneSnapshot
<1>1. PoolInv => OneSnapshot
  <2> SUFFICES ASSUME PoolInv, NEW s \in Searches
               PROVE  Cardinality(search[s].reads) <= 1
    BY DEF OneSnapshot
  <2>1. \A u, v \in search[s].reads : u = v
    BY DEF PoolInv, Pinning, PinnedTo
  <2>2. search[s].reads = {} \/ \E v : search[s].reads = {v}
    BY <2>1
  <2>3. /\ Cardinality({}) = 0
        /\ \A e : Cardinality({e}) = 1
    BY FS_EmptySet, FS_Singleton
  <2>4. Cardinality(search[s].reads) = 0 \/ Cardinality(search[s].reads) = 1
    BY <2>2, <2>3
  <2> QED
    BY <2>4
<1> QED
  BY <1>1, PoolInvariant, PTL

(* A stream that ends without an error has given all of its snapshot.      *)
THEOREM EndsComplete == Spec => []NoSilentPrefix
<1>1. PoolInv => NoSilentPrefix
  BY DEF PoolInv, TypeOK, SearchState, Streams, Complete, NoSilentPrefix
<1> QED
  BY <1>1, PoolInvariant, PTL

=============================================================================
