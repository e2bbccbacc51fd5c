# trifle in TLA+

trifle is an embedded fuzzy-search index: a Rust library that keeps, in SQLite
tables, the grams of labelled text segments and answers a query with the
segments that share most of its grams.  This directory models the parts of it
whose correctness depends on order, failure or long histories of calls.  All
paths below are relative to the repository's root.

## 1. The system

| part | code | state | operations |
|---|---|---|---|
| postings store | `src/postings.rs` | per term a base bitmap, a delta (added, removed), a live df | `apply_writes`, `effective_postings`, `fold`, `write_base_postings` |
| segment tables | `src/lib.rs`, `src/schema.rs` | `seg`, `fwd`; in `meta` the id mark, rolling count and length sum, stamps, dictionary generation | `write_segment`, `drop_segment`, `alloc_ids`, `reset` |
| term dictionary | `src/dict.rs` | table `dict`; in memory gram -> id, id -> class, id mark, generation, class statistics | `load`, `resolve_terms`, `stage`; `InternStage::{intern_key, mark, rollback_to, commit}`; `apply_df_changes` |
| class statistics | `src/welford.rs` | count, mean and squared deviations per (script, order) | `add`, `remove`, `update`, `add_sample` |
| writer lease | `src/lib.rs` (`Writer`) | the writer connection's mutex, its transaction, stage, pending df changes, `txn_open` | `begin`, `atomic`, `upsert`, `remove`, `remove_segment`, `commit`, drop |
| maintenance | `src/lib.rs` | the poison flag | `compact`, `rebuild` |
| lifecycle | `src/lib.rs`, `src/schema.rs`, `src/store/sidecar.rs` | four version stamps in `meta`, the id mark | `open`/`init` (drift, desync probe), `reset`, `write_stamps`, `load` |
| search | `src/search.rs` | per search: ids and generation, a pinned snapshot, candidates | `prepare`, `matches_batch`, `candidates`, `hydrate_matches` |
| scoring and fusion | `src/search.rs` | none between queries | `plan_views`, `concentration_cap`, `score_union`, `rrf_fuse` |
| overlap engine | `crates/trifle-overlap` | adder planes, reachable sums, a walk | `build_weighted`, `advance` |
| gram selection | `src/select.rs` | the kept grams and the stop accumulator of one query | `select`, `StopAcc::{admit, fired}` |
| read pool | `src/store/pool.rs` | idle connections | `checkout`, `checkin` |
| tokenizer, terms | `src/tokenize.rs`, `src/term.rs` | the iterators' windows, pending lowercase expansion and buffered gram | `tokenize`, `span`, `encode_term` |

How they meet: every write goes through the one writer connection behind a
mutex.  A lease opens a transaction, each call runs in a `SAVEPOINT`, writes
segment rows, interns new grams through its private stage and applies one batch
of posting changes.  `commit` commits SQL first and then merges the stage and
the df changes into the shared in-memory dictionary.  `rebuild` swaps in new
tables with both id spaces renumbered and bumps the dictionary generation, then
reloads the dictionary; if that fails it poisons the index.  Searches take no
writer lock: they resolve grams in the shared dictionary, pin a WAL snapshot by
their first read, compare generations, and then read only that snapshot.

What is hard, and what makes each part correct:

* *Postings.*  A base is never touched by a write; what is true of a term is
  base, plus added, minus removed, and df is moved by differences only.  After
  any history the effective posting is what the forward rows say, df is its
  size, a fold changes neither.
* *Ids.*  Ids of dropped segments linger in postings until a fold.  Ids are
  never handed out twice, so a stale one can never come to mean a new segment.
* *Two dictionaries.*  Table and memory are changed at different moments, by
  calls that may fail half way and transactions that may roll back.  Whenever
  the lock is free they agree, statistics included, and at every moment an id
  that memory hands out under the generation of the tables is the tables' id.
* *Searches.*  A search that resolved before a rebuild and pinned after it must
  not use its ids; hydration must not use a candidate's id on newer tables.
* *Reopening.*  The index is a cache over the caller's data.  Four stamps say
  what it was built from; a wrong or missing one must empty it, an id mark below
  a live row too, and an undamaged file must be kept.
* *Query planning.*  The selection walks as little as it may but must not stop on
  evidence it does not have: grams of one word are not independent, floored ones
  are none.  Scripts without enough evidence get a second view; credits of
  common grams are capped so that they do not outrank the rare one.
* *Tokenizing.*  Windows of two widths over runs that white space and script
  changes cut, on characters that normalization composes, reorders and expands:
  every window once, under its word, and `span`, which normalizes cluster by
  cluster, must speak of the same characters.
* *Failure.*  Calls, commits, follow-on `BEGIN`s and reloads fail; the process
  dies between a commit and its in-memory half.

`PROJECT.json` lists the hazards at their lines, with the properties that cover
each.

## 2. Modules

| module | models |
|---|---|
| `Postings` | the postings store as operators on one record `[base, added, removed, df]`; absent rows read as empty, so every table is a total function |
| `Segments` | segment rows, forward rows, id mark, rolling stats and dictionary as operators; extends `Postings` |
| `SegmentStore` | the abstract specification: a map from (key, label) to a text, and the reference overlap count |
| `InvertedIndex` | the stored index under whole calls: `Upsert`, `Remove`, `RemoveSegment`, `Compact`, `Rebuild`, `Reset`; implements `SegmentStore` |
| `Lifecycle` | `InvertedIndex` over sessions: stamps, drift, the desync probe, reset, damage to `meta` between sessions |
| `WriterLease` | the same tables under the lease, statement by statement, beside the in-memory dictionary, the lock, the poison flag, failures and crashes |
| `Welford` | the running count, mean and squared deviations in exact arithmetic, and what they should be |
| `SnapshotSearch` | searches interleaved with `WriterLease` |
| `Tokenize` | both tokenizers code point by code point, normalization, clusters, `span`, the term encoding |
| `Selection` | `select`: class floor, typo floor, greedy pass, stop, recall gate, rescue |
| `QueryViews` | `plan_views` around one or two calls of `Selection`, and the capped count credit of a view |
| `OverlapCounter` | the bit-sliced engine: bit planes, subset sums, the best-first walk |
| `ScoreUnion` | the pass from the engine's walk to a ranking of documents; composed with `OverlapCounter`, whose walk it pulls |
| `RankFusion` | the reciprocal-rank fusion of the two views of a starved query |
| `ReadPool` | the pool of read connections and the life of a search on one, beside commits |
| `SetProofs` | induction over subsets and along `0..n`, sums over sets, existence of what a recursion defines, places in a strict order |
| `SegmentsProofs` | lemmas about the operators of `Postings` and `Segments` |
| `InvertedIndexProofs` | theorems of `InvertedIndex`, its refinement of `SegmentStore`, and theorems of `Lifecycle` |
| `LeaseProofs` | theorems of `WriterLease` (dictionary, tables, statistics) and of `SnapshotSearch` |
| `QueryViewsProofs` | theorems of `Selection`, inside `QueryViews` whose steps drive it, and of the views it plans |
| `ReadPoolProofs` | theorems of `ReadPool` |
| `ScoringProofs` | theorems of the overlap engine inside `ScoreUnion`, of the ranking made of its walk, and of `RankFusion` |
| `TokenizeProofs` | theorems of `Tokenize` |
| `MC*` | instances for TLC |

Abstractions, everywhere: a text is a model value and all the index takes from
it is `GramsOf[txt]`; a document key, a label and a gram are model values; a
bitmap is a set.  The order in which a hash set hands out its grams, or a
caller lists segments, is a nondeterministic choice of a bijection from ids.
The u32 ceilings of both id spaces are constants, so TLC reaches them: the call
that would pass one fails and, in `WriterLease`, goes through the rollback.

How state maps to code in `WriterLease`: `disk` is what is committed, `txn` what
the open transaction sees (SQLite is trusted to be atomic and durable; a `COMMIT`
that fails rolls back, as the doc of `Writer::commit` says).  `mem` is
`DictInner`: `map`, `nextTerm`, `gen`, and in `stats` the Welford accumulator of
every class, moved by `Add` and `Remove` of module `Welford` as the code moves
it, with a table for ln(df) and integers `Unit` to the whole for floats.  `stage`, `pending` and
`txnOpen` are the fields of `Writer`; `call` is the frame of one `atomic` body
(its savepoint, its two marks, its `TokenChanges`).  `pc` says where a thread
is between two statements at which another thread, a failure or a crash can
come in: after the poison check, inside a call between two segments, between
`COMMIT`, merge, statistics and `BEGIN`, between a rebuild's swap and its reload.
`remove` and `remove_segment` are one step each, since nothing but their own
rollback can be observed inside them.  A `RELEASE` that fails returns an error
with no rollback.  Of a nested savepoint the work then stays in the transaction,
the same state as after success; of one that opened the transaction itself, the
tables may roll back and the stage does not (`Release`).

In `SnapshotSearch` each search is one record: `asked`, `unpinned` (the poison
check passed), `resolved` (ids and generation captured), then `pinned` or
`busy`, then `answered`.  Selection and scoring are left out: a candidate is a
segment with the query grams its postings say it has.  The record also keeps
the tables at resolve time, which only the properties look at.

`Lifecycle` keeps `config` (what the open session brought, or `Closed`) and
`stamps` beside the tables of `InvertedIndex`, and in the history variable
`lost` what lost rows of the rolling stats had counted.  Damage comes between
sessions: a stamp, the count or the length sum may be lost, the id mark lost or
set back.  `OpenCold` is the branch of
`Index::init` that resets, `OpenWarm` the one that loads.  A text is a pair of
what the caller wrote and the config it was written under; the code stores only
the grams of that pair, so a row of another config is visible to the properties
and not to the code.  A session may end at any point between two calls; that a
call itself is cut off by a crash is the subject of `WriterLease`.  Shadow
tables that a crashed rebuild leaves are dropped by every open and read by none.

`Tokenize` takes the Unicode tables as constants and writes the normalization
forms from their definition; they belong to external crates.  A step is one turn
of the loop in `GramTokens::next_tagged` or `NgramWindows::next`; `text`, `src`,
`lower`, `win`, `class`, `primary`, `word` and `pending` are the iterators' fields, and
`read` and `out` remember what passed, for the properties.

`Selection` is one call of `select`: a step looks at the rarest gram left in the
current scan.  Energies and targets are integers and the reliability a fraction,
so that the Cantelli stop `mean - c*sqrt(variance) >= target` is decided exactly,
by squaring.  `QueryViews` starts it on the primary grams, asks which scripts are
starved, and may start it again on their shorter grams.  It scores what a view
gives a document as the code does, with energies quantized to the step `Delta`
(`Quantized`, rounding half up) against a cap taken from the raw ones.  Following the code, a
gram's script is its own (`script_of`): the "12" of a Han run is a Common gram of
order 2, hence a secondary one.

In `OverlapCounter` a step is one posting added by `plan`, one score looked at by
`advance`, or one id of a bucket handled; the carry chain of one posting is an
operator (`Ripple`).  Weights are inputs, so `tier_weights`, and the energies the
search layer passes instead, are any weights up to the bound, 0 included.
`ScoreUnion` runs that walk and ranks what it emits.  The quantized energies, the
floored flags and the length nulls are free inputs, where the code derives all
three from df and length: a superset of what it can meet.  The code's early-stop
argument uses only that nulls are not negative and that no segment earns more
than the sum of all credits, and so does the model.  Floating-point arithmetic
is exact here.  In `RankFusion` a fused score is an exact fraction.

`ReadPool` follows the connection rather than the data: a search checks one out
(two steps, the lock being released in between), opens a transaction, prepares,
yields candidates, hydrates, and drops (rollback, then check-in).  Every one of
these may fail, rollbacks of a stream included.  Of the rollback at check-in,
whose result the code ignores, it is trusted that it ends the transaction: it
is issued only where `is_autocommit` found one, and SQLite refuses a `ROLLBACK`
only where there is none.  The bare and the fallback `ROLLBACK` of the lease rest
on the same.  `matches_batch` is the same life in one call.  That a search reads one
snapshot, which `SnapshotSearch` takes for granted, is `OneSnapshot` here.

Definitions whose comment says *Faulty* are single mistakes the code does not
make; each property was seen to fail when one of them replaces its original.

## 3. Runs

| run | question | instance | result |
|---|---|---|---|
| `index` | do postings, df, forward rows, ids and stats agree after any history; does the index implement `SegmentStore` and answer as it does; does a fold change nothing? | 2 keys, 1 label, 2 texts sharing a gram, 4 segment ids | holds, 3,593 states |
| `lifecycle` | does an open session serve only its own content, from consistent tables; is an undamaged file kept? | 1 key, 2 labels, 1 text, 5 configs, 3 segment ids | holds, 309,275 states |
| `lease` | are tables, memory and statistics consistent whatever fails and whoever contends? | 2 threads, 1 key, 2 labels, 3 segment ids, 2 generations | holds, 1,609,341 states |
| `poison_race` | is a poisoned index closed to writes? | 2 threads, a reload may fail beside a waiter | **violated** |
| `failed_commit_reuse` | does a rolled-back tail leave no orphan id, on a lease used after its failed commit? | 1 thread | **violated** |
| `search` | are a search's ids, answers and texts of one index; does a search retried on Busy end? | 1 thread, 1 reader, 1 label, 2 segment ids, 1 generation | holds, 1,037,795 states |
| `tokenize` | is every window yielded once; does `span` speak of the same grams; are grams and terms one to one? | texts of up to 4 of 10 code points, 5 tokenizers | holds, 303,610 states |
| `query_plan` | is the selection's work bounded and its stop justified; are the right scripts served; are commons capped? | bags of up to 4 grams of 2 scripts, 2 words, 4 limits; base credit 6, step 4 | holds, 1,115,493 states |
| `capped_credit` | does the cap protect a floored dominant gram? | as `query_plan`, up to 3 grams; base credit 3, step 1 | **violated** |
| `score_union` | does the engine's walk return every score, best first; are the eager and the lazy answer prefixes of one full ranking? | 2 postings of weights up to 2 over 3 segments of 2 keys, with filter, nulls and limits 0, 1, 2 and none, chunks of 1; 3 postings of weights up to 3 over 2 segments, unfiltered | holds, 2,167,652 states |
| `rank_fusion` | does fusion respect what both views agree on? | 3 keys, one with 2 segments, K = 60 | holds, 386,278 states |
| `read_pool` | is every connection in one place and clean when idle; is no error taken for an end? | 3 searches, 3 connections, 2 commits | holds, 106,902 states |

Each run ends in less than two minutes with two workers.

Why the bounds are enough.  Two texts, one containing the other's gram, give a
shared posting, a private one and an upsert that shrinks or grows a segment.
Three or four segment ids allow insert, replace, remove, and insert again with
stale ids around, and reach the ceiling; two term ids are reached too.  Rebuilds
start again from id 1, so histories are unbounded in `InvertedIndex` and
`Lifecycle`; elsewhere `MaxGen` bounds how often a rebuild may bump the
generation, which in the code has no bound (it wraps at 2^64).  `Unit = 2`
divides by the one or two samples a class can have.  Two threads are one that
holds the lock and one that waits.  One reader is enough, as readers share
nothing but the dictionary, which they do not change.  The configs of
`lifecycle` are a base and, per stamp, one that differs in that stamp alone; the
other tokenizer finds one gram less in its text, the other schema has one label
less.  Stats are lost any number of times there: what a file can lose before a
reset is bounded by its rows.  The alphabet of `tokenize` holds what each rule of the code is about: a
letter that composes and lowercases to two code points, marks of two combining
classes, a Han character, a digit, a space, jamo with their syllable, and NUL;
four code points close a run, a word and the text around a trigram.  In
`query_plan` four grams fill a class floor, a typo floor and the greedy pass of
both scripts; the limits have small and large budgets, floors 0 to 2 and a
target below zero, and ties in rarity happen.  With a step of 4 a dominant
energy of 5 is rounded down and commons of 2 up, and the bound of `CommonsNeverOutweigh` without its term for
the rounding is violated.  In `score_union` sums carry
through all planes and some scores are unreachable; a posting of weight 0 makes
scores drop below the floor; a key has two segments, so a later segment can
improve a key that is already ranked; a chunk of one puts a peek after every
candidate, where the code has one after 64.  Three searches on the pool are one
holding a connection, one between the pop and the open, and one checking in.
Symmetry is used for threads in `lease` and for searches and connections in
`read_pool`, never in the liveness run.  Deadlock is checked in all of them but
`tokenize`, `query_plan`, `capped_credit`, `score_union` and `rank_fusion`, which
are single computations that end.

`CONSTANTS` that switch a behaviour off: `FailBesideWaiters` is FALSE in `lease`
and `search`, where a reload fails only while no other thread waits for the lock,
because the race it allows is the violation that `poison_race` shows (in `search`
one thread writes, so nobody waits).  `ReuseFailedWriter` is TRUE only in
`failed_commit_reuse`: everywhere else callers follow the advice to retry on a
fresh writer.

Fairness, in `search` (`SearchEnds`): weak fairness of the steps of a search that
was begun, retry included, and of the reload after a rebuild's swap, both
straight-line code on a running thread.  That anyone asks, writes, commits or
drops a lease is not assumed.  Rebuilds end because `MaxGen` ends them: the
property says *once rebuilds stop*, and a search racing endless rebuilds may
indeed be turned away for ever.

### What the violated runs show

* `poison_race`: `Index::writer` checks the poison flag, then waits for the lock.
  If a rebuild of another thread commits its swap and fails its reload in
  between, the waiter gets a lease over the old dictionary, and its upserts
  commit forward rows and postings with ids of the old space.
* `failed_commit_reuse`: a `COMMIT` that fails leaves
  `txn_open` true and the stage filled.  A caller who writes on is not refused:
  its `SAVEPOINT` opens a transaction of its own, grams resolve to staged ids
  whose rows were rolled back, and `RELEASE` commits them.
* `capped_credit`: the cap on the count credit lets the common grams of a view,
  all together, earn at most what is left below the energy of the dominant gram
  *plus one credit*, because the dominant gram earns a credit as well.  A floored
  one does not, so a document of commons alone can pass the document that holds
  it, which the comments on `concentration_cap` rule out.  What does hold is
  `CommonsNeverOutweigh`: by at most that credit and half a step of rounding per
  gram.

Not a run, but worth knowing:

* Between `COMMIT` and the merge of the stage a search pins the new tables with
  the old map; a gram that the snapshot holds is taken for absent and its
  segments are missed.  The search is concurrent with the commit, so nothing
  acknowledged is lost; `QuietSearchExact` therefore speaks of searches that did
  not resolve inside that window.
* An id mark that was lost or set back while no row witnesses it is not found by
  the probe.  Postings may then name ids that are handed out again; they do no
  harm, because a base or a delta that names a dead id has it in `removed` too,
  and the insert takes it out: `OpenConsistent` holds.
* A lost row of `seg_count` or `seg_len_sum` reads as 0 and nothing probes it.
  The index stays consistent and answers the same overlaps, but N and avgdl are
  off by what the row had counted (they may go below zero as segments are
  removed) until a reset or a rebuild sets them anew.  `OpenConsistent` says the
  error is that amount and no more.
* A `RELEASE` of a nested savepoint that fails makes a write call return an error
  whose work a later `commit` keeps.  The tables and the dictionary stay
  consistent with each other; only the caller is told otherwise.
* A script whose unaffordable primary grams number `Nu` or more and have no
  positive energy is not starved, though nothing of it was kept; `ScriptsServed`
  speaks of affordable grams and of scripts with fewer than `Nu`.
* Clusters follow one law of the Unicode tables, `ClustersApart`: what is neither
  mark nor jamo composes onto nothing before it.  Every code point of Unicode 14
  keeps it.  In Unicode 16, which the locked `unicode-normalization` knows, the Kirat
  Rai vowel signs E and AI (U+16D67, U+16D68) do not: they are letters, and a sign E
  composes with a sign E or AA before it.  Two of them are one AI in the stream and
  two clusters E, E in `span`, which then does not find the token, against what the
  comment on `for_each_normalized_char` says.  With these letters in the tables and
  in `Input`, TLC shows `ClustersMatchStream` violated by the text E E.
* The recall gate of the stop is implied by any positive target, as the code
  argues (`GateImplied`); with a target of zero or less it is not.

## 4. Proofs

*Foundations.*  No induction theorem that takes an operator can be used, so
`SetProofs` states induction over the subsets of a finite set, and along `0..n`,
with a *set* as the induction hypothesis (`SubsetInduction`, `CountingUp`).  From
them follow the laws of a sum over a finite set (`Total`: adding an element,
disjoint unions, agreement of weights), which is what `MapThenSumSet` computes,
and that a recursion over `0..n` has a solution (`IterationExists`): a recursive
function is a `CHOOSE`, and its equation holds only once something satisfies it.

*The stored index.*  For all keys, labels, texts, grams and id ceilings
(assumptions: `IdCeilings`, the ceilings are naturals; `Tokenizer` and
`Documents`, grams, keys and labels are finite sets and every text has a set of
grams; `Absent`), `Spec` of `InvertedIndex` implies

* `TypeOK`, `PostingsMatchForward`, `DfExact`, `NoStaleAlias`, `ForwardDecodes`,
  `DictInjective`, `FieldsUnique`, `AnswersMatchContent` and `StatsMatchRows` as
  invariants,
* `CompactKeepsAnswers` as an action property, and
* `ImplementsStore` and `Store!Spec`: the index refines `SegmentStore` under the
  mapping `ContentOf(segs)`.

The inductive invariant `IndexInv` is the conjunction of the first five, in
three parts (`TablesAgree`, `RowsBelow`, `PostingsBelow`, the latter two being
`NoStaleAlias`).  None is inductive alone.  df moves by |add| - |remove|, which
is right only if what is added was not in the posting and what is removed was;
the first holds because a fresh id lies above every row, whose ids the effective
postings are (`PostingsMatchForward`), the second because removals are read from
the forward row.  `ForwardDecodes` ties dead ids to empty forward rows.
`ContentInv` adds that the dictionary and (key, label) are injective: with that a
posting's terms can be read back as grams, hence `AnswersMatchContent`, and a
row's key and label determine it, so that the content is a function and each call
moves it as the abstract one does.  `StatsMatchRows` compares numbers moved by
each call with a sum over all rows; it is proved through the laws of `Total`.
The argument has layers: `SegmentsProofs` says what one `ApplyWrites`, `Fold` or
`BasePostings` does to an effective posting and a df, and what interning,
insertion and deletion do to dictionary and rows; `InvertedIndexProofs` combines
them per action.

*The lifecycle.*  `ContentCurrent`, `OpenConsistent` and `WarmReopen` for any
configs, tokenizers, schemas and any damage of the kinds modelled: losses of
stamps, of the rolling stats and of the id mark.  With stats lost, `StatsMatchRows`
becomes `StatsOff`: off from the rows by `lost`, which each write keeps
(`WritesKeepStats`) and a reset or rebuild clears.  `LifeInv` is
weaker than `IndexInv`, because a set-back mark breaks `NoStaleAlias` while the
file is closed: it keeps `TablesAgree` at all times, `RowsBelow` only of an open
session (the probe empties an index whose mark a live row disproves), and never
`PostingsBelow`, which neither writes nor searches turn out to need.  The
rows of a file with all four stamps were written under them; a file that lost one
says nothing of its rows, and no open serves them.

*The lease.*  Of `WritesUseCurrentMap` nothing unconditional can be proved:
`poison_race` breaks it.  What is proved, for any number of threads and with no
assumption on callers and reloads (`WritesCurrent`), is that this race is the
only way to break it: where a write call's dictionary is not of the tables'
generation, a reload that may fail beside waiters (`FailBesideWaiters`) has
poisoned the index.  Its invariant, `GenInv`, is small: mutual exclusion, every
copy of the tables (committed, transaction, savepoint) is of one generation, and
a memory behind it is poisoned or being reloaded.

All other theorems of the lease and of searches hold under `Disciplined`:
`~FailBesideWaiters` and `~ReuseFailedWriter`, that is for reloads that fail only
while no other thread waits for the lock and callers that drop a lease whose
`COMMIT` failed.  Both are needed, as the two violated runs show.  They are
`GenerationGuardsIds`, `StagedRowsExist`, `IdsStableInGeneration` and
`MemoryMatchesDisk`, for any number of threads and generations.  The inductive invariant `LeaseInv` has six parts.  `Control`:
the thread past the mutex is the holder, and there is one at most.
`Generations`: the memory lags behind the tables exactly from a rebuild's swap to
the reload, and while it is poisoned no thread is past the check.  `Settled`:
otherwise the map is the dict table, but for a merge under way.  `Merging`:
between `COMMIT` and merge the table is the map plus the stage.  `Transaction`:
an open transaction's dict table is the map plus the stage.  `InCall`: the
savepoint's dict table is the map plus the stage *rolled back to the call's
mark*, which is what makes a failed call harmless.  The last needs that staged
ids are new to the map and lie between the stage's base and its next id
(`IsStage`): then undoing to a mark undoes exactly what was staged after it
(`StagingAdds`, `RollbackOfAdded`).

*Its tables.*  `DiskConsistent` and `TxnConsistent` need that three copies are
consistent at once: what is committed, what the transaction sees, and what the
call's savepoint would restore.  `TablesInv` says so of each (`Sound`), and of a
call between two segments (`HalfDone`) that its rows agree with its dictionary
and differ from the postings by exactly the changes the call has yet to apply
(`Owes`); `Marks` keeps the id mark above the ids of the map and of the stage.

*Its memory.*  `MemoryMatchesDisk` compares with a fresh load, which numbers ids
densely and adds every df once to its class.  `MemoryInv` therefore has
`DenseMarks` (no id is skipped in the dict table, which interning and renumbering
must keep), `FreshStats` (the accumulator of each class is that of the committed
df values, but for what is being merged) and `Recorded` (the changes a lease has
recorded lead from the df values memory was built from to those of the
transaction; each of them is one link of a chain, `Chain`).  That Welford's `Add`, `Remove`
and replacement of one sample give count, mean and squared deviations of the new
set of samples is proved for exact arithmetic (`Welford`).

*Searches.*  `NeverMisroutes`, `QuietSearchExact` and `HydratedTextMatches`, for
any number of readers beside any number of writers and under the same two
assumptions.  The invariant says of every search how the ids it resolved stand
to the generation it captured (`IdsCurrent`), and of a pinned one what was true
of its snapshot; `GenerationGuardsIds` does the rest.

*The pool.*  `IdleClean`, `OneOwner`, `OneSnapshot` and `NoSilentPrefix` for any
number of searches, connections, hits and commits.  The inductive invariant
`PoolInv` says for each step of a search's life whether it has a connection, what
transaction the connection carries and what the stream still owes; that no two
searches have the same one; and that each opened connection is accounted for.

*The overlap engine.*  `WalkComplete` and `BestFirst` for any number of postings,
any natural weights and floor, and any finite set of integer ids (assumption
`PlansFit`: the planes have bits enough for the sum of the weights, where the
code pushes planes as carries need them).  `EngineInv` says that the planes,
read as binary numbers, count for every id the weights of the postings added that
hold it (`Counts`), that every such sum is among the reachable ones, and that the
walk at `nextC` has returned exactly the wanted ids of larger scores, in order,
but for those in the bucket.  A carry rippling up adds one power of two and no
more (`RippleAdds`), so adding a posting adds its weight (`AddWeightedAdds`); a
sum below 2^Width is determined by its bits (`ReadUnique`), so a bucket holds the
ids of its score and no other (`CountEqExact`).

*The union.*  `TopOfFullRanking` for any keys, nulls that are not negative, any
filter, limit and chunk size (assumptions `Inputs`, `PlansFit`, `AsksFit`).
`LoopInv` says that until the loop ends the map holds, for each key, the first in
the ranking of the visible segments taken (`BestOf`, `Collected`); that the loop
has taken all the walk has returned up to `pulled`, except a candidate it only
peeked at; and that recovery starts with the walk exhausted.  Three arguments rest
on it.  Only a strictly better score replaces a key's segment, so a tie keeps the
earlier arrival, which is the right one because the walk returns in ranking order
(`BestFirst`, `UpsertKeepsBest`).  At the early stop `limit` keys are at or above
the k-th score (`KthReached`), everything still to come is below the ceiling and
so below them; both rankings, of what was seen and of everything, then agree in
their first `limit` places (`EarlyStop`), as places in a strict order are counted
by what comes before.  After a full walk, `WalkComplete` makes the segments left
over those of score 0, and exactly these are in the postings of weight 0 and no
others (`ZeroScore`).

*The selection.*  `WorkBounded`, `StopJustified` and `GateImplied` for any query,
budget, floor, target and reliability (assumptions: `Measures`, words are a finite
set, energies and rarities integers; `RarityFollowsDf`; `QueriesFit`, rows have
classes, words and frequencies these are defined for).  `CallInv` says of each
scan what it has kept: the first affordable gram of every class it has come past;
these and every affordable gram passed, no more than the floor; then what the
floors owe (`Always`, which is `Unconditional`) and a thrifty rest, whose last
gram was taken while the stop had not fired.  What is passed over stays out of
reach, since the total only grows.  The running evidence is that of the kept set
recounted (`Gathered`, `AdmitIs`): one gram adds `2se + e^2` to the squares and
nothing to the other words.  The work bound charges one budget to each class that
has a gram and each seat of the floor (`AlwaysBounded`).  The gate follows from
the inequality of Cauchy and Schwarz, proved term by term over the words with
energy (`SumOfSquares`): the squared energy is at most the number of blocks times
the sum of their squares.

*The views.*  `ScriptsServed`, `RichScriptsQuiet` and `CommonsNeverOutweigh`, with
`Thresholds` besides: at most half of a script's energy makes it starved (the code
has one half).  `PlanInv` says which rows the current call selects from and that
each planned view is the primary selection or one from the rows of the starved
scripts; a selection `Serves` its rows, for the first of each class is in it.  The
capped credit is a fact about any view: the commons, one more than the cap's
divisor, earn at most the dominant gram's raw energy and one credit
(`CreditArithmetic`); each quantized energy is within half a step of the raw one
(`RoundedIsClose`), and the sum within half a step per gram
(`SumQuantizedIs`, `RoundedSum`).

*The fusion.*  `Dominance` for any keys, segments, rankings, weights and K
(assumption `FusionInputs`: keys are finite, no two share a segment, weights are
positive).  `FusionInv` says that each key the loop has come past has a slot, with
the sum of what its ranks so far earn.  The common denominator is a multiple of
each K + rank (`DenominatorIs`, by induction over the ranks multiplied), so a
better rank earns strictly more (`ShareFalls`); what ranks a before b in every
view of b's therefore sums to more for a, and the sort never ties, since slots of
different keys have different segments (`SlotsOrdered`).

*The tokenizers.*  `EveryWindowOnce` and `TermsIdentifyGrams` for any texts and
any Unicode tables (assumption `Tables`: a script class for every code point and
a width of 1 to 3 for every class, as `WindowPolicy` has them, expansions and
decompositions are code points again, compositions are of pairs of them, and no
lowercase expansion is empty).
`TokenInv` has three parts.  `ReadOK`, types, for which the normal forms must be shown
to yield code points: they are folds, whose equations hold once a solution is
built up by size (`FoldsExist`).  `StateOK`: the window is the end of what was
read, as long as the current run lets it be and no longer than its width
(`Holds`), which a further code point keeps whether it continues the run or
starts one (`SlideOn`, `SlideAnew`).  `OutOK`: what was yielded, with what is
buffered, lists the windows that end in what was read (`Lists`), each at the
place that the number of windows before it gives; the windows a code point
completes are those that end at it (`WindowCompletes`), and come after all
others.

*Where grams stand.*  `SpanIsHull` for any texts, tables and sets of tokens, from
the same assumption.  `span` runs the same windows over the normalized clusters,
so its accumulator after `n` characters (`Spanned`) has the window that `Holds`
of those `n` code points, and what it has found is the hull of the tokens'
occurrences that end among them (`IsHull`, `SpanAt`).  A further character adds
those that end at it.  They start no earlier than any before (`GramsAdvance`), so
the start stays; and the ends of the clusters never fall (`Rising`: a cluster
ends before the next one starts, `EndIs`), so the end only moves right.

*Clusters.* `ClustersMatchStream`, under the hypothesis `ClustersApart`: a code
point of `Input` that is neither mark nor jamo decomposes into a sequence which
begins with a starter that composes onto nothing before it.  The hypothesis is
needed, and it is one about the texts: the letters known to break it are two
(see the note on `ClustersApart` above), and `MCTokenize` evaluates it on its
own tables.  The clusters of a text tile it (`StartsTile`), so it is enough that
normalizing a text joined to one that begins a cluster joins the normal forms
(`FormsConcat`).  The first text's canonical order is not disturbed, as inserting
a mark never passes a starter (`InsertBeyond`, `SortBeyond`), and composing
never reaches over one that composes with nothing before it (`ComposeBeyond`,
`BuildBeyond`).  `StreamInv` then ties the stream to the text: what was read,
what is left of the current lowercase expansion and the folded rest are the
normalized text.

Every invariant and action property of the passing runs is stated by a theorem,
`WritesUseCurrentMap` with the exception named there.
Only model-checked is the liveness of a search (`SearchEnds`), which this prover
cannot do.

## 5. Not modelled

* Floating point: the energies, the length null, `rarity`, `pooled_log_df` and
  `tier_weights`.  The models take their values as integers or free inputs and
  compute with them exactly.  The one rounding a property speaks of is the
  quantization of energies (`Quantized`, in `CommonsNeverOutweigh`).
* The byte encoding of a gram, fingerprints, hash functions, SQL text, blob
  formats, telemetry, error wording: stateless, or not about order.
* Namespace and identifier validation (`src/store/mod.rs`), the caller's SQL
  filter (`src/filter.rs`): a predicate on names, and one appended to a query.
* The batching and dedup of `matches_batch` beyond the life of its connection.
* SQLite, WAL and the file system: trusted as described above; `SQLITE_BUSY` from
  other processes is not modelled, the library being the only user of its file.
* Benchmarks and examples.

## 6. Plan

* `WriterLease` as an implementation of an abstract store with transactions: a
  committed content, a content a lease works on, whole calls on the latter,
  commit and abort.  The content of the savepoint while a call runs, of the
  transaction between calls, and of the tables otherwise would be the mapping; the
  parts of `TablesInv` say what each step needs.
* The dedup and the filter of `matches_batch`, so that a whole search, from
  resolve to ranking, is one module.
