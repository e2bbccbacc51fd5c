------------------------------ MODULE Tokenize ------------------------------
(***************************************************************************)
(* The tokenizers of src/tokenize.rs and the term encoding of src/term.rs: *)
(* a text is normalized and case-folded as a stream of code points, cut    *)
(* into runs of one script class that no white space interrupts, and every *)
(* run is windowed at its primary width and at one less.  NgramTokenizer   *)
(* slides one fixed width instead.  span re-derives the windows cluster by *)
(* cluster to find where given tokens stand in the raw text.               *)
(*                                                                         *)
(* A step is one turn of an iterator's loop.  Byte offsets are code point  *)
(* positions (0-based start, end past the last).  A gram of at most three  *)
(* code points always fits its 12-byte buffer, so from_chars never fails.  *)
(* The Unicode tables are constants, and Unicode's own normalization forms *)
(* are written from their definition: they belong to external crates.      *)
(***************************************************************************)
EXTENDS Naturals, Sequences, FiniteSets, SequencesExt

CONSTANTS
  Chars,          \* the code points
  Input,          \* those texts are made of
  MaxLen,         \* longest text
  Tokenizers,     \* the configured tokenizers (a set of records, see Settings)
  Script,         \* [code point -> script class]
  Sizes,          \* WindowPolicy: [script class -> 1..3]
  Break,          \* white space
  Marks,          \* combining marks (transparent: Script gives them Common)
  Jamo,           \* conjoining vowel and trailing jamo
  Lower,          \* [code point -> its lowercase expansion, a sequence]
  Decomposition,  \* [code point -> its full canonical decomposition]
  Composition,    \* [pair of code points -> their primary composite]
  Ccc,            \* [code point -> canonical combining class]
  Nul             \* U+0000

Common  == "Common"
NoClass == "none"

(* The records Tokenizers is drawn from: what the builders can configure.  *)
Settings ==
  [width : {0, 1, 2, 3},       \* 0: DefaultTokenizer; N: NgramTokenizer<N>
   form : {"nfc", "nfd", "strip", "none"}, casefold : BOOLEAN, assume : BOOLEAN]

ASSUME TokenizersAssumption == Tokenizers \subseteq Settings

ASSUME Tables ==
  /\ Input \subseteq Chars /\ MaxLen \in Nat
  /\ NoClass \notin DOMAIN Sizes /\ Common \in DOMAIN Sizes
  /\ Sizes \in [DOMAIN Sizes -> 1..3] /\ Script \in [Chars -> DOMAIN Sizes]
  /\ Lower \in [Chars -> Seq(Chars) \ {<<>>}]
  /\ Decomposition \in [Chars -> Seq(Chars)]
  /\ Composition \in [DOMAIN Composition -> Chars]
  /\ DOMAIN Composition \subseteq Chars \X Chars
  /\ Ccc \in [Chars -> Nat]

VARIABLES
  text,     \* the raw text
  tok,      \* the tokenizer at work
  src,      \* the normalized code points not yet read (NormKind)
  lower,    \* the rest of a lowercase expansion (PreparedChars::pending)
  win,      \* the current window, oldest first
  class,    \* script class of the current run
  primary,  \* primary width of the current run
  word,     \* word id
  pending,  \* the buffered secondary gram: a sequence of at most one
  read,     \* history: the code points read so far
  out       \* history: the <<gram, word>> pairs yielded so far

vars == <<text, tok, src, lower, win, class, primary, word, pending, read, out>>

-----------------------------------------------------------------------------
(* Unicode's normalization forms, over the tables.                         *)

InsertMark(s, c) ==
  IF Ccc[c] = 0 THEN Append(s, c)
  ELSE LET k == CHOOSE k \in 0..Len(s) :
                  /\ \A i \in k + 1..Len(s) : Ccc[s[i]] > Ccc[c]
                  /\ k > 0 => Ccc[s[k]] <= Ccc[c]
       IN SubSeq(s, 1, k) \o <<c>> \o SubSeq(s, k + 1, Len(s))

NFD(s) ==
  FoldLeft(InsertMark, <<>>,
           FlattenSeq([i \in DOMAIN s |-> Decomposition[s[i]]]))

ComposeNext(acc, c) ==
  LET adjacent == Len(acc.out) = acc.starter
      unblocked == adjacent \/ (0 < acc.last /\ acc.last < Ccc[c])
      pair == IF acc.starter = 0 THEN <<>> ELSE <<acc.out[acc.starter], c>>
  IN IF unblocked /\ pair \in DOMAIN Composition
     THEN [acc EXCEPT !.out[acc.starter] = Composition[pair]]
     ELSE [out |-> Append(acc.out, c), last |-> Ccc[c],
           starter |-> IF Ccc[c] = 0 THEN Len(acc.out) + 1 ELSE acc.starter]

NFC(s) == FoldLeft(ComposeNext, [out |-> <<>>, starter |-> 0, last |-> 0], NFD(s)).out

-----------------------------------------------------------------------------
(* Norm: the same form, mark stripping and folding for a whole text and    *)
(* for one cluster of it.                                                  *)

Unmarked(s) ==
  FlattenSeq([i \in DOMAIN s |-> IF s[i] \in Marks THEN <<>> ELSE <<s[i]>>])

Normalized(s, t) ==
  LET f == IF t.assume \/ t.form = "none" THEN s
           ELSE IF t.form = "nfc" THEN NFC(s) ELSE NFD(s)
  IN IF t.form = "strip" THEN Unmarked(f) ELSE f

Folded(c, t) == IF t.casefold THEN Lower[c] ELSE <<c>>

NormalizeCluster(s, t) ==
  LET f == Normalized(s, t) IN FlattenSeq([i \in DOMAIN f |-> Folded(f[i], t)])

(* Faulty: conjoining jamo start a cluster of their own.                   *)
AttachesMarksOnly(c) == c \in Marks

Attaches(c) == c \in Marks \/ c \in Jamo

(* What the cluster rule takes the Unicode tables to say: a code point that*)
(* is no mark and no jamo decomposes into a sequence whose first is a      *)
(* starter that no pair composes onto what stands before it.               *)
ClustersApart ==
  \A c \in Input \ (Marks \cup Jamo) :
    LET d == Decomposition[c]
    IN /\ d # <<>> /\ Ccc[d[1]] = 0
       /\ \A p \in DOMAIN Composition : p[2] # d[1]

(* The clusters of a text: a code point and all that attach to it.         *)
Clusters(s) ==
  LET Starts == {i \in DOMAIN s : i = 1 \/ ~Attaches(s[i])}
      End(i) == CHOOSE j \in i..Len(s) :
                  /\ j = Len(s) \/ j + 1 \in Starts
                  /\ \A k \in i + 1..j : k \notin Starts
  IN [k \in 1..Cardinality(Starts) |->
        LET i == CHOOSE i \in Starts : Cardinality({j \in Starts : j <= i}) = k
        IN [from |-> i - 1, to |-> End(i), chars |-> SubSeq(s, i, End(i))]]

(* Every normalized code point with the raw range of its cluster.          *)
NormalizedChars(s, t) ==
  LET cs == Clusters(s)
      Of(c) == LET e == NormalizeCluster(c.chars, t)
               IN [i \in DOMAIN e |-> [ch |-> e[i], from |-> c.from, to |-> c.to]]
  IN FlattenSeq([k \in DOMAIN cs |-> Of(cs[k])])

-----------------------------------------------------------------------------
(* Windows.                                                                *)

Slide(w, k, c) == IF Len(w) < k THEN Append(w, c) ELSE Append(Tail(w), c)
LastOf(w, k)   == SubSeq(w, Len(w) - k + 1, Len(w))

ScriptClassOf(c, current) ==
  IF Script[c] # Common THEN Script[c]
  ELSE IF current = NoClass THEN Common ELSE current

(* The windows one code point completes at primary width k, primary first. *)
Completed(w, k) ==
  (IF Len(w) = k THEN <<w>> ELSE <<>>)
    \o (IF k - 1 >= 1 /\ Len(w) >= k - 1 THEN <<LastOf(w, k - 1)>> ELSE <<>>)

(* span, over the text's NormalizedChars: an entry e carries a code point  *)
(* and its cluster's range; tokens is a set of grams.  The result is <<>>  *)
(* when no token occurs.                                                   *)
CodePoints(w) == [i \in DOMAIN w |-> w[i].ch]

(* Faulty: the end is the first occurrence's.                              *)
LocatedOnce(found, w, tokens) ==
  IF CodePoints(w) \notin tokens \/ found # <<>> THEN found
  ELSE <<w[1].from, w[Len(w)].to>>

(* The first start stays, the end only grows.  The trigram's span simply   *)
(* assigns the end, which is the same as long as window ends never fall,   *)
(* and they are ends of the clusters in text order.                        *)
Located(found, w, tokens) ==
  IF CodePoints(w) \notin tokens THEN found
  ELSE IF found = <<>> THEN <<w[1].from, w[Len(w)].to>>
  ELSE <<found[1], IF w[Len(w)].to > found[2] THEN w[Len(w)].to ELSE found[2]>>

SpanDefault(acc, e, tokens) ==
  IF e.ch \in Break THEN [acc EXCEPT !.class = NoClass, !.primary = 0, !.win = <<>>]
  ELSE LET cl == ScriptClassOf(e.ch, acc.class)
           k  == IF cl = acc.class THEN acc.primary ELSE Sizes[cl]
           w  == Slide(IF cl = acc.class THEN acc.win ELSE <<>>, k, e)
           gs == Completed(w, k)
           f1 == IF gs = <<>> THEN acc.found ELSE Located(acc.found, gs[1], tokens)
       IN [class |-> cl, primary |-> k, win |-> w,
           found |-> IF Len(gs) = 2 THEN Located(f1, gs[2], tokens) ELSE f1]

SpanNgram(acc, e, width, tokens) ==
  LET w == Slide(acc.win, width, e)
  IN [acc EXCEPT !.win = w,
        !.found = IF Len(w) = width THEN Located(@, w, tokens) ELSE @]

Span(chars, t, tokens) ==
  LET start == [class |-> NoClass, primary |-> 0, win |-> <<>>, found |-> <<>>]
      Step(acc, e) == IF t.width = 0 THEN SpanDefault(acc, e, tokens)
                      ELSE SpanNgram(acc, e, t.width, tokens)
  IN FoldLeft(Step, start, chars).found

-----------------------------------------------------------------------------
(* Terms: the script of the first strong code point, then three slots, an  *)
(* absent one holding U+0000.  A gram with U+0000 in it has no term.       *)

NoTerm == <<>>

ScriptOf(g) ==
  LET strong == {i \in DOMAIN g : Script[g[i]] # Common}
  IN IF strong = {} THEN Common
     ELSE Script[g[CHOOSE i \in strong : \A j \in strong : i <= j]]

Pack(g) == <<ScriptOf(g)>> \o [i \in 1..3 |-> IF i <= Len(g) THEN g[i] ELSE Nul]

(* Faulty: U+0000 is packed like any code point.                           *)
EncodeTermAny(g) == IF Len(g) > 3 THEN NoTerm ELSE Pack(g)

EncodeTerm(g) ==
  IF Len(g) > 3 \/ \E i \in DOMAIN g : g[i] = Nul THEN NoTerm ELSE Pack(g)

Order(t) == Cardinality({i \in 2..4 : t[i] # Nul})

-----------------------------------------------------------------------------

Init ==
  /\ text \in UNION {[1..k -> Input] : k \in 0..MaxLen}
  /\ tok \in Tokenizers
  /\ src = Normalized(text, tok)
  /\ lower = <<>> /\ pending = <<>> /\ win = <<>>
  /\ class = NoClass
  /\ primary = tok.width
  /\ word = 0
  /\ read = <<>> /\ out = <<>>

HasChar == lower # <<>> \/ src # <<>>

NextChar == IF lower # <<>> THEN Head(lower) ELSE Head(Folded(Head(src), tok))

(* PreparedChars::next.                                                    *)
TakeChar ==
  /\ HasChar
  /\ IF lower # <<>>
     THEN lower' = Tail(lower) /\ UNCHANGED src
     ELSE lower' = Tail(Folded(Head(src), tok)) /\ src' = Tail(src)
  /\ read' = Append(read, NextChar)

(* The buffered secondary gram goes out before any further code point.     *)
DrainPending ==
  /\ pending # <<>>
  /\ out' = out \o pending
  /\ pending' = <<>>
  /\ UNCHANGED <<text, tok, src, lower, win, class, primary, word, read>>

(* Faulty: the window survives the break.                                  *)
BreakWordOnly ==
  /\ tok.width = 0 /\ pending = <<>>
  /\ TakeChar
  /\ NextChar \in Break
  /\ word' = word + 1
  /\ UNCHANGED <<text, tok, pending, out, class, primary, win>>

BreakWord ==
  /\ tok.width = 0 /\ pending = <<>>
  /\ TakeChar
  /\ NextChar \in Break
  /\ class' = NoClass /\ primary' = 0 /\ win' = <<>>
  /\ word' = word + 1
  /\ UNCHANGED <<text, tok, pending, out>>

AdvanceRun ==
  /\ tok.width = 0 /\ pending = <<>>
  /\ TakeChar
  /\ NextChar \notin Break
  /\ class' = ScriptClassOf(NextChar, class)
  /\ primary' = IF class' = class THEN primary ELSE Sizes[class']
  /\ win' = Slide(IF class' = class THEN win ELSE <<>>, primary', NextChar)
  /\ LET gs == Completed(win', primary')
         tagged == [i \in DOMAIN gs |-> <<gs[i], word>>]
     IN /\ out' = IF gs = <<>> THEN out ELSE Append(out, tagged[1])
        /\ pending' = IF gs = <<>> THEN <<>> ELSE Tail(tagged)
  /\ UNCHANGED <<text, tok, word>>

(* NgramWindows::next.                                                     *)
AdvanceWindow ==
  /\ tok.width > 0
  /\ TakeChar
  /\ win' = Slide(win, tok.width, NextChar)
  /\ out' = IF Len(win') = tok.width THEN Append(out, <<win', word>>) ELSE out
  /\ UNCHANGED <<text, tok, class, primary, word, pending>>

Done == ~HasChar /\ pending = <<>>

Next == DrainPending \/ BreakWord \/ AdvanceRun \/ AdvanceWindow

Spec == Init /\ [][Next]_vars

-----------------------------------------------------------------------------
(* What a tokenizer promises, said of the whole text at once.              *)

(* The class of position i: its strong script, or that of the nearest      *)
(* strong code point before it in its word.                                *)
ClassAt(s, i) ==
  LET strong == {k \in 1..i : /\ Script[s[k]] # Common
                              /\ \A l \in k..i : s[l] \notin Break}
  IN IF strong = {} THEN Common
     ELSE Script[s[CHOOSE k \in strong : \A l \in strong : l <= k]]

OneRun(s, i, j) ==
  \A k \in i..j : s[k] \notin Break /\ ClassAt(s, k) = ClassAt(s, i)

Widths(s, i, t) ==
  IF t.width > 0 THEN {t.width}
  ELSE {Sizes[ClassAt(s, i)], Sizes[ClassAt(s, i)] - 1} \ {0}

(* Every interval of s that is a gram.                                     *)
GramsIn(s, t) ==
  {p \in (DOMAIN s) \X (DOMAIN s) :
     /\ p[1] <= p[2]
     /\ t.width > 0 \/ OneRun(s, p[1], p[2])
     /\ p[2] - p[1] + 1 \in Widths(s, p[1], t)}

WordAt(s, i, t) ==
  IF t.width > 0 THEN 0 ELSE Cardinality({k \in 1..i : s[k] \in Break})

(* The stream yields each window of each run exactly once, in the order of *)
(* its end, the wider first, tagged with the number of breaks before it:   *)
(* no gram straddles a word or a script, none is lost at the end of a run  *)
(* or when a secondary gram is still buffered (GramTokens::next_tagged,    *)
(* NgramWindows::next).                                                    *)
EveryWindowOnce ==
  Done =>
    LET grams == GramsIn(read, tok)
        Rank(p) == Cardinality({q \in grams :
                     q[2] < p[2] \/ (q[2] = p[2] /\ q[1] <= p[1])})
    IN /\ Len(out) = Cardinality(grams)
       /\ \A p \in grams :
            out[Rank(p)] = <<SubSeq(read, p[1], p[2]), WordAt(read, p[1], tok)>>

(* Normalizing cluster by cluster gives the code points the whole-text     *)
(* stream gives, on reordered marks and on composing jamo too: span and    *)
(* tokenize speak of the same grams (Norm::for_each_normalized_char).      *)
ClustersMatchStream ==
  Done => read = CodePoints(NormalizedChars(text, tok))

(* span finds some range exactly when some token occurs, and the range is  *)
(* the hull of all the occurrences of all the tokens, in whole clusters    *)
(* (Tokenizer::span of both tokenizers).                                   *)
SpanIsHull ==
  Done =>
    LET chars == NormalizedChars(text, tok)
        grams == {<<p, SubSeq(CodePoints(chars), p[1], p[2])>> :
                    p \in GramsIn(CodePoints(chars), tok)}
        Occurrences(T) == {g[1] : g \in {h \in grams : h[2] \in T}}
        Hull(O) ==
          IF O = {} THEN <<>>
          ELSE <<chars[CHOOSE i \in {p[1] : p \in O} : \A p \in O : i <= p[1]].from,
                 chars[CHOOSE j \in {p[2] : p \in O} : \A p \in O : j >= p[2]].to>>
        yielded == {out[k][1] : k \in DOMAIN out}
    IN \A g, h \in yielded \cup {<<Nul, Nul>>} :
         Span(chars, tok, {g, h}) = Hull(Occurrences({g, h}))

(* Two grams never share a term, a term tells its gram's order, and only a *)
(* gram with U+0000 in it has none: else two grams share one posting, or a *)
(* gram is silently not indexed (encode_term, Term::order).                *)
TermsIdentifyGrams ==
  \A k, l \in DOMAIN out :
    LET g == out[k][1]
        h == out[l][1]
    IN /\ EncodeTerm(g) # NoTerm =>
            /\ Order(EncodeTerm(g)) = Len(g)
            /\ EncodeTerm(g) = EncodeTerm(h) => g = h
       /\ EncodeTerm(g) = NoTerm => Nul \in {g[i] : i \in DOMAIN g}
=============================================================================
