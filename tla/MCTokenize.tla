------------------------------ MODULE MCTokenize ------------------------------
EXTENDS Tokenize

(* I and I-with-dot (Latin; the second decomposes, and lowercases to two   *)
(* code points), two marks of different combining classes, a Han character,*)
(* a digit, a space, a leading and a vowel jamo with their syllable, NUL.  *)
MCInput == {"I", "Idot", "dot", "ced", "han", "1", " ", "jamoL", "jamoV", "nul"}
MCChars == MCInput \cup {"i", "syl"}

MCScript == [c \in MCChars |->
  IF c \in {"I", "Idot", "i"} THEN "Latin"
  ELSE IF c = "han" THEN "Han"
  ELSE IF c \in {"jamoL", "jamoV", "syl"} THEN "Hangul" ELSE "Common"]

MCSizes == [s \in {"Latin", "Han", "Hangul", "Common"} |->
  IF s \in {"Han", "Hangul"} THEN 2 ELSE 3]

MCLower == [c \in MCChars |->
  IF c = "I" THEN <<"i">> ELSE IF c = "Idot" THEN <<"i", "dot">> ELSE <<c>>]

MCDecomposition == [c \in MCChars |->
  IF c = "Idot" THEN <<"I", "dot">>
  ELSE IF c = "syl" THEN <<"jamoL", "jamoV">> ELSE <<c>>]

MCComposition == [p \in {<<"I", "dot">>, <<"jamoL", "jamoV">>} |->
  IF p[1] = "I" THEN "Idot" ELSE "syl"]

MCCcc == [c \in MCChars |-> IF c = "dot" THEN 230 ELSE IF c = "ced" THEN 202 ELSE 0]

(* These tables obey the law that the cluster rule takes for granted.      *)
ASSUME MCTablesApart == ClustersApart

MCTokenizers ==
  {[width |-> 0, form |-> "nfc",   casefold |-> TRUE,  assume |-> FALSE],
   [width |-> 0, form |-> "nfd",   casefold |-> FALSE, assume |-> FALSE],
   [width |-> 0, form |-> "strip", casefold |-> TRUE,  assume |-> TRUE],
   [width |-> 2, form |-> "strip", casefold |-> TRUE,  assume |-> FALSE],
   [width |-> 3, form |-> "none",  casefold |-> TRUE,  assume |-> FALSE]}
=============================================================================
