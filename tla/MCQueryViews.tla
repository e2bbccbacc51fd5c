---------------------------- MODULE MCQueryViews ----------------------------
(* An instance of QueryViews for TLC: script 1 is searched by bigrams, the *)
(* script 0 of digits and signs by trigrams, though a run of script 1 may  *)
(* leave grams of one digit.  Queries are bags of grams in a fixed order. *)
EXTENDS QueryViews, TLC

CONSTANT MaxGrams

MCClasses == {<<1, 2>>, <<1, 1>>, <<0, 3>>, <<0, 2>>, <<0, 1>>}
MCDfs == {0, 1, 2, 3}

(* Script 1 is dense: a df of 3 there is rarer than one of 2 elsewhere.    *)
MCRarity == [k \in MCClasses |-> [d \in MCDfs |-> IF k[1] = 1 THEN 3 * d - 5 ELSE 3 * d]]

MCEnergyOf == 0 :> 5 @@ 1 :> 5 @@ 2 :> 2 @@ 3 :> -1

MCPrimaryOrder == 1 :> 2 @@ 0 :> 3
MCLnVocab == <<1, 2>> :> 3 @@ <<1, 1>> :> 1 @@ <<0, 3>> :> 4 @@ <<0, 2>> :> 99

(* Grams by number, so that a bag is a non-decreasing sequence.            *)
MCKinds == [n \in 0 .. 19 |->
  LET k == CASE n \div 4 = 0 -> <<1, 2>> [] n \div 4 = 1 -> <<1, 1>>
             [] n \div 4 = 2 -> <<0, 3>> [] n \div 4 = 3 -> <<0, 2>> [] OTHER -> <<0, 1>>
  IN [class |-> k[1], order |-> k[2], df |-> n % 4]]

(* Bags of up to MaxGrams, filled up with 20 at the end.                   *)
MCBags == {b \in [1 .. MaxGrams -> 0 .. 20] : \A i \in 1 .. MaxGrams - 1 : b[i] <= b[i + 1]}

MCQuery(b, w) ==
  [i \in 1 .. Cardinality({i \in DOMAIN b : b[i] # 20}) |->
     [class |-> MCKinds[b[i]].class, order |-> MCKinds[b[i]].order,
      df |-> MCKinds[b[i]].df, word |-> IF i % 2 = 0 THEN w ELSE 1]]

MCQueries == {MCQuery(b, w) : b \in MCBags, w \in {1, 2}}

MCLimits ==
  {[budget |-> 2, floor |-> 1, c |-> 2, r |-> <<9, 10>>, target |-> 3],
   [budget |-> 4, floor |-> 0, c |-> 2, r |-> <<7, 10>>, target |-> 1],
   [budget |-> 99, floor |-> 1, c |-> 1, r |-> <<1, 2>>, target |-> 2],
   [budget |-> 3, floor |-> 2, c |-> 2, r |-> <<9, 10>>, target |-> -1]}

MCStarvedRatio == <<1, 2>>
=============================================================================
