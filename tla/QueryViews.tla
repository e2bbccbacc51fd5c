----------------------------- MODULE QueryViews -----------------------------
(***************************************************************************)
(* plan_views of src/search.rs: one query becomes one or two rank views.   *)
(* The grams of every script's primary order are selected first; scripts   *)
(* whose primary evidence is thin (starved) get a second view of the next  *)
(* shorter order, selected by a second call of module Selection.  Then     *)
(* build_view_plan caps the count credit of each view.                     *)
(***************************************************************************)
EXTENDS Selection

CONSTANTS
  Scripts,
  PrimaryOrder,    (* script -> Tokenizer::primary_order                   *)
  Nu,              (* corroboration depth                                  *)
  StarvedRatio,    (* STARVED_ENERGY_RATIO, a fraction <<num, den>>        *)
  LnVocab,         (* (class, order) -> ln of its vocabulary, scaled       *)
  NoVocab,         (* LnVocab of a class without terms                     *)
  Gamma,           (* RRF_GAMMA on LnVocab's scale, in hundredths          *)
  Mu,              (* count_credit(sigma)                                  *)
  Delta,           (* delta, the step energies are quantized to            *)
  Queries, Limits  (* the queries and SelectParams asked                   *)

ASSUME Thresholds ==
  /\ Nu \in Nat \ {0}
  /\ StarvedRatio[1] \in Nat \ {0} /\ StarvedRatio[2] \in Nat
  /\ 2 * StarvedRatio[1] <= StarvedRatio[2]
  /\ Mu \in Nat
  /\ Delta \in Nat \ {0}

(* The rows of a query are those its classes and frequencies have values   *)
(* for.                                                                    *)
ASSUME QueriesFit ==
  /\ \A q \in Queries :
       /\ q \in Seq([class : Scripts, order : Nat, df : DOMAIN EnergyOf, word : Words])
       /\ \A g \in DOMAIN q :
            /\ <<q[g].class, q[g].order>> \in DOMAIN Rarity
            /\ q[g].df \in DOMAIN Rarity[<<q[g].class, q[g].order>>]
  /\ \A p \in Limits :
       /\ p.budget \in Nat /\ p.floor \in Nat /\ p.c \in Nat /\ p.target \in Int
       /\ p.r[1] \in Nat /\ p.r[2] \in Nat

VARIABLES
  step,            (* "primary", "secondary" or "planned"                  *)
  primary,         (* primary_selected                                     *)
  views,           (* ViewSel::views                                       *)
  weights          (* ViewSel::weights, in hundredths                      *)

vars == <<query, params, callVars, step, primary, views, weights>>

-----------------------------------------------------------------------------
Grams == 1 .. Len(query)

IsSecondary(g) == query[g].order # 0 /\ query[g].order + 1 = PrimaryOrder[query[g].class]

PrimaryRows == {g \in Grams : ~IsSecondary(g)}
SecondaryRows == {g \in Grams : IsSecondary(g)}

Of(script, S) == {g \in S : query[g].class = script}
PresentScripts == {s \in Scripts : Of(s, Grams) # {}}

EnergySum(S) == MapThenSumSet(Evidence, S)

(* Faulty: one starved script starves them all.                            *)
StarvedAll(selected) ==
  LET thin(s) == Cardinality(Present(Of(s, PrimaryRows))) \in 1 .. Nu - 1
  IN IF \E s \in PresentScripts : Of(s, PrimaryRows) = {} \/ thin(s)
     THEN PresentScripts ELSE {}

(* Faulty: only a script that produced no primary gram is starved.         *)
StarvedStructural(selected) == {s \in PresentScripts : Of(s, PrimaryRows) = {}}

(* starved(s): no primary gram was produced at all, or some are in the     *)
(* corpus but fewer than Nu, or the selection kept too little of their     *)
(* energy.                                                                 *)
Starved(selected) ==
  {s \in PresentScripts :
     LET produced == Of(s, PrimaryRows)
         full == EnergySum(Present(produced))
         collected == EnergySum(Present(produced) \cap selected)
     IN \/ produced = {}
        \/ /\ Present(produced) # {}
           /\ \/ Cardinality(Present(produced)) < Nu
              \/ full > 0 /\ StarvedRatio[2] * collected < StarvedRatio[1] * full}

(* Which rows the secondary view is selected from.                         *)
Pooled(starved) == {g \in SecondaryRows : query[g].class \in starved}

(* [w_primary, w_secondary] from the vocabulary gap of the starved scripts *)
(* that have both orders populated, clamped to 0.1 .. 0.9.                 *)
ViewWeights(starved) ==
  LET vocab(s, o) == LnVocab[<<s, o>>]
      both == {s \in starved : /\ vocab(s, PrimaryOrder[s]) # NoVocab
                               /\ vocab(s, PrimaryOrder[s] - 1) # NoVocab}
      gap == MapThenSumSet(LAMBDA s : vocab(s, PrimaryOrder[s])
                                        - vocab(s, PrimaryOrder[s] - 1), both)
      first == IF both = {} THEN 50
               ELSE Max({10, Min({90, 50 + (Gamma * gap) \div Cardinality(both)})})
  IN <<first, 100 - first>>

-----------------------------------------------------------------------------
Init ==
  /\ query \in Queries
  /\ params \in Limits
  /\ pool = PrimaryRows
  /\ scan = "classes"
  /\ todo = Present(PrimaryRows)
  /\ kept = {}
  /\ acc = NoEvidence
  /\ step = "primary"
  /\ primary = {}
  /\ views = <<>>
  /\ weights = <<>>

Select ==
  /\ SelectStep
  /\ UNCHANGED <<query, params, step, primary, views, weights>>

Planned(vs, ws) ==
  /\ step' = "planned"
  /\ views' = vs
  /\ weights' = ws

(* A query without a starved script runs its primary view alone, empty or  *)
(* not.                                                                    *)
PrimaryAlone ==
  /\ step = "primary" /\ scan = "done"
  /\ Starved(Selected) = {}
  /\ primary' = Selected
  /\ Planned(<<Selected>>, <<100>>)
  /\ UNCHANGED <<query, params, callVars>>

(* Otherwise a view without a gram in the corpus is left out.              *)
NoSecondary ==
  /\ step = "primary" /\ scan = "done"
  /\ Starved(Selected) # {}
  /\ Present(Pooled(Starved(Selected))) = {}
  /\ primary' = Selected
  /\ IF Present(PrimaryRows) = {} THEN Planned(<<>>, <<>>)
     ELSE Planned(<<Selected>>, <<100>>)
  /\ UNCHANGED <<query, params, callVars>>

SelectSecondary ==
  /\ step = "primary" /\ scan = "done"
  /\ Present(Pooled(Starved(Selected))) # {}
  /\ primary' = Selected
  /\ step' = "secondary"
  /\ Begin(Pooled(Starved(Selected)))
  /\ UNCHANGED <<query, params, views, weights>>

WithSecondary ==
  /\ step = "secondary" /\ scan = "done"
  /\ IF Present(PrimaryRows) = {} THEN Planned(<<Selected>>, <<100>>)
     ELSE Planned(<<primary, Selected>>, ViewWeights(Starved(primary)))
  /\ UNCHANGED <<query, params, callVars, primary>>

Next == Select \/ PrimaryAlone \/ NoSecondary \/ SelectSecondary \/ WithSecondary

Spec == Init /\ [][Next]_vars

-----------------------------------------------------------------------------
(* build_view_plan: the count credit mu of a view, and a document's score  *)
(* for the grams of the view it holds, before the length null, both times  *)
(* den.  The credit is capped by the energies as they are, the score adds  *)
(* them quantized.                                                         *)

Top(v) == Max({EnergyOf[Df(g)] : g \in Present(v)})
Commons(v) == {g \in Present(v) : 2 * EnergyOf[Df(g)] < Top(v)}

(* Faulty: the cap is shared among all the commons.                        *)
CappedCreditLoose(v) ==
  IF Present(v) = {} THEN [num |-> Mu, den |-> 1]
  ELSE IF Top(v) <= 0 \/ Cardinality(Commons(v)) < 3 THEN [num |-> Mu, den |-> 1]
  ELSE LET den == Cardinality(Commons(v)) - 1
       IN [num |-> Min({Mu * den, Max({0, Top(v) - EnergySum(Commons(v))})}), den |-> den]

(* mu.min(cap), cap = max(0, (E_top - sum of commons) / (#commons - 1));   *)
(* no cap without a dominant gram or with fewer than two commons.          *)
CappedCredit(v) ==
  IF Present(v) = {} THEN [num |-> Mu, den |-> 1]
  ELSE IF Top(v) <= 0 \/ Cardinality(Commons(v)) < 2 THEN [num |-> Mu, den |-> 1]
  ELSE LET den == Cardinality(Commons(v)) - 1
       IN [num |-> Min({Mu * den, Max({0, Top(v) - EnergySum(Commons(v))})}), den |-> den]

(* quantize_energy: E / delta rounded half up, and nothing below zero.     *)
Quantized(g) == Max({0, (2 * EnergyOf[Df(g)] + Delta) \div (2 * Delta)})

(* popcount_credit: floored grams earn none.                               *)
Credit(v, S) == CappedCredit(v).num * Cardinality({g \in S : ~Floored(g)})

(* corrected_parts: the energies the engine added up, and the credit.      *)
Score(v, S) ==
  CappedCredit(v).den * Delta * MapThenSumSet(Quantized, S) + Credit(v, S)

-----------------------------------------------------------------------------
(* Properties.                                                             *)

(* No script that could be searched is forgotten: when the views are       *)
(* planned, a script with an affordable gram of its primary order has a    *)
(* gram in a view, and one starved of those has one of the shorter order   *)
(* if it has any in the corpus that is affordable.                         *)
ScriptsServed ==
  step = "planned" =>
    \A s \in PresentScripts :
      LET served(order) == \E i \in DOMAIN views : Present(Of(s, order)) \cap views[i] # {}
          affordable(order) == \E g \in Present(Of(s, order)) : InBudget(g)
          all == Of(s, Grams)
      IN /\ affordable(PrimaryRows) => served(PrimaryRows)
         /\ (Of(s, PrimaryRows) = {} \/ Cardinality(Present(Of(s, PrimaryRows))) \in 1 .. Nu - 1)
              /\ affordable(SecondaryRows) => served(SecondaryRows)

(* A script that stands on its primary grams (Nu of them in the corpus and *)
(* half their energy kept) lets none of its shorter grams into a plan, and *)
(* neither does one whose primary grams are all unknown to the corpus.     *)
RichScriptsQuiet ==
  step = "planned" =>
    \A i \in DOMAIN views, g \in Grams :
      g \in views[i] /\ IsSecondary(g) =>
        LET mine == Present(Of(query[g].class, PrimaryRows))
            left == mine \ primary
        IN \/ Of(query[g].class, PrimaryRows) = {}
           \/ Cardinality(mine) \in 1 .. Nu - 1
           \/ /\ mine # {}
              /\ EnergySum(left) > EnergySum(mine \cap primary)

(* A document that holds only the commons of a view never scores above one *)
(* of its length that holds the dominant gram alone by more than half a    *)
(* step for every gram the two hold (the energies are rounded after the    *)
(* cap was taken) and, if the dominant gram is floored, its credit, unless *)
(* the commons outweigh it by their energies (concentration_cap).          *)
CommonsNeverOutweigh ==
  step = "planned" =>
    \A i \in DOMAIN views :
      LET v == views[i]
          top == CHOOSE g \in Present(v) : EnergyOf[Df(g)] = Top(v)
          credit == IF Floored(top) THEN CappedCredit(v).num ELSE 0
          rounding == CappedCredit(v).den * Delta * (Cardinality(Commons(v)) + 1)
      IN Present(v) # {} /\ Cardinality(Commons(v)) >= 2 /\ Top(v) > 0
         /\ EnergySum(Commons(v)) <= Top(v)
         => 2 * Score(v, Commons(v)) <= 2 * (Score(v, {top}) + credit) + rounding

(* The stronger claim of the comments on concentration_cap: a dominant     *)
(* gram that is itself floored shields its document from one that holds    *)
(* only the commons.                                                       *)
FlooredTopShielded ==
  step = "planned" =>
    \A i \in DOMAIN views :
      LET v == views[i]
          top == CHOOSE g \in Present(v) : EnergyOf[Df(g)] = Top(v)
      IN Present(v) # {} /\ Cardinality(Commons(v)) >= 2 /\ Top(v) > 0
         /\ Floored(top) /\ EnergySum(Commons(v)) <= Top(v)
         => Score(v, Commons(v)) <= Score(v, {top})

=============================================================================
