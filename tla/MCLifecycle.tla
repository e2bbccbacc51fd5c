---------------------------- MODULE MCLifecycle -----------------------------
(* Configs: a base and, per stamp, one that differs in that stamp only.    *)
EXTENDS Lifecycle, TLC

CONSTANTS a, b, g1, g2, x

Base == [schema_version |-> 5, data_version |-> 0, fingerprint |-> 1,
         schema_fingerprint |-> 1]

MCConfigs == {Base} \cup {[Base EXCEPT ![f] = 9] : f \in Stamps}

MCTexts == {x} \X MCConfigs

(* The other tokenizer finds a gram less in the text.                      *)
MCGramsOf ==
  [t \in MCTexts |-> IF t[2].fingerprint = 9 THEN {g2} ELSE {g1, g2}]

(* The other schema declares a label less.                                 *)
MCAccepts == 1 :> {a, b} @@ 9 :> {a}

=============================================================================
