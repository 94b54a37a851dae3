------------------------- MODULE MCDatasetPreparation -------------------------
(* One source folder, prepared with one mapping of its labels and then with another. *)
EXTENDS DatasetPreparation

TwoMappings == {[label \in UpstreamLabels |-> IF label = "a" THEN "train" ELSE other] :
                    other \in {"tuning", "held_out"}}
=============================================================================
