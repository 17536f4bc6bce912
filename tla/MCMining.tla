------------------------------ MODULE MCMining ------------------------------
EXTENDS Mining

(* A page with text alone, and one that is annotated.                        *)
MCSignals == {[text_len |-> 1, image_count |-> 0, has_annotations |-> FALSE],
              [text_len |-> 1, image_count |-> 0, has_annotations |-> TRUE]}
=============================================================================
