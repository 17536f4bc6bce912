--------------------------- MODULE MCDocumentStore ---------------------------
(* DocumentStore on small instances: the calls are interchangeable.          *)
EXTENDS DocumentStore, TLC

RunSymmetry == Permutations(Runs)
=============================================================================
