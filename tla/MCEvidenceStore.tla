-------------------------- MODULE MCEvidenceStore --------------------------
(* Instances of EvidenceStore for TLC. *)
EXTENDS EvidenceStore, TLC

CONSTANTS h1, h2, w1, w2

(* Both stores with crashes, with an operator who deletes and without one.    *)
BothStores == {[store |-> "filesystem", deletions |-> FALSE, crashes |-> 2],
               [store |-> "filesystem", deletions |-> TRUE, crashes |-> 2],
               [store |-> "s3", deletions |-> TRUE, crashes |-> 2],
               [store |-> "s3", deletions |-> FALSE, crashes |-> 2]}

WriterSymmetry == Permutations(Writers)
============================================================================
