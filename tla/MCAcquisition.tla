--------------------------- MODULE MCAcquisition ---------------------------
(* Instances of Acquisition for TLC. *)
EXTENDS Acquisition, TLC, FiniteSetsExt

CONSTANTS s1, s2, h1, h2, w1, w2

OneSource  == {s1}
TwoSources == {s1, s2}
OneHost    == {h1}
TwoHosts   == {h1, h2}

OneSourceHost == [s \in {s1} |-> h1]
SharedHost    == [s \in {s1, s2} |-> h1]
OwnHosts      == [s \in {s1, s2} |-> IF s = s1 THEN h1 ELSE h2]

(* At most three leases in a behaviour, of whichever attempts and cycles.    *)
FewClaims == MapThenSumSet(LAMBDA a : att[a].gen, Attempts) <= 3

WorkerSymmetry == Permutations(Workers)
============================================================================
