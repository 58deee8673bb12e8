----------------------------- MODULE MCHostGate -----------------------------
(* Instances of HostGate for TLC. *)
EXTENDS HostGate, TLC

CONSTANTS a1, a2, a3, a4, h1, w1, w2

FourAttempts == {a1, a2, a3, a4}
OneHost == {h1}
PortedAttempt == {a4}
TwoWorkers == {w1, w2}
SharedHost == [a \in {a1, a2, a3, a4} |-> h1]

Symmetry == Permutations({a1, a2, a3}) \cup Permutations(TwoWorkers)
============================================================================
