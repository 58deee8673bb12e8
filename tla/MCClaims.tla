------------------------------ MODULE MCClaims ------------------------------
(* Two pages that state one thing differently; the second statement of one   *)
(* page repeats the first until the rules change.                            *)
EXTENDS Claims, TLC

CONSTANTS A, B, a1, b1, b2, fee, p1, p2, r1, r2

PageOf   == [s \in Statements |-> IF s = a1 THEN A ELSE B]
AboutFee == [s \in Statements |-> fee]
Values   == [s \in Statements |-> [v \in Versions |->
                IF s = a1 \/ (s = b2 /\ v > 1) THEN 1 ELSE 2]]

Scope(s, c) == [kind |-> "scope", state |-> s, criteria |-> c]
Conflict(a) == [kind |-> "conflict", action |-> a]

Workers == Permutations(Passes) \cup Permutations(Reviewers)

Asked == {Scope("UNIVERSAL_EXPLICIT", {}), Conflict("SELECTED_SUPPORTED_CLAIM"),
          Conflict("LEFT_UNRESOLVED")}
=============================================================================
