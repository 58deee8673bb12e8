----------------------------- MODULE MCIdentity -----------------------------
(* Two accounts, one of which may administer the other.                      *)
EXTENDS Identity
CONSTANTS a1, a2, t1, t2, w1, w2, c1, c2
=============================================================================
