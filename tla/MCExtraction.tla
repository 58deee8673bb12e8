---------------------------- MODULE MCExtraction ----------------------------
(* Instances of Observation and Extraction for TLC: a page whose content     *)
(* flips, or moves to an address that tags it with an etag the first address *)
(* gave something else, and that redirects back while the page is not there. *)
EXTENDS Extraction, TLC

CONSTANTS A, B, home, other, w1, w2, p1, p2

TwoContents == {A, B}
Flips  == {home :> c @@ other :> home : c \in TwoContents}
Moved  == home :> other @@ other :> B
MovingSites == Flips \cup {Moved}
Etags == home :> (A :> 1 @@ B :> 2) @@ other :> (A :> 2 @@ B :> 1)
TwoWorkers == {w1, w2}
OnePass == {p1}
============================================================================
