---------------------------- MODULE MCTrustChain ----------------------------
(* Two pages of one URL under one host, served after a redirect from another *)
(* host for the first of them.                                               *)
EXTENDS TrustChain

CONSTANTS h1, h2, m1, m2, s1, p1, p2, language, tuition

MCHostOf == [m \in {m1, m2} |-> h1]
MCServedBy == [m \in {m1, m2} |-> IF m = m1 THEN h2 ELSE h1]
MCSourceOf == [m \in {m1, m2} |-> s1]
MCAuthorises == [m \in {m1, m2} |-> IF m = m1 THEN {language} ELSE {tuition}]
=============================================================================
