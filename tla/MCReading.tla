----------------------------- MODULE MCReading ------------------------------
(* The two pages of MCClaims, with every small page and document a statement *)
(* could be read from and the wordings of Wording.                           *)
EXTENDS MCClaims, Reading
=============================================================================
