---------------------------- MODULE Publication ----------------------------
(***************************************************************************)
(* What the database demands of a published value, composed with the trust *)
(* chain it rests on: the worker's claims, the publisher's citations and   *)
(* the governed columns of one canonical row (the triggers of revisions    *)
(* 0017, 0019 and 0032, the grants and append-only tables of 0013).        *)
(*                                                                         *)
(* The publication service is not built: a publisher is any transaction    *)
(* its role can run. Each of its statements is checked against what is     *)
(* committed when the statement runs; the governed columns are checked at  *)
(* its commit. A claim is one transaction of the worker. The columns are   *)
(* those of one row of a table that is not about rankings.                 *)
(***************************************************************************)
EXTENDS TrustChain, FiniteSets

CONSTANTS
    Columns,      \* the governed columns of the row: amount_kind, amount_min, ...
    Values,
    Publishers,
    MaxWrites     \* bound: writes of the row per publication

ASSUME PublicationAssumption ==
    /\ Columns \subseteq Fields
    /\ None \notin Values
    /\ MaxWrites \in Nat
    /\ Publishers \cap Sessions = {}

VARIABLES
    claims,    \* field_claim: who said what of which field
    cited,     \* field_provenance, PUBLISHED, committed: append-only
    canon,     \* the committed governed values; None is NULL
    pub        \* the publication each publisher has under way

pubVars == <<claims, cited, canon, pub>>
allVars == <<vars, pubVars>>

Claim    == [source: Sources, field: Columns, value: Values]
Citation == [field: Columns, value: Values, source: Sources \cup {None}, claim: Claim \cup {None}]
Image    == [Columns -> Values \cup {None}]

(* `cites` and `rows` are what the transaction has inserted and written, the *)
(* row images in order.                                                      *)
Nothing == [cites |-> {}, rows |-> <<>>]

PubInit ==
    /\ claims = {} /\ cited = {}
    /\ canon = [c \in Columns |-> None]
    /\ pub = [p \in Publishers |-> Nothing]

----------------------------------------------------------------------------
(* The gates *)

(* app_eligibility_of_evidence: every source a citation's anchors lead to. *)
Evidence(r) == ({r.source} \ {None}) \cup {c.source : c \in {r.claim} \ {None}}

(* Mutant: some evidence is cited, whatever its class. *)
AnyEvidence(r) == Evidence(r) # {}

(* _eligibility_check_body, for an official source and a field that is not a *)
(* ranking's: the class alone. The scope that revision 0032 added for a      *)
(* claim is not asked of a citation.                                         *)
Admissible(r) == Evidence(r) # {} /\ Evidence(r) \subseteq eligible

(* A claim a citation names is about the same field; neither its value nor   *)
(* its source has to be the citation's.                                      *)
Coherent(r) == r.claim = None \/ (r.claim \in claims /\ r.claim.field = r.field)

(* Mutant: the column list of revision 0017, which names a column revision   *)
(* 0019 dropped: absent keys are skipped.                                    *)
Frozen == {}

(* TG_ARGV, as revision 0019 recreated it. *)
GovernedColumns == Columns

(* app_governed_column_requires_provenance of one row image. A NULL column   *)
(* asserts nothing.                                                          *)
Governed(image, visible) ==
    \A c \in GovernedColumns :
        image[c] # None => \E r \in visible : r.field = c /\ r.value = image[c]

----------------------------------------------------------------------------
(* Steps. MaxOps bounds claims and publications with the decisions. *)

(* app_worker inserts a claim through the gate of revision 0032. *)
InsertClaim(c) ==
    /\ ops < MaxOps /\ ops' = ops + 1
    /\ MaySupport(c.source, c.field)
    /\ claims' = claims \cup {c}
    /\ UNCHANGED <<rows, token, tx, held, cited, canon, pub>>

(* A publication begins with its first statement. *)
Statement(p) ==
    \/ pub[p] # Nothing /\ UNCHANGED ops
    \/ pub[p] = Nothing /\ ops < MaxOps /\ ops' = ops + 1

(* A citation of one field, once per version. A refused one raises, and the  *)
(* transaction ends.                                                         *)
Cite(p, r) ==
    /\ Statement(p)
    /\ \A q \in pub[p].cites : q.field # r.field
    /\ r.claim = None \/ r.claim \in claims
    /\ pub' = IF Coherent(r) /\ Admissible(r) THEN [pub EXCEPT ![p].cites = @ \cup {r}]
              ELSE [pub EXCEPT ![p] = Nothing]
    /\ UNCHANGED <<rows, token, tx, held, claims, cited, canon>>

(* The row stays locked from a transaction's first write to its end.         *)
Write(p, image) ==
    /\ Statement(p)
    /\ \A q \in Publishers \ {p} : pub[q].rows = <<>>
    /\ Len(pub[p].rows) < MaxWrites
    /\ pub' = [pub EXCEPT ![p].rows = Append(@, image)]
    /\ UNCHANGED <<rows, token, tx, held, claims, cited, canon>>

(* The deferred trigger sees every row image that was written, with the      *)
(* provenance that is visible at the end, the transaction's own included.    *)
CommitPublication(p) ==
    LET visible == cited \cup pub[p].cites
        images  == pub[p].rows
        passes  == \A i \in DOMAIN images : Governed(images[i], visible)
    IN /\ pub[p] # Nothing
       /\ cited' = IF passes THEN visible ELSE cited
       /\ canon' = IF passes /\ images # <<>> THEN images[Len(images)] ELSE canon
       /\ pub' = [pub EXCEPT ![p] = Nothing]
       /\ UNCHANGED <<vars, claims>>

Publish ==
    \/ \E c \in Claim : InsertClaim(c)
    \/ \E p \in Publishers :
          \/ \E r \in Citation : Cite(p, r)
          \/ \E image \in Image : Write(p, image)
          \/ CommitPublication(p)

PubNext == Publish \/ (Next /\ UNCHANGED pubVars)

AllInit == Init /\ PubInit

PubSpec == AllInit /\ [][PubNext]_allVars

----------------------------------------------------------------------------
(* Properties *)

PubTypeOK ==
    /\ TypeOK
    /\ claims \subseteq Claim /\ cited \subseteq Citation /\ canon \in Image
    /\ pub \in [Publishers -> [cites : SUBSET Citation, rows : Seq(Image)]]

(* A governed value that can be read has a committed citation of exactly     *)
(* that value, however many writes and publications led to it.               *)
GovernedAreCited ==
    \A c \in Columns : canon[c] # None => \E r \in cited : r.field = c /\ r.value = canon[c]

(* Every source a citation leads to was vouched for, when it was inserted,   *)
(* by a promoted and verified mapping under a trusted host, whatever         *)
(* decision is being applied or withdrawn at the same time.                  *)
CitedOnTrust ==
    [][\A p \in Publishers : \A r \in pub'[p].cites \ pub[p].cites : \A s \in Evidence(r) :
          \E m \in Promoted(s) : Verified(m) /\ Trusted(HostOf[m])]_allVars

(* What revision 0032 says of a source ("publication authority is scoped to  *)
(* a field, not to a source") and the code asks of a claim only: no run.     *)
CitedInScope ==
    [][\A p \in Publishers : \A r \in pub'[p].cites \ pub[p].cites : \A s \in Evidence(r) :
          MaySupport(s, r.field)]_allVars
=============================================================================
