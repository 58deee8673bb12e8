----------------------------- MODULE TrustChain -----------------------------
(***************************************************************************)
(* The chain a published fact hangs from: host -> mapping -> source ->     *)
(* field bindings (scripts/source_review.py, domains/verification/          *)
(* decisions.py and promotion.py, domains/onboarding/verification.py, and  *)
(* the triggers of revisions 0016, 0017, 0031 and 0032).                   *)
(*                                                                         *)
(* Every operation is one transaction at READ COMMITTED: it locks rows one *)
(* after the other, checks what it has just locked, and writes at commit.  *)
(* What a transaction writes lies under locks it holds to the end, so the  *)
(* writes are shown at the commit and the order of the locks is kept: the  *)
(* explicit FOR UPDATE, the rows a trigger updates, the FOR SHARE a        *)
(* trigger takes on the host, and audit_chain_head last.                   *)
(***************************************************************************)
EXTENDS Naturals, Sequences

CONSTANTS
    Hosts, Mappings, Sources, Sessions,
    Fields,          \* governed (entity_type, field_path) pairs
    HostOf,          \* the official_domain of a mapping
    ServedBy,        \* the host its stored snapshot came from, after redirects
    SourceOf,        \* the source with the mapping's URL hash
    Authorises,      \* bindings_for the mapping's responsibility
    Operations,      \* which operations are used
    MaxOps,          \* bound: transactions and previews started
    Audit, None

ASSUME ChainAssumption ==
    /\ HostOf \in [Mappings -> Hosts] /\ ServedBy \in [Mappings -> Hosts]
    /\ SourceOf \in [Mappings -> Sources]
    /\ Authorises \in [Mappings -> SUBSET Fields]
    /\ MaxOps \in Nat
    /\ Sessions # {} /\ None \notin Sessions

VARIABLES
    host,      \* official_domain.verification_status
    mapping,   \* source_mapping: status, verified_by, whether promoted to SourceOf
    eligible,  \* sources that are OFFICIAL_VERIFIED
    bound,     \* source_field_binding
    token,     \* the preview each session holds
    tx,        \* the transaction of each session: its operation and its target
    held,      \* rows it has locked, with the mode
    ops

rows == <<host, mapping, eligible, bound>>
vars == <<rows, token, tx, held, ops>>

Trusted(h)  == host[h] \in {"official", "external"}
Verified(m) == mapping[m].status \in {"official", "external"}
Promoted(s) == {m \in Mappings : SourceOf[m] = s /\ mapping[m].promoted}
Under(h)    == {m \in Mappings : HostOf[m] = h}

(* Mutant: the trigger looks for the promotion in the new row, where it has  *)
(* been cleared already.                                                     *)
ClearedFirst(ms) == {}

(* The sources a withdrawal trigger updates for the mappings ms. *)
Withdrawn(ms) == {SourceOf[m] : m \in {n \in ms : mapping[n].promoted}} \cap eligible

Idle == [op |-> "none", on |-> None]

(* Some hosts are verified, some mappings on them too, and one mapping of a  *)
(* source may be promoted to it.                                             *)
Init ==
    /\ host \in [Hosts -> {"candidate", "official"}]
    /\ mapping \in [Mappings -> [status: {"candidate", "official"}, by: {None, CHOOSE p \in Sessions : TRUE},
                                 promoted: BOOLEAN]]
    /\ \A m \in Mappings : IF Verified(m) THEN Trusted(HostOf[m]) /\ mapping[m].by # None
                             ELSE mapping[m].by = None /\ ~mapping[m].promoted
    /\ \A s \in Sources : \A m, n \in Promoted(s) : m = n
    /\ eligible = {s \in Sources : Promoted(s) # {}}
    /\ bound = [s \in Sources |-> UNION {Authorises[m] : m \in Promoted(s)}]
    /\ token = [p \in Sessions |-> Idle]
    /\ tx = [p \in Sessions |-> Idle]
    /\ held = [p \in Sessions |-> {}]
    /\ ops = 0

----------------------------------------------------------------------------
(* Locks *)

Exclusive(S) == {<<r, "X">> : r \in S}
Shared(S)    == {<<r, "S">> : r \in S}

(* The operator's decisions on a host and on a mapping, and the status each  *)
(* one leads to; REVOKED leaves the same status as REJECTED.                 *)
HostOutcome == [HOST_VERIFIED |-> "official", HOST_AUTHORIZED |-> "external",
                HOST_NEEDS_REVIEW |-> "candidate", HOST_REJECTED |-> "rejected"]
Outcome     == [VERIFIED |-> "official", AUTHORIZED_EXTERNAL |-> "external",
                NEEDS_REVIEW |-> "candidate", REJECTED |-> "rejected"]

(* On the command line, and from the screen with a preview of its own.       *)
Promotions    == {"promote", "apply_promotion"}
HostDecisions == DOMAIN HostOutcome
Decisions     == DOMAIN Outcome
DomainOps     == {"verify_domain", "authorize_external_domain", "mark_domain_legacy", "reject_domain"}
MappingOps    == {"verify_source_mapping", "reject_source_mapping"} \cup Promotions

HostFirst(x) == <<Exclusive({HostOf[x]}), Exclusive({x})>>

(* The FOR SHARE of source_mapping_requires_trusted_host, which every update *)
(* of a trusted mapping fires, a promotion's included.                       *)
HostShare(x) == Shared({HostOf[x]})

(* The mapping, then the source its withdrawal trigger updates. *)
RejectionLocks(x) == <<Exclusive({x}), Exclusive(Withdrawn({x}))>>

(* What operation o on x locks, stage after stage, the rows of a stage in    *)
(* any order. The withdrawal triggers run at the end of the statement that   *)
(* fires them: reject_domain locks sources before mappings. A manifest is    *)
(* one transaction, whose first row already appends to the audit chain.      *)
Plan(o, x) ==
    LET last == <<Exclusive({Audit})>>
        down == <<Exclusive({x}), Exclusive(Withdrawn(Under(x)))>>
    IN CASE o \in {"verify_domain", "authorize_external_domain"} -> <<Exclusive({x})>> \o last
         [] o \in HostDecisions ->
               (IF HostOutcome[o] \in {"official", "external"} THEN <<Exclusive({x})>> ELSE down) \o last
         [] o = "mark_domain_legacy"    -> down \o last
         [] o = "reject_domain"         -> down \o <<Exclusive(Under(x))>> \o last
         [] o = "verify_source_mapping" -> HostFirst(x) \o last
         [] o \in {"reject_source_mapping", "REJECTED", "NEEDS_REVIEW"} -> RejectionLocks(x) \o last
         [] o \in {"VERIFIED", "AUTHORIZED_EXTERNAL"} -> <<Exclusive({x}), HostShare(x)>> \o last
         [] o \in Promotions -> <<Exclusive({x}), Exclusive({SourceOf[x]}), HostShare(x)>> \o last
         [] o = "manifest" -> RejectionLocks(x[1]) \o last \o RejectionLocks(x[2])

(* The locks of the first stage that is not complete; none when the          *)
(* transaction may commit.                                                   *)
Wanted(p) ==
    LET plan == Plan(tx[p].op, tx[p].on)
        open == {i \in DOMAIN plan : ~(plan[i] \subseteq held[p])}
    IN IF tx[p] = Idle \/ open = {} THEN {}
       ELSE plan[CHOOSE i \in open : \A j \in open : i <= j] \ held[p]

Conflict(a, b) == a[1] = b[1] /\ (a[2] = "X" \/ b[2] = "X")

(* Session p waits for session q. *)
WaitsFor(p, q) ==
    /\ p # q /\ held[q] # {}
    /\ LET wanted == Wanted(p) IN
         wanted # {} /\ \A w \in wanted : \E r \in held[q] : Conflict(w, r)

(* Two transactions that wait for each other. *)
Cycle(p, q) == WaitsFor(p, q) /\ WaitsFor(q, p)

----------------------------------------------------------------------------
(* Checks *)

(* for_mapping: the host the page is addressed by and the host its stored    *)
(* snapshot was served from are both trusted.                                *)
Authority(m) == Trusted(HostOf[m]) /\ Trusted(ServedBy[m])

(* _evaluate: no blocker. NO_CHANGE blocks only a mapping somebody decided.  *)
Valid(d, m) ==
    /\ Authority(m)
    /\ Outcome[d] # mapping[m].status \/ mapping[m].by = None

(* Mutant: the fingerprint leaves out the state of the mapping. *)
HostsOnly(d, m) == [op |-> d, on |-> m, before |-> None,
                    hosts |-> <<host[HostOf[m]], host[ServedBy[m]]>>]

(* Everything the reviewer was shown. *)
Fingerprint(d, m) == [op |-> d, on |-> m, before |-> mapping[m],
                      hosts |-> <<host[HostOf[m]], host[ServedBy[m]]>>]

(* _promotion_fingerprint: the source as well. *)
PromotionFingerprint(m) ==
    [op |-> "apply_promotion", on |-> m, before |-> mapping[m],
     eligible |-> SourceOf[m] \in eligible, hosts |-> <<host[HostOf[m]], host[ServedBy[m]]>>]

(* preview_promotion finds no blocker. *)
Promotable(m) == Authority(m) /\ Verified(m)

(* The unique index on promoted_source_id. *)
OnlyVoucher(x) == Promoted(SourceOf[x]) \subseteq {x}

(* The rows of the mappings ms name who decided about them, as               *)
(* ck_source_mapping_verified_mapping_records_actor_and_time asks of a       *)
(* rejected one; the library's rejections do not set verified_by.            *)
Decided(ms) == \A m \in ms : mapping[m].by # None

(* app_promotion_requires_live_trust, on the host it has locked FOR SHARE. *)
LiveTrust(x, r) == r = HostOf[x] => Trusted(r)

(* app_source_eligibility_is_earned, when the source is updated after the    *)
(* mapping that vouches for it.                                              *)
Earned(x) == Verified(x) /\ Trusted(HostOf[x])

(* What the transaction of p checks once it has locked row r; it is refused  *)
(* (rolled back) when this is false.                                         *)
Passes(p, r) ==
    LET o == tx[p].op  x == tx[p].on IN
    CASE o = "verify_domain" -> r = x => host[x] # "rejected"
      [] o = "reject_domain" -> r = Audit => Decided(Under(x))
      [] o = "verify_source_mapping" -> r = x => Trusted(HostOf[x])
      [] o = "reject_source_mapping" -> r = x => Decided({x})
      [] o \in Decisions ->
            /\ r = x => Valid(o, x) /\ token[p] = Fingerprint(o, x)
            /\ r = HostOf[x] => Trusted(r) /\ (o = "VERIFIED" => host[r] = "official")
      [] o \in Promotions ->
            /\ r = x => Authority(x) /\ mapping[x].status = "official"
            /\ r = SourceOf[x] => ~(mapping[x].promoted /\ r \in eligible)
            /\ LiveTrust(x, r)
            /\ r = Audit => OnlyVoucher(x) /\ Earned(x)
      [] OTHER -> TRUE

----------------------------------------------------------------------------
(* Effects *)

(* A mapping that loses trust is unpromoted, and its source withdrawn. *)
Untrust(ms, status, p) ==
    /\ mapping' = [m \in Mappings |->
                      IF m \in ms THEN [status |-> status, promoted |-> FALSE,
                                        by |-> IF p = None THEN mapping[m].by ELSE p]
                      ELSE mapping[m]]
    /\ eligible' = eligible \ Withdrawn(ms)
    /\ UNCHANGED <<host, bound>>

(* The new status of a host; the mappings stay as they are, promoted ones    *)
(* too, and their sources are withdrawn when it is not a trusted one.        *)
SetHost(x, status) ==
    /\ host' = [host EXCEPT ![x] = status]
    /\ eligible' = IF status \in {"official", "external"} THEN eligible
                   ELSE eligible \ Withdrawn(Under(x))
    /\ UNCHANGED <<mapping, bound>>

VerifyDomain(x)            == SetHost(x, "official")
AuthorizeExternalDomain(x) == SetHost(x, "external")
MarkDomainLegacy(x)        == SetHost(x, "legacy")     \* replace_domain too
ApplyDomain(d, x)          == SetHost(x, HostOutcome[d])

(* reject_domain takes every mapping of the host down with it. *)
RejectDomain(x) ==
    /\ host' = [host EXCEPT ![x] = "rejected"]
    /\ mapping' = [m \in Mappings |->
                      IF m \in Under(x) THEN [mapping[m] EXCEPT !.status = "rejected", !.promoted = FALSE]
                      ELSE mapping[m]]
    /\ eligible' = eligible \ Withdrawn(Under(x))
    /\ UNCHANGED bound

Verify(p, x, status) ==
    /\ mapping' = [mapping EXCEPT ![x] = [@ EXCEPT !.status = status, !.by = p]]
    /\ UNCHANGED <<host, eligible, bound>>

VerifySourceMapping(p, x) == Verify(p, x, host[HostOf[x]])
RejectSourceMapping(x)    == Untrust({x}, "rejected", None)
ApplyDecision(p, d, x) ==
    IF Outcome[d] \in {"official", "external"} THEN Verify(p, x, Outcome[d])
    ELSE Untrust({x}, Outcome[d], p)
ApplyManifest(p, x) ==
    Untrust({m \in {x[1], x[2]} : mapping[m].status # "rejected"}, "rejected", p)

(* promote: the mapping points at the source, the source earns its class,    *)
(* the bindings of the responsibility are added to those that are there.     *)
Promote(x) ==
    /\ mapping' = [mapping EXCEPT ![x].promoted = TRUE]
    /\ eligible' = eligible \cup {SourceOf[x]}
    /\ bound' = [bound EXCEPT ![SourceOf[x]] = @ \cup Authorises[x]]
    /\ UNCHANGED host

----------------------------------------------------------------------------
(* Steps *)

(* apply_promotion previews again before promote locks anything; what it     *)
(* refuses there begins no transaction that changes anything.                *)
Begin(p, o, x) ==
    /\ ops < MaxOps
    /\ tx[p] = Idle
    /\ o \in Operations
    /\ o \in Decisions => token[p] # Idle /\ token[p].op = o /\ token[p].on = x
    /\ o = "apply_promotion" => Promotable(x) /\ token[p] = PromotionFingerprint(x)
    /\ ops' = ops + 1
    /\ tx' = [tx EXCEPT ![p] = [op |-> o, on |-> x]]
    /\ UNCHANGED <<rows, token, held>>

(* preview: a token only for a valid decision. It lies at the client, which  *)
(* may use it, within its time to live, whatever happens at the server.      *)
Preview(p, d, m) ==
    /\ ops < MaxOps
    /\ tx[p] = Idle
    /\ d \in Operations
    /\ Valid(d, m)
    /\ ops' = ops + 1
    /\ token' = [token EXCEPT ![p] = Fingerprint(d, m)]
    /\ UNCHANGED <<rows, tx, held>>

PreviewPromotion(p, m) ==
    /\ ops < MaxOps
    /\ tx[p] = Idle
    /\ "apply_promotion" \in Operations
    /\ Promotable(m)
    /\ ops' = ops + 1
    /\ token' = [token EXCEPT ![p] = PromotionFingerprint(m)]
    /\ UNCHANGED <<rows, tx, held>>

(* The end of a transaction; a refused operation raises, and is rolled back. *)
End(p) ==
    /\ tx' = [tx EXCEPT ![p] = Idle]
    /\ held' = [held EXCEPT ![p] = {}]

Lock(p, w) ==
    /\ w \in Wanted(p)
    /\ \A q \in Sessions \ {p} : \A r \in held[q] : ~Conflict(w, r)
    /\ IF Passes(p, w[1]) THEN held' = [held EXCEPT ![p] = @ \cup {w}] /\ UNCHANGED tx
                          ELSE End(p)
    /\ UNCHANGED <<rows, token, ops>>

(* PostgreSQL breaks a cycle by aborting one of its transactions. *)
DeadlockAbort(p) ==
    /\ \E q \in Sessions : Cycle(p, q)
    /\ End(p)
    /\ UNCHANGED <<rows, token, ops>>

Commit(p) ==
    LET o == tx[p].op  x == tx[p].on IN
    /\ tx[p] # Idle /\ Wanted(p) = {}
    /\ \/ o = "verify_domain" /\ VerifyDomain(x)
       \/ o = "authorize_external_domain" /\ AuthorizeExternalDomain(x)
       \/ o = "mark_domain_legacy" /\ MarkDomainLegacy(x)
       \/ o = "reject_domain" /\ RejectDomain(x)
       \/ o = "verify_source_mapping" /\ VerifySourceMapping(p, x)
       \/ o = "reject_source_mapping" /\ RejectSourceMapping(x)
       \/ o \in HostDecisions /\ ApplyDomain(o, x)
       \/ o \in Decisions /\ ApplyDecision(p, o, x)
       \/ o \in Promotions /\ Promote(x)
       \/ o = "manifest" /\ ApplyManifest(p, x)
    /\ End(p)
    /\ UNCHANGED <<token, ops>>

Step(p) == (\E w \in Wanted(p) : Lock(p, w)) \/ DeadlockAbort(p) \/ Commit(p)

Next ==
    \E p \in Sessions :
        \/ \E o \in DomainOps \cup HostDecisions, h \in Hosts : Begin(p, o, h)
        \/ \E o \in MappingOps \cup Decisions, m \in Mappings : Begin(p, o, m)
        \/ \E m \in Mappings, n \in Mappings : m # n /\ Begin(p, "manifest", <<m, n>>)
        \/ \E d \in Decisions, m \in Mappings : Preview(p, d, m)
        \/ \E m \in Mappings : PreviewPromotion(p, m)
        \/ Step(p)

Spec == Init /\ [][Next]_vars

----------------------------------------------------------------------------
(* Properties *)

Rows == Hosts \cup Mappings \cup Sources \cup {Audit}

(* A transaction is one operation on the row, or the rows, it is about.      *)
Transactions ==
    {Idle} \cup [op : DomainOps \cup HostDecisions, on : Hosts]
           \cup [op : MappingOps \cup Decisions, on : Mappings]
           \cup [op : {"manifest"}, on : Mappings \X Mappings]

TypeOK ==
    /\ host \in [Hosts -> {"candidate", "official", "external", "legacy", "rejected"}]
    /\ mapping \in [Mappings -> [status: {"candidate", "official", "external", "rejected"},
                                 by: Sessions \cup {None}, promoted: BOOLEAN]]
    /\ eligible \subseteq Sources
    /\ bound \in [Sources -> SUBSET Fields]
    /\ DOMAIN token = Sessions
    /\ tx \in [Sessions -> Transactions]
    /\ held \in [Sessions -> SUBSET (Rows \X {"S", "X"})]
    /\ \A p \in Sessions : tx[p] = Idle => held[p] = {}
    /\ ops \in 0..MaxOps

(* A source that may support published facts is vouched for, now, by a       *)
(* promoted mapping whose own status and whose host are trusted: no          *)
(* interleaving of promotions, decisions and withdrawals leaves one behind.  *)
EligibleIsEarned ==
    \A s \in eligible : \E m \in Promoted(s) : Verified(m) /\ Trusted(HostOf[m])

(* A console decision takes effect on a mapping only in the state its        *)
(* reviewer was shown, and makes it official only under a host that is, when *)
(* it commits, the university's own.                                         *)
DecidedAsPreviewed ==
    [][\A p \in Sessions, m \in Mappings :
          tx[p].op \in Decisions /\ tx[p].on = m /\ mapping'[m] # mapping[m] /\ tx'[p] = Idle
             => /\ token[p].before = mapping[m]
                /\ mapping'[m].status = "official" => host'[HostOf[m]] = "official"]_vars

(* app_field_claim_evidence_is_eligible: a claim about field f may cite s. *)
MaySupport(s, f) == s \in eligible /\ f \in bound[s]

(* A source may support the fields of responsibilities that are verified and *)
(* promoted now, and no others: what was decided about one responsibility of *)
(* a page says nothing about another.                                        *)
BindingsAreCurrent ==
    \A s \in Sources, f \in Fields :
        MaySupport(s, f) => \E m \in Promoted(s) : f \in Authorises[m]

(* The lock order all modules share keeps transactions from waiting for each *)
(* other.                                                                    *)
NoLockCycle == \A p, q \in Sessions : ~Cycle(p, q)
=============================================================================
