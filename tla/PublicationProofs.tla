------------------------- MODULE PublicationProofs -------------------------
(***************************************************************************)
(* Theorems about the trust chain and about what is published on it, for   *)
(* every set of hosts, mappings, sources, sessions and publishers: no      *)
(* bound on how many transactions run at once or how long they go on.      *)
(*                                                                         *)
(* The argument is about locks. A transaction holds an exclusive lock on   *)
(* every row it changes and two transactions never hold locks that         *)
(* conflict, so what a transaction checked under a lock is still true when *)
(* it commits.                                                             *)
(***************************************************************************)
EXTENDS Publication, TLAPS

HostStatuses == {"candidate", "official", "external", "legacy", "rejected"}
Row == [status: {"candidate", "official", "external", "rejected"},
        by: Sessions \cup {None}, promoted: BOOLEAN]

RowsOK ==
    /\ host \in [Hosts -> HostStatuses]
    /\ mapping \in [Mappings -> Row]
    /\ eligible \subseteq Sources
    /\ bound \in [Sources -> SUBSET Fields]

(* No two transactions hold locks that conflict.                             *)
Exclusion ==
    \A p, q \in Sessions : p # q =>
        \A a \in held[p], b \in held[q] : ~Conflict(a, b)

(* What a transaction checked when it locked a row is true as long as it     *)
(* holds the lock.                                                           *)
Vetted(p) ==
    LET o == tx[p].op  x == tx[p].on IN
    /\ o = "verify_source_mapping" /\ <<x, "X">> \in held[p] =>
          Trusted(HostOf[x]) /\ <<HostOf[x], "X">> \in held[p]
    /\ o \in Decisions /\ <<x, "X">> \in held[p] => token[p].before = mapping[x]
    /\ o = "VERIFIED" /\ <<HostOf[x], "S">> \in held[p] => host[HostOf[x]] = "official"
    /\ o \in Promotions /\ <<Audit, "X">> \in held[p] => Earned(x)

AllVetted == \A p \in Sessions : Vetted(p)

IInv == TypeOK /\ Exclusion /\ AllVetted /\ EligibleIsEarned

----------------------------------------------------------------------------
(* What the operations lock *)

LEMMA HostDecisionNames ==
    /\ HostDecisions = {"HOST_VERIFIED", "HOST_AUTHORIZED", "HOST_NEEDS_REVIEW", "HOST_REJECTED"}
    /\ \A o \in HostDecisions : HostOutcome[o] \in HostStatuses
    /\ Decisions = {"VERIFIED", "AUTHORIZED_EXTERNAL", "NEEDS_REVIEW", "REJECTED"}
    /\ \A o \in Decisions : Outcome[o] \in {"official", "external", "candidate", "rejected"}
    /\ Outcome["VERIFIED"] = "official"
    /\ \A o \in Decisions : Outcome[o] = "official" => o = "VERIFIED"
    /\ \A o \in Decisions : Outcome[o] \in {"official", "external"} <=> o \in {"VERIFIED", "AUTHORIZED_EXTERNAL"}
  BY DEF HostDecisions, HostOutcome, Decisions, Outcome, HostStatuses

(* The stages of each plan.                                                  *)
LEMMA DomainPlans ==
    ASSUME NEW x, NEW o
    PROVE  /\ o \in {"verify_domain", "authorize_external_domain"} =>
                 Plan(o, x) = <<Exclusive({x})>> \o <<Exclusive({Audit})>>
           /\ o \in HostDecisions =>
                 Plan(o, x) = (IF HostOutcome[o] \in {"official", "external"}
                                 THEN <<Exclusive({x})>>
                                 ELSE <<Exclusive({x}), Exclusive(Withdrawn(Under(x)))>>)
                              \o <<Exclusive({Audit})>>
           /\ o = "mark_domain_legacy" =>
                 Plan(o, x) = <<Exclusive({x}), Exclusive(Withdrawn(Under(x)))>>
                              \o <<Exclusive({Audit})>>
           /\ o = "reject_domain" =>
                 Plan(o, x) = <<Exclusive({x}), Exclusive(Withdrawn(Under(x)))>>
                              \o <<Exclusive(Under(x))>> \o <<Exclusive({Audit})>>
  BY HostDecisionNames DEF Plan, Promotions

LEMMA MappingPlans ==
    ASSUME NEW x, NEW o
    PROVE  /\ o = "verify_source_mapping" => Plan(o, x) = HostFirst(x) \o <<Exclusive({Audit})>>
           /\ o \in {"reject_source_mapping", "REJECTED", "NEEDS_REVIEW"} =>
                 Plan(o, x) = RejectionLocks(x) \o <<Exclusive({Audit})>>
           /\ o \in {"VERIFIED", "AUTHORIZED_EXTERNAL"} =>
                 Plan(o, x) = <<Exclusive({x}), HostShare(x)>> \o <<Exclusive({Audit})>>
           /\ o \in Promotions =>
                 Plan(o, x) = <<Exclusive({x}), Exclusive({SourceOf[x]}), HostShare(x)>>
                              \o <<Exclusive({Audit})>>
           /\ o = "manifest" =>
                 Plan(o, x) = RejectionLocks(x[1]) \o <<Exclusive({Audit})>> \o RejectionLocks(x[2])
  BY HostDecisionNames DEF Plan, Promotions

(* The stages one after the other.                                           *)
LEMMA DomainStages ==
    ASSUME NEW x, NEW o \in DomainOps \cup HostDecisions
    PROVE  LET plan == Plan(o, x)
           IN  /\ DOMAIN plan \in SUBSET (1..5)
               /\ plan[1] = Exclusive({x})
               /\ \E i \in DOMAIN plan : plan[i] = Exclusive({Audit})
               /\ o = "reject_domain" => 3 \in DOMAIN plan /\ plan[3] = Exclusive(Under(x))
               /\ 1 \in DOMAIN plan
  <1>1. CASE o \in {"verify_domain", "authorize_external_domain"}
    <2>1. Plan(o, x) = <<Exclusive({x})>> \o <<Exclusive({Audit})>>
      BY <1>1, DomainPlans
    <2>2. Plan(o, x)[2] = Exclusive({Audit}) /\ DOMAIN Plan(o, x) = 1..2 /\ Plan(o, x)[1] = Exclusive({x})
      BY <2>1
    <2> QED
      BY <1>1, <2>2
  <1>2. CASE o \in HostDecisions
    <2>1. CASE HostOutcome[o] \in {"official", "external"}
      <3>1. Plan(o, x) = <<Exclusive({x})>> \o <<Exclusive({Audit})>>
        BY <1>2, <2>1, DomainPlans
      <3>2. Plan(o, x)[2] = Exclusive({Audit}) /\ DOMAIN Plan(o, x) = 1..2 /\ Plan(o, x)[1] = Exclusive({x})
        BY <3>1
      <3> QED
        BY <1>2, <3>2, HostDecisionNames
    <2>2. CASE HostOutcome[o] \notin {"official", "external"}
      <3>1. Plan(o, x) = <<Exclusive({x}), Exclusive(Withdrawn(Under(x)))>> \o <<Exclusive({Audit})>>
        BY <1>2, <2>2, DomainPlans
      <3>2. Plan(o, x)[3] = Exclusive({Audit}) /\ DOMAIN Plan(o, x) = 1..3 /\ Plan(o, x)[1] = Exclusive({x})
        BY <3>1
      <3> QED
        BY <1>2, <3>2, HostDecisionNames
    <2> QED
      BY <2>1, <2>2
  <1>3. CASE o = "mark_domain_legacy"
    <2>1. Plan(o, x) = <<Exclusive({x}), Exclusive(Withdrawn(Under(x)))>> \o <<Exclusive({Audit})>>
      BY <1>3, DomainPlans
    <2>2. Plan(o, x)[3] = Exclusive({Audit}) /\ DOMAIN Plan(o, x) = 1..3 /\ Plan(o, x)[1] = Exclusive({x})
      BY <2>1
    <2> QED
      BY <1>3, <2>2
  <1>4. CASE o = "reject_domain"
    <2>1. Plan(o, x) = <<Exclusive({x}), Exclusive(Withdrawn(Under(x)))>>
                         \o <<Exclusive(Under(x))>> \o <<Exclusive({Audit})>>
      BY <1>4, DomainPlans
    <2>2. /\ Plan(o, x)[4] = Exclusive({Audit}) /\ DOMAIN Plan(o, x) = 1..4
          /\ Plan(o, x)[1] = Exclusive({x}) /\ Plan(o, x)[3] = Exclusive(Under(x))
      BY <2>1
    <2> QED
      BY <1>4, <2>2
  <1> QED
    BY <1>1, <1>2, <1>3, <1>4 DEF DomainOps

LEMMA MappingStages ==
    ASSUME NEW x, NEW o \in MappingOps \cup Decisions
    PROVE  LET plan == Plan(o, x)
           IN  /\ DOMAIN plan \in SUBSET (1..5)
               /\ \E i \in DOMAIN plan : plan[i] = Exclusive({x})
               /\ \E i \in DOMAIN plan : plan[i] = Exclusive({Audit})
               /\ o = "verify_source_mapping" =>
                     /\ DOMAIN plan = 1..3 /\ plan[1] = Exclusive({HostOf[x]})
                     /\ plan[2] = Exclusive({x}) /\ plan[3] = Exclusive({Audit})
               /\ o \in {"VERIFIED", "AUTHORIZED_EXTERNAL"} =>
                     \E i \in DOMAIN plan : plan[i] = HostShare(x)
  <1>1. CASE o = "verify_source_mapping"
    <2>1. Plan(o, x) = <<Exclusive({HostOf[x]}), Exclusive({x})>> \o <<Exclusive({Audit})>>
      BY <1>1, MappingPlans DEF HostFirst
    <2>2. /\ DOMAIN Plan(o, x) = 1..3 /\ Plan(o, x)[1] = Exclusive({HostOf[x]})
          /\ Plan(o, x)[2] = Exclusive({x}) /\ Plan(o, x)[3] = Exclusive({Audit})
      BY <2>1
    <2> QED
      BY <1>1, <2>2
  <1>2. CASE o \in {"reject_source_mapping", "REJECTED", "NEEDS_REVIEW"}
    <2>1. Plan(o, x) = <<Exclusive({x}), Exclusive(Withdrawn({x}))>> \o <<Exclusive({Audit})>>
      BY <1>2, MappingPlans DEF RejectionLocks
    <2>2. /\ DOMAIN Plan(o, x) = 1..3 /\ Plan(o, x)[1] = Exclusive({x})
          /\ Plan(o, x)[3] = Exclusive({Audit})
      BY <2>1
    <2> QED
      BY <1>2, <2>2
  <1>3. CASE o \in {"VERIFIED", "AUTHORIZED_EXTERNAL"}
    <2>1. Plan(o, x) = <<Exclusive({x}), HostShare(x)>> \o <<Exclusive({Audit})>>
      BY <1>3, MappingPlans
    <2>2. /\ DOMAIN Plan(o, x) = 1..3 /\ Plan(o, x)[1] = Exclusive({x})
          /\ Plan(o, x)[2] = HostShare(x) /\ Plan(o, x)[3] = Exclusive({Audit})
      BY <2>1
    <2> QED
      BY <1>3, <2>2
  <1>4. CASE o \in Promotions
    <2>1. Plan(o, x) = <<Exclusive({x}), Exclusive({SourceOf[x]}), HostShare(x)>>
                         \o <<Exclusive({Audit})>>
      BY <1>4, MappingPlans
    <2>2. /\ DOMAIN Plan(o, x) = 1..4 /\ Plan(o, x)[1] = Exclusive({x})
          /\ Plan(o, x)[4] = Exclusive({Audit})
      BY <2>1
    <2> QED
      BY <1>4, <2>2 DEF Promotions
  <1> QED
    BY <1>1, <1>2, <1>3, <1>4, HostDecisionNames DEF MappingOps

LEMMA ManifestStages ==
    ASSUME NEW x
    PROVE  LET plan == Plan("manifest", x)
           IN  /\ DOMAIN plan = 1..5
               /\ plan[1] = Exclusive({x[1]}) /\ plan[4] = Exclusive({x[2]})
               /\ plan[3] = Exclusive({Audit})
  <1>1. Plan("manifest", x) = <<Exclusive({x[1]}), Exclusive(Withdrawn({x[1]}))>>
           \o <<Exclusive({Audit})>> \o <<Exclusive({x[2]}), Exclusive(Withdrawn({x[2]}))>>
    BY MappingPlans DEF RejectionLocks
  <1> QED
    BY <1>1

LEMMA LeastOfFew ==
    ASSUME NEW S \in SUBSET (1..5), S # {}
    PROVE  \E i \in S : \A j \in S : i <= j
  <1>1. S \subseteq {1, 2, 3, 4, 5}
    OBVIOUS
  <1>2. CASE 1 \in S
    BY <1>1, <1>2
  <1>3. CASE 1 \notin S /\ 2 \in S
    BY <1>1, <1>3
  <1>4. CASE 1 \notin S /\ 2 \notin S /\ 3 \in S
    BY <1>1, <1>4
  <1>5. CASE 1 \notin S /\ 2 \notin S /\ 3 \notin S /\ 4 \in S
    BY <1>1, <1>5
  <1>6. CASE 1 \notin S /\ 2 \notin S /\ 3 \notin S /\ 4 \notin S
    <2>1. S = {5}
      BY <1>1, <1>6
    <2> QED
      BY <2>1
  <1> QED
    BY <1>2, <1>3, <1>4, <1>5, <1>6

Simple == DomainOps \cup HostDecisions \cup MappingOps \cup Decisions

(* A transaction that waits for nothing holds every stage of its plan: the   *)
(* row it is about, and the head of the audit chain.                         *)
LEMMA NothingWanted ==
    ASSUME TypeOK, NEW p \in Sessions, tx[p] # Idle, Wanted(p) = {},
           NEW i \in DOMAIN Plan(tx[p].op, tx[p].on)
    PROVE  Plan(tx[p].op, tx[p].on)[i] \subseteq held[p]
  <1> DEFINE plan == Plan(tx[p].op, tx[p].on)
             open == {j \in DOMAIN plan : ~(plan[j] \subseteq held[p])}
             first == CHOOSE j \in open : \A k \in open : j <= k
  <1>1. SUFFICES ASSUME open # {} PROVE FALSE
    OBVIOUS
  <1>2. DOMAIN plan \in SUBSET (1..5)
    <2>1. tx[p] \in Transactions \ {Idle}
      BY DEF TypeOK
    <2>2. CASE tx[p].op \in DomainOps \cup HostDecisions
      BY <2>2, DomainStages
    <2>3. CASE tx[p].op \in MappingOps \cup Decisions
      BY <2>3, MappingStages
    <2>4. CASE tx[p].op = "manifest"
      <3>1. DOMAIN plan = 1..5
        BY <2>4, ManifestStages
      <3> QED
        BY <3>1
    <2> QED
      BY <2>1, <2>2, <2>3, <2>4 DEF Transactions
  <1>3. first \in open
    BY <1>1, <1>2, LeastOfFew
  <1>4. Wanted(p) = plan[first] \ held[p]
    BY <1>1 DEF Wanted
  <1> QED
    BY <1>3, <1>4

LEMMA CommitHolds ==
    ASSUME TypeOK, NEW p \in Sessions, tx[p] # Idle, Wanted(p) = {}
    PROVE  LET o == tx[p].op  x == tx[p].on IN
           /\ <<Audit, "X">> \in held[p]
           /\ o \in Simple => <<x, "X">> \in held[p]
           /\ o = "manifest" => <<x[1], "X">> \in held[p] /\ <<x[2], "X">> \in held[p]
           /\ o = "reject_domain" => \A m \in Under(x) : <<m, "X">> \in held[p]
           /\ o \in {"VERIFIED", "AUTHORIZED_EXTERNAL"} => <<HostOf[x], "S">> \in held[p]
  <1> DEFINE o == tx[p].op
             x == tx[p].on
             plan == Plan(o, x)
  <1>1. \A i \in DOMAIN plan : plan[i] \subseteq held[p]
    BY NothingWanted
  <1>2. tx[p] \in Transactions \ {Idle}
    BY DEF TypeOK
  <1>3. CASE o \in DomainOps \cup HostDecisions
    <2>1. /\ 1 \in DOMAIN plan /\ plan[1] = Exclusive({x})
          /\ \E i \in DOMAIN plan : plan[i] = Exclusive({Audit})
          /\ o = "reject_domain" => 3 \in DOMAIN plan /\ plan[3] = Exclusive(Under(x))
      BY <1>3, DomainStages
    <2>2. o \notin {"manifest", "VERIFIED", "AUTHORIZED_EXTERNAL"}
      BY <1>3, HostDecisionNames DEF DomainOps
    <2> HIDE DEF plan
    <2> QED
      BY <1>1, <2>1, <2>2 DEF Exclusive
  <1>4. CASE o \in MappingOps \cup Decisions
    <2>1. /\ \E i \in DOMAIN plan : plan[i] = Exclusive({x})
          /\ \E i \in DOMAIN plan : plan[i] = Exclusive({Audit})
          /\ o \in {"VERIFIED", "AUTHORIZED_EXTERNAL"} =>
                \E i \in DOMAIN plan : plan[i] = HostShare(x)
      BY <1>4, MappingStages
    <2>2. o \notin {"manifest", "reject_domain"}
      BY <1>4, HostDecisionNames DEF MappingOps, Promotions
    <2> HIDE DEF plan
    <2> QED
      BY <1>1, <2>1, <2>2 DEF Exclusive, HostShare, Shared
  <1>5. CASE o = "manifest"
    <2>1. /\ DOMAIN plan = 1..5 /\ plan[1] = Exclusive({x[1]}) /\ plan[4] = Exclusive({x[2]})
          /\ plan[3] = Exclusive({Audit})
      BY <1>5, ManifestStages
    <2>2. o \notin Simple
      BY <1>5, HostDecisionNames DEF Simple, DomainOps, MappingOps, Promotions
    <2>3. plan[1] \subseteq held[p] /\ plan[3] \subseteq held[p] /\ plan[4] \subseteq held[p]
      BY <1>1, <2>1
    <2> HIDE DEF plan
    <2> QED
      BY <1>5, <2>1, <2>2, <2>3 DEF Exclusive
  <1> QED
    BY <1>2, <1>3, <1>4, <1>5 DEF Transactions

----------------------------------------------------------------------------
(* What the effects of a transaction leave true *)

LEMMA SetHostEffect ==
    ASSUME RowsOK, EligibleIsEarned, NEW x \in Hosts, NEW status \in HostStatuses,
           SetHost(x, status)
    PROVE  /\ RowsOK' /\ EligibleIsEarned' /\ mapping' = mapping
           /\ \A h \in Hosts : h # x => host'[h] = host[h]
  <1>1. RowsOK'
    BY DEF SetHost, RowsOK
  <1>2. \A h \in Hosts : h # x => host'[h] = host[h]
    BY DEF SetHost, RowsOK
  <1>3. mapping' = mapping
    BY DEF SetHost
  <1>4. ASSUME NEW s \in eligible'
        PROVE  \E m \in Promoted(s) : Verified(m) /\ Trusted(HostOf[m])'
    <2>1. s \in eligible
      BY DEF SetHost
    <2>2. PICK m \in Promoted(s) : Verified(m) /\ Trusted(HostOf[m])
      BY <2>1 DEF EligibleIsEarned
    <2>3. m \in Mappings /\ HostOf[m] \in Hosts /\ SourceOf[m] = s /\ mapping[m].promoted
      BY ChainAssumption DEF Promoted
    <2>4. CASE HostOf[m] # x
      BY <1>2, <2>2, <2>3, <2>4 DEF Trusted
    <2>5. CASE HostOf[m] = x /\ status \in {"official", "external"}
      <3>1. host'[x] = status
        BY DEF SetHost, RowsOK
      <3> QED
        BY <2>2, <2>5, <3>1 DEF Trusted
    <2>6. CASE HostOf[m] = x /\ status \notin {"official", "external"}
      <3>1. s \in Withdrawn(Under(x))
        BY <2>1, <2>3, <2>6 DEF Withdrawn, Under
      <3> QED
        BY <2>6, <3>1 DEF SetHost
    <2> QED
      BY <2>4, <2>5, <2>6
  <1>5. EligibleIsEarned'
    BY <1>3, <1>4 DEF EligibleIsEarned, Promoted, Verified
  <1> QED
    BY <1>1, <1>2, <1>3, <1>5

(* A source that is still eligible is not one of the withdrawn ones, so what *)
(* vouched for it is none of the mappings ms, and it is as it was.           *)
LEMMA WithdrawalEffect ==
    ASSUME RowsOK, EligibleIsEarned, NEW ms \in SUBSET Mappings,
           mapping' \in [Mappings -> Row],
           \A m \in Mappings \ ms : mapping'[m] = mapping[m],
           \A h \in Hosts : host'[h] = host[h] \/ Under(h) \subseteq ms,
           eligible' = eligible \ Withdrawn(ms)
    PROVE  EligibleIsEarned'
  <1> SUFFICES ASSUME NEW s \in eligible'
               PROVE  (\E m \in Promoted(s) : Verified(m) /\ Trusted(HostOf[m]))'
    BY DEF EligibleIsEarned
  <1>1. s \in eligible /\ s \notin Withdrawn(ms)
    OBVIOUS
  <1>2. PICK m \in Promoted(s) : Verified(m) /\ Trusted(HostOf[m])
    BY <1>1 DEF EligibleIsEarned
  <1>3. m \in Mappings /\ HostOf[m] \in Hosts /\ SourceOf[m] = s /\ mapping[m].promoted
    BY <1>2, ChainAssumption DEF Promoted
  <1>4. m \notin ms
    BY <1>1, <1>3 DEF Withdrawn
  <1>5. mapping'[m] = mapping[m] /\ host'[HostOf[m]] = host[HostOf[m]]
    BY <1>3, <1>4 DEF Under
  <1> QED
    BY <1>2, <1>3, <1>5 DEF Promoted, Verified, Trusted

LEMMA RejectDomainEffect ==
    ASSUME RowsOK, EligibleIsEarned, NEW x \in Hosts, RejectDomain(x)
    PROVE  /\ RowsOK' /\ EligibleIsEarned'
           /\ \A h \in Hosts : h # x => host'[h] = host[h]
           /\ \A m \in Mappings : m \notin Under(x) => mapping'[m] = mapping[m]
  <1>1. /\ mapping' \in [Mappings -> Row]
        /\ \A m \in Mappings \ Under(x) : mapping'[m] = mapping[m]
    BY DEF RejectDomain, RowsOK, Row
  <1>2. /\ host' \in [Hosts -> HostStatuses]
        /\ \A h \in Hosts : h # x => host'[h] = host[h]
    BY DEF RejectDomain, RowsOK, HostStatuses
  <1>3. eligible' = eligible \ Withdrawn(Under(x)) /\ bound' = bound
    BY DEF RejectDomain
  <1>4. Under(x) \in SUBSET Mappings
    BY DEF Under
  <1>5. EligibleIsEarned'
    BY <1>1, <1>2, <1>3, <1>4, WithdrawalEffect
  <1> QED
    BY <1>1, <1>2, <1>3, <1>5 DEF RowsOK

LEMMA UntrustEffect ==
    ASSUME RowsOK, EligibleIsEarned, NEW ms \in SUBSET Mappings,
           NEW status \in {"candidate", "rejected"}, NEW p \in Sessions \cup {None},
           Untrust(ms, status, p)
    PROVE  /\ RowsOK' /\ EligibleIsEarned' /\ host' = host
           /\ \A m \in Mappings \ ms : mapping'[m] = mapping[m]
           /\ \A m \in ms : mapping'[m].status = status
  <1>1. /\ mapping' \in [Mappings -> Row]
        /\ \A m \in Mappings \ ms : mapping'[m] = mapping[m]
        /\ \A m \in ms : mapping'[m].status = status
    BY DEF Untrust, RowsOK, Row
  <1>2. eligible' = eligible \ Withdrawn(ms) /\ host' = host /\ bound' = bound
    BY DEF Untrust
  <1>3. EligibleIsEarned'
    BY <1>1, <1>2, WithdrawalEffect
  <1> QED
    BY <1>1, <1>2, <1>3 DEF RowsOK

LEMMA VerifyEffect ==
    ASSUME RowsOK, EligibleIsEarned, NEW x \in Mappings, NEW p \in Sessions,
           NEW status \in {"official", "external"}, Verify(p, x, status)
    PROVE  /\ RowsOK' /\ EligibleIsEarned' /\ host' = host
           /\ \A m \in Mappings \ {x} : mapping'[m] = mapping[m]
           /\ mapping'[x].status = status
  <1>1. /\ host' = host /\ eligible' = eligible /\ bound' = bound
        /\ mapping' = [mapping EXCEPT ![x] = [@ EXCEPT !.status = status, !.by = p]]
    BY DEF Verify
  <1>2. /\ mapping' \in [Mappings -> Row]
        /\ \A m \in Mappings \ {x} : mapping'[m] = mapping[m]
        /\ mapping'[x].status = status
        /\ \A m \in Mappings : mapping'[m].promoted = mapping[m].promoted
    BY <1>1 DEF RowsOK, Row
  <1>3. EligibleIsEarned'
    BY <1>1, <1>2 DEF EligibleIsEarned, Promoted, Verified, Trusted
  <1> QED
    BY <1>1, <1>2, <1>3 DEF RowsOK

LEMMA PromoteEffect ==
    ASSUME RowsOK, EligibleIsEarned, NEW x \in Mappings, Earned(x), Promote(x)
    PROVE  /\ RowsOK' /\ EligibleIsEarned' /\ host' = host
           /\ \A m \in Mappings \ {x} : mapping'[m] = mapping[m]
  <1>1. /\ host' = host /\ eligible' = eligible \cup {SourceOf[x]}
        /\ mapping' = [mapping EXCEPT ![x].promoted = TRUE]
        /\ SourceOf[x] \in Sources
    BY ChainAssumption DEF Promote
  <1>2. /\ mapping' \in [Mappings -> Row]
        /\ \A m \in Mappings \ {x} : mapping'[m] = mapping[m]
        /\ mapping'[x].promoted
        /\ \A m \in Mappings : /\ mapping'[m].status = mapping[m].status
                               /\ mapping[m].promoted => mapping'[m].promoted
    BY <1>1 DEF RowsOK, Row
  <1>3. ASSUME NEW s \in eligible'
        PROVE  (\E m \in Promoted(s) : Verified(m) /\ Trusted(HostOf[m]))'
    <2>1. CASE s = SourceOf[x]
      BY <1>1, <1>2, <2>1 DEF Promoted, Verified, Trusted, Earned
    <2>2. CASE s \in eligible
      BY <1>1, <1>2, <2>2 DEF EligibleIsEarned, Promoted, Verified, Trusted
    <2> QED
      BY <1>1, <2>1, <2>2
  <1>4. bound' \in [Sources -> SUBSET Fields]
    BY <1>1, ChainAssumption DEF Promote, RowsOK
  <1> QED
    BY <1>1, <1>2, <1>3, <1>4 DEF RowsOK, EligibleIsEarned

----------------------------------------------------------------------------
(* Steps *)

LEMMA Kinds ==
    ASSUME TypeOK, NEW p \in Sessions, tx[p] # Idle
    PROVE  LET o == tx[p].op  x == tx[p].on IN
           /\ o \in DomainOps \cup HostDecisions => x \in Hosts /\ o \in Simple
           /\ o \in MappingOps \cup Decisions => x \in Mappings /\ o \in Simple
           /\ o = "manifest" => x \in Mappings \X Mappings
           /\ o \in Simple \cup {"manifest"}
  <1>1. tx[p] \in Transactions \ {Idle}
    BY DEF TypeOK
  <1>2. (DomainOps \cup HostDecisions) \cap (MappingOps \cup Decisions \cup {"manifest"}) = {}
    BY HostDecisionNames DEF DomainOps, MappingOps, Promotions
  <1>3. "manifest" \notin Simple
    BY HostDecisionNames DEF Simple, DomainOps, MappingOps, Promotions
  <1> QED
    BY <1>1, <1>2, <1>3 DEF Transactions, Simple

(* A commit changes only rows its transaction holds exclusive locks on, and  *)
(* leaves every eligible source vouched for.                                 *)
LEMMA CommitStep ==
    ASSUME TypeOK, EligibleIsEarned, NEW p \in Sessions, Vetted(p), Commit(p)
    PROVE  /\ RowsOK' /\ EligibleIsEarned'
           /\ \A h \in Hosts : host'[h] # host[h] => <<h, "X">> \in held[p]
           /\ \A m \in Mappings : mapping'[m] # mapping[m] => <<m, "X">> \in held[p]
           /\ <<Audit, "X">> \in held[p]
           /\ tx[p].op \in Decisions =>
                 /\ <<tx[p].on, "X">> \in held[p] /\ host' = host
                 /\ mapping'[tx[p].on].status = "official" =>
                       tx[p].op = "VERIFIED" /\ <<HostOf[tx[p].on], "S">> \in held[p]
  <1> DEFINE o == tx[p].op
             x == tx[p].on
  <1>0. tx[p] # Idle /\ Wanted(p) = {}
    BY DEF Commit
  <1>1. /\ <<Audit, "X">> \in held[p]
        /\ o \in Simple => <<x, "X">> \in held[p]
        /\ o = "manifest" => <<x[1], "X">> \in held[p] /\ <<x[2], "X">> \in held[p]
        /\ o = "reject_domain" => \A m \in Under(x) : <<m, "X">> \in held[p]
        /\ o \in {"VERIFIED", "AUTHORIZED_EXTERNAL"} => <<HostOf[x], "S">> \in held[p]
    BY <1>0, CommitHolds
  <1>2. /\ o \in DomainOps \cup HostDecisions => x \in Hosts /\ o \in Simple
        /\ o \in MappingOps \cup Decisions => x \in Mappings /\ o \in Simple
        /\ o = "manifest" => x \in Mappings \X Mappings
    BY <1>0, Kinds
  <1>3. RowsOK
    BY DEF TypeOK, RowsOK, HostStatuses, Row
  <1>4. (DomainOps \cup HostDecisions \cup {"manifest", "verify_source_mapping",
            "reject_source_mapping"} \cup Promotions) \cap Decisions = {}
    BY HostDecisionNames DEF DomainOps, Promotions
  <1>5. ASSUME o \in DomainOps \cup HostDecisions, NEW status \in HostStatuses, SetHost(x, status)
        PROVE  /\ RowsOK' /\ EligibleIsEarned'
               /\ \A h \in Hosts : host'[h] # host[h] => <<h, "X">> \in held[p]
               /\ \A m \in Mappings : mapping'[m] # mapping[m] => <<m, "X">> \in held[p]
               /\ o \notin Decisions
    BY <1>1, <1>2, <1>3, <1>4, <1>5, SetHostEffect
  <1>6. ASSUME o \in {"verify_domain", "authorize_external_domain", "mark_domain_legacy"}
        PROVE  o \in DomainOps
    BY <1>6 DEF DomainOps
  <1>7. CASE o = "verify_domain" /\ VerifyDomain(x)
    BY <1>1, <1>5, <1>6, <1>7 DEF VerifyDomain, HostStatuses
  <1>8. CASE o = "authorize_external_domain" /\ AuthorizeExternalDomain(x)
    BY <1>1, <1>5, <1>6, <1>8 DEF AuthorizeExternalDomain, HostStatuses
  <1>9. CASE o = "mark_domain_legacy" /\ MarkDomainLegacy(x)
    BY <1>1, <1>5, <1>6, <1>9 DEF MarkDomainLegacy, HostStatuses
  <1>10. CASE o \in HostDecisions /\ ApplyDomain(o, x)
    BY <1>1, <1>5, <1>10, HostDecisionNames DEF ApplyDomain
  <1>11. CASE o = "reject_domain" /\ RejectDomain(x)
    <2>1. x \in Hosts /\ o \in Simple /\ o \notin Decisions
      BY <1>2, <1>4, <1>11 DEF DomainOps
    <2>2. /\ RowsOK' /\ EligibleIsEarned'
          /\ \A h \in Hosts : h # x => host'[h] = host[h]
          /\ \A m \in Mappings : m \notin Under(x) => mapping'[m] = mapping[m]
      BY <1>3, <1>11, <2>1, RejectDomainEffect
    <2> QED
      BY <1>1, <1>11, <2>1, <2>2
  <1>12. CASE o = "verify_source_mapping" /\ VerifySourceMapping(p, x)
    <2>1. x \in Mappings /\ o \in Simple /\ o \notin Decisions
      BY <1>2, <1>4, <1>12 DEF MappingOps
    <2>2. Trusted(HostOf[x])
      BY <1>1, <1>12, <2>1 DEF Vetted
    <2>3. /\ RowsOK' /\ EligibleIsEarned' /\ host' = host
          /\ \A m \in Mappings \ {x} : mapping'[m] = mapping[m]
      BY <1>3, <1>12, <2>1, <2>2, VerifyEffect DEF VerifySourceMapping, Trusted
    <2> QED
      BY <1>1, <2>1, <2>3
  <1>13. CASE o = "reject_source_mapping" /\ RejectSourceMapping(x)
    <2>1. x \in Mappings /\ o \in Simple /\ o \notin Decisions
      BY <1>2, <1>4, <1>13 DEF MappingOps
    <2>2. /\ RowsOK' /\ EligibleIsEarned' /\ host' = host
          /\ \A m \in Mappings \ {x} : mapping'[m] = mapping[m]
      BY <1>3, <1>13, <2>1, UntrustEffect DEF RejectSourceMapping
    <2> QED
      BY <1>1, <2>1, <2>2
  <1>14. CASE o \in Decisions /\ ApplyDecision(p, o, x)
    <2>1. x \in Mappings /\ o \in Simple
      BY <1>2, <1>14
    <2>2. CASE Outcome[o] \in {"official", "external"}
      <3>1. /\ RowsOK' /\ EligibleIsEarned' /\ host' = host
            /\ \A m \in Mappings \ {x} : mapping'[m] = mapping[m]
            /\ mapping'[x].status = Outcome[o]
        BY <1>3, <1>14, <2>1, <2>2, VerifyEffect DEF ApplyDecision
      <3> QED
        BY <1>1, <1>14, <2>1, <2>2, <3>1, HostDecisionNames
    <2>3. CASE Outcome[o] \notin {"official", "external"}
      <3>1. Outcome[o] \in {"candidate", "rejected"}
        BY <1>14, <2>3, HostDecisionNames
      <3>2. /\ RowsOK' /\ EligibleIsEarned' /\ host' = host
            /\ \A m \in Mappings \ {x} : mapping'[m] = mapping[m]
            /\ mapping'[x].status = Outcome[o]
        <4>1. Untrust({x}, Outcome[o], p) /\ {x} \in SUBSET Mappings
          BY <1>14, <2>1, <2>3 DEF ApplyDecision
        <4> HIDE DEF o, x
        <4> QED
          BY <1>3, <3>1, <4>1, UntrustEffect
      <3> QED
        BY <1>1, <1>14, <2>1, <2>3, <3>1, <3>2
    <2> QED
      BY <2>2, <2>3
  <1>15. CASE o \in Promotions /\ Promote(x)
    <2>1. x \in Mappings /\ o \in Simple /\ o \notin Decisions
      BY <1>2, <1>4, <1>15 DEF MappingOps
    <2>2. Earned(x)
      BY <1>1, <1>15 DEF Vetted
    <2>3. /\ RowsOK' /\ EligibleIsEarned' /\ host' = host
          /\ \A m \in Mappings \ {x} : mapping'[m] = mapping[m]
      BY <1>3, <1>15, <2>1, <2>2, PromoteEffect
    <2> QED
      BY <1>1, <2>1, <2>3
  <1>16. CASE o = "manifest" /\ ApplyManifest(p, x)
    <2> DEFINE ms == {m \in {x[1], x[2]} : mapping[m].status # "rejected"}
    <2>1. x[1] \in Mappings /\ x[2] \in Mappings /\ o \notin Decisions
      BY <1>2, <1>4, <1>16
    <2>2. /\ RowsOK' /\ EligibleIsEarned' /\ host' = host
          /\ \A m \in Mappings \ ms : mapping'[m] = mapping[m]
      <3>1. ms \in SUBSET Mappings /\ Untrust(ms, "rejected", p)
        BY <1>16, <2>1 DEF ApplyManifest
      <3> QED
        BY <1>3, <3>1, UntrustEffect
    <2> QED
      BY <1>1, <1>16, <2>1, <2>2
  <1> QED
    BY <1>7, <1>8, <1>9, <1>10, <1>11, <1>12, <1>13, <1>14, <1>15, <1>16 DEF Commit

Locks == Rows \X {"S", "X"}

LEMMA ConcatType ==
    ASSUME NEW S, NEW s \in Seq(S), NEW t \in Seq(S)
    PROVE  s \o t \in Seq(S)
  OBVIOUS

LEMMA FewType ==
    ASSUME NEW S, NEW a \in S, NEW b \in S, NEW c \in S
    PROVE  <<a>> \in Seq(S) /\ <<a, b>> \in Seq(S) /\ <<a, b, c>> \in Seq(S)
  OBVIOUS

LEMMA ElementType ==
    ASSUME NEW S, NEW s \in Seq(S), NEW i \in DOMAIN s
    PROVE  s[i] \in S
  OBVIOUS

(* What a transaction asks for are locks on rows.                            *)
LEMMA WantedType ==
    ASSUME TypeOK, NEW p \in Sessions
    PROVE  Wanted(p) \subseteq Locks
  <1> DEFINE o == tx[p].op
             x == tx[p].on
             plan == Plan(o, x)
             open == {j \in DOMAIN plan : ~(plan[j] \subseteq held[p])}
  <1>1. SUFFICES ASSUME tx[p] # Idle PROVE plan \in Seq(SUBSET Locks)
    <2>1. CASE tx[p] = Idle \/ open = {}
      BY <2>1 DEF Wanted
    <2>2. CASE tx[p] # Idle /\ open # {}
      <3> DEFINE first == CHOOSE j \in open : \A k \in open : j <= k
      <3>0. plan \in Seq(SUBSET Locks)
        BY <1>1, <2>2
      <3>1. open \in SUBSET (1..5)
        <4>1. CASE o \in DomainOps \cup HostDecisions
          BY <4>1, DomainStages
        <4>2. CASE o \in MappingOps \cup Decisions
          BY <4>2, MappingStages
        <4>3. CASE o = "manifest"
          <5>1. DOMAIN plan = 1..5
            BY <4>3, ManifestStages
          <5> QED
            BY <5>1
        <4> QED
          BY <2>2, <4>1, <4>2, <4>3, Kinds DEF Simple
      <3>2. first \in open
        BY <2>2, <3>1, LeastOfFew
      <3>3. Wanted(p) = plan[first] \ held[p]
        BY <2>2 DEF Wanted
      <3>4. plan[first] \in SUBSET Locks
        <4>1. first \in DOMAIN plan
          BY <3>2
        <4> HIDE DEF plan, first
        <4> QED
          BY <3>0, <4>1, ElementType
      <3> QED
        BY <3>3, <3>4
    <2> QED
      BY <2>1, <2>2
  <1>2. /\ o \in DomainOps \cup HostDecisions => x \in Hosts
        /\ o \in MappingOps \cup Decisions => x \in Mappings
        /\ o = "manifest" => x \in Mappings \X Mappings
        /\ o \in Simple \cup {"manifest"}
    BY <1>1, Kinds
  <1>3. \A S \in SUBSET Rows : Exclusive(S) \in SUBSET Locks /\ Shared(S) \in SUBSET Locks
    BY DEF Exclusive, Shared, Locks
  <1>4. /\ {Audit} \in SUBSET Rows
        /\ \A ms : Withdrawn(ms) \in SUBSET Rows
        /\ \A h : Under(h) \in SUBSET Rows
        /\ \A y \in Hosts \cup Mappings : {y} \in SUBSET Rows
        /\ \A m \in Mappings : {HostOf[m]} \in SUBSET Rows /\ {SourceOf[m]} \in SUBSET Rows
    BY ChainAssumption DEF TypeOK, Rows, Withdrawn, Under
  <1>5. Exclusive({Audit}) \in SUBSET Locks
    BY <1>3, <1>4
  <1>6. CASE o \in DomainOps \cup HostDecisions
    <2>1. /\ Exclusive({x}) \in SUBSET Locks /\ Exclusive(Withdrawn(Under(x))) \in SUBSET Locks
          /\ Exclusive(Under(x)) \in SUBSET Locks
      BY <1>2, <1>3, <1>4, <1>6
    <2>2. /\ <<Exclusive({x})>> \in Seq(SUBSET Locks)
          /\ <<Exclusive({x}), Exclusive(Withdrawn(Under(x)))>> \in Seq(SUBSET Locks)
          /\ <<Exclusive(Under(x))>> \in Seq(SUBSET Locks)
          /\ <<Exclusive({Audit})>> \in Seq(SUBSET Locks)
      BY <1>5, <2>1
    <2>3. \A s, t \in Seq(SUBSET Locks) : s \o t \in Seq(SUBSET Locks)
      BY ConcatType
    <2>4. CASE o \in {"verify_domain", "authorize_external_domain"}
      BY <2>2, <2>3, <2>4, DomainPlans
    <2>5. CASE o \in HostDecisions
      BY <2>2, <2>3, <2>5, DomainPlans
    <2>6. CASE o = "mark_domain_legacy"
      BY <2>2, <2>3, <2>6, DomainPlans
    <2>7. CASE o = "reject_domain"
      <3>1. plan = (<<Exclusive({x}), Exclusive(Withdrawn(Under(x)))>> \o <<Exclusive(Under(x))>>)
                     \o <<Exclusive({Audit})>>
        BY <2>7, DomainPlans
      <3>2. <<Exclusive({x}), Exclusive(Withdrawn(Under(x)))>> \o <<Exclusive(Under(x))>>
               \in Seq(SUBSET Locks)
        BY <2>2, <2>3
      <3> HIDE DEF plan
      <3> QED
        BY <2>2, <2>3, <3>1, <3>2
    <2> QED
      BY <1>6, <2>4, <2>5, <2>6, <2>7 DEF DomainOps
  <1>7. CASE o \in MappingOps \cup Decisions \cup {"manifest"}
    <2>1. \A y \in Mappings :
             /\ Exclusive({y}) \in SUBSET Locks /\ Exclusive(Withdrawn({y})) \in SUBSET Locks
             /\ Exclusive({HostOf[y]}) \in SUBSET Locks /\ HostShare(y) \in SUBSET Locks
             /\ Exclusive({SourceOf[y]}) \in SUBSET Locks
      BY <1>3, <1>4 DEF HostShare
    <2> DEFINE last == <<Exclusive({Audit})>>
    <2>2. ASSUME NEW y \in Mappings
          PROVE  /\ HostFirst(y) \in Seq(SUBSET Locks) /\ RejectionLocks(y) \in Seq(SUBSET Locks)
                 /\ <<Exclusive({y}), HostShare(y)>> \in Seq(SUBSET Locks)
                 /\ <<Exclusive({y}), Exclusive({SourceOf[y]}), HostShare(y)>>
                       \in Seq(SUBSET Locks)
      <3>1. \A a, b, c \in SUBSET Locks :
               <<a, b>> \in Seq(SUBSET Locks) /\ <<a, b, c>> \in Seq(SUBSET Locks)
        BY FewType
      <3> QED
        BY <2>1, <3>1 DEF HostFirst, RejectionLocks
    <2>3. \A s, t \in Seq(SUBSET Locks) : s \o t \in Seq(SUBSET Locks)
      BY ConcatType
    <2>4. last \in Seq(SUBSET Locks)
      BY <1>5
    <2>5. CASE o = "verify_source_mapping"
      <3>1. x \in Mappings /\ plan = HostFirst(x) \o last
        BY <1>2, <2>5, MappingPlans DEF MappingOps
      <3> HIDE DEF last, plan
      <3> QED
        BY <2>2, <2>3, <2>4, <3>1
    <2>6. CASE o \in {"reject_source_mapping", "REJECTED", "NEEDS_REVIEW"}
      <3>1. x \in Mappings /\ plan = RejectionLocks(x) \o last
        BY <1>2, <2>6, MappingPlans, HostDecisionNames DEF MappingOps
      <3> HIDE DEF last, plan
      <3> QED
        BY <2>2, <2>3, <2>4, <3>1
    <2>7. CASE o \in {"VERIFIED", "AUTHORIZED_EXTERNAL"}
      <3>1. x \in Mappings /\ plan = <<Exclusive({x}), HostShare(x)>> \o last
        BY <1>2, <2>7, MappingPlans, HostDecisionNames
      <3> HIDE DEF last, plan
      <3> QED
        BY <2>2, <2>3, <2>4, <3>1
    <2>8. CASE o \in Promotions
      <3>1. x \in Mappings
            /\ plan = <<Exclusive({x}), Exclusive({SourceOf[x]}), HostShare(x)>> \o last
        BY <1>2, <2>8, MappingPlans DEF MappingOps
      <3> HIDE DEF last, plan
      <3> QED
        BY <2>2, <2>3, <2>4, <3>1
    <2>9. CASE o = "manifest"
      <3>1. /\ x[1] \in Mappings /\ x[2] \in Mappings
            /\ plan = RejectionLocks(x[1]) \o last \o RejectionLocks(x[2])
        BY <1>2, <2>9, MappingPlans
      <3>2. RejectionLocks(x[1]) \o last \in Seq(SUBSET Locks)
        <4> HIDE DEF last, plan
        <4> QED
          BY <2>2, <2>3, <2>4, <3>1
      <3> HIDE DEF last, plan
      <3> QED
        BY <2>2, <2>3, <3>1, <3>2
    <2> QED
      BY <1>7, <2>5, <2>6, <2>7, <2>8, <2>9, HostDecisionNames DEF MappingOps
  <1> QED
    BY <1>2, <1>6, <1>7 DEF Simple

(* The stages of verify_source_mapping: the host before the mapping.         *)
LEMMA HostBeforeMapping ==
    ASSUME TypeOK, NEW p \in Sessions, tx[p].op = "verify_source_mapping",
           NEW w \in Wanted(p), w = <<tx[p].on, "X">>
    PROVE  <<HostOf[tx[p].on], "X">> \in held[p] \cup {w}
  <1> DEFINE o == tx[p].op
             x == tx[p].on
             plan == Plan(o, x)
             open == {j \in DOMAIN plan : ~(plan[j] \subseteq held[p])}
             first == CHOOSE j \in open : \A k \in open : j <= k
             hosts == <<HostOf[x], "X">>
  <1>1. /\ DOMAIN plan = 1..3 /\ plan[1] = {hosts}
        /\ plan[2] = {<<x, "X">>} /\ plan[3] = {<<Audit, "X">>}
    BY MappingStages DEF MappingOps, Exclusive
  <1>2. open # {} /\ Wanted(p) = plan[first] \ held[p]
    BY DEF Wanted
  <1>3. open \in SUBSET (1..5)
    BY <1>1
  <1>4. first \in open /\ \A k \in open : first <= k
    BY <1>2, <1>3, LeastOfFew
  <1>5. CASE first = 1
    BY <1>1, <1>2, <1>5
  <1>6. CASE first # 1
    <2>1. 1 \notin open
      BY <1>3, <1>4, <1>6
    <2> QED
      BY <1>1, <2>1
  <1> QED
    BY <1>5, <1>6

(* What a transaction has found out once a lock was granted.                 *)
LEMMA PassedChecks ==
    ASSUME NEW p \in Sessions, NEW r, Passes(p, r)
    PROVE  LET o == tx[p].op  x == tx[p].on IN
           /\ o = "verify_source_mapping" /\ r = x => Trusted(HostOf[x])
           /\ o \in Decisions /\ r = x => token[p].before = mapping[x]
           /\ o = "VERIFIED" /\ r = HostOf[x] => host[r] = "official"
           /\ o \in Promotions /\ r = Audit => Earned(x)
  <1> DEFINE o == tx[p].op
             x == tx[p].on
  <1>1. CASE o = "verify_source_mapping"
    BY <1>1, HostDecisionNames DEF Passes, Promotions
  <1>2. CASE o \in Decisions
    <2>1. /\ r = x => token[p] = Fingerprint(o, x)
          /\ r = HostOf[x] => (o = "VERIFIED" => host[r] = "official")
      BY <1>2, HostDecisionNames DEF Passes, Promotions
    <2> QED
      BY <1>2, <2>1, HostDecisionNames DEF Fingerprint, Promotions
  <1>3. CASE o \in Promotions
    BY <1>3, HostDecisionNames DEF Passes, Promotions
  <1> QED
    BY <1>1, <1>2, <1>3, HostDecisionNames

LEMMA NoneVetted ==
    ASSUME NEW p, tx[p] = Idle
    PROVE  Vetted(p)
  BY HostDecisionNames DEF Idle, Vetted, Promotions

(* A transaction begins, or a preview is taken: nothing is locked.           *)
LEMMA BeginStep ==
    ASSUME IInv, NEW p \in Sessions, NEW o, NEW x,
           [op |-> o, on |-> x] \in Transactions, Begin(p, o, x)
    PROVE  IInv'
  <1>1. /\ tx' = [tx EXCEPT ![p] = [op |-> o, on |-> x]]
        /\ UNCHANGED <<rows, token, held>> /\ ops' = ops + 1 /\ ops < MaxOps
        /\ held[p] = {}
    BY DEF Begin, IInv, TypeOK
  <1>2. TypeOK'
    BY <1>1, ChainAssumption DEF IInv, TypeOK, rows
  <1>3. Exclusion'
    BY <1>1 DEF IInv, Exclusion, Conflict
  <1>4. ASSUME NEW q \in Sessions
        PROVE  Vetted(q)'
    <2>1. CASE q = p
      BY <1>1, <2>1 DEF IInv, TypeOK, Vetted
    <2>2. CASE q # p
      <3>1. tx'[q] = tx[q]
        BY <1>1, <2>2 DEF IInv, TypeOK
      <3> QED
        BY <1>1, <3>1 DEF IInv, AllVetted, Vetted, Trusted, Earned, Verified, rows
    <2> QED
      BY <2>1, <2>2
  <1>5. EligibleIsEarned'
    BY <1>1 DEF IInv, EligibleIsEarned, Promoted, Verified, Trusted, rows
  <1> QED
    BY <1>2, <1>3, <1>4, <1>5 DEF IInv, AllVetted

LEMMA PreviewStep ==
    ASSUME IInv, NEW p \in Sessions, tx[p] = Idle, NEW t,
           token' = [token EXCEPT ![p] = t],
           UNCHANGED <<rows, tx, held>>, ops' \in 0..MaxOps
    PROVE  IInv'
  <1>1. TypeOK'
    BY DEF IInv, TypeOK, rows
  <1>2. Exclusion'
    BY DEF IInv, Exclusion, Conflict
  <1>3. ASSUME NEW q \in Sessions
        PROVE  Vetted(q)'
    <2>1. CASE q = p
      <3>1. tx'[p] = Idle'
        BY DEF Idle
      <3> QED
        BY <2>1, <3>1, HostDecisionNames DEF Idle, Vetted, Promotions
    <2>2. CASE q # p
      <3>1. token'[q] = token[q]
        BY <2>2 DEF IInv, TypeOK
      <3> QED
        BY <3>1 DEF IInv, AllVetted, Vetted, Trusted, Earned, Verified, rows
    <2> QED
      BY <2>1, <2>2
  <1>4. EligibleIsEarned'
    BY DEF IInv, EligibleIsEarned, Promoted, Verified, Trusted, rows
  <1> QED
    BY <1>1, <1>2, <1>3, <1>4 DEF IInv, AllVetted

(* Something else happens, which counts as an operation.                     *)
LEMMA ElsewhereStep ==
    ASSUME IInv, UNCHANGED <<rows, token, tx, held>>, ops' \in 0..MaxOps
    PROVE  IInv'
  <1>1. TypeOK'
    BY DEF IInv, TypeOK, rows, Transactions, Idle
  <1>2. Exclusion'
    BY DEF IInv, Exclusion, Conflict
  <1>3. AllVetted'
    BY DEF IInv, AllVetted, Vetted, Trusted, Earned, Verified, rows
  <1>4. EligibleIsEarned'
    BY DEF IInv, EligibleIsEarned, Promoted, Verified, Trusted, rows
  <1> QED
    BY <1>1, <1>2, <1>3, <1>4 DEF IInv

(* A transaction is rolled back.                                             *)
LEMMA RollbackStep ==
    ASSUME IInv, NEW p \in Sessions, End(p), UNCHANGED <<rows, token, ops>>
    PROVE  IInv'
  <1>1. /\ tx' = [tx EXCEPT ![p] = Idle] /\ held' = [held EXCEPT ![p] = {}]
        /\ tx'[p] = Idle /\ held'[p] = {}
        /\ \A q \in Sessions : q # p => tx'[q] = tx[q] /\ held'[q] = held[q]
    BY DEF End, IInv, TypeOK
  <1>2. TypeOK'
    BY <1>1 DEF IInv, TypeOK, rows, Transactions, Idle
  <1>3. Exclusion'
    BY <1>1 DEF IInv, Exclusion, Conflict
  <1>4. ASSUME NEW q \in Sessions
        PROVE  Vetted(q)'
    <2>1. CASE q = p
      BY <1>1, <2>1, HostDecisionNames DEF Idle, Vetted, Promotions
    <2>2. CASE q # p
      BY <1>1, <2>2 DEF IInv, AllVetted, Vetted, Trusted, Earned, Verified, rows
    <2> QED
      BY <2>1, <2>2
  <1>5. EligibleIsEarned'
    BY DEF IInv, EligibleIsEarned, Promoted, Verified, Trusted, rows
  <1> QED
    BY <1>2, <1>3, <1>4, <1>5 DEF IInv, AllVetted

(* A lock is granted, and what is checked under it holds.                    *)
LEMMA GrantStep ==
    ASSUME IInv, NEW p \in Sessions, NEW w \in Wanted(p), Passes(p, w[1]),
           \A q \in Sessions \ {p} : \A r \in held[q] : ~Conflict(w, r),
           held' = [held EXCEPT ![p] = @ \cup {w}],
           UNCHANGED <<rows, token, tx, ops>>
    PROVE  IInv'
  <1> DEFINE o == tx[p].op
             x == tx[p].on
  <1>1. /\ w \in Locks /\ tx[p] # Idle
    <2>1. w \in Locks
      BY WantedType DEF IInv
    <2>2. tx[p] # Idle
      BY DEF Wanted
    <2> QED
      BY <2>1, <2>2
  <1>2. /\ held'[p] = held[p] \cup {w}
        /\ \A q \in Sessions : q # p => held'[q] = held[q]
    BY DEF IInv, TypeOK
  <1>3. TypeOK'
    <2>1. held' \in [Sessions -> SUBSET Locks]
      BY <1>1 DEF IInv, TypeOK, Locks
    <2> QED
      BY <1>1, <1>2, <2>1 DEF IInv, TypeOK, rows, Locks
  <1>4. Exclusion'
    <2> SUFFICES ASSUME NEW q \in Sessions, NEW r \in Sessions, q # r,
                        NEW a \in held'[q], NEW b \in held'[r]
                 PROVE  ~Conflict(a, b)
      BY DEF Exclusion, Conflict
    <2>1. CASE a \in held[q] /\ b \in held[r]
      BY <2>1 DEF IInv, Exclusion
    <2>2. CASE q = p /\ a = w
      BY <1>2, <2>2
    <2>3. CASE r = p /\ b = w
      BY <1>2, <2>3 DEF Conflict
    <2> QED
      BY <1>2, <2>1, <2>2, <2>3
  <1>5. Vetted(p)'
    <2>1. /\ o = "verify_source_mapping" /\ w[1] = x => Trusted(HostOf[x])
          /\ o \in Decisions /\ w[1] = x => token[p].before = mapping[x]
          /\ o = "VERIFIED" /\ w[1] = HostOf[x] => host[HostOf[x]] = "official"
          /\ o \in Promotions /\ w[1] = Audit => Earned(x)
      BY PassedChecks
    <2>2. Vetted(p)
      BY DEF IInv, AllVetted
    <2>3. o = "verify_source_mapping" /\ <<x, "X">> \in held'[p]
             => Trusted(HostOf[x]) /\ <<HostOf[x], "X">> \in held'[p]
      <3>1. CASE <<x, "X">> \in held[p]
        BY <1>2, <2>2, <3>1 DEF Vetted
      <3>2. CASE w = <<x, "X">>
        <4>1. o = "verify_source_mapping" => <<HostOf[x], "X">> \in held[p] \cup {w}
          BY <3>2, HostBeforeMapping DEF IInv
        <4> QED
          BY <1>2, <2>1, <3>2, <4>1
      <3> QED
        BY <1>2, <3>1, <3>2
    <2>4. o \in Decisions /\ <<x, "X">> \in held'[p] => token[p].before = mapping[x]
      BY <1>2, <2>1, <2>2 DEF Vetted
    <2>5. o = "VERIFIED" /\ <<HostOf[x], "S">> \in held'[p] => host[HostOf[x]] = "official"
      BY <1>2, <2>1, <2>2 DEF Vetted
    <2>6. o \in Promotions /\ <<Audit, "X">> \in held'[p] => Earned(x)
      BY <1>2, <2>1, <2>2 DEF Vetted
    <2> QED
      BY <2>3, <2>4, <2>5, <2>6 DEF Vetted, Trusted, Earned, Verified, rows
  <1>6. ASSUME NEW q \in Sessions, q # p
        PROVE  Vetted(q)'
    BY <1>2, <1>6 DEF IInv, AllVetted, Vetted, Trusted, Earned, Verified, rows
  <1>7. EligibleIsEarned'
    BY DEF IInv, EligibleIsEarned, Promoted, Verified, Trusted, rows
  <1> QED
    BY <1>3, <1>4, <1>5, <1>6, <1>7 DEF IInv, AllVetted

(* A commit changes nothing another transaction has checked and still holds  *)
(* a lock on.                                                                *)
LEMMA CommitKeeps ==
    ASSUME IInv, NEW p \in Sessions, Commit(p)
    PROVE  IInv'
  <1>1. /\ tx' = [tx EXCEPT ![p] = Idle] /\ held' = [held EXCEPT ![p] = {}]
        /\ tx'[p] = Idle /\ held'[p] = {} /\ token' = token /\ ops' = ops
        /\ \A q \in Sessions : q # p => tx'[q] = tx[q] /\ held'[q] = held[q]
    BY DEF Commit, End, IInv, TypeOK
  <1>2. /\ RowsOK' /\ EligibleIsEarned'
        /\ \A h \in Hosts : host'[h] # host[h] => <<h, "X">> \in held[p]
        /\ \A m \in Mappings : mapping'[m] # mapping[m] => <<m, "X">> \in held[p]
        /\ <<Audit, "X">> \in held[p]
    BY CommitStep DEF IInv, AllVetted
  <1>3. TypeOK'
    BY <1>1, <1>2 DEF IInv, TypeOK, RowsOK, Row, HostStatuses, Transactions, Idle
  <1>4. Exclusion'
    BY <1>1 DEF IInv, Exclusion, Conflict
  <1>5. ASSUME NEW q \in Sessions
        PROVE  Vetted(q)'
    <2>1. CASE q = p \/ tx[q] = Idle
      BY <1>1, <2>1, HostDecisionNames DEF Idle, Vetted, Promotions
    <2>2. CASE q # p /\ tx[q] # Idle
      <3> DEFINE o == tx[q].op
                 x == tx[q].on
      <3>1. /\ tx'[q] = tx[q] /\ held'[q] = held[q] /\ Vetted(q)
        BY <1>1, <2>2 DEF IInv, AllVetted
      <3>2. \A a \in held[p], b \in held[q] : ~(a[1] = b[1] /\ (a[2] = "X" \/ b[2] = "X"))
        BY <2>2 DEF IInv, Exclusion, Conflict
      <3>3. o \in MappingOps \cup Decisions => x \in Mappings /\ HostOf[x] \in Hosts
        BY <2>2, Kinds, ChainAssumption DEF IInv
      <3>4. \A h \in Hosts : <<h, "X">> \in held[q] \/ <<h, "S">> \in held[q] => host'[h] = host[h]
        BY <1>2, <3>2
      <3>5. \A m \in Mappings : <<m, "X">> \in held[q] => mapping'[m] = mapping[m]
        BY <1>2, <3>2
      <3>6. <<Audit, "X">> \notin held[q]
        BY <1>2, <3>2
      <3>7. o \in MappingOps \cup Decisions \/ (o # "verify_source_mapping" /\ o \notin Decisions
               /\ o # "VERIFIED" /\ o \notin Promotions)
        BY HostDecisionNames DEF MappingOps
      <3> HIDE DEF o, x
      <3>8. o = tx'[q].op /\ x = tx'[q].on
        BY <3>1 DEF o, x
      <3>9. CASE o \in MappingOps \cup Decisions
        <4>1. /\ o = "verify_source_mapping" /\ <<x, "X">> \in held[q] =>
                    Trusted(HostOf[x]) /\ <<HostOf[x], "X">> \in held[q]
              /\ o \in Decisions /\ <<x, "X">> \in held[q] => token[q].before = mapping[x]
              /\ o = "VERIFIED" /\ <<HostOf[x], "S">> \in held[q] => host[HostOf[x]] = "official"
          BY <3>1 DEF Vetted, o, x
        <4>2. o = "verify_source_mapping" /\ <<x, "X">> \in held[q] =>
                 host'[HostOf[x]] \in {"official", "external"} /\ <<HostOf[x], "X">> \in held[q]
          BY <3>3, <3>4, <3>9, <4>1 DEF Trusted
        <4>3. o \in Decisions /\ <<x, "X">> \in held[q] => token'[q].before = mapping'[x]
          BY <1>1, <3>3, <3>5, <3>9, <4>1
        <4>4. o = "VERIFIED" /\ <<HostOf[x], "S">> \in held[q] => host'[HostOf[x]] = "official"
          BY <3>3, <3>4, <3>9, <4>1
        <4> QED
          BY <3>1, <3>6, <3>8, <4>2, <4>3, <4>4 DEF Vetted, Trusted
      <3>10. CASE o \notin MappingOps \cup Decisions
        BY <3>7, <3>8, <3>10 DEF Vetted
      <3> QED
        BY <3>9, <3>10
    <2> QED
      BY <2>1, <2>2
  <1> QED
    BY <1>2, <1>3, <1>4, <1>5 DEF IInv, AllVetted

LEMMA ChainInit == Init => IInv
  <1> SUFFICES ASSUME Init PROVE IInv
    OBVIOUS
  <1>1. /\ \A p \in Sessions : tx[p] = Idle /\ held[p] = {}
        /\ tx = [p \in Sessions |-> Idle] /\ held = [p \in Sessions |-> {}]
        /\ token = [p \in Sessions |-> Idle] /\ ops = 0
    BY DEF Init
  <1>2. mapping \in [Mappings -> Row]
    <2>1. (CHOOSE p \in Sessions : TRUE) \in Sessions
      BY ChainAssumption
    <2> QED
      BY <2>1 DEF Init, Row
  <1>3. TypeOK
    <2>1. /\ host \in [Hosts -> HostStatuses] /\ eligible \subseteq Sources
      BY DEF Init, HostStatuses
    <2>2. bound \in [Sources -> SUBSET Fields]
      BY ChainAssumption DEF Init, Promoted
    <2> QED
      BY <1>1, <1>2, <2>1, <2>2, ChainAssumption DEF TypeOK, HostStatuses, Row, Transactions
  <1>4. Exclusion
    BY <1>1 DEF Exclusion
  <1>5. AllVetted
    BY <1>1, NoneVetted DEF AllVetted
  <1>6. EligibleIsEarned
    <2> SUFFICES ASSUME NEW s \in eligible
                 PROVE  \E m \in Promoted(s) : Verified(m) /\ Trusted(HostOf[m])
      BY DEF EligibleIsEarned
    <2>1. PICK m \in Promoted(s) : TRUE
      BY DEF Init
    <2>2. m \in Mappings /\ mapping[m].promoted
      BY <2>1 DEF Promoted
    <2>3. Verified(m) /\ Trusted(HostOf[m])
      BY <2>2 DEF Init
    <2> QED
      BY <2>1, <2>3
  <1> QED
    BY <1>3, <1>4, <1>5, <1>6 DEF IInv

LEMMA ChainStep == IInv /\ [Next]_vars => IInv'
  <1> SUFFICES ASSUME IInv, [Next]_vars PROVE IInv'
    OBVIOUS
  <1>1. ASSUME NEW p \in Sessions, NEW o \in DomainOps \cup HostDecisions, NEW h \in Hosts,
               Begin(p, o, h)
        PROVE  IInv'
    <2>1. [op |-> o, on |-> h] \in Transactions
      BY DEF Transactions
    <2> QED
      BY <1>1, <2>1, BeginStep
  <1>2. ASSUME NEW p \in Sessions, NEW o \in MappingOps \cup Decisions, NEW m \in Mappings,
               Begin(p, o, m)
        PROVE  IInv'
    <2>1. [op |-> o, on |-> m] \in Transactions
      BY DEF Transactions
    <2> QED
      BY <1>2, <2>1, BeginStep
  <1>3. ASSUME NEW p \in Sessions, NEW m \in Mappings, NEW n \in Mappings,
               Begin(p, "manifest", <<m, n>>)
        PROVE  IInv'
    <2>1. [op |-> "manifest", on |-> <<m, n>>] \in Transactions
      BY DEF Transactions
    <2> QED
      BY <1>3, <2>1, BeginStep
  <1>4. ASSUME NEW p \in Sessions, NEW d \in Decisions, NEW m \in Mappings, Preview(p, d, m)
        PROVE  IInv'
    <2>1. /\ tx[p] = Idle /\ token' = [token EXCEPT ![p] = Fingerprint(d, m)]
          /\ UNCHANGED <<rows, tx, held>> /\ ops' = ops + 1 /\ ops < MaxOps
      BY <1>4 DEF Preview
    <2>2. ops' \in 0..MaxOps
      BY <2>1, ChainAssumption DEF IInv, TypeOK
    <2> QED
      BY <2>1, <2>2, PreviewStep
  <1>5. ASSUME NEW p \in Sessions, NEW m \in Mappings, PreviewPromotion(p, m)
        PROVE  IInv'
    <2>1. /\ tx[p] = Idle /\ token' = [token EXCEPT ![p] = PromotionFingerprint(m)]
          /\ UNCHANGED <<rows, tx, held>> /\ ops' = ops + 1 /\ ops < MaxOps
      BY <1>5 DEF PreviewPromotion
    <2>2. ops' \in 0..MaxOps
      BY <2>1, ChainAssumption DEF IInv, TypeOK
    <2> QED
      BY <2>1, <2>2, PreviewStep
  <1>6. ASSUME NEW p \in Sessions, NEW w \in Wanted(p), Lock(p, w)
        PROVE  IInv'
    <2>1. CASE Passes(p, w[1])
      BY <1>6, <2>1, GrantStep DEF Lock
    <2>2. CASE ~Passes(p, w[1])
      BY <1>6, <2>2, RollbackStep DEF Lock
    <2> QED
      BY <2>1, <2>2
  <1>7. ASSUME NEW p \in Sessions, DeadlockAbort(p)
        PROVE  IInv'
    BY <1>7, RollbackStep DEF DeadlockAbort
  <1>8. ASSUME NEW p \in Sessions, Commit(p)
        PROVE  IInv'
    BY <1>8, CommitKeeps
  <1>9. CASE UNCHANGED vars
    <2>1. UNCHANGED <<rows, token, tx, held>> /\ ops' \in 0..MaxOps
      BY <1>9 DEF vars, IInv, TypeOK
    <2> QED
      BY <2>1, ElsewhereStep
  <1> QED
    BY <1>1, <1>2, <1>3, <1>4, <1>5, <1>6, <1>7, <1>8, <1>9 DEF Next, Step

LEMMA ChainInvariant == Spec => []IInv
  BY ChainInit, ChainStep, PTL DEF Spec

----------------------------------------------------------------------------
(* The trust chain *)

(* Every variable of the chain holds a value of its type; in particular an   *)
(* operation on the command line gives a mapping only a status that is one.  *)
THEOREM TypeCorrect == Spec => []TypeOK
  <1>1. IInv => TypeOK
    BY DEF IInv
  <1> QED
    BY <1>1, ChainInvariant, PTL

(* A source that may support published facts is vouched for at every moment, *)
(* however many operators decide, promote and withdraw at once               *)
(* (promotion.py, and the triggers of revisions 0016, 0017 and 0031).        *)
THEOREM EligibleSourcesAreEarned == Spec => []EligibleIsEarned
  <1>1. IInv => EligibleIsEarned
    BY DEF IInv
  <1> QED
    BY <1>1, ChainInvariant, PTL

(* A console decision is taken in the state its reviewer was shown, for any  *)
(* number of other sessions: the locks taken before the fingerprint is       *)
(* compared are kept to the commit (decisions.py).                           *)
THEOREM DecisionsAreAsPreviewed == Spec => DecidedAsPreviewed
  <1> DEFINE A == \A p \in Sessions, m \in Mappings :
                     tx[p].op \in Decisions /\ tx[p].on = m /\ mapping'[m] # mapping[m]
                           /\ tx'[p] = Idle
                        => /\ token[p].before = mapping[m]
                           /\ mapping'[m].status = "official" => host'[HostOf[m]] = "official"
  <1>1. IInv /\ [Next]_vars => [A]_vars
    <2> SUFFICES ASSUME IInv, Next, NEW p \in Sessions, NEW m \in Mappings,
                        tx[p].op \in Decisions, tx[p].on = m, mapping'[m] # mapping[m],
                        tx'[p] = Idle
                 PROVE  /\ token[p].before = mapping[m]
                        /\ mapping'[m].status = "official" => host'[HostOf[m]] = "official"
      OBVIOUS
    <2>1. PICK q \in Sessions : Commit(q)
      BY DEF Next, Step, Begin, Preview, PreviewPromotion, Lock, DeadlockAbort, rows
    <2>2. q = p
      <3>1. tx[p] # Idle
        BY HostDecisionNames DEF Idle
      <3> QED
        BY <2>1, <3>1 DEF Commit, End, IInv, TypeOK
    <2>3. /\ <<m, "X">> \in held[p] /\ host' = host
          /\ mapping'[m].status = "official" =>
                tx[p].op = "VERIFIED" /\ <<HostOf[m], "S">> \in held[p]
      BY <2>1, <2>2, CommitStep DEF IInv, AllVetted
    <2> QED
      BY <2>3 DEF IInv, AllVetted, Vetted
  <1> QED
    BY <1>1, ChainInvariant, PTL DEF Spec, DecidedAsPreviewed

----------------------------------------------------------------------------
(* Publication *)

PubInv == IInv /\ PubTypeOK /\ GovernedAreCited

LEMMA PubBase == AllInit => PubInv
  <1> SUFFICES ASSUME AllInit PROVE PubInv
    OBVIOUS
  <1>1. IInv
    BY ChainInit DEF AllInit
  <1>2. Nothing \in [cites : SUBSET Citation, rows : Seq(Image)]
    BY DEF Nothing
  <1>3. PubTypeOK
    BY <1>1, <1>2 DEF AllInit, PubInit, PubTypeOK, IInv, Image
  <1>4. GovernedAreCited
    BY DEF AllInit, PubInit, GovernedAreCited
  <1> QED
    BY <1>1, <1>3, <1>4 DEF PubInv

(* What a step of a publisher or of the worker leaves of the chain.          *)
LEMMA StatementCounts ==
    ASSUME IInv, NEW p \in Publishers, Statement(p)
    PROVE  ops' \in 0..MaxOps
  BY ChainAssumption DEF Statement, IInv, TypeOK

LEMMA PublishKeepsChain ==
    ASSUME IInv, Publish
    PROVE  IInv' /\ UNCHANGED <<rows, token, tx, held>>
  <1>1. CASE \E c \in Claim : InsertClaim(c)
    <2>1. UNCHANGED <<rows, token, tx, held>> /\ ops' = ops + 1 /\ ops < MaxOps
      BY <1>1 DEF InsertClaim
    <2>2. ops' \in 0..MaxOps
      BY <2>1, ChainAssumption DEF IInv, TypeOK
    <2> QED
      BY <2>1, <2>2, ElsewhereStep
  <1>2. ASSUME NEW p \in Publishers,
               \/ \E r \in Citation : Cite(p, r)
               \/ \E image \in Image : Write(p, image)
        PROVE  IInv' /\ UNCHANGED <<rows, token, tx, held>>
    <2>1. Statement(p) /\ UNCHANGED <<rows, token, tx, held>>
      BY <1>2 DEF Cite, Write
    <2> QED
      BY <2>1, StatementCounts, ElsewhereStep
  <1>3. ASSUME NEW p \in Publishers, CommitPublication(p)
        PROVE  IInv' /\ UNCHANGED <<rows, token, tx, held>>
    <2>1. UNCHANGED <<rows, token, tx, held>> /\ ops' = ops
      BY <1>3 DEF CommitPublication, vars
    <2>2. ops' \in 0..MaxOps
      BY <2>1 DEF IInv, TypeOK
    <2> QED
      BY <2>1, <2>2, ElsewhereStep
  <1> QED
    BY <1>1, <1>2, <1>3 DEF Publish

LEMMA CommitPublicationStep ==
    ASSUME PubInv, NEW p \in Publishers, CommitPublication(p)
    PROVE  /\ cited' \subseteq Citation /\ canon' \in Image /\ claims' = claims
           /\ pub' \in [Publishers -> [cites : SUBSET Citation, rows : Seq(Image)]]
           /\ GovernedAreCited'
  <1> DEFINE visible == cited \cup pub[p].cites
             images  == pub[p].rows
             passes  == \A i \in DOMAIN images : Governed(images[i], visible)
  <1>1. images \in Seq(Image) /\ visible \subseteq Citation /\ canon \in Image
    BY DEF PubInv, PubTypeOK
  <1>2. /\ cited' = IF passes THEN visible ELSE cited
        /\ canon' = IF passes /\ images # <<>> THEN images[Len(images)] ELSE canon
        /\ pub' = [pub EXCEPT ![p] = Nothing] /\ claims' = claims
    BY DEF CommitPublication
  <1>3. images # <<>> => Len(images) \in DOMAIN images /\ images[Len(images)] \in Image
    <2> HIDE DEF images
    <2> QED
      BY <1>1
  <1>4. cited' \subseteq Citation /\ cited \subseteq cited' /\ canon' \in Image
    <2> HIDE DEF images, visible, passes
    <2> QED
      BY <1>1, <1>2, <1>3 DEF PubInv, PubTypeOK, visible
  <1>5. pub' \in [Publishers -> [cites : SUBSET Citation, rows : Seq(Image)]]
    BY <1>2 DEF Nothing, PubInv, PubTypeOK
  <1>6. GovernedAreCited'
    <2> SUFFICES ASSUME NEW c \in Columns, canon'[c] # None
                 PROVE  \E r \in cited' : r.field = c /\ r.value = canon'[c]
      BY DEF GovernedAreCited
    <2>1. CASE passes /\ images # <<>>
      <3>1. Governed(images[Len(images)], visible)
        BY <1>3, <2>1
      <3>2. canon' = images[Len(images)] /\ cited' = visible
        BY <1>2, <2>1
      <3> QED
        BY <3>1, <3>2 DEF Governed, GovernedColumns
    <2>2. CASE ~(passes /\ images # <<>>)
      <3>1. canon' = canon
        BY <1>2, <2>2
      <3> QED
        BY <1>4, <3>1 DEF PubInv, GovernedAreCited
    <2> QED
      BY <2>1, <2>2
  <1> QED
    BY <1>2, <1>4, <1>5, <1>6

LEMMA PublishStep ==
    ASSUME PubInv, Publish
    PROVE  PubInv'
  <1>1. IInv'
    BY PublishKeepsChain DEF PubInv
  <1>2. CASE \E c \in Claim : InsertClaim(c)
    BY <1>1, <1>2 DEF InsertClaim, PubInv, PubTypeOK, GovernedAreCited, IInv
  <1>3. ASSUME NEW p \in Publishers, NEW r \in Citation, Cite(p, r)
        PROVE  PubInv'
    <2>1. pub' \in [Publishers -> [cites : SUBSET Citation, rows : Seq(Image)]]
      BY <1>3 DEF Cite, PubInv, PubTypeOK, Nothing
    <2> QED
      BY <1>1, <1>3, <2>1 DEF Cite, PubInv, PubTypeOK, GovernedAreCited, IInv
  <1>4. ASSUME NEW p \in Publishers, NEW image \in Image, Write(p, image)
        PROVE  PubInv'
    <2>1. pub' \in [Publishers -> [cites : SUBSET Citation, rows : Seq(Image)]]
      <3>1. Append(pub[p].rows, image) \in Seq(Image)
        BY DEF PubInv, PubTypeOK
      <3> QED
        BY <1>4, <3>1 DEF Write, PubInv, PubTypeOK
    <2> QED
      BY <1>1, <1>4, <2>1 DEF Write, PubInv, PubTypeOK, GovernedAreCited, IInv
  <1>5. ASSUME NEW p \in Publishers, CommitPublication(p)
        PROVE  PubInv'
    BY <1>1, <1>5, CommitPublicationStep DEF PubInv, PubTypeOK, IInv
  <1> QED
    BY <1>2, <1>3, <1>4, <1>5 DEF Publish

LEMMA PubStep == PubInv /\ [PubNext]_allVars => PubInv'
  <1> SUFFICES ASSUME PubInv, [PubNext]_allVars PROVE PubInv'
    OBVIOUS
  <1>1. CASE Publish
    BY <1>1, PublishStep
  <1>2. CASE (Next \/ UNCHANGED vars) /\ UNCHANGED pubVars
    <2>1. IInv'
      BY <1>2, ChainStep DEF PubInv
    <2> QED
      BY <1>2, <2>1 DEF PubInv, PubTypeOK, GovernedAreCited, pubVars, IInv
  <1> QED
    BY <1>1, <1>2 DEF PubNext, allVars

LEMMA PubInvariant == PubSpec => []PubInv
  BY PubBase, PubStep, PTL DEF PubSpec

(* Whatever publishers write and however often, under any decisions about    *)
(* the sources, a governed value that can be read has a citation (the        *)
(* deferred trigger of revisions 0017 and 0019).                             *)
THEOREM GovernedValuesAreCited == PubSpec => []GovernedAreCited
  <1>1. PubInv => GovernedAreCited
    BY DEF PubInv
  <1> QED
    BY <1>1, PubInvariant, PTL

(* The trust chain keeps its promise while it is published on.               *)
THEOREM PublishedOnEarnedSources == PubSpec => []EligibleIsEarned
  <1>1. PubInv => EligibleIsEarned
    BY DEF PubInv, IInv
  <1> QED
    BY <1>1, PubInvariant, PTL

(* A citation is inserted only on sources that are vouched for when it is    *)
(* (app_eligibility_of_evidence).                                            *)
THEOREM CitationsRestOnTrust == PubSpec => CitedOnTrust
  <1> DEFINE A == \A p \in Publishers : \A r \in pub'[p].cites \ pub[p].cites :
                     \A s \in Evidence(r) : \E m \in Promoted(s) : Verified(m) /\ Trusted(HostOf[m])
  <1>1. PubInv /\ [PubNext]_allVars => [A]_allVars
    <2> SUFFICES ASSUME PubInv, PubNext, NEW p \in Publishers,
                        NEW r \in pub'[p].cites \ pub[p].cites, NEW s \in Evidence(r)
                 PROVE  \E m \in Promoted(s) : Verified(m) /\ Trusted(HostOf[m])
      BY DEF Evidence
    <2>1. pub \in [Publishers -> [cites : SUBSET Citation, rows : Seq(Image)]]
      BY DEF PubInv, PubTypeOK
    <2>2. PICK q \in Publishers, c \in Citation : Cite(q, c)
      <3>1. ~UNCHANGED pub
        OBVIOUS
      <3>2. ASSUME NEW q \in Publishers, NEW image \in Image, Write(q, image)
            PROVE  FALSE
        BY <2>1, <3>2 DEF Write
      <3>3. ASSUME NEW q \in Publishers, CommitPublication(q)
            PROVE  FALSE
        BY <2>1, <3>3 DEF CommitPublication, Nothing
      <3> QED
        BY <3>1, <3>2, <3>3 DEF PubNext, Publish, InsertClaim, pubVars
    <2>3. r = c /\ Admissible(c)
      BY <2>1, <2>2 DEF Cite, Nothing
    <2> QED
      BY <2>3 DEF Admissible, PubInv, IInv, EligibleIsEarned
  <1> QED
    BY <1>1, PubInvariant, PTL DEF PubSpec, CitedOnTrust

=============================================================================
